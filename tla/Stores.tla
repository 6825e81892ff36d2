------------------------------- MODULE Stores -------------------------------
(***************************************************************************)
(* What one server remembers besides the documents: the idempotency ledger,*)
(* the run journal, the evidence store, the tasks, the operating mode, and *)
(* the catalogue its clients share.  They share nothing, so each behaviour *)
(* exercises one of them, the one in view, and leaves the others at their  *)
(* start: interleaving them would add states and no behaviour.             *)
(***************************************************************************)
EXTENDS IdempotencyLedger, RunJournal, EvidenceStore, ModeGuard, TaskStore, Session

VARIABLE view  \* the store in view

storeVars == <<ledgerVars, journalVars, evidenceVars, modeVars, taskVars>>

StoresInit ==
    /\ LedgerInit /\ JournalInit /\ EvidenceInit /\ ModeInit /\ TaskInit /\ SessionInit
    /\ view \in {"ledger", "journal", "evidence", "mode", "tasks", "session"}

StoresNext ==
    /\ \/ view = "ledger" /\ LedgerNext /\ UNCHANGED <<journalVars, evidenceVars, modeVars, taskVars, sessionVars>>
       \/ view = "journal" /\ JournalNext /\ UNCHANGED <<ledgerVars, evidenceVars, modeVars, taskVars, sessionVars>>
       \/ view = "evidence" /\ EvidenceNext /\ UNCHANGED <<ledgerVars, journalVars, modeVars, taskVars, sessionVars>>
       \/ view = "mode" /\ ModeNext /\ UNCHANGED <<ledgerVars, journalVars, evidenceVars, taskVars, sessionVars>>
       \/ view = "tasks" /\ TaskNext /\ UNCHANGED <<ledgerVars, journalVars, evidenceVars, modeVars, sessionVars>>
       \/ view = "session" /\ SessionNext /\ UNCHANGED storeVars
    /\ UNCHANGED view

\* The fairness of Session, where it is in view.
StoresFairness ==
    \A c \in Clients : /\ WF_sessionVars(view = "session" /\ Serve(c))
                       /\ WF_sessionVars(view = "session" /\ (Hear(c) \/ Reopen(c)))
                       /\ WF_sessionVars(view = "session" /\ List(c))

StoresSpec == StoresInit /\ [][StoresNext]_<<storeVars, sessionVars, view>> /\ StoresFairness

-----------------------------------------------------------------------------
\* The types of the first five, that the ledger's map and queue agree, and what the
\* evidence store and the tasks keep when they are full.
StoresOK ==
    /\ LedgerOK /\ JournalTypeOK /\ EvidenceTypeOK /\ ModeTypeOK /\ TaskTypeOK
    /\ KeepsTheNewest /\ ConstraintsKept

\* CatalogueConverges, where the catalogue is in view: every client comes to see
\* the tools as they are, over and over.
ClientsConverge == view = "session" => CatalogueConverges
=============================================================================
