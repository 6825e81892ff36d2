----------------------------- MODULE AgentLoop -----------------------------
(***************************************************************************)
(* The local agent: konnect-core/src/agent_loop.rs, verification_agent.rs  *)
(* and kam-runtime/src/lib.rs.  For a task, a model proposes a plan, the   *)
(* plan is applied, a document is validated and the verdict is written     *)
(* into the task, while others apply plans and start tasks.                *)
(***************************************************************************)
EXTENDS PlanRun, TaskStore

CONSTANTS
    Agents,   \* the callers that go through kicad_agent
    Checked   \* the documents they have verified

ASSUME AgentsAssumption == Agents \subseteq Callers /\ Checked \subseteq Docs

agentVars == <<planVars, taskVars>>

AgentInit == PlanInit /\ TaskInit

Asked(c, id, d, at) == [Idle EXCEPT !.at = at, !.task = id, !.doc = d, !.todo = IF at = "verify" THEN <<d>> ELSE <<>>]

\* kicad_agent and kicad_agent_verify: a task that is not known, or not any
\* more, is an error.
AskAgent(c, id, d) ==
    /\ turn[c].at = "idle" /\ turns < MaxTurns
    /\ turns' = turns + 1
    /\ \E at \in {"model", "verify"} :
          Go(c, IF Held(id) THEN Asked(c, id, d, at) ELSE Answered(Asked(c, id, d, at), "failed"))
    /\ UNCHANGED <<content, cache, suspect, taskVars>>

\* The model proposes a plan, which is noted in the task if the task is still
\* there, and which must compile; or it fails.
Propose(c) ==
    LET t == turn[c]
    IN  /\ t.at = "model"
        /\ \/ Go(c, Answered(t, "failed")) /\ UNCHANGED taskVars
           \/ \E plan \in Plans :
                IF Held(t.task)
                THEN Go(c, Built(t, plan)) /\ AddAssumption(t.task, plan.posts)
                ELSE Go(c, Answered(t, "failed")) /\ UNCHANGED taskVars
        /\ UNCHANGED <<content, cache, suspect, turns>>

\* A plan that was applied is verified, by a document and not by its steps.
Verify(c) ==
    LET t == turn[c]
    IN  /\ t.at = "answered" /\ t.task # 0 /\ t.answer = "ok"
        /\ Go(c, IF Held(t.task) THEN [t EXCEPT !.at = "verify", !.todo = <<t.doc>>, !.answer = "none"]
                 ELSE Answered(t, "verification failed"))
        /\ UNCHANGED <<content, cache, suspect, turns, taskVars>>

\* The verdict becomes a fact of the task, if the task is still there.
Record(c) ==
    LET t == turn[c]
        pass == t.base[t.doc] = {}
    IN  /\ t.at = "record"
        /\ IF Held(t.task)
           THEN /\ AddVerifiedFact(t.task, [doc |-> t.doc, rev |-> t.rev, pass |-> pass])
                /\ Go(c, Answered(t, IF pass THEN "success" ELSE "verification failed"))
           ELSE Go(c, Answered(t, "verification failed")) /\ UNCHANGED taskVars
        /\ UNCHANGED <<content, cache, suspect, turns>>

Return(c) ==
    /\ turn[c].at = "answered" /\ ~(turn[c].task # 0 /\ turn[c].answer = "ok")
    /\ Go(c, Idle)
    /\ UNCHANGED <<content, cache, suspect, turns, taskVars>>

ServeAgent(c) ==
    \/ PlanStep(c) /\ UNCHANGED taskVars
    \/ Propose(c) \/ Verify(c) \/ Record(c) \/ Return(c)

AgentNext ==
    \/ \E c \in Callers :
          \/ ServeAgent(c)
          \/ c \notin Agents /\ \E plan \in Plans : Apply(c, plan) /\ UNCHANGED taskVars
          \/ c \in Agents /\ \E id \in TaskIds, d \in Checked : AskAgent(c, id, d)
    \/ StartTask /\ UNCHANGED planVars
    \/ \E id \in TaskIds, x \in Constraints : AddConstraint(id, x) /\ UNCHANGED planVars

AgentSpec == AgentInit /\ [][AgentNext]_agentVars

\* Every call the server has got goes on: kicad-cli and the model are cut off
\* after a time.
FairAgentSpec == AgentSpec /\ \A c \in Callers : WF_agentVars(ServeAgent(c))
-----------------------------------------------------------------------------

\* A plan that stops at the first failure never meets a reference that names
\* nothing: what compile lets through, the run can resolve (compile's check of
\* strictly earlier operations against what record binds).
ReferencesResolve ==
    \A c \in Callers :
        LET t == turn[c]
        IN  (t.at = "steps" /\ ~t.halted /\ t.cursor <= Len(t.prog.steps) /\ Halts(t.prog.policy))
                => Resolved(t, t.prog.steps[t.cursor])

\* The findings that d had when the request began.
FindingsBefore(t, d) == UNION {t.before[x] : x \in {y \in {d} \cup Sheets[d] : t.before[y] # Absent}}

Trusted(t, d, rev) == ~t.disturbed /\ <<d, rev>> \notin suspect

\* A verified fact records the verdict of the revision it names.
FactsAreTrue ==
    \A id \in TaskIds : \A k \in DOMAIN task[id].facts :
        LET f == task[id].facts[k]
        IN  (Sheets[f.doc] = {} /\ <<f.doc, f.rev>> \notin suspect) => (f.pass <=> f.rev = {})

\* apply_plan answers ok only when every document its steps name by path keeps
\* the promise the plan declared, and kicad_agent says success only when its
\* document has no findings: whatever the cache held, evicted or missed.  Not
\* so after another caller wrote, or when a verdict went into the cache while a
\* document, or a sheet below it, changed.  The facts it leaves behind are true too.
AnswersAreTrue ==
    /\ FactsAreTrue
    /\ \A c \in Callers :
           LET t == turn[c]
           IN  /\ t.at = "answered" /\ t.answer = "ok" =>
                    \A k \in DOMAIN t.prog.touched :
                       LET d == t.prog.touched[k]
                       IN  Trusted(t, d, content[d]) =>
                             /\ "erc_clean" \in t.prog.posts => Findings(d) = {}
                             /\ "erc" \in t.prog.posts /\ <<d, t.before[d]>> \notin suspect
                                   => Findings(d) \subseteq FindingsBefore(t, d)
               /\ t.at = "answered" /\ t.answer = "success" /\ Trusted(t, t.doc, t.rev) => Findings(t.doc) = {}

\* Every call returns.
TurnsEnd == \A c \in Callers : turn[c].at # "idle" ~> turn[c].at = "idle"

\* What the agent's answer says of a plan that failed (agent_loop.rs:104): it
\* was rejected or rolled back.
FailedPlansAreUndone ==
    \A c \in Agents :
        LET t == turn[c]
        IN  (t.at = "answered" /\ t.answer = "failed" /\ RollsBack(t.prog.policy) /\ t.prog.steps # <<>> /\ ~t.disturbed)
                => content = t.before

\* An escaped reference stands for its own text (kam-plan/src/refs.rs:19): a
\* program refers to nothing that the plan does not refer to.
EscapesStayText ==
    \A plan \in Plans, c \in Callers :
        /\ turn[c].at = "steps" /\ turn[c].prog = Programs[plan]
        /\ \A i \in DOMAIN plan.ops : plan.ops[i].arg.form # "ref" /\ plan.ops[i].arg # Omitted
        => \A k \in DOMAIN turn[c].prog.steps : turn[c].prog.steps[k].arg.form # "ref"
=============================================================================
