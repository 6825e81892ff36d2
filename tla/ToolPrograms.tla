---------------------------- MODULE ToolPrograms ----------------------------
(***************************************************************************)
(* What the design tools are made of.  A handler is a sequence of phases.  *)
(* In a "job" it sends KiCad one command after the other from the worker   *)
(* thread of KiCad's address, in a "direct" phase from its own thread, and *)
(* in a "file" phase it reads and writes documents on disk.  A program     *)
(* says which commands and documents, in which order, and what happens     *)
(* next; DesignTools says what they do.                                    *)
(***************************************************************************)
EXTENDS Integers, Sequences

CONSTANTS
  NoDoc,
  Project,   \* the settings file beside the boards (.kicad_pro)
  Root       \* what every document holds

\* One step.  doc, also: the documents it names; has, lacks: what a reading step
\* wants to find or to miss; add, drop, set: the items it creates, takes away,
\* changes; attr: the attribute it changes; soft: its failure is taken for success.
Step(op) == [op |-> op, doc |-> NoDoc, also |-> NoDoc, has |-> {}, lacks |-> {},
             add |-> {}, drop |-> {}, set |-> {}, attr |-> "val", soft |-> FALSE]

\* Commands to KiCad.
Ensure(d) == [Step("ensure") EXCEPT !.doc = d]      \* is d among the open documents?
Find(d) == [Step("find") EXCEPT !.doc = d]          \* the open document that is d
First == Step("first")                              \* the first open document
List(has, lacks) == [Step("list") EXCEPT !.has = has, !.lacks = lacks]
Create(refs) == [Step("create") EXCEPT !.add = refs]
Update(r, a) == [Step("update") EXCEPT !.set = {r}, !.attr = a]
Delete(r) == [Step("delete") EXCEPT !.drop = {r}]
Begin == Step("begin")
Push == Step("push")
Save == Step("save")
Softly(steps) == [k \in DOMAIN steps |-> [steps[k] EXCEPT !.soft = TRUE]]

\* A phase.  then: after its last step the handler goes on, answers, or refuses;
\* else: after a failure it answers the error, goes on when KiCad was out of
\* reach ("fallback"), or goes on in any case.
Job(steps, then, else) == [kind |-> "job", steps |-> steps, then |-> then, else |-> else]
Direct(steps) == [kind |-> "direct", steps |-> steps, then |-> "next", else |-> "error"]
File(steps) == [kind |-> "file", steps |-> steps, then |-> "next", else |-> "error"]

\* guarded_ipc: the named board has to be open; every failure is the answer.
Guarded(b, steps) == Job(<<Ensure(b)>> \o steps, "next", "error")

\* Steps on documents.  Read keeps what it read, and the writes below start from
\* it; ReadAny takes a missing document for an empty one; Reread and Peek only
\* look.  An edit adds items, drops some and changes some; an item both changed
\* and added is added if it is missing.
Reading(op, d, has, lacks) == [Step(op) EXCEPT !.doc = d, !.has = has, !.lacks = lacks]
Read(d, has, lacks) == Reading("read", d, has, lacks)
ReadAny(d, lacks) == Reading("readany", d, {}, lacks)
Reread(d, has, lacks) == Reading("reread", d, has, lacks)
Peek(d) == Reading("peek", d, {}, {})
Edit(add, drop, set, attr) == [Step("write") EXCEPT !.add = add, !.drop = drop, !.set = set, !.attr = attr]
Adding(refs) == Edit(refs, {}, {}, "val")
Dropping(refs) == Edit({}, refs, {}, "val")
Setting(refs, a) == Edit({}, {}, refs, a)

\* Writing over whatever is there; over what was read and nothing else; into
\* what is there if the items concerned are as they were read; two documents at
\* once over what was read; a new document; a document regardless of the old.
Writing(op, d, edit) == [edit EXCEPT !.op = op, !.doc = d]
Write(d, edit) == Writing("write", d, edit)
WriteIfUnchanged(d, edit) == Writing("writeif", d, edit)
Commit(d, edit) == Writing("commit", d, edit)
Transact(d, d2, edit) == [Writing("transact", d, edit) EXCEPT !.also = d2]
New(d) == Writing("new", d, Adding({}))
Overwrite(d, edit) == Writing("overwrite", d, edit)

\* The document must now hold what was written; if it does the phase is over,
\* if not the next step puts back what was read.
ReadBack(d, has, set) == [Reading("readback", d, has, {}) EXCEPT !.set = set]
Restore(d) == Writing("restore", d, Adding({}))
=============================================================================
