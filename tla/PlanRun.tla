------------------------------ MODULE PlanRun ------------------------------
(***************************************************************************)
(* apply_plan: konnect-core/src/tools/plan.rs over kam-plan/src/execute.rs *)
(* and evidence/validators.rs.  Several callers apply plans at once; each  *)
(* step is a tool call that writes documents, and the findings of a        *)
(* document are cached under the revision its text had.                    *)
(***************************************************************************)
EXTENDS PlanCompiler

CONSTANTS
    Callers,
    Docs,           \* schematics
    Sheets,         \* Sheets[d]: the documents below d, whose faults ERC finds too
    Faults,         \* what ERC can find in a document's own text; all of them errors
    Plans,
    Designs,        \* how the documents may be at the start
    Absent, NoDoc,
    CacheCapacity,
    MaxTurns        \* bound: requests

Revisions == SUBSET Faults

\* Each operation is at least one call, and names its document where it has to:
\* place refuses an empty list, and only place may leave its schematic out.
OperationsOK(ops) ==
    /\ ops = [i \in 1..Len(ops) |-> ops[i]] /\ Len(ops) \in Nat
    /\ \A i \in 1..Len(ops) :
         /\ ops[i] = [id |-> ops[i].id, op |-> ops[i].op, steps |-> ops[i].steps, arg |-> ops[i].arg]
         /\ ops[i].steps \in Nat \ {0}
         /\ ops[i].arg.form \in {"path", "project"} => ops[i].arg.of[1] \in Docs
         /\ ops[i].arg.form \notin {"path", "project", "ref", "escaped"} => ops[i].op = "place" /\ ops[i].arg = Omitted

ASSUME PlanAssumption ==
    /\ \A d \in Docs : Sheets[d] \subseteq Docs
    /\ Designs \subseteq [Docs -> {Absent} \cup Revisions]
    /\ NoDoc \notin Docs /\ Absent \notin {text : text \in Revisions}
    /\ \A plan \in Plans : OperationsOK(plan.ops)

VARIABLES
    content,        \* content[d]: Absent, or the faults in the text of d, which is also its revision
    cache,          \* Cache: the verdicts, oldest first
    turn,           \* turn[c]: what caller c's request is at
    suspect,        \* cached or coming verdicts <<d, revision>> that may not be those of that revision
    turns           \* requests so far

planVars == <<content, cache, turn, suspect, turns>>

\* The findings of kicad-cli for d as the documents are now.
Findings(d) == UNION {content[x] : x \in {y \in {d} \cup Sheets[d] : content[y] # Absent}}

\* touched_documents: the paths among the arguments, as they stand before the
\* references are resolved.
Touched(steps) ==
    SetToSeq({steps[k].arg.of[1] : k \in {j \in DOMAIN steps : steps[j].arg.form = "path"}})

Program(steps, plan) == [steps |-> steps, touched |-> Touched(steps), posts |-> plan.posts, policy |-> plan.policy]

Programs == [plan \in Plans |-> Program(Compile(plan), plan)]

NoProgram == [steps |-> <<>>, touched |-> <<>>, posts |-> {}, policy |-> "atomic"]

\* at: what comes next.  todo: documents to validate; look: the one that
\* kicad-cli is at; base: the findings before the first step; outs: what the
\* steps returned, by target; handed: the document of a step handed out.  task
\* and doc: for whom and what the agent works; before, disturbed: how the
\* documents were, and whether another caller wrote one since.
Idle == [at |-> "idle", prog |-> NoProgram, todo |-> <<>>, look |-> NoDoc, rev |-> {},
         base |-> <<>>, cursor |-> 1, outs |-> <<>>, handed |-> NoDoc, halted |-> FALSE, failed |-> FALSE,
         answer |-> "none", task |-> 0, doc |-> NoDoc, before |-> <<>>, disturbed |-> FALSE]

PlanInit ==
    /\ content \in Designs
    /\ cache = <<>>
    /\ turn = [c \in Callers |-> Idle]
    /\ suspect = {}
    /\ turns = 0

Bind(f, x, v) == [y \in DOMAIN f \cup {x} |-> IF y = x THEN v ELSE f[y]]

Go(c, t) == turn' = [turn EXCEPT ![c] = t]

Answered(t, a) ==
    [t EXCEPT !.at = "answered", !.answer = a, !.todo = <<>>, !.look = NoDoc, !.base = <<>>, !.outs = <<>>, !.cursor = 1]

\* build, and what apply_plan does before the first step: a plan that does not
\* compile or names a validator nobody knows changes nothing.
Postconditions == {"erc", "erc_clean"}

Built(t, plan) ==
    LET prog == Programs[plan]
        began == [t EXCEPT !.prog = prog, !.before = content]
    IN  IF prog.steps = <<>> \/ ~(plan.posts \subseteq Postconditions) THEN Answered(t, "refused")
        ELSE [began EXCEPT !.at = "baseline", !.todo = IF "erc" \in prog.posts THEN prog.touched ELSE <<>>]

Apply(c, plan) ==
    /\ turn[c].at = "idle" /\ turns < MaxTurns
    /\ turns' = turns + 1
    /\ Go(c, Built(Idle, plan))
    /\ UNCHANGED <<content, cache, suspect>>

\* The verdict of a plan's postconditions over one document.
Passes(t, d, found) ==
    /\ "erc_clean" \in t.prog.posts => found = {}
    /\ "erc" \in t.prog.posts => found \subseteq (IF d \in DOMAIN t.base THEN t.base[d] ELSE {})

\* What a caller does with the findings of the document it looked at.
Judged(t, d, found) ==
    LET next == [t EXCEPT !.todo = Tail(@), !.look = NoDoc]
    IN  CASE t.at = "baseline" -> [next EXCEPT !.base = Bind(@, d, found)]
          [] t.at = "posts" -> IF Passes(t, d, found) THEN next ELSE Answered(t, "failed")
          [] t.at = "verify" -> [next EXCEPT !.at = "record", !.base = Bind(@, d, found)]

\* A validator that cannot run is a failed postcondition, never a clean one.
CouldNotRun(t) == Answered(t, IF t.at = "verify" THEN "verification failed" ELSE "failed")

\* A fault to detect: verdicts are found by path alone.
CachedByPath(d, rev) == {k \in DOMAIN cache : cache[k].doc = d}

Cached(d, rev) == {k \in DOMAIN cache : cache[k].doc = d /\ cache[k].rev = rev}

\* put: the oldest verdict goes; one that was there keeps its place.
Remembered(d, rev, found) ==
    LET entry == [doc |-> d, rev |-> rev, found |-> found]
        more == IF \E k \in DOMAIN cache : cache[k].doc = d /\ cache[k].rev = rev
                THEN [k \in DOMAIN cache |-> IF cache[k].doc = d /\ cache[k].rev = rev THEN entry ELSE cache[k]]
                ELSE Append(cache, entry)
    IN  IF Len(more) > CacheCapacity THEN Tail(more) ELSE more

Looking(c) == turn[c].at \in {"baseline", "posts", "verify"} /\ turn[c].todo # <<>> /\ turn[c].look = NoDoc

\* The document is read; a document that is not there has no findings, and
\* cannot be verified.
LookAt(c) ==
    LET d == Head(turn[c].todo)
        t == [turn[c] EXCEPT !.rev = content[d]]
        known == Cached(d, content[d])
    IN  /\ Looking(c)
        /\ \/ /\ content[d] = Absent
              /\ Go(c, IF t.at = "verify" THEN CouldNotRun(t) ELSE Judged(t, d, {}))
           \/ /\ content[d] # Absent /\ known # {}
              /\ Go(c, Judged(t, d, cache[CHOOSE k \in known : TRUE].found))
           \/ /\ content[d] # Absent /\ known = {}
              /\ Go(c, [t EXCEPT !.look = d])
        /\ UNCHANGED <<content, cache, suspect, turns>>

\* kicad-cli answers, or not: it saw the documents as they are by now, and the
\* verdict is kept under the revision that was read before.
Validated(c) ==
    LET t == turn[c]
        found == Findings(t.look)
    IN  /\ t.look # NoDoc
        /\ \/ /\ cache' = Remembered(t.look, t.rev, found)
              /\ Go(c, Judged(t, t.look, found))
           \/ Go(c, CouldNotRun(t)) /\ UNCHANGED cache
        /\ UNCHANGED <<content, suspect, turns>>

\* No document is left to look at.
Looked(c) ==
    /\ turn[c].todo = <<>>
    /\ \/ turn[c].at = "baseline" /\ Go(c, [turn[c] EXCEPT !.at = "steps"])
       \/ turn[c].at = "posts" /\ Go(c, Answered(turn[c], "ok"))
    /\ UNCHANGED <<content, cache, suspect, turns>>
-----------------------------------------------------------------------------
\* What kicad-cli may have seen of d is no longer what a verdict says it was:
\* the document changes while it runs, or one of the sheets below changes.
Suspects(x) ==
    {<<turn[c].look, turn[c].rev>> : c \in {e \in Callers : turn[e].look # NoDoc /\ x \in {turn[e].look} \cup Sheets[turn[e].look]}}
    \cup {<<cache[k].doc, cache[k].rev>> : k \in {j \in DOMAIN cache : x \in Sheets[cache[j].doc]}}

\* A write of x by c, with what it does to everybody else's verdicts.
Write(c, x, text, t) ==
    /\ content' = [content EXCEPT ![x] = text]
    /\ suspect' = suspect \cup Suspects(x)
    /\ turn' = [e \in Callers |-> IF e = c THEN t ELSE [turn[e] EXCEPT !.disturbed = turn[e].at # "idle"]]

\* resolve: a reference needs what its target returned, and a failure returns
\* no document.
ErrorOutput == [ok |-> FALSE, doc |-> NoDoc]

Resolved(t, s) == s.arg.form # "ref" \/ (s.arg.of \in DOMAIN t.outs /\ t.outs[s.arg.of].ok)

\* A fault to detect: a step that cannot be resolved stays the next one.
UnresolvedStays(t, s) == [t EXCEPT !.failed = TRUE, !.halted = Halts(t.prog.policy)]

Unresolved(t, s) == [t EXCEPT !.cursor = @ + 1, !.failed = TRUE, !.halted = Halts(t.prog.policy)]

\* next_step: the step at the cursor, resolved, or recorded as unresolved.
NextStep(c) ==
    LET t == turn[c]
        s == t.prog.steps[t.cursor]
    IN  /\ t.at = "steps" /\ t.handed = NoDoc
        /\ ~t.halted /\ t.cursor <= Len(t.prog.steps)
        /\ Go(c, IF Resolved(t, s)
                 THEN [t EXCEPT !.handed = IF s.arg.form = "ref" THEN t.outs[s.arg.of].doc ELSE s.arg.of[1]]
                 ELSE Unresolved(t, s))
        /\ UNCHANGED <<content, cache, suspect, turns>>

\* record: the output is bound to the step and to its operation.
Recorded(t, s, out) ==
    [t EXCEPT !.cursor = @ + 1, !.handed = NoDoc, !.failed = @ \/ ~out.ok,
              !.halted = ~out.ok /\ Halts(t.prog.policy),
              !.outs = Bind(Bind(@, s.op, out), s.id, out)]

\* The handler of a step: create makes an empty document where there is none,
\* the others change one that is there; each may fail and change nothing.
Call(c) ==
    LET t == turn[c]
        s == t.prog.steps[t.cursor]
        x == t.handed
    IN  /\ t.at = "steps" /\ t.handed # NoDoc
        /\ \/ /\ Go(c, Recorded(t, s, ErrorOutput))
              /\ UNCHANGED <<content, suspect>>
           \/ /\ IF s.creates THEN content[x] = Absent ELSE content[x] # Absent
              /\ \E text \in IF s.creates THEN {{}} ELSE Revisions :
                    Write(c, x, text, Recorded(t, s, [ok |-> TRUE, doc |-> x]))
        /\ UNCHANGED <<cache, turns>>

\* The report: a failed step fails the call, and nothing is undone here.
StepsDone(c) ==
    LET t == turn[c]
    IN  /\ t.at = "steps" /\ t.handed = NoDoc
        /\ t.halted \/ t.cursor > Len(t.prog.steps)
        /\ Go(c, IF t.failed THEN Answered(t, "failed")
                 ELSE [t EXCEPT !.at = "posts", !.todo = IF t.prog.posts = {} THEN <<>> ELSE t.prog.touched])
        /\ UNCHANGED <<content, cache, suspect, turns>>

PlanStep(c) == LookAt(c) \/ Validated(c) \/ Looked(c) \/ NextStep(c) \/ Call(c) \/ StepsDone(c)
=============================================================================
