---------------------------- MODULE PlanCompiler ----------------------------
(***************************************************************************)
(* From a plan to a program: kam-plan/src/compile.rs and refs.rs, with the *)
(* operations of konnect-core/src/plan/ops.rs.  An operation becomes one   *)
(* or more tool calls and may name what an earlier one returned, by its    *)
(* id, its position, its type or one of its calls.  Of the arguments only  *)
(* the one that names the document is kept.                                *)
(***************************************************************************)
EXTENDS Integers, Sequences, FiniteSets, SequencesExt

CONSTANT Digits   \* the ids that are numbers, and which number each is

\* Arguments: a document's path, a project to create, a reference, a reference that is escaped to
\* stand for its own text, or nothing.
Path(d) == [form |-> "path", of |-> <<d>>]
Reference(t) == [form |-> "ref", of |-> t]
Escaped(t) == [form |-> "escaped", of |-> t]
Project(d) == [form |-> "project", of |-> <<d>>]
Omitted == [form |-> "omitted", of |-> <<>>]

\* What a reference may name: an operation, one of its calls, a position.
OpTarget(op) == <<op.id>>
StepTarget(op, k) == IF op.steps > 1 THEN <<op.id, k>> ELSE <<op.id>>
Position(n) == <<"ops[]", n>>

Targets(op) == {OpTarget(op)} \cup {StepTarget(op, k) : k \in 0..(op.steps - 1)}

\* infer_omitted_schematics: the one operation before that creates a project
\* is the one whose schematic an operation leaves out.
Creators(ops, i) == {j \in 1..(i - 1) : ops[j].op = "create"}

Inferred(ops) ==
    [i \in DOMAIN ops |->
        IF ops[i].op = "place" /\ ops[i].arg = Omitted /\ Cardinality(Creators(ops, i)) = 1
        THEN [ops[i] EXCEPT !.arg = Reference(OpTarget(ops[CHOOSE j \in Creators(ops, i) : TRUE]))]
        ELSE ops[i]]

\* expand: an operation of an unknown kind, or without its document, is refused.
Expandable(op) ==
    /\ op.op \in {"create", "place", "call"}
    /\ op.op = "place" => op.arg # Omitted

\* The targets that t may mean in operation i: none when it is ambiguous, t
\* itself when nothing is known of it.
Meanings(ops, i, t) ==
    LET byNumber == Len(t) = 1 /\ t[1] \in DOMAIN Digits
        atPosition == byNumber /\ Digits[t[1]] + 1 < i
        withId == byNumber /\ \E j \in 1..(i - 1) : ops[j].id = t[1]
        ofType == {j \in DOMAIN ops : Len(t) = 1 /\ ops[j].op = t[1]}
    IN  IF atPosition \/ withId
        THEN IF atPosition /\ withId THEN {}
             ELSE {IF withId THEN t ELSE OpTarget(ops[Digits[t[1]] + 1])}
        ELSE IF t[1] = "ops[]"
        THEN {IF t[2] + 1 \in DOMAIN ops THEN OpTarget(ops[t[2] + 1]) ELSE t}
        ELSE IF \E j \in DOMAIN ops : t \in Targets(ops[j]) THEN {t}
        ELSE IF ofType = {} THEN {t}
        ELSE IF Cardinality(ofType) = 1 THEN {OpTarget(ops[j]) : j \in ofType}
        ELSE {}

\* rewrite gives each reference its canonical target; an escaped one loses its
\* escape, so scan and resolve take what is left for a reference.
Rewritten(ops, i) ==
    LET a == ops[i].arg
    IN  IF a.form = "ref" /\ Meanings(ops, i, a.of) # {} THEN Reference(CHOOSE t \in Meanings(ops, i, a.of) : TRUE)
        ELSE IF a.form = "escaped" THEN Reference(a.of)
        ELSE a

Ambiguous(ops, i) == ops[i].arg.form = "ref" /\ Meanings(ops, i, ops[i].arg.of) = {}

\* A fault to detect: an operation may refer to itself.
AvailableItself(ops, i) == UNION {Targets(ops[j]) : j \in 1..i}

\* What operation i may refer to: whatever runs strictly before it.
Available(ops, i) == UNION {Targets(ops[j]) : j \in 1..(i - 1)}

StepsOf(ops, i) ==
    [k \in 1..ops[i].steps |->
        [id |-> StepTarget(ops[i], k - 1), op |-> OpTarget(ops[i]), creates |-> ops[i].op = "create", arg |-> Rewritten(ops, i)]]

\* compile, after from_json: no steps is a refusal.
Compile(plan) ==
    LET ops == Inferred(plan.ops)
    IN  IF /\ \A i \in DOMAIN ops : Expandable(ops[i]) /\ ~Ambiguous(ops, i)
           /\ \A i \in DOMAIN ops : Rewritten(ops, i).form = "ref" => Rewritten(ops, i).of \in Available(ops, i)
        THEN FlattenSeq([i \in DOMAIN ops |-> StepsOf(ops, i)])
        ELSE <<>>

\* halts, rolls_back: continue alone goes on after a failure.
Halts(policy) == policy # "continue"
RollsBack(policy) == policy = "atomic"
=============================================================================
