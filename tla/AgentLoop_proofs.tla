-------------------------- MODULE AgentLoop_proofs --------------------------
(***************************************************************************)
(* What AgentLoop guarantees for any plans, documents, callers and tasks:  *)
(* a reference that compile lets through is resolved in the run, and the   *)
(* answers of apply_plan and of kicad_agent are true, as are the facts the *)
(* agent leaves in its task.                                               *)
(***************************************************************************)
EXTENDS AgentLoop, FiniteSetTheorems, WellFoundedInduction, TLAPS

\* Concatenation, by the least counterexample: the library's induction takes an operator.

LEMMA LeastNatural ==
    ASSUME NEW T, T \subseteq Nat, T # {}
    PROVE  \E x \in T : \A y \in T : x <= y
  <1> DEFINE R == {ss \in Nat \X Nat : ss[1] < ss[2]}
  <1>1. IsWellFoundedOn(R, Nat)
    BY NatLessThanWellFounded DEF OpToRel
  <1>2. PICK x \in T : \A y \in T : ~(<<y, x>> \in R)
    BY <1>1, WFMin
  <1>3. ASSUME NEW y \in T PROVE x <= y
    <2>1. x \in Nat /\ y \in Nat
      BY <1>2
    <2>2. <<y, x>> \in Nat \X Nat /\ <<y, x>>[1] = y /\ <<y, x>>[2] = x
      BY <2>1
    <2>3. ~(y < x)
      BY <1>2, <2>2
    <2> QED BY <2>1, <2>3
  <1> QED BY <1>3

Unrolls(f, s, n) == f = [i \in 1..n |-> IF i = 1 THEN s[i] ELSE f[i - 1] \o s[i]]

\* The recursion of FlattenSeq has a solution.
LEMMA FlattenIsDefined ==
    ASSUME NEW s, NEW n \in Nat
    PROVE  \E f : Unrolls(f, s, n)
  <1> DEFINE Bad == {m \in Nat : ~ \E f : Unrolls(f, s, m)}
  <1>1. SUFFICES ASSUME Bad # {} PROVE FALSE
    OBVIOUS
  <1>2. PICK m \in Bad : \A y \in Bad : m <= y
    BY <1>1, LeastNatural
  <1>3. m # 0
    <2>1. Unrolls([i \in 1..0 |-> <<>>], s, 0)
      BY DEF Unrolls
    <2> QED BY <2>1
  <1>4. m - 1 \in Nat /\ m - 1 \notin Bad
    BY <1>2, <1>3
  <1>5. PICK f : Unrolls(f, s, m - 1)
    BY <1>4
  <1> DEFINE g == [i \in 1..m |-> IF i < m THEN f[i] ELSE IF m = 1 THEN s[1] ELSE f[m - 1] \o s[m]]
  <1>6. ASSUME NEW i \in 1..m PROVE g[i] = IF i = 1 THEN s[i] ELSE g[i - 1] \o s[i]
    <2>1. m \in Nat
      BY <1>2
    <2>2. CASE i < m
      <3>1. i \in 1..(m - 1) /\ g[i] = f[i]
        BY <2>1, <2>2
      <3>2. f[i] = IF i = 1 THEN s[i] ELSE f[i - 1] \o s[i]
        BY <1>5, <3>1 DEF Unrolls
      <3>3. i # 1 => g[i - 1] = f[i - 1]
        BY <2>1, <2>2
      <3> QED BY <3>1, <3>2, <3>3
    <2>3. CASE i = m /\ m = 1
      BY <2>1, <2>3
    <2>4. CASE i = m /\ m # 1
      <3>1. m \in 1..m /\ m - 1 \in 1..m /\ m - 1 < m /\ ~(m < m)
        BY <2>1, <2>4
      <3>2. g[m] = f[m - 1] \o s[m]
        BY <2>4, <3>1
      <3>3. g[m - 1] = f[m - 1]
        BY <3>1
      <3> QED BY <2>4, <3>2, <3>3
    <2> QED BY <2>1, <2>2, <2>3, <2>4
  <1>7. g = [i \in 1..m |-> IF i = 1 THEN s[i] ELSE g[i - 1] \o s[i]]
    <2> HIDE DEF g
    <2>1. \A i \in 1..m : g[i] = (IF i = 1 THEN s[i] ELSE g[i - 1] \o s[i])
      BY <1>6
    <2>2. g = [i \in 1..m |-> g[i]]
      BY DEF g
    <2> QED BY <2>1, <2>2
  <1>8. Unrolls(g, s, m)
    BY <1>7 DEF Unrolls
  <1> QED BY <1>2, <1>8

\* What the concatenation of the first n parts of s is.
InOrder(flat, s, n) ==
    /\ \A p \in 1..Len(flat) : \E j \in 1..n : \E k \in 1..Len(s[j]) :
          /\ flat[p] = s[j][k]
          /\ \A i \in 1..(j - 1) : \A h \in 1..Len(s[i]) : \E q \in 1..(p - 1) : flat[q] = s[i][h]
    /\ \A j \in 1..n : \A k \in 1..Len(s[j]) : \E p \in 1..Len(flat) : flat[p] = s[j][k]

LEMMA InOrderExtends ==
    ASSUME NEW S, NEW s \in Seq(Seq(S)), NEW n \in Nat \ {0}, n + 1 <= Len(s),
           NEW flat \in Seq(S), InOrder(flat, s, n)
    PROVE  flat \o s[n + 1] \in Seq(S) /\ InOrder(flat \o s[n + 1], s, n + 1)
  <1> DEFINE t == s[n + 1]
             all == flat \o t
  <1>1. t \in Seq(S) /\ all \in Seq(S) /\ Len(all) = Len(flat) + Len(t) /\ Len(t) \in Nat /\ Len(flat) \in Nat
    <2>1. n + 1 \in 1..Len(s)
      OBVIOUS
    <2> QED BY <2>1
  <1>2. \A p \in 1..Len(flat) : all[p] = flat[p]
    BY <1>1
  <1>3. \A k \in 1..Len(t) : all[Len(flat) + k] = t[k]
    BY <1>1
  <1>4. Len(all) \in Nat /\ Len(flat) \in Nat /\ Len(t) \in Nat /\ Len(all) = Len(flat) + Len(t)
    BY <1>1
  <1> HIDE DEF all
  <1>5. ASSUME NEW p \in 1..Len(all)
        PROVE  \E j \in 1..(n + 1) : \E k \in 1..Len(s[j]) :
                 /\ all[p] = s[j][k]
                 /\ \A i \in 1..(j - 1) : \A h \in 1..Len(s[i]) : \E q \in 1..(p - 1) : all[q] = s[i][h]
    <2>1. CASE p <= Len(flat)
      <3>1. p \in 1..Len(flat)
        BY <1>1, <2>1
      <3>2. PICK j \in 1..n : \E k \in 1..Len(s[j]) :
              /\ flat[p] = s[j][k]
              /\ \A i \in 1..(j - 1) : \A h \in 1..Len(s[i]) : \E q \in 1..(p - 1) : flat[q] = s[i][h]
        BY <3>1 DEF InOrder
      <3>3. \A q \in 1..(p - 1) : all[q] = flat[q]
        <4>1. \A q \in 1..(p - 1) : q \in 1..Len(flat)
          BY <1>4, <3>1
        <4> QED BY <1>2, <4>1
      <3>4. j \in 1..(n + 1)
        OBVIOUS
      <3>5. all[p] = flat[p]
        BY <1>2, <3>1
      <3>6. PICK k \in 1..Len(s[j]) :
              /\ flat[p] = s[j][k]
              /\ \A i \in 1..(j - 1) : \A h \in 1..Len(s[i]) : \E q \in 1..(p - 1) : flat[q] = s[i][h]
        BY <3>2
      <3>7. ASSUME NEW i \in 1..(j - 1), NEW h \in 1..Len(s[i])
            PROVE  \E q \in 1..(p - 1) : all[q] = s[i][h]
        <4>1. PICK q \in 1..(p - 1) : flat[q] = s[i][h]
          BY <3>6
        <4> QED BY <3>3, <4>1
      <3>8. all[p] = s[j][k]
        BY <3>5, <3>6
      <3> QED BY <3>4, <3>7, <3>8
    <2>2. CASE p > Len(flat)
      <3>1. p - Len(flat) \in 1..Len(t) /\ all[p] = t[p - Len(flat)]
        <4> HIDE DEF t
        <4>1. p - Len(flat) \in 1..Len(t) /\ Len(flat) + (p - Len(flat)) = p
          BY <1>4, <2>2
        <4>2. all[Len(flat) + (p - Len(flat))] = t[p - Len(flat)]
          BY <1>3, <4>1
        <4> QED BY <4>1, <4>2
      <3>2. ASSUME NEW i \in 1..n, NEW h \in 1..Len(s[i]) PROVE \E q \in 1..(p - 1) : all[q] = s[i][h]
        <4>1. PICK q \in 1..Len(flat) : flat[q] = s[i][h]
          BY DEF InOrder
        <4>2. p \in Nat /\ q \in 1..(p - 1)
          BY <1>1, <2>2
        <4>3. all[q] = flat[q]
          BY <1>2
        <4> QED BY <4>1, <4>2, <4>3
      <3>3. n + 1 \in 1..(n + 1) /\ (n + 1) - 1 = n
        OBVIOUS
      <3> QED BY <3>1, <3>2, <3>3
    <2> QED BY <1>1, <2>1, <2>2
  <1>6. ASSUME NEW j \in 1..(n + 1), NEW k \in 1..Len(s[j])
        PROVE  \E p \in 1..Len(all) : all[p] = s[j][k]
    <2>1. CASE j = n + 1
      <3>1. Len(flat) + k \in 1..Len(all) /\ all[Len(flat) + k] = t[k]
        BY <1>1, <1>3, <2>1
      <3> QED BY <2>1, <3>1
    <2>2. CASE j # n + 1
      <3>1. j \in 1..n
        BY <2>2
      <3>2. PICK p \in 1..Len(flat) : flat[p] = s[j][k]
        BY <3>1 DEF InOrder
      <3>3. p \in 1..Len(all) /\ all[p] = flat[p]
        BY <1>1, <1>2
      <3> QED BY <3>2, <3>3
    <2> QED BY <2>1, <2>2
  <1>7. InOrder(all, s, n + 1)
    BY <1>5, <1>6 DEF InOrder
  <1> QED BY <1>1, <1>7 DEF all

\* The concatenation has what its parts have, the elements of an earlier part before.
LEMMA FlattenKeepsOrder ==
    ASSUME NEW S, NEW s \in Seq(Seq(S)), Len(s) # 0
    PROVE  FlattenSeq(s) \in Seq(S) /\ InOrder(FlattenSeq(s), s, Len(s))
  <1> DEFINE n == Len(s)
             flatten == CHOOSE f : Unrolls(f, s, n)
  <1>1. n \in Nat \ {0}
    OBVIOUS
  <1>2. FlattenSeq(s) = flatten[n]
    BY DEF FlattenSeq, Unrolls
  <1>3. Unrolls(flatten, s, n)
    <2>1. \E f : Unrolls(f, s, n)
      BY <1>1, FlattenIsDefined
    <2> QED BY <2>1
  <1> HIDE DEF flatten
  <1> DEFINE Good(m) == flatten[m] \in Seq(S) /\ InOrder(flatten[m], s, m)
             Bad == {m \in 1..n : ~Good(m)}
  <1>4. \A i \in 1..n : flatten[i] = IF i = 1 THEN s[i] ELSE flatten[i - 1] \o s[i]
    <2>1. flatten = [i \in 1..n |-> IF i = 1 THEN s[i] ELSE flatten[i - 1] \o s[i]]
      BY <1>3 DEF Unrolls
    <2> QED BY <2>1
  <1>5. Good(1)
    <2>1. flatten[1] = s[1] /\ s[1] \in Seq(S)
      BY <1>1, <1>4
    <2>2. InOrder(s[1], s, 1)
      BY <2>1 DEF InOrder
    <2> QED BY <2>1, <2>2
  <1>6. Bad = {}
    <2>1. SUFFICES ASSUME Bad # {} PROVE FALSE
      OBVIOUS
    <2> HIDE DEF Good
    <2>2. Bad \subseteq Nat
      BY <1>1
    <2>3. PICK m \in Bad : \A y \in Bad : m <= y
      <3> HIDE DEF Bad
      <3> QED BY <2>1, <2>2, LeastNatural
    <2>4. m \in 1..n /\ m # 1
      BY <1>5, <2>3
    <2>5. m - 1 \in 1..n /\ m - 1 \in Nat \ {0} /\ (m - 1) + 1 = m /\ m <= Len(s)
      BY <1>1, <2>4
    <2>6. Good(m - 1)
      BY <2>3, <2>5
    <2>7. flatten[m] = flatten[m - 1] \o s[m]
      BY <1>4, <2>4
    <2>8. Good(m)
      <3>1. flatten[m - 1] \in Seq(S) /\ InOrder(flatten[m - 1], s, m - 1)
        BY <2>6 DEF Good
      <3>2. flatten[m - 1] \o s[(m - 1) + 1] \in Seq(S) /\ InOrder(flatten[m - 1] \o s[(m - 1) + 1], s, (m - 1) + 1)
        BY <2>5, <3>1, InOrderExtends
      <3> QED BY <2>5, <2>7, <3>2 DEF Good
    <2> QED BY <2>3, <2>8
  <1> QED BY <1>1, <1>2, <1>6
-----------------------------------------------------------------------------
\* What a program that compile let through guarantees of each of its steps: a
\* reference names an earlier step or its operation, and the document is known.
StepsInOrder(steps) ==
    \A k \in 1..Len(steps) :
       /\ steps[k].arg.form # "ref" => steps[k].arg.of[1] \in Docs
       /\ steps[k].arg.form = "ref" => \E j \in 1..(k - 1) : steps[k].arg.of \in {steps[j].id, steps[j].op}

Numbered(s) == Len(s) \in Nat /\ DOMAIN s = 1..Len(s) /\ s = [k \in 1..Len(s) |-> s[k]]

TouchedOK(prog) ==
    /\ prog.touched \in Seq(Docs)
    /\ \A i \in 1..Len(prog.touched) : \E k \in 1..Len(prog.steps) :
          prog.steps[k].arg.form = "path" /\ prog.touched[i] = prog.steps[k].arg.of[1]

ProgramOK(prog) == Numbered(prog.steps) /\ StepsInOrder(prog.steps) /\ TouchedOK(prog)

\* infer_omitted_schematics changes nothing but an argument left out.
LEMMA InferredOps ==
    ASSUME NEW ops, OperationsOK(ops)
    PROVE  /\ Inferred(ops) = [i \in 1..Len(ops) |-> Inferred(ops)[i]]
           /\ \A i \in 1..Len(ops) :
                LET op == Inferred(ops)[i]
                IN  /\ op.steps \in Nat \ {0}
                    /\ op.arg.form \in {"path", "project"} => op.arg.of[1] \in Docs
                    /\ op.arg.form \notin {"path", "project", "ref", "escaped"} => op.op = "place" /\ op.arg = Omitted
  <1>1. DOMAIN ops = 1..Len(ops)
    BY DEF OperationsOK
  <1>2. Inferred(ops) = [i \in 1..Len(ops) |-> Inferred(ops)[i]]
    BY <1>1 DEF Inferred
  <1>3. ASSUME NEW i \in 1..Len(ops)
        PROVE  LET op == Inferred(ops)[i]
               IN  /\ op.steps \in Nat \ {0}
                   /\ op.arg.form \in {"path", "project"} => op.arg.of[1] \in Docs
                   /\ op.arg.form \notin {"path", "project", "ref", "escaped"} => op.op = "place" /\ op.arg = Omitted
    <2> DEFINE op == ops[i]
               r == Reference(OpTarget(ops[CHOOSE j \in Creators(ops, i) : TRUE]))
    <2>1. /\ op = [id |-> op.id, op |-> op.op, steps |-> op.steps, arg |-> op.arg]
          /\ op.steps \in Nat \ {0}
          /\ op.arg.form \in {"path", "project"} => op.arg.of[1] \in Docs
          /\ op.arg.form \notin {"path", "project", "ref", "escaped"} => op.op = "place" /\ op.arg = Omitted
      BY DEF OperationsOK
    <2>2. Inferred(ops)[i] = op \/ Inferred(ops)[i] = [op EXCEPT !.arg = r]
      BY <1>1 DEF Inferred
    <2>3. r.form = "ref"
      BY DEF Reference
    <2> HIDE DEF op, r
    <2> QED BY <2>1, <2>2, <2>3
  <1> QED BY <1>2, <1>3

\* Whatever a step refers to belongs to an operation before its own, whose steps all come first.
LEMMA CompiledInOrder ==
    ASSUME NEW plan, OperationsOK(plan.ops)
    PROVE  Numbered(Compile(plan)) /\ StepsInOrder(Compile(plan))
  <1> DEFINE ops == Inferred(plan.ops)
             parts == [i \in DOMAIN ops |-> StepsOf(ops, i)]
             n == Len(plan.ops)
  <1>1. n \in Nat /\ DOMAIN ops = 1..n
    BY InferredOps DEF OperationsOK
  <1>2. \A i \in 1..n :
           /\ ops[i].steps \in Nat \ {0}
           /\ ops[i].arg.form \in {"path", "project"} => ops[i].arg.of[1] \in Docs
           /\ ops[i].arg.form \notin {"path", "project", "ref", "escaped"} => ops[i].op = "place" /\ ops[i].arg = Omitted
    BY InferredOps
  <1> HIDE DEF ops
  <1>3. CASE Compile(plan) = <<>>
    BY <1>3 DEF Numbered, StepsInOrder
  <1>4. CASE n = 0
    <2>1. parts = <<>>
      BY <1>1, <1>4
    <2>2. FlattenSeq(parts) = <<>>
      BY <2>1 DEF FlattenSeq
    <2>3. Compile(plan) = <<>>
      BY <2>2 DEF Compile, ops
    <2> QED BY <1>3, <2>3
  <1>5. CASE n # 0 /\ Compile(plan) # <<>>
    <2>1. /\ Compile(plan) = FlattenSeq(parts)
          /\ \A i \in 1..n : Expandable(ops[i])
          /\ \A i \in 1..n : Rewritten(ops, i).form = "ref" => Rewritten(ops, i).of \in Available(ops, i)
      BY <1>1, <1>5 DEF Compile, ops
    <2> DEFINE S == UNION {{StepsOf(ops, i)[k] : k \in 1..ops[i].steps} : i \in 1..n}
    <2>2. \A i \in 1..n : StepsOf(ops, i) \in Seq(S) /\ Len(StepsOf(ops, i)) = ops[i].steps
      <3>1. ASSUME NEW i \in 1..n PROVE StepsOf(ops, i) \in Seq(S) /\ Len(StepsOf(ops, i)) = ops[i].steps
        <4> DEFINE part == StepsOf(ops, i)
        <4>1. part = [k \in 1..ops[i].steps |-> part[k]]
          BY DEF StepsOf
        <4>2. ops[i].steps \in Nat
          BY <1>2
        <4>3. \A k \in 1..ops[i].steps : part[k] \in S
          OBVIOUS
        <4> HIDE DEF S, part
        <4>4. part \in [1..ops[i].steps -> S]
          BY <4>1, <4>3
        <4> QED BY <4>2, <4>4 DEF part
      <3> QED BY <3>1
    <2>3. parts \in Seq(Seq(S)) /\ Len(parts) = n
      <3> HIDE DEF S
      <3>1. parts \in [1..n -> Seq(S)]
        BY <1>1, <2>2
      <3> QED BY <1>1, <3>1
    <2> DEFINE flat == FlattenSeq(parts)
    <2>4. flat \in Seq(S) /\ InOrder(flat, parts, n)
      <3> HIDE DEF S, parts
      <3> QED BY <1>5, <2>3, FlattenKeepsOrder
    <2>5. \A i \in 1..n : parts[i] = StepsOf(ops, i) /\ Len(parts[i]) = ops[i].steps
      BY <1>1, <2>2
    <2> HIDE DEF S, parts, flat
    <2>6. ASSUME NEW p \in 1..Len(flat)
          PROVE  /\ flat[p].arg.form # "ref" => flat[p].arg.of[1] \in Docs
                 /\ flat[p].arg.form = "ref" => \E q \in 1..(p - 1) : flat[p].arg.of \in {flat[q].id, flat[q].op}
      <3>1. PICK j \in 1..n : \E k \in 1..Len(parts[j]) :
               /\ flat[p] = parts[j][k]
               /\ \A i \in 1..(j - 1) : \A h \in 1..Len(parts[i]) : \E q \in 1..(p - 1) : flat[q] = parts[i][h]
        BY <2>4 DEF InOrder
      <3>2. PICK k \in 1..ops[j].steps :
               /\ flat[p] = parts[j][k]
               /\ \A i \in 1..(j - 1) : \A h \in 1..Len(parts[i]) : \E q \in 1..(p - 1) : flat[q] = parts[i][h]
        BY <2>5, <3>1
      <3>3. flat[p].arg = Rewritten(ops, j)
        <4>1. flat[p] = StepsOf(ops, j)[k]
          BY <2>5, <3>2
        <4> QED BY <4>1 DEF StepsOf
      <3>4. flat[p].arg.form # "ref" => flat[p].arg.of[1] \in Docs
        <4>1. Rewritten(ops, j).form # "ref" => Rewritten(ops, j) = ops[j].arg /\ ops[j].arg.form \notin {"ref", "escaped"}
          BY DEF Rewritten, Reference
        <4>2. ~(ops[j].op = "place" /\ ops[j].arg = Omitted)
          BY <2>1 DEF Expandable
        <4> QED BY <1>2, <3>3, <4>1, <4>2
      <3>5. ASSUME flat[p].arg.form = "ref"
            PROVE  \E q \in 1..(p - 1) : flat[p].arg.of \in {flat[q].id, flat[q].op}
        <4>1. PICK i \in 1..(j - 1) : flat[p].arg.of \in Targets(ops[i])
          BY <2>1, <3>3, <3>5 DEF Available
        <4>2. i \in 1..n
          BY <1>1
        <4>3. PICK h \in 1..ops[i].steps : flat[p].arg.of \in {StepTarget(ops[i], h - 1), OpTarget(ops[i])}
          <5>1. ops[i].steps \in Nat \ {0}
            BY <1>2, <4>2
          <5>2. CASE flat[p].arg.of = OpTarget(ops[i])
            BY <5>1, <5>2
          <5>3. CASE flat[p].arg.of \in {StepTarget(ops[i], m) : m \in 0..(ops[i].steps - 1)}
            <6>1. PICK m \in 0..(ops[i].steps - 1) : flat[p].arg.of = StepTarget(ops[i], m)
              BY <5>3
            <6>2. m + 1 \in 1..ops[i].steps /\ (m + 1) - 1 = m
              BY <5>1
            <6> QED BY <6>1, <6>2
          <5> QED BY <4>1, <5>2, <5>3 DEF Targets
        <4>4. PICK q \in 1..(p - 1) : flat[q] = parts[i][h]
          BY <2>5, <3>2, <4>2
        <4>5. flat[q].id = StepTarget(ops[i], h - 1) /\ flat[q].op = OpTarget(ops[i])
          <5>1. flat[q] = StepsOf(ops, i)[h]
            BY <2>5, <4>2, <4>4
          <5> QED BY <5>1 DEF StepsOf
        <4> QED BY <4>3, <4>5
      <3> QED BY <3>4, <3>5
    <2>7. Compile(plan) = flat
      BY <2>1 DEF flat
    <2> QED BY <2>4, <2>6, <2>7 DEF Numbered, StepsInOrder
  <1> QED BY <1>3, <1>4, <1>5

LEMMA SequenceOfSet ==
    ASSUME NEW S, IsFiniteSet(S)
    PROVE  SetToSeq(S) \in Seq(S)
  <1>1. Cardinality(S) \in Nat /\ ExistsBijection(1..Cardinality(S), S)
    BY FS_CardinalityType
  <1>2. PICK f : f \in Bijection(1..Cardinality(S), S)
    BY <1>1 DEF ExistsBijection
  <1>3. f \in [1..Cardinality(S) -> S] /\ IsInjective(f)
    BY <1>2 DEF Bijection, Injection, IsInjective
  <1>4. SetToSeq(S) \in [1..Cardinality(S) -> S]
    BY <1>3 DEF SetToSeq
  <1> QED BY <1>1, <1>4

LEMMA FiniteImage ==
    ASSUME NEW n \in Nat, NEW I, I \subseteq 1..n, NEW g
    PROVE  IsFiniteSet({g[k] : k \in I})
  <1> DEFINE T == {g[k] : k \in I}
             f == [k \in I |-> g[k]]
  <1>1. IsFiniteSet(I)
    <2>1. IsFiniteSet(1..n)
      BY FS_Interval
    <2> QED BY <2>1, FS_Subset
  <1>2. f \in Surjection(I, T)
    BY DEF Surjection
  <1> QED BY <1>1, <1>2, FS_Surjection

\* Every program that compile lets through names in a reference only what an earlier step
\* returns, and touches only known documents that one of its steps names by path.
THEOREM ProgramsOK ==
    ASSUME NEW plan \in Plans
    PROVE  /\ ProgramOK(Programs[plan])
           /\ Programs[plan].steps = Compile(plan)
  <1> DEFINE steps == Compile(plan)
             I == {j \in DOMAIN steps : steps[j].arg.form = "path"}
             g == [k \in 1..Len(steps) |-> steps[k].arg.of[1]]
             T == {steps[k].arg.of[1] : k \in I}
  <1>1. Numbered(steps) /\ StepsInOrder(steps)
    BY PlanAssumption, CompiledInOrder
  <1> HIDE DEF steps
  <1>2. Programs[plan] = [steps |-> steps, touched |-> SetToSeq(T), posts |-> plan.posts, policy |-> plan.policy]
    BY DEF Programs, Program, Touched, steps
  <1>3. I \subseteq 1..Len(steps) /\ Len(steps) \in Nat
    BY <1>1 DEF Numbered
  <1>4. T = {g[k] : k \in I}
    BY <1>3
  <1>5. IsFiniteSet(T)
    <2> HIDE DEF g, T, I
    <2> QED BY <1>3, <1>4, FiniteImage
  <1>6. SetToSeq(T) \in Seq(T)
    BY <1>5, SequenceOfSet
  <1>7. \A i \in 1..Len(SetToSeq(T)) : SetToSeq(T)[i] \in T
    <2> HIDE DEF T
    <2> QED BY <1>6
  <1>8. T \subseteq Docs
    BY <1>1, <1>3 DEF StepsInOrder
  <1>9. SetToSeq(T) \in Seq(Docs)
    <2> HIDE DEF T
    <2> QED BY <1>6, <1>8
  <1>10. TouchedOK(Programs[plan])
    <2>1. Programs[plan].touched = SetToSeq(T) /\ Programs[plan].steps = steps
      BY <1>2
    <2>2. ASSUME NEW i \in 1..Len(SetToSeq(T))
          PROVE  \E k \in 1..Len(steps) : steps[k].arg.form = "path" /\ SetToSeq(T)[i] = steps[k].arg.of[1]
      BY <1>3, <1>7
    <2> HIDE DEF T
    <2> QED BY <1>9, <2>1, <2>2 DEF TouchedOK
  <1> QED BY <1>1, <1>2, <1>10 DEF ProgramOK, steps
-----------------------------------------------------------------------------
Faulty(D, d) == UNION {D[x] : x \in {y \in {d} \cup Sheets[d] : D[y] # Absent}}

\* What the sheets below d contribute to its findings.
SheetFaults(D, d) == UNION {D[x] : x \in {y \in Sheets[d] : D[y] # Absent}}

Fields == {"at", "prog", "todo", "look", "rev", "base", "cursor", "outs", "handed", "halted", "failed", "answer",
           "task", "doc", "before", "disturbed"}

Shape(t) == DOMAIN t = Fields

Formed(t) ==
    /\ Shape(t) /\ ProgramOK(t.prog) /\ t.todo \in Seq(Docs)
    /\ t.halted \in BOOLEAN /\ t.failed \in BOOLEAN /\ t.disturbed \in BOOLEAN
    /\ t.task # 0 => t.doc \in Docs
    /\ t.handed # NoDoc => t.at = "steps"
    /\ t.at \in {"model", "baseline"} => t.cursor = 1 /\ t.outs = <<>> /\ ~t.halted /\ ~t.failed
    /\ t.at = "model" => t.base = <<>>
    /\ t.at = "verify" => t.todo = <<t.doc>>

\* A verdict is being made for the first document that is left to look at; it
\* is still what was read unless that is suspect.
LookOK(t, D, Su) ==
    t.look # NoDoc =>
        /\ t.at \in {"baseline", "posts", "verify"} /\ t.todo # <<>> /\ t.look = Head(t.todo)
        /\ t.rev \in Revisions
        /\ <<t.look, t.rev>> \notin Su => D[t.look] = t.rev

BaseOK(t, D, Su) ==
    /\ t.at = "baseline" /\ ~t.disturbed => D = t.before
    /\ t.at \in {"baseline", "steps", "posts"} /\ ~t.disturbed =>
          \A d \in DOMAIN t.base : <<d, t.before[d]>> \notin Su => t.base[d] \subseteq Faulty(t.before, d)

\* Until a step fails, every step before the cursor has bound what it returned
\* and the document it names by path is there; a failure halts.
StepsOK(t, D) ==
    t.at = "steps" =>
        /\ t.cursor \in Nat \ {0}
        /\ t.halted => t.failed
        /\ t.failed /\ Halts(t.prog.policy) => t.halted
        /\ ~t.failed => \A x \in DOMAIN t.outs : t.outs[x].ok
        /\ \A x \in DOMAIN t.outs : t.outs[x].ok => t.outs[x].doc \in Docs
        /\ ~t.failed => \A k \in 1..Len(t.prog.steps) : k < t.cursor =>
              /\ t.prog.steps[k].id \in DOMAIN t.outs /\ t.prog.steps[k].op \in DOMAIN t.outs
              /\ t.prog.steps[k].arg.form = "path" => D[t.prog.steps[k].arg.of[1]] # Absent
        /\ t.handed # NoDoc =>
              /\ ~t.halted /\ t.cursor <= Len(t.prog.steps) /\ t.handed \in Docs
              /\ t.prog.steps[t.cursor].arg.form = "path" => t.handed = t.prog.steps[t.cursor].arg.of[1]

\* The promise of the plan holds of d.
Kept(t, D, Su, d) ==
    ~t.disturbed /\ <<d, D[d]>> \notin Su =>
        /\ "erc_clean" \in t.prog.posts => Faulty(D, d) = {}
        /\ "erc" \in t.prog.posts /\ <<d, t.before[d]>> \notin Su => Faulty(D, d) \subseteq Faulty(t.before, d)

PostsOK(t, D, Su) ==
    t.at = "posts" =>
        \A k \in 1..Len(t.prog.touched) :
           /\ D[t.prog.touched[k]] # Absent
           /\ (\E i \in 1..Len(t.todo) : t.todo[i] = t.prog.touched[k]) \/ Kept(t, D, Su, t.prog.touched[k])

RecordOK(t, D, Su) ==
    t.at = "record" =>
        /\ t.doc \in Docs /\ t.rev \in Revisions
        /\ Sheets[t.doc] = {} /\ <<t.doc, t.rev>> \notin Su => t.base[t.doc] = t.rev
        /\ ~t.disturbed /\ <<t.doc, t.rev>> \notin Su => t.base[t.doc] = Faulty(D, t.doc)

AnswerOK(t, D, Su) ==
    t.at = "answered" =>
        /\ t.answer = "ok" => \A k \in 1..Len(t.prog.touched) : Kept(t, D, Su, t.prog.touched[k])
        /\ t.answer = "success" /\ ~t.disturbed /\ <<t.doc, t.rev>> \notin Su => Faulty(D, t.doc) = {}

TurnOK(t, D, Su) ==
    /\ Formed(t) /\ LookOK(t, D, Su) /\ BaseOK(t, D, Su) /\ StepsOK(t, D)
    /\ PostsOK(t, D, Su) /\ RecordOK(t, D, Su) /\ AnswerOK(t, D, Su)

EntryOK(e, D, Su) ==
    /\ e.doc \in Docs /\ e.rev \in Revisions
    /\ <<e.doc, e.rev>> \notin Su => e.found = e.rev \cup SheetFaults(D, e.doc)

CacheOK(ca, D, Su) == Numbered(ca) /\ \A k \in 1..Len(ca) : EntryOK(ca[k], D, Su)

FactOK(f, Su) ==
    /\ f.doc \in Docs /\ f.rev \in Revisions /\ f.pass \in BOOLEAN
    /\ Sheets[f.doc] = {} /\ <<f.doc, f.rev>> \notin Su => (f.pass <=> f.rev = {})

FactsOK(ts, Su) ==
    /\ DOMAIN ts = TaskIds /\ ts = [id \in TaskIds |-> ts[id]]
    /\ \A id \in TaskIds :
          /\ DOMAIN ts[id] = {"constraints", "assumptions", "facts"}
          /\ Numbered(ts[id].facts)
          /\ \A k \in 1..Len(ts[id].facts) : FactOK(ts[id].facts[k], Su)

\* The invariant: what each turn knows at its stage, and that a verdict in the cache or in a
\* task is that of the revision it names, unless suspect.
AgentInv ==
    /\ content \in [Docs -> {Absent} \cup Revisions]
    /\ CacheOK(cache, content, suspect)
    /\ turn = [c \in Callers |-> turn[c]]
    /\ \A c \in Callers : TurnOK(turn[c], content, suspect)
    /\ FactsOK(task, suspect)
-----------------------------------------------------------------------------
LEMMA AbsentIsNoText == Absent \notin Revisions
  BY PlanAssumption

LEMMA FaultsSplit ==
    ASSUME NEW D, NEW d
    PROVE  /\ D[d] # Absent => Faulty(D, d) = D[d] \cup SheetFaults(D, d)
           /\ SheetFaults(D, d) \subseteq Faulty(D, d)
           /\ Sheets[d] = {} => SheetFaults(D, d) = {}
  <1>1. SheetFaults(D, d) \subseteq Faulty(D, d)
    BY DEF Faulty, SheetFaults
  <1>2. Sheets[d] = {} => SheetFaults(D, d) = {}
    BY DEF SheetFaults
  <1>3. ASSUME D[d] # Absent PROVE Faulty(D, d) = D[d] \cup SheetFaults(D, d)
    <2>1. {y \in {d} \cup Sheets[d] : D[y] # Absent} = {d} \cup {y \in Sheets[d] : D[y] # Absent}
      BY <1>3
    <2> QED BY <2>1, Zenon DEF Faulty, SheetFaults
  <1> QED BY <1>1, <1>2, <1>3

\* A write of x leaves the findings of a document alone that neither is x nor has x below it.
LEMMA SheetFaultsKept ==
    ASSUME NEW D, D = [y \in Docs |-> D[y]], NEW x \in Docs, NEW text, NEW d \in Docs, x \notin Sheets[d]
    PROVE  SheetFaults([D EXCEPT ![x] = text], d) = SheetFaults(D, d)
  <1> DEFINE E == [D EXCEPT ![x] = text]
  <1>1. \A y \in Sheets[d] : E[y] = D[y]
    BY PlanAssumption
  <1> HIDE DEF E
  <1>2. {y \in Sheets[d] : E[y] # Absent} = {y \in Sheets[d] : D[y] # Absent}
    BY <1>1
  <1>3. {E[y] : y \in {z \in Sheets[d] : E[z] # Absent}} = {D[y] : y \in {z \in Sheets[d] : D[z] # Absent}}
    BY <1>1, <1>2
  <1>4. SheetFaults(E, d) = SheetFaults(D, d)
    BY <1>3 DEF SheetFaults
  <1> QED BY <1>4 DEF E

LEMMA IdleIsOK ==
    ASSUME NEW D, NEW Su
    PROVE  TurnOK(Idle, D, Su) /\ ProgramOK(NoProgram)
  <1>1. ProgramOK(NoProgram)
    BY DEF NoProgram, ProgramOK, Numbered, StepsInOrder, TouchedOK
  <1>2. Idle.prog = NoProgram /\ Idle.at = "idle" /\ Idle.look = NoDoc /\ Idle.todo = <<>> /\ Shape(Idle)
        /\ Idle.halted = FALSE /\ Idle.failed = FALSE /\ Idle.disturbed = FALSE /\ Idle.task = 0 /\ Idle.handed = NoDoc
    BY DEF Idle, Shape, Fields
  <1>3. Idle.todo \in Seq(Docs)
    BY <1>2
  <1>4. Formed(Idle)
    BY <1>1, <1>2, <1>3 DEF Formed
  <1> QED BY <1>1, <1>2, <1>4 DEF TurnOK, LookOK, BaseOK, StepsOK, PostsOK, RecordOK, AnswerOK

LEMMA AskedIsOK ==
    ASSUME NEW D, NEW Su, NEW c, NEW id, NEW d \in Docs, NEW at \in {"model", "verify"}
    PROVE  LET t == Asked(c, id, d, at)
           IN  TurnOK(t, D, Su) /\ t.handed = NoDoc
  <1> DEFINE t == Asked(c, id, d, at)
  <1>1. /\ t.prog = NoProgram /\ t.at = at /\ t.look = NoDoc /\ Shape(t)
        /\ t.todo = (IF at = "verify" THEN <<d>> ELSE <<>>)
        /\ t.halted = FALSE /\ t.failed = FALSE /\ t.disturbed = FALSE /\ t.task = id /\ t.handed = NoDoc
        /\ t.doc = d /\ t.cursor = 1 /\ t.outs = <<>> /\ t.base = <<>>
    BY DEF Asked, Idle, Shape, Fields
  <1>2. ProgramOK(NoProgram)
    BY IdleIsOK
  <1> HIDE DEF t
  <1>3. Formed(t)
    <2>1. t.todo \in Seq(Docs)
      BY <1>1
    <2> QED BY <1>1, <1>2, <2>1 DEF Formed
  <1>4. TurnOK(t, D, Su)
    BY <1>1, <1>3 DEF TurnOK, LookOK, BaseOK, StepsOK, PostsOK, RecordOK, AnswerOK
  <1> QED BY <1>1, <1>4 DEF t

\* The fields of an answer.
LEMMA AnsweredFields ==
    ASSUME NEW t, Shape(t), NEW a
    PROVE  LET u == Answered(t, a)
           IN  /\ Shape(u) /\ u.at = "answered" /\ u.answer = a /\ u.todo = <<>> /\ u.look = NoDoc
               /\ u.prog = t.prog /\ u.rev = t.rev /\ u.handed = t.handed /\ u.halted = t.halted /\ u.failed = t.failed
               /\ u.task = t.task /\ u.doc = t.doc /\ u.before = t.before /\ u.disturbed = t.disturbed
  BY DEF Shape, Fields, Answered

LEMMA AnsweredIsOK ==
    ASSUME NEW D, NEW Su, NEW t, Formed(t), t.handed = NoDoc, NEW a,
           a = "ok" => \A k \in 1..Len(t.prog.touched) : Kept(t, D, Su, t.prog.touched[k]),
           a = "success" /\ ~t.disturbed /\ <<t.doc, t.rev>> \notin Su => Faulty(D, t.doc) = {}
    PROVE  TurnOK(Answered(t, a), D, Su)
  <1> DEFINE u == Answered(t, a)
  <1>1. /\ Shape(u) /\ u.at = "answered" /\ u.answer = a /\ u.todo = <<>> /\ u.look = NoDoc
        /\ u.prog = t.prog /\ u.rev = t.rev /\ u.handed = NoDoc /\ u.halted = t.halted /\ u.failed = t.failed
        /\ u.task = t.task /\ u.doc = t.doc /\ u.before = t.before /\ u.disturbed = t.disturbed
    BY AnsweredFields DEF Formed
  <1> HIDE DEF u
  <1>2. Formed(u)
    BY <1>1 DEF Formed
  <1>3. \A d : Kept(u, D, Su, d) <=> Kept(t, D, Su, d)
    BY <1>1 DEF Kept
  <1>4. AnswerOK(u, D, Su)
    BY <1>1, <1>3 DEF AnswerOK
  <1>5. TurnOK(u, D, Su)
    BY <1>1, <1>2, <1>4 DEF TurnOK, LookOK, BaseOK, StepsOK, PostsOK, RecordOK
  <1> QED BY <1>5 DEF u

LEMMA BuiltIsOK ==
    ASSUME NEW D, D = content, NEW Su, NEW t, TurnOK(t, D, Su), t = Idle \/ t.at = "model", NEW plan \in Plans
    PROVE  TurnOK(Built(t, plan), D, Su)
  <1>1. Formed(t) /\ t.handed = NoDoc /\ t.base = <<>> /\ t.look = NoDoc /\ t.cursor = 1 /\ t.outs = <<>>
        /\ ~t.halted /\ ~t.failed
    BY DEF TurnOK, Formed, LookOK, Idle
  <1>2. ProgramOK(Programs[plan])
    BY ProgramsOK
  <1> DEFINE prog == Programs[plan]
             todo == IF "erc" \in prog.posts THEN prog.touched ELSE <<>>
             began == [t EXCEPT !.prog = prog, !.before = content]
             u == [began EXCEPT !.at = "baseline", !.todo = todo]
  <1>3. Built(t, plan) = Answered(t, "refused") \/ Built(t, plan) = u
    BY DEF Built
  <1>4. TurnOK(Answered(t, "refused"), D, Su)
    BY <1>1, AnsweredIsOK
  <1>5. todo \in Seq(Docs)
    BY <1>2 DEF ProgramOK, TouchedOK
  <1> HIDE DEF prog, todo
  <1>6. /\ Shape(u) /\ u.at = "baseline" /\ u.todo = todo /\ u.look = NoDoc /\ u.prog = prog
        /\ u.handed = NoDoc /\ u.halted = t.halted /\ u.failed = t.failed /\ u.task = t.task /\ u.doc = t.doc
        /\ u.before = content /\ u.disturbed = t.disturbed /\ u.cursor = 1 /\ u.outs = <<>> /\ u.base = <<>>
    BY <1>1 DEF Formed, Shape, Fields
  <1> HIDE DEF u
  <1>7. Formed(u)
    BY <1>1, <1>2, <1>5, <1>6 DEF Formed, prog
  <1>8. BaseOK(u, D, Su)
    BY <1>6 DEF BaseOK
  <1>9. TurnOK(u, D, Su)
    BY <1>6, <1>7, <1>8 DEF TurnOK, LookOK, StepsOK, PostsOK, RecordOK, AnswerOK
  <1> QED BY <1>3, <1>4, <1>9
-----------------------------------------------------------------------------
LEMMA RevReadIsOK ==
    ASSUME NEW D, NEW Su, NEW t, TurnOK(t, D, Su), t.at \in {"baseline", "posts", "verify"}, t.look = NoDoc, NEW r
    PROVE  TurnOK([t EXCEPT !.rev = r], D, Su)
  <1> DEFINE u == [t EXCEPT !.rev = r]
  <1>1. /\ Shape(u) /\ u.at = t.at /\ u.prog = t.prog /\ u.todo = t.todo /\ u.look = NoDoc /\ u.base = t.base
        /\ u.cursor = t.cursor /\ u.outs = t.outs /\ u.handed = t.handed /\ u.halted = t.halted /\ u.failed = t.failed
        /\ u.task = t.task /\ u.doc = t.doc /\ u.before = t.before /\ u.disturbed = t.disturbed
    BY DEF TurnOK, Formed, Shape, Fields
  <1> HIDE DEF u
  <1>2. Formed(u)
    BY <1>1 DEF TurnOK, Formed
  <1>3. \A d : Kept(u, D, Su, d) <=> Kept(t, D, Su, d)
    BY <1>1 DEF Kept
  <1>4. PostsOK(u, D, Su)
    BY <1>1, <1>3 DEF TurnOK, PostsOK
  <1>5. BaseOK(u, D, Su)
    BY <1>1 DEF TurnOK, BaseOK
  <1>6. TurnOK(u, D, Su)
    BY <1>1, <1>2, <1>4, <1>5 DEF TurnOK, LookOK, StepsOK, RecordOK, AnswerOK
  <1> QED BY <1>6 DEF u

\* A verdict that is what kicad-cli says now, unless it is suspect, takes the
\* caller one document further.
LEMMA JudgedIsOK ==
    ASSUME NEW D, NEW Su, NEW t, TurnOK(t, D, Su), t.at \in {"baseline", "posts", "verify"},
           t.todo # <<>>, NEW d, d = Head(t.todo), NEW found,
           <<d, D[d]>> \notin Su => found \subseteq Faulty(D, d),
           <<d, D[d]>> \notin Su /\ D[d] # Absent => found = Faulty(D, d),
           t.at = "verify" => t.rev \in Revisions /\ (<<d, t.rev>> \notin Su => D[d] = t.rev /\ found = Faulty(D, d))
    PROVE  TurnOK(Judged(t, d, found), D, Su)
  <1> DEFINE next == [t EXCEPT !.todo = Tail(t.todo), !.look = NoDoc]
             u1 == [next EXCEPT !.base = Bind(next.base, d, found)]
             u3 == [next EXCEPT !.at = "record", !.base = Bind(next.base, d, found)]
  <1>1. Formed(t) /\ t.handed = NoDoc
    BY DEF TurnOK, Formed
  <1>2. t.todo \in Seq(Docs) /\ Tail(t.todo) \in Seq(Docs) /\ d \in Docs
    BY <1>1 DEF Formed
  <1>3. /\ Shape(next) /\ next.at = t.at /\ next.prog = t.prog /\ next.todo = Tail(t.todo) /\ next.look = NoDoc
        /\ next.base = t.base /\ next.rev = t.rev
        /\ next.cursor = t.cursor /\ next.outs = t.outs /\ next.handed = NoDoc /\ next.halted = t.halted
        /\ next.failed = t.failed /\ next.task = t.task /\ next.doc = t.doc /\ next.before = t.before
        /\ next.disturbed = t.disturbed
    BY <1>1 DEF Formed, Shape, Fields
  <1>4. CASE t.at = "baseline"
    <2>1. Judged(t, d, found) = u1
      BY <1>4 DEF Judged
    <2>2. /\ Shape(u1) /\ u1.at = "baseline" /\ u1.prog = t.prog /\ u1.todo = Tail(t.todo) /\ u1.look = NoDoc
          /\ u1.base = Bind(t.base, d, found) /\ u1.cursor = t.cursor /\ u1.outs = t.outs /\ u1.handed = NoDoc
          /\ u1.halted = t.halted /\ u1.failed = t.failed /\ u1.task = t.task /\ u1.doc = t.doc /\ u1.before = t.before
          /\ u1.disturbed = t.disturbed
      <3> HIDE DEF next
      <3> QED BY <1>3, <1>4 DEF Shape, Fields
    <2> HIDE DEF u1, next
    <2>3. Formed(u1)
      BY <1>1, <1>2, <1>4, <2>2 DEF Formed
    <2>4. BaseOK(u1, D, Su)
      <3>1. u1.at = "baseline" /\ ~u1.disturbed => D = u1.before
        BY <1>4, <2>2 DEF TurnOK, BaseOK
      <3>2. ASSUME ~u1.disturbed, NEW e \in DOMAIN u1.base, <<e, u1.before[e]>> \notin Su
            PROVE  u1.base[e] \subseteq Faulty(u1.before, e)
        <4>1. D = u1.before /\ D = t.before /\ ~t.disturbed
          BY <2>2, <3>1, <3>2
        <4>2. CASE e = d
          <5>1. u1.base[e] = found
            BY <2>2, <4>2 DEF Bind
          <5> QED BY <3>2, <4>1, <4>2, <5>1
        <4>3. CASE e # d
          <5>1. e \in DOMAIN t.base /\ u1.base[e] = t.base[e]
            BY <2>2, <4>3 DEF Bind
          <5> QED BY <1>4, <2>2, <3>2, <4>1, <5>1 DEF TurnOK, BaseOK
        <4> QED BY <4>2, <4>3
      <3> QED BY <2>2, <3>1, <3>2 DEF BaseOK
    <2>5. TurnOK(u1, D, Su)
      BY <2>2, <2>3, <2>4 DEF TurnOK, LookOK, StepsOK, PostsOK, RecordOK, AnswerOK
    <2> QED BY <2>1, <2>5
  <1>5. CASE t.at = "posts" /\ ~Passes(t, d, found)
    <2>1. Judged(t, d, found) = Answered(t, "failed")
      BY <1>5 DEF Judged
    <2> QED BY <1>1, <2>1, AnsweredIsOK
  <1>6. CASE t.at = "posts" /\ Passes(t, d, found)
    <2>1. Judged(t, d, found) = next
      BY <1>6 DEF Judged
    <2> HIDE DEF next
    <2>2. Formed(next)
      BY <1>1, <1>2, <1>3, <1>6 DEF Formed
    <2>3. BaseOK(next, D, Su)
      BY <1>3, <1>6 DEF TurnOK, BaseOK
    <2>4. \A e : Kept(next, D, Su, e) <=> Kept(t, D, Su, e)
      BY <1>3 DEF Kept
    <2>5. D[d] # Absent => Kept(t, D, Su, d)
      <3>1. SUFFICES ASSUME D[d] # Absent, ~t.disturbed, <<d, D[d]>> \notin Su
                     PROVE  /\ "erc_clean" \in t.prog.posts => found = {}
                            /\ "erc" \in t.prog.posts /\ <<d, t.before[d]>> \notin Su => found \subseteq Faulty(t.before, d)
        BY DEF Kept
      <3>2. d \in DOMAIN t.base /\ <<d, t.before[d]>> \notin Su => t.base[d] \subseteq Faulty(t.before, d)
        BY <1>6, <3>1 DEF TurnOK, BaseOK
      <3> QED BY <1>6, <3>2 DEF Passes
    <2>6. PostsOK(next, D, Su)
      <3>1. ASSUME NEW k \in 1..Len(t.prog.touched)
            PROVE  /\ D[t.prog.touched[k]] # Absent
                   /\ (\E i \in 1..Len(Tail(t.todo)) : Tail(t.todo)[i] = t.prog.touched[k]) \/ Kept(t, D, Su, t.prog.touched[k])
        <4>1. /\ D[t.prog.touched[k]] # Absent
              /\ (\E i \in 1..Len(t.todo) : t.todo[i] = t.prog.touched[k]) \/ Kept(t, D, Su, t.prog.touched[k])
          BY <1>6 DEF TurnOK, PostsOK
        <4>2. ASSUME NEW i \in 1..Len(t.todo), t.todo[i] = t.prog.touched[k]
              PROVE  (\E j \in 1..Len(Tail(t.todo)) : Tail(t.todo)[j] = t.prog.touched[k]) \/ Kept(t, D, Su, t.prog.touched[k])
          <5>1. CASE i = 1
            <6>1. t.prog.touched[k] = d
              BY <1>2, <4>2, <5>1
            <6> QED BY <2>5, <4>1, <6>1
          <5>2. CASE i # 1
            <6>1. i - 1 \in 1..Len(Tail(t.todo)) /\ Tail(t.todo)[i - 1] = t.todo[i]
              BY <1>2, <5>2
            <6> QED BY <4>2, <6>1
          <5> QED BY <5>1, <5>2
        <4> QED BY <4>1, <4>2
      <3> QED BY <1>3, <2>4, <3>1 DEF PostsOK
    <2>7. TurnOK(next, D, Su)
      BY <1>3, <1>6, <2>2, <2>3, <2>6 DEF TurnOK, LookOK, StepsOK, RecordOK, AnswerOK
    <2> QED BY <2>1, <2>7
  <1>7. CASE t.at = "verify"
    <2>1. Judged(t, d, found) = u3
      BY <1>7 DEF Judged
    <2>2. /\ Shape(u3) /\ u3.at = "record" /\ u3.prog = t.prog /\ u3.todo = Tail(t.todo) /\ u3.look = NoDoc
          /\ u3.base = Bind(t.base, d, found) /\ u3.handed = NoDoc /\ u3.rev = t.rev
          /\ u3.halted = t.halted /\ u3.failed = t.failed /\ u3.task = t.task /\ u3.doc = t.doc /\ u3.before = t.before
          /\ u3.disturbed = t.disturbed
      <3> HIDE DEF next
      <3> QED BY <1>3, <1>7 DEF Shape, Fields
    <2> HIDE DEF u3, next
    <2>3. Formed(u3)
      BY <1>1, <1>2, <2>2 DEF Formed
    <2>4. d = t.doc
      BY <1>1, <1>7 DEF Formed
    <2>5. u3.base[d] = found
      BY <2>2 DEF Bind
    <2>6. ASSUME Sheets[d] = {}, <<d, t.rev>> \notin Su PROVE found = t.rev
      <3>1. D[d] = t.rev /\ found = Faulty(D, d) /\ t.rev # Absent
        BY <1>7, <2>6, AbsentIsNoText
      <3>2. Faulty(D, d) = D[d] \cup SheetFaults(D, d)
        BY <3>1, FaultsSplit
      <3>3. SheetFaults(D, d) = {}
        BY <2>6, FaultsSplit
      <3> QED BY <3>1, <3>2, <3>3
    <2>7. RecordOK(u3, D, Su)
      BY <1>2, <1>7, <2>2, <2>4, <2>5, <2>6 DEF RecordOK
    <2>8. TurnOK(u3, D, Su)
      BY <2>2, <2>3, <2>7 DEF TurnOK, LookOK, BaseOK, StepsOK, PostsOK, AnswerOK
    <2> QED BY <2>1, <2>8
  <1> QED BY <1>4, <1>5, <1>6, <1>7
-----------------------------------------------------------------------------
\* The document that is looked at next and that has no verdict in the cache.
LEMMA MissIsOK ==
    ASSUME NEW D, NEW Su, NEW t, TurnOK(t, D, Su), t.at \in {"baseline", "posts", "verify"}, t.look = NoDoc,
           t.todo # <<>>, NEW d, d = Head(t.todo), t.rev = D[d], D[d] \in Revisions
    PROVE  TurnOK([t EXCEPT !.look = d], D, Su)
  <1> DEFINE u == [t EXCEPT !.look = d]
  <1>1. /\ Shape(u) /\ u.at = t.at /\ u.prog = t.prog /\ u.todo = t.todo /\ u.look = d /\ u.base = t.base /\ u.rev = t.rev
        /\ u.cursor = t.cursor /\ u.outs = t.outs /\ u.handed = t.handed /\ u.halted = t.halted /\ u.failed = t.failed
        /\ u.task = t.task /\ u.doc = t.doc /\ u.before = t.before /\ u.disturbed = t.disturbed
    BY DEF TurnOK, Formed, Shape, Fields
  <1> HIDE DEF u
  <1>2. Formed(u)
    BY <1>1 DEF TurnOK, Formed
  <1>3. \A e : Kept(u, D, Su, e) <=> Kept(t, D, Su, e)
    BY <1>1 DEF Kept
  <1>4. PostsOK(u, D, Su)
    BY <1>1, <1>3 DEF TurnOK, PostsOK
  <1>5. BaseOK(u, D, Su)
    BY <1>1 DEF TurnOK, BaseOK
  <1>6. LookOK(u, D, Su)
    BY <1>1 DEF LookOK
  <1>7. TurnOK(u, D, Su)
    BY <1>1, <1>2, <1>4, <1>5, <1>6 DEF TurnOK, StepsOK, RecordOK, AnswerOK
  <1> QED BY <1>7 DEF u

LEMMA StepsBeginOK ==
    ASSUME NEW D, NEW Su, NEW t, TurnOK(t, D, Su), t.at = "baseline", t.todo = <<>>
    PROVE  TurnOK([t EXCEPT !.at = "steps"], D, Su)
  <1> DEFINE u == [t EXCEPT !.at = "steps"]
  <1>1. /\ Shape(u) /\ u.at = "steps" /\ u.prog = t.prog /\ u.todo = t.todo /\ u.look = t.look /\ u.base = t.base /\ u.rev = t.rev
        /\ u.cursor = t.cursor /\ u.outs = t.outs /\ u.handed = t.handed /\ u.halted = t.halted /\ u.failed = t.failed
        /\ u.task = t.task /\ u.doc = t.doc /\ u.before = t.before /\ u.disturbed = t.disturbed
    BY DEF TurnOK, Formed, Shape, Fields
  <1> HIDE DEF u
  <1>2. t.cursor = 1 /\ t.outs = <<>> /\ ~t.halted /\ ~t.failed /\ t.handed = NoDoc /\ t.look = NoDoc
    BY DEF TurnOK, Formed, LookOK
  <1>3. Formed(u)
    BY <1>1, <1>2 DEF TurnOK, Formed
  <1>4. BaseOK(u, D, Su)
    BY <1>1 DEF TurnOK, BaseOK
  <1>5. StepsOK(u, D)
    BY <1>1, <1>2 DEF StepsOK
  <1>6. TurnOK(u, D, Su)
    BY <1>1, <1>2, <1>3, <1>4, <1>5 DEF TurnOK, LookOK, PostsOK, RecordOK, AnswerOK
  <1> QED BY <1>6 DEF u

\* Until a step has failed, whatever the next step refers to is there.
LEMMA NextIsResolved ==
    ASSUME NEW D, NEW Su, NEW t, TurnOK(t, D, Su), t.at = "steps", ~t.failed, t.cursor <= Len(t.prog.steps)
    PROVE  Resolved(t, t.prog.steps[t.cursor])
  <1> DEFINE s == t.prog.steps[t.cursor]
  <1>1. SUFFICES ASSUME s.arg.form = "ref" PROVE s.arg.of \in DOMAIN t.outs /\ t.outs[s.arg.of].ok
    BY DEF Resolved
  <1>2. Numbered(t.prog.steps) /\ StepsInOrder(t.prog.steps) /\ t.cursor \in Nat \ {0}
    BY DEF TurnOK, Formed, ProgramOK, StepsOK
  <1>3. t.cursor \in 1..Len(t.prog.steps) /\ Len(t.prog.steps) \in Nat
    BY <1>2 DEF Numbered
  <1>4. PICK j \in 1..(t.cursor - 1) : s.arg.of \in {t.prog.steps[j].id, t.prog.steps[j].op}
    BY <1>1, <1>2, <1>3 DEF StepsInOrder
  <1>5. j \in 1..Len(t.prog.steps) /\ j < t.cursor
    BY <1>3
  <1>6. t.prog.steps[j].id \in DOMAIN t.outs /\ t.prog.steps[j].op \in DOMAIN t.outs
    BY <1>5 DEF TurnOK, StepsOK
  <1>7. s.arg.of \in DOMAIN t.outs
    BY <1>4, <1>6
  <1> HIDE DEF s
  <1> QED BY <1>7 DEF TurnOK, StepsOK

LEMMA NextStepIsOK ==
    ASSUME NEW D, NEW Su, NEW t, TurnOK(t, D, Su), t.at = "steps", t.handed = NoDoc, ~t.halted,
           t.cursor <= Len(t.prog.steps), NEW s, s = t.prog.steps[t.cursor]
    PROVE  /\ Resolved(t, s) =>
                TurnOK([t EXCEPT !.handed = IF s.arg.form = "ref" THEN t.outs[s.arg.of].doc ELSE s.arg.of[1]], D, Su)
           /\ ~Resolved(t, s) => TurnOK(Unresolved(t, s), D, Su)
  <1>1. t.cursor \in Nat \ {0} /\ Numbered(t.prog.steps) /\ StepsInOrder(t.prog.steps) /\ t.look = NoDoc
    BY DEF TurnOK, Formed, ProgramOK, StepsOK, LookOK
  <1>2. t.cursor \in 1..Len(t.prog.steps)
    BY <1>1 DEF Numbered
  <1>3. ASSUME Resolved(t, s)
        PROVE  TurnOK([t EXCEPT !.handed = IF s.arg.form = "ref" THEN t.outs[s.arg.of].doc ELSE s.arg.of[1]], D, Su)
    <2> DEFINE h == IF s.arg.form = "ref" THEN t.outs[s.arg.of].doc ELSE s.arg.of[1]
               u == [t EXCEPT !.handed = h]
    <2>1. h \in Docs
      <3>1. s.arg.form = "ref" => t.outs[s.arg.of].doc \in Docs
        BY <1>3 DEF Resolved, TurnOK, StepsOK
      <3>2. s.arg.form # "ref" => s.arg.of[1] \in Docs
        BY <1>1, <1>2 DEF StepsInOrder
      <3> QED BY <3>1, <3>2
    <2>2. s.arg.form = "path" => h = s.arg.of[1]
      OBVIOUS
    <2> HIDE DEF h
    <2>3. /\ Shape(u) /\ u.at = "steps" /\ u.prog = t.prog /\ u.todo = t.todo /\ u.look = NoDoc /\ u.base = t.base
          /\ u.rev = t.rev /\ u.cursor = t.cursor /\ u.outs = t.outs /\ u.handed = h /\ u.halted = t.halted /\ u.failed = t.failed
          /\ u.task = t.task /\ u.doc = t.doc /\ u.before = t.before /\ u.disturbed = t.disturbed
      BY <1>1 DEF TurnOK, Formed, Shape, Fields
    <2> HIDE DEF u
    <2>4. Formed(u)
      BY <2>3 DEF TurnOK, Formed
    <2>5. BaseOK(u, D, Su)
      BY <2>3 DEF TurnOK, BaseOK
    <2>6. StepsOK(u, D)
      BY <2>1, <2>2, <2>3 DEF TurnOK, StepsOK
    <2>7. TurnOK(u, D, Su)
      BY <2>3, <2>4, <2>5, <2>6 DEF TurnOK, LookOK, PostsOK, RecordOK, AnswerOK
    <2> QED BY <2>7 DEF u, h
  <1>4. ASSUME ~Resolved(t, s) PROVE TurnOK(Unresolved(t, s), D, Su)
    <2> DEFINE u == Unresolved(t, s)
    <2>1. /\ Shape(u) /\ u.at = "steps" /\ u.prog = t.prog /\ u.todo = t.todo /\ u.look = NoDoc /\ u.base = t.base
          /\ u.rev = t.rev /\ u.cursor = t.cursor + 1 /\ u.outs = t.outs /\ u.handed = NoDoc /\ u.halted = Halts(t.prog.policy) /\ u.failed = TRUE
          /\ u.task = t.task /\ u.doc = t.doc /\ u.before = t.before /\ u.disturbed = t.disturbed
      BY <1>1 DEF TurnOK, Formed, Shape, Fields, Unresolved
    <2> HIDE DEF u
    <2>2. Halts(t.prog.policy) \in BOOLEAN
      BY DEF Halts
    <2>3. Formed(u)
      BY <2>1, <2>2 DEF TurnOK, Formed
    <2>4. BaseOK(u, D, Su)
      BY <2>1 DEF TurnOK, BaseOK
    <2>5. StepsOK(u, D)
      BY <1>1, <2>1, <2>2 DEF TurnOK, StepsOK
    <2>6. TurnOK(u, D, Su)
      BY <2>1, <2>3, <2>4, <2>5 DEF TurnOK, LookOK, PostsOK, RecordOK, AnswerOK
    <2> QED BY <2>6 DEF u
  <1> QED BY <1>3, <1>4

\* The outcome of a step, with the documents as it leaves them.
LEMMA RecordedIsOK ==
    ASSUME NEW D, NEW Su, NEW t, TurnOK(t, D, Su), t.at = "steps", t.handed # NoDoc,
           NEW s, s = t.prog.steps[t.cursor], NEW E, NEW Su2, Su \subseteq Su2,
           NEW out, out.ok \in BOOLEAN, out.ok => out.doc = t.handed /\ E[t.handed] # Absent,
           \A d \in Docs : D[d] # Absent => E[d] # Absent
    PROVE  TurnOK(Recorded(t, s, out), E, Su2)
  <1> DEFINE u == Recorded(t, s, out)
             outs == Bind(Bind(t.outs, s.op, out), s.id, out)
  <1>1. /\ t.cursor \in Nat \ {0} /\ Numbered(t.prog.steps) /\ StepsInOrder(t.prog.steps) /\ t.look = NoDoc
        /\ ~t.halted /\ t.cursor <= Len(t.prog.steps) /\ t.handed \in Docs
        /\ s.arg.form = "path" => t.handed = s.arg.of[1]
        /\ Halts(t.prog.policy) => ~t.failed
    BY DEF TurnOK, Formed, ProgramOK, StepsOK, LookOK
  <1>2. /\ DOMAIN outs = DOMAIN t.outs \cup {s.op, s.id}
        /\ \A x \in DOMAIN outs : outs[x] = out \/ (x \in DOMAIN t.outs /\ outs[x] = t.outs[x])
    BY DEF Bind
  <1> HIDE DEF outs
  <1>3. /\ Shape(u) /\ u.at = "steps" /\ u.prog = t.prog /\ u.todo = t.todo /\ u.look = NoDoc /\ u.base = t.base /\ u.rev = t.rev
        /\ u.cursor = t.cursor + 1 /\ u.outs = outs /\ u.handed = NoDoc
        /\ u.halted = (~out.ok /\ Halts(t.prog.policy)) /\ u.failed = (t.failed \/ ~out.ok)
        /\ u.task = t.task /\ u.doc = t.doc /\ u.before = t.before /\ u.disturbed = t.disturbed
    BY <1>1 DEF TurnOK, Formed, Shape, Fields, Recorded, outs
  <1> HIDE DEF u
  <1>4. Halts(t.prog.policy) \in BOOLEAN /\ t.failed \in BOOLEAN
    BY DEF Halts, TurnOK, Formed
  <1>5. Formed(u)
    BY <1>3, <1>4 DEF TurnOK, Formed
  <1>6. BaseOK(u, E, Su2)
    <2>1. \A d \in DOMAIN t.base : ~t.disturbed /\ <<d, t.before[d]>> \notin Su => t.base[d] \subseteq Faulty(t.before, d)
      BY DEF TurnOK, BaseOK
    <2> QED BY <1>3, <2>1 DEF BaseOK
  <1>7. StepsOK(u, E)
    <2>1. /\ u.cursor \in Nat \ {0}
          /\ u.halted => u.failed
          /\ u.failed /\ Halts(u.prog.policy) => u.halted
      BY <1>1, <1>3, <1>4
    <2>2. ~u.failed => \A x \in DOMAIN outs : outs[x].ok
      BY <1>2, <1>3 DEF TurnOK, StepsOK
    <2>3. \A x \in DOMAIN outs : outs[x].ok => outs[x].doc \in Docs
      BY <1>1, <1>2 DEF TurnOK, StepsOK
    <2>4. ASSUME ~u.failed, NEW k \in 1..Len(t.prog.steps), k < t.cursor + 1
          PROVE  /\ t.prog.steps[k].id \in DOMAIN outs /\ t.prog.steps[k].op \in DOMAIN outs
                 /\ t.prog.steps[k].arg.form = "path" => E[t.prog.steps[k].arg.of[1]] # Absent
      <3>1. CASE k = t.cursor
        BY <1>1, <1>2, <1>3, <2>4, <3>1
      <3>2. CASE k # t.cursor
        <4>1. k < t.cursor
          BY <1>1, <2>4, <3>2
        <4>2. /\ t.prog.steps[k].id \in DOMAIN t.outs /\ t.prog.steps[k].op \in DOMAIN t.outs
              /\ t.prog.steps[k].arg.form = "path" => D[t.prog.steps[k].arg.of[1]] # Absent
          BY <1>3, <2>4, <4>1 DEF TurnOK, StepsOK
        <4>3. t.prog.steps[k].arg.form = "path" => t.prog.steps[k].arg.of[1] \in Docs
          BY <1>1 DEF StepsInOrder
        <4> QED BY <1>2, <4>2, <4>3
      <3> QED BY <3>1, <3>2
    <2> QED BY <1>3, <2>1, <2>2, <2>3, <2>4 DEF StepsOK
  <1>8. TurnOK(u, E, Su2)
    BY <1>3, <1>5, <1>6, <1>7 DEF TurnOK, LookOK, PostsOK, RecordOK, AnswerOK
  <1> QED BY <1>8 DEF u

LEMMA PostsBeginOK ==
    ASSUME NEW D, NEW Su, NEW t, TurnOK(t, D, Su), t.at = "steps", t.handed = NoDoc,
           t.halted \/ t.cursor > Len(t.prog.steps), ~t.failed
    PROVE  TurnOK([t EXCEPT !.at = "posts", !.todo = IF t.prog.posts = {} THEN <<>> ELSE t.prog.touched], D, Su)
  <1> DEFINE todo == IF t.prog.posts = {} THEN <<>> ELSE t.prog.touched
             u == [t EXCEPT !.at = "posts", !.todo = todo]
  <1>1. /\ t.cursor \in Nat \ {0} /\ Numbered(t.prog.steps) /\ TouchedOK(t.prog) /\ t.look = NoDoc /\ ~t.halted
    BY DEF TurnOK, Formed, ProgramOK, StepsOK, LookOK
  <1>2. /\ todo \in Seq(Docs)
        /\ t.prog.posts # {} => todo = t.prog.touched
    BY <1>1 DEF TouchedOK
  <1> HIDE DEF todo
  <1>3. /\ Shape(u) /\ u.at = "posts" /\ u.prog = t.prog /\ u.todo = todo /\ u.look = NoDoc /\ u.base = t.base /\ u.rev = t.rev
        /\ u.cursor = t.cursor /\ u.outs = t.outs /\ u.handed = NoDoc /\ u.halted = t.halted /\ u.failed = t.failed
        /\ u.task = t.task /\ u.doc = t.doc /\ u.before = t.before /\ u.disturbed = t.disturbed
    BY <1>1 DEF TurnOK, Formed, Shape, Fields
  <1> HIDE DEF u
  <1>4. Formed(u)
    BY <1>2, <1>3 DEF TurnOK, Formed
  <1>5. BaseOK(u, D, Su)
    BY <1>3 DEF TurnOK, BaseOK
  <1>6. PostsOK(u, D, Su)
    <2>1. ASSUME NEW k \in 1..Len(t.prog.touched) PROVE D[t.prog.touched[k]] # Absent
      <3>1. PICK j \in 1..Len(t.prog.steps) :
               t.prog.steps[j].arg.form = "path" /\ t.prog.touched[k] = t.prog.steps[j].arg.of[1]
        BY <1>1 DEF TouchedOK
      <3>2. j < t.cursor
        BY <1>1 DEF Numbered
      <3> QED BY <3>1, <3>2 DEF TurnOK, StepsOK
    <2>2. t.prog.posts = {} => \A d : Kept(u, D, Su, d)
      BY <1>3 DEF Kept
    <2> QED BY <1>2, <1>3, <2>1, <2>2 DEF PostsOK
  <1>7. TurnOK(u, D, Su)
    BY <1>3, <1>4, <1>5, <1>6 DEF TurnOK, LookOK, StepsOK, RecordOK, AnswerOK
  <1> QED BY <1>7 DEF u, todo
-----------------------------------------------------------------------------
LEMMA VerifyIsOK ==
    ASSUME NEW D, NEW Su, NEW t, TurnOK(t, D, Su), t.at = "answered", t.task # 0
    PROVE  TurnOK([t EXCEPT !.at = "verify", !.todo = <<t.doc>>, !.answer = "none"], D, Su)
  <1> DEFINE u == [t EXCEPT !.at = "verify", !.todo = <<t.doc>>, !.answer = "none"]
  <1>1. /\ Shape(u) /\ u.at = "verify" /\ u.prog = t.prog /\ u.todo = <<t.doc>> /\ u.look = t.look /\ u.base = t.base
        /\ u.rev = t.rev /\ u.cursor = t.cursor /\ u.outs = t.outs /\ u.handed = t.handed /\ u.halted = t.halted /\ u.failed = t.failed
        /\ u.task = t.task /\ u.doc = t.doc /\ u.before = t.before /\ u.disturbed = t.disturbed
    BY DEF TurnOK, Formed, Shape, Fields
  <1> HIDE DEF u
  <1>2. t.doc \in Docs /\ t.look = NoDoc
    BY DEF TurnOK, Formed, LookOK
  <1>3. <<t.doc>> \in Seq(Docs)
    BY <1>2
  <1>4. Formed(u)
    BY <1>1, <1>3 DEF TurnOK, Formed
  <1>5. TurnOK(u, D, Su)
    BY <1>1, <1>2, <1>4 DEF TurnOK, LookOK, BaseOK, StepsOK, PostsOK, RecordOK, AnswerOK
  <1> QED BY <1>5 DEF u

\* What a write of x by another caller leaves of a turn.
LEMMA OthersAreOK ==
    ASSUME NEW D, D \in [Docs -> {Absent} \cup Revisions], NEW Su, NEW t, TurnOK(t, D, Su),
           NEW x \in Docs, NEW text \in Revisions, NEW Su2, Su \subseteq Su2,
           t.look # NoDoc /\ x = t.look => <<t.look, t.rev>> \in Su2
    PROVE  TurnOK([t EXCEPT !.disturbed = t.at # "idle"], [D EXCEPT ![x] = text], Su2)
  <1> DEFINE E == [D EXCEPT ![x] = text]
             u == [t EXCEPT !.disturbed = t.at # "idle"]
  <1>1. /\ Shape(u) /\ u.at = t.at /\ u.prog = t.prog /\ u.todo = t.todo /\ u.look = t.look /\ u.base = t.base
        /\ u.rev = t.rev /\ u.cursor = t.cursor /\ u.outs = t.outs /\ u.handed = t.handed /\ u.halted = t.halted /\ u.failed = t.failed
        /\ u.answer = t.answer /\ u.task = t.task /\ u.doc = t.doc /\ u.before = t.before /\ u.disturbed = (t.at # "idle")
    BY DEF TurnOK, Formed, Shape, Fields
  <1>2. \A d \in Docs : (d # x => E[d] = D[d]) /\ (D[d] # Absent => E[d] # Absent)
    BY AbsentIsNoText
  <1> HIDE DEF u, E
  <1>3. Formed(u)
    BY <1>1 DEF TurnOK, Formed
  <1>4. LookOK(u, E, Su2)
    <2>1. SUFFICES ASSUME t.look # NoDoc PROVE LookOK(u, E, Su2)
      BY <1>1 DEF LookOK
    <2>2. t.look \in Docs
      BY <2>1 DEF TurnOK, Formed, LookOK
    <2> QED BY <1>1, <1>2, <2>1, <2>2 DEF TurnOK, LookOK
  <1>5. BaseOK(u, E, Su2)
    BY <1>1 DEF BaseOK
  <1>6. StepsOK(u, E)
    <2>1. SUFFICES ASSUME t.at = "steps" PROVE StepsOK(u, E)
      BY <1>1 DEF StepsOK
    <2>2. \A k \in 1..Len(t.prog.steps) : t.prog.steps[k].arg.form = "path" => t.prog.steps[k].arg.of[1] \in Docs
      BY DEF TurnOK, Formed, ProgramOK, StepsInOrder
    <2> QED BY <1>1, <1>2, <2>1, <2>2 DEF TurnOK, StepsOK
  <1>7. \A d : u.at # "idle" => Kept(u, E, Su2, d)
    BY <1>1 DEF Kept
  <1>8. PostsOK(u, E, Su2)
    <2>1. \A k \in 1..Len(t.prog.touched) : t.prog.touched[k] \in Docs
      BY DEF TurnOK, Formed, ProgramOK, TouchedOK
    <2> QED BY <1>1, <1>2, <1>7, <2>1 DEF TurnOK, PostsOK
  <1>9. RecordOK(u, E, Su2) /\ AnswerOK(u, E, Su2)
    BY <1>1, <1>7 DEF TurnOK, RecordOK, AnswerOK
  <1>10. TurnOK(u, E, Su2)
    BY <1>3, <1>4, <1>5, <1>6, <1>8, <1>9 DEF TurnOK
  <1> QED BY <1>10 DEF u, E

\* put keeps the entries that are there, or puts a good one in.
LEMMA RememberedIsOK ==
    ASSUME CacheOK(cache, content, suspect), NEW d, NEW rev, NEW found,
           EntryOK([doc |-> d, rev |-> rev, found |-> found], content, suspect)
    PROVE  CacheOK(Remembered(d, rev, found), content, suspect)
  <1> DEFINE entry == [doc |-> d, rev |-> rev, found |-> found]
             replaced == [k \in DOMAIN cache |-> IF cache[k].doc = d /\ cache[k].rev = rev THEN entry ELSE cache[k]]
             S == {e \in {entry} \cup {cache[k] : k \in DOMAIN cache} : EntryOK(e, content, suspect)}
             more == IF \E k \in DOMAIN cache : cache[k].doc = d /\ cache[k].rev = rev THEN replaced ELSE Append(cache, entry)
  <1>1. /\ Len(cache) \in Nat /\ DOMAIN cache = 1..Len(cache) /\ cache = [k \in 1..Len(cache) |-> cache[k]]
        /\ \A k \in 1..Len(cache) : EntryOK(cache[k], content, suspect)
    BY DEF CacheOK, Numbered
  <1>2. entry \in S
    OBVIOUS
  <1>3. \A k \in 1..Len(cache) : cache[k] \in S
    BY <1>1
  <1>4. \A e \in S : EntryOK(e, content, suspect)
    OBVIOUS
  <1> HIDE DEF S, entry
  <1>5. replaced \in Seq(S)
    <2>1. replaced \in [1..Len(cache) -> S]
      BY <1>1, <1>2, <1>3
    <2> QED BY <1>1, <2>1
  <1>6. Append(cache, entry) \in Seq(S)
    <2>1. cache \in [1..Len(cache) -> S]
      BY <1>1, <1>3
    <2>2. cache \in Seq(S)
      BY <1>1, <2>1
    <2> QED BY <1>2, <2>2
  <1>7. more \in Seq(S)
    BY <1>5, <1>6
  <1>8. Remembered(d, rev, found) = IF Len(more) > CacheCapacity THEN Tail(more) ELSE more
    BY DEF Remembered, entry
  <1> HIDE DEF more
  <1>9. Remembered(d, rev, found) \in Seq(S) \/ (more = <<>> /\ Remembered(d, rev, found) = Tail(more))
    BY <1>7, <1>8
  <1>10. more # <<>>
    <2>1. Append(cache, entry) # <<>>
      <3>1. cache \in Seq({cache[k] : k \in 1..Len(cache)})
        <4>1. cache \in [1..Len(cache) -> {cache[k] : k \in 1..Len(cache)}]
          BY <1>1
        <4> QED BY <1>1, <4>1
      <3>2. Len(Append(cache, entry)) = Len(cache) + 1
        BY <3>1
      <3>3. Len(<<>>) = 0 /\ Len(cache) + 1 # 0
        BY <1>1
      <3> HIDE DEF entry
      <3> QED BY <3>2, <3>3
    <2>2. (\E k \in DOMAIN cache : TRUE) => replaced # <<>>
      BY <1>1
    <2> QED BY <2>1, <2>2 DEF more
  <1>11. Remembered(d, rev, found) \in Seq(S)
    BY <1>9, <1>10
  <1> QED BY <1>4, <1>11 DEF CacheOK, Numbered

LEMMA CacheKept ==
    ASSUME NEW D, D \in [Docs -> {Absent} \cup Revisions], NEW Su, NEW ca, CacheOK(ca, D, Su),
           NEW x \in Docs, NEW text, NEW Su2, Su \subseteq Su2,
           \A k \in 1..Len(ca) : x \in Sheets[ca[k].doc] => <<ca[k].doc, ca[k].rev>> \in Su2
    PROVE  CacheOK(ca, [D EXCEPT ![x] = text], Su2)
  <1>1. ASSUME NEW k \in 1..Len(ca) PROVE EntryOK(ca[k], [D EXCEPT ![x] = text], Su2)
    <2>1. EntryOK(ca[k], D, Su)
      BY DEF CacheOK
    <2>2. x \notin Sheets[ca[k].doc] => SheetFaults([D EXCEPT ![x] = text], ca[k].doc) = SheetFaults(D, ca[k].doc)
      <3>1. D = [y \in Docs |-> D[y]] /\ ca[k].doc \in Docs
        BY <2>1 DEF EntryOK
      <3> QED BY <3>1, SheetFaultsKept
    <2>3. <<ca[k].doc, ca[k].rev>> \notin Su2 => <<ca[k].doc, ca[k].rev>> \notin Su /\ x \notin Sheets[ca[k].doc]
      OBVIOUS
    <2> QED BY <2>1, <2>2, <2>3 DEF EntryOK
  <1> QED BY <1>1 DEF CacheOK

LEMMA FactsKept ==
    ASSUME NEW ts, NEW Su, FactsOK(ts, Su), NEW Su2, Su \subseteq Su2
    PROVE  FactsOK(ts, Su2)
  <1>1. \A f : FactOK(f, Su) => FactOK(f, Su2)
    BY DEF FactOK
  <1> QED BY <1>1 DEF FactsOK

\* push_rolling: the list keeps what it has, but for the oldest.
LEMMA RollingIs ==
    ASSUME NEW list, Numbered(list), NEW x
    PROVE  LET new == Rolling(list, x)
           IN  Numbered(new) /\ \A k \in 1..Len(new) : new[k] = x \/ \E j \in 1..Len(list) : new[k] = list[j]
  <1> DEFINE S == {x} \cup {list[j] : j \in 1..Len(list)}
             l == [k \in 1..Len(list) |-> list[k]]
  <1>1. Len(list) \in Nat /\ DOMAIN list = 1..Len(list)
    BY DEF Numbered
  <1>2. \A k \in 1..Len(list) : list[k] \in S
    OBVIOUS
  <1>3. \A e \in S : e = x \/ \E j \in 1..Len(list) : e = list[j]
    OBVIOUS
  <1>4. x \in S
    OBVIOUS
  <1> HIDE DEF S
  <1>5. list \in Seq(S)
    <2>1. list = [k \in 1..Len(list) |-> list[k]]
      BY DEF Numbered
    <2>2. list \in [1..Len(list) -> S]
      BY <1>2, <2>1
    <2> QED BY <1>1, <2>2
  <1>6. Append(list, x) \in Seq(S)
    BY <1>4, <1>5
  <1>7. ASSUME Len(list) >= MaxList PROVE Append(Tail(list), x) \in Seq(S)
    <2>1. Len(list) >= 1
      BY <1>1, <1>7, ListAssumption
    <2>2. Tail(list) \in Seq(S)
      BY <1>5, <2>1
    <2> QED BY <1>4, <2>2
  <1>8. Rolling(list, x) = list \/ Rolling(list, x) \in Seq(S)
    BY <1>6, <1>7 DEF Rolling
  <1>9. Rolling(list, x) \in Seq(S)
    BY <1>5, <1>8
  <1>10. \A new \in Seq(S) : Numbered(new)
    BY DEF Numbered
  <1> QED BY <1>3, <1>9, <1>10

LEMMA FactAdded ==
    ASSUME NEW Su, FactsOK(task, Su), NEW id, NEW f, FactOK(f, Su)
    PROVE  FactsOK([task EXCEPT ![id].facts = Rolling(@, f)], Su)
  <1> DEFINE ts == [task EXCEPT ![id].facts = Rolling(@, f)]
             new == Rolling(task[id].facts, f)
  <1>1. CASE id \notin TaskIds
    <2>1. ts = task
      BY <1>1 DEF FactsOK
    <2> QED BY <2>1
  <1>2. CASE id \in TaskIds
    <2>1. DOMAIN ts = TaskIds /\ \A i \in TaskIds : i # id => ts[i] = task[i]
      BY <1>2 DEF FactsOK
    <2>2. DOMAIN ts[id] = {"constraints", "assumptions", "facts"} /\ ts[id].facts = new
      BY <1>2 DEF FactsOK
    <2>3. Numbered(task[id].facts) /\ \A k \in 1..Len(task[id].facts) : FactOK(task[id].facts[k], Su)
      BY <1>2 DEF FactsOK
    <2>4. Numbered(new) /\ \A k \in 1..Len(new) : new[k] = f \/ \E j \in 1..Len(task[id].facts) : new[k] = task[id].facts[j]
      BY <2>3, RollingIs
    <2>5. \A k \in 1..Len(new) : FactOK(new[k], Su)
      BY <2>3, <2>4
    <2> HIDE DEF ts, new
    <2> QED BY <2>1, <2>2, <2>4, <2>5 DEF FactsOK, ts
  <1> QED BY <1>1, <1>2
-----------------------------------------------------------------------------
\* A step of c that writes no document.
LEMMA OwnStep ==
    ASSUME AgentInv, NEW c \in Callers, NEW t, Go(c, t), TurnOK(t, content, suspect), UNCHANGED <<content, suspect>>,
           CacheOK(cache', content, suspect), FactsOK(task', suspect)
    PROVE  AgentInv'
  <1>1. \A e \in Callers : turn'[e] = IF e = c THEN t ELSE turn[e]
    BY DEF AgentInv, Go
  <1>2. turn' = [e \in Callers |-> turn'[e]]
    BY DEF AgentInv, Go
  <1>3. \A e \in Callers : TurnOK(turn'[e], content, suspect)
    BY <1>1 DEF AgentInv
  <1>4. content' \in [Docs -> {Absent} \cup Revisions] /\ content' = content /\ suspect' = suspect
    BY DEF AgentInv
  <1> QED BY <1>2, <1>3, <1>4 DEF AgentInv

LEMMA LookAtKeeps ==
    ASSUME AgentInv, NEW c \in Callers, LookAt(c), UNCHANGED taskVars
    PROVE  AgentInv'
  <1> DEFINE d == Head(turn[c].todo)
             t == [turn[c] EXCEPT !.rev = content[d]]
             known == Cached(d, content[d])
  <1>1. /\ turn[c].at \in {"baseline", "posts", "verify"} /\ turn[c].todo # <<>> /\ turn[c].look = NoDoc
        /\ TurnOK(turn[c], content, suspect)
    BY DEF LookAt, Looking, AgentInv
  <1>2. TurnOK(t, content, suspect)
    BY <1>1, RevReadIsOK
  <1>3. t.at = turn[c].at /\ t.todo = turn[c].todo /\ t.look = NoDoc /\ t.rev = content[d] /\ t.handed = NoDoc
    BY <1>1 DEF TurnOK, Formed, Shape, Fields
  <1>4. d \in Docs /\ content[d] \in {Absent} \cup Revisions
    BY <1>1 DEF TurnOK, Formed, AgentInv
  <1>5. CacheOK(cache', content, suspect) /\ FactsOK(task', suspect) /\ UNCHANGED <<content, suspect>>
    BY DEF AgentInv, LookAt, taskVars
  <1> HIDE DEF t
  <1>6. CASE content[d] = Absent /\ Go(c, IF t.at = "verify" THEN CouldNotRun(t) ELSE Judged(t, d, {}))
    <2>1. CASE t.at = "verify"
      <3>1. CouldNotRun(t) = Answered(t, "verification failed")
        BY <2>1 DEF CouldNotRun
      <3>2. TurnOK(Answered(t, "verification failed"), content, suspect)
        <4>1. Formed(t)
          BY <1>2 DEF TurnOK
        <4> QED BY <1>3, <4>1, AnsweredIsOK
      <3>3. Go(c, Answered(t, "verification failed"))
        BY <1>6, <2>1, <3>1
      <3> QED BY <1>5, <3>2, <3>3, OwnStep
    <2>2. CASE t.at # "verify"
      <3>1. TurnOK(Judged(t, d, {}), content, suspect)
        BY <1>1, <1>2, <1>3, <1>6, <2>2, JudgedIsOK
      <3>2. Go(c, Judged(t, d, {}))
        BY <1>6, <2>2
      <3> QED BY <1>5, <3>1, <3>2, OwnStep
    <2> QED BY <2>1, <2>2
  <1>7. CASE content[d] # Absent /\ known # {} /\ Go(c, Judged(t, d, cache[CHOOSE k \in known : TRUE].found))
    <2> DEFINE k == CHOOSE e \in known : TRUE
               found == cache[k].found
    <2>1. k \in known
      BY <1>7
    <2>2. k \in 1..Len(cache) /\ cache[k].doc = d /\ cache[k].rev = content[d]
      BY <2>1 DEF Cached, AgentInv, CacheOK, Numbered
    <2>3. EntryOK(cache[k], content, suspect)
      BY <2>2 DEF AgentInv, CacheOK
    <2> HIDE DEF k
    <2>4. Faulty(content, d) = content[d] \cup SheetFaults(content, d)
      BY <1>7, FaultsSplit
    <2>5. <<d, content[d]>> \notin suspect => found = Faulty(content, d)
      BY <2>2, <2>3, <2>4 DEF EntryOK
    <2>6. content[d] \in Revisions
      BY <1>4, <1>7
    <2> HIDE DEF found
    <2>7. TurnOK(Judged(t, d, found), content, suspect)
      BY <1>1, <1>2, <1>3, <2>5, <2>6, JudgedIsOK
    <2>8. Go(c, Judged(t, d, found))
      BY <1>7 DEF found, k
    <2> QED BY <1>5, <2>7, <2>8, OwnStep
  <1>8. CASE content[d] # Absent /\ known = {} /\ Go(c, [t EXCEPT !.look = d])
    <2>1. TurnOK([t EXCEPT !.look = d], content, suspect)
      BY <1>1, <1>2, <1>3, <1>4, <1>8, MissIsOK
    <2> QED BY <1>5, <1>8, <2>1, OwnStep
  <1> QED BY <1>6, <1>7, <1>8 DEF LookAt, t

LEMMA FindingsAre == \A d : Findings(d) = Faulty(content, d)
  BY DEF Findings, Faulty

LEMMA ValidatedKeeps ==
    ASSUME AgentInv, NEW c \in Callers, Validated(c), UNCHANGED taskVars
    PROVE  AgentInv'
  <1> DEFINE t == turn[c]
             d == t.look
             found == Findings(d)
  <1>1. TurnOK(t, content, suspect) /\ d # NoDoc
    BY DEF Validated, AgentInv
  <1>2. /\ t.at \in {"baseline", "posts", "verify"} /\ t.todo # <<>> /\ d = Head(t.todo) /\ t.rev \in Revisions
        /\ <<d, t.rev>> \notin suspect => content[d] = t.rev
    BY <1>1 DEF TurnOK, LookOK
  <1>3. d \in Docs /\ Formed(t) /\ t.handed = NoDoc
    BY <1>1, <1>2 DEF TurnOK, Formed
  <1>4. found = Faulty(content, d)
    BY FindingsAre
  <1>5. FactsOK(task', suspect) /\ UNCHANGED <<content, suspect>>
    BY DEF AgentInv, Validated, taskVars
  <1>6. CASE cache' = Remembered(d, t.rev, found) /\ Go(c, Judged(t, d, found))
    <2>1. EntryOK([doc |-> d, rev |-> t.rev, found |-> found], content, suspect)
      <3>1. <<d, t.rev>> \notin suspect => found = t.rev \cup SheetFaults(content, d)
        BY <1>2, <1>4, FaultsSplit, AbsentIsNoText
      <3> QED BY <1>2, <1>3, <3>1 DEF EntryOK
    <2>2. CacheOK(cache', content, suspect)
      BY <1>6, <2>1, RememberedIsOK DEF AgentInv
    <2>3. TurnOK(Judged(t, d, found), content, suspect)
      BY <1>1, <1>2, <1>4, JudgedIsOK
    <2> QED BY <1>5, <1>6, <2>2, <2>3, OwnStep
  <1>7. CASE Go(c, CouldNotRun(t)) /\ UNCHANGED cache
    <2>1. TurnOK(CouldNotRun(t), content, suspect)
      BY <1>3, AnsweredIsOK DEF CouldNotRun
    <2>2. CacheOK(cache', content, suspect)
      BY <1>7 DEF AgentInv
    <2> QED BY <1>5, <1>7, <2>1, <2>2, OwnStep
  <1> QED BY <1>6, <1>7 DEF Validated

LEMMA LookedKeeps ==
    ASSUME AgentInv, NEW c \in Callers, Looked(c), UNCHANGED taskVars
    PROVE  AgentInv'
  <1> DEFINE t == turn[c]
  <1>1. TurnOK(t, content, suspect) /\ t.todo = <<>>
    BY DEF Looked, AgentInv
  <1>2. CacheOK(cache', content, suspect) /\ FactsOK(task', suspect) /\ UNCHANGED <<content, suspect>>
    BY DEF AgentInv, Looked, taskVars
  <1>3. CASE t.at = "baseline" /\ Go(c, [t EXCEPT !.at = "steps"])
    BY <1>1, <1>2, <1>3, StepsBeginOK, OwnStep
  <1>4. CASE t.at = "posts" /\ Go(c, Answered(t, "ok"))
    <2>1. \A k \in 1..Len(t.prog.touched) : Kept(t, content, suspect, t.prog.touched[k])
      BY <1>1, <1>4 DEF TurnOK, PostsOK
    <2>2. Formed(t) /\ t.handed = NoDoc
      BY <1>1, <1>4 DEF TurnOK, Formed
    <2>3. TurnOK(Answered(t, "ok"), content, suspect)
      BY <2>1, <2>2, AnsweredIsOK
    <2> QED BY <1>2, <1>4, <2>3, OwnStep
  <1> QED BY <1>3, <1>4 DEF Looked

LEMMA NextStepKeeps ==
    ASSUME AgentInv, NEW c \in Callers, NextStep(c), UNCHANGED taskVars
    PROVE  AgentInv'
  <1> DEFINE t == turn[c]
             s == t.prog.steps[t.cursor]
             u == [t EXCEPT !.handed = IF s.arg.form = "ref" THEN t.outs[s.arg.of].doc ELSE s.arg.of[1]]
  <1>1. TurnOK(t, content, suspect) /\ t.at = "steps" /\ t.handed = NoDoc /\ ~t.halted /\ t.cursor <= Len(t.prog.steps)
    BY DEF NextStep, AgentInv
  <1>2. CacheOK(cache', content, suspect) /\ FactsOK(task', suspect) /\ UNCHANGED <<content, suspect>>
    BY DEF AgentInv, NextStep, taskVars
  <1>3. /\ Resolved(t, s) => TurnOK(u, content, suspect)
        /\ ~Resolved(t, s) => TurnOK(Unresolved(t, s), content, suspect)
    BY <1>1, NextStepIsOK
  <1>4. Go(c, IF Resolved(t, s) THEN u ELSE Unresolved(t, s))
    BY DEF NextStep
  <1> HIDE DEF u, s
  <1>5. Resolved(t, s) => Go(c, u)
    BY <1>4
  <1>6. ~Resolved(t, s) => Go(c, Unresolved(t, s))
    BY <1>4
  <1> QED BY <1>2, <1>3, <1>5, <1>6, OwnStep

LEMMA CallKeeps ==
    ASSUME AgentInv, NEW c \in Callers, Call(c), UNCHANGED taskVars
    PROVE  AgentInv'
  <1> DEFINE t == turn[c]
             s == t.prog.steps[t.cursor]
             x == t.handed
  <1>1. TurnOK(t, content, suspect) /\ t.at = "steps" /\ t.handed # NoDoc
    BY DEF Call, AgentInv
  <1>2. x \in Docs /\ UNCHANGED <<cache, task>>
    BY <1>1 DEF TurnOK, StepsOK, Call, taskVars
  <1>3. CASE Go(c, Recorded(t, s, ErrorOutput)) /\ UNCHANGED <<content, suspect>>
    <2>1. ErrorOutput.ok \in BOOLEAN /\ (ErrorOutput.ok => ErrorOutput.doc = t.handed /\ content[t.handed] # Absent)
      BY DEF ErrorOutput
    <2>2. suspect \subseteq suspect /\ (\A d \in Docs : content[d] # Absent => content[d] # Absent)
      OBVIOUS
    <2>3. TurnOK(Recorded(t, s, ErrorOutput), content, suspect)
      BY <1>1, <2>1, <2>2, RecordedIsOK
    <2>4. CacheOK(cache', content, suspect) /\ FactsOK(task', suspect)
      BY <1>2 DEF AgentInv
    <2> QED BY <1>3, <2>3, <2>4, OwnStep
  <1>4. ASSUME NEW text \in Revisions, Write(c, x, text, Recorded(t, s, [ok |-> TRUE, doc |-> x]))
        PROVE  AgentInv'
    <2> DEFINE out == [ok |-> TRUE, doc |-> x]
               E == [content EXCEPT ![x] = text]
    <2>1. content' = E /\ suspect' = suspect \cup Suspects(x) /\ suspect \subseteq suspect'
      BY <1>4 DEF Write
    <2>2. content \in [Docs -> {Absent} \cup Revisions]
      BY DEF AgentInv
    <2>3. E \in [Docs -> {Absent} \cup Revisions] /\ E[x] # Absent /\ \A d \in Docs : content[d] # Absent => E[d] # Absent
      BY <1>2, <2>2, AbsentIsNoText
    <2>4. TurnOK(Recorded(t, s, out), E, suspect')
      <3>1. out.ok \in BOOLEAN /\ (out.ok => out.doc = t.handed /\ E[t.handed] # Absent)
        BY <2>3
      <3> HIDE DEF out, E
      <3> QED BY <1>1, <2>1, <2>3, <3>1, RecordedIsOK
    <2>5. \A e \in Callers : turn'[e] = IF e = c THEN Recorded(t, s, out) ELSE [turn[e] EXCEPT !.disturbed = turn[e].at # "idle"]
      BY <1>4 DEF Write
    <2>6. turn' = [e \in Callers |-> turn'[e]]
      BY <1>4 DEF Write
    <2>7. ASSUME NEW e \in Callers, e # c PROVE TurnOK(turn'[e], E, suspect')
      <3>1. TurnOK(turn[e], content, suspect)
        BY DEF AgentInv
      <3>2. turn[e].look # NoDoc /\ x = turn[e].look => <<turn[e].look, turn[e].rev>> \in suspect'
        BY <2>1 DEF Suspects
      <3>3. turn'[e] = [turn[e] EXCEPT !.disturbed = turn[e].at # "idle"]
        BY <2>5, <2>7
      <3> HIDE DEF E
      <3>4. TurnOK([turn[e] EXCEPT !.disturbed = turn[e].at # "idle"], [content EXCEPT ![x] = text], suspect')
        BY <1>2, <2>1, <2>2, <3>1, <3>2, OthersAreOK
      <3> QED BY <3>3, <3>4 DEF E
    <2>8. CacheOK(cache, E, suspect')
      <3>1. CacheOK(cache, content, suspect) /\ DOMAIN cache = 1..Len(cache)
        BY DEF AgentInv, CacheOK, Numbered
      <3>2. \A k \in 1..Len(cache) : x \in Sheets[cache[k].doc] => <<cache[k].doc, cache[k].rev>> \in suspect'
        BY <2>1, <3>1 DEF Suspects
      <3> QED BY <1>2, <2>1, <2>2, <3>1, <3>2, CacheKept
    <2>9. FactsOK(task, suspect')
      BY <2>1, FactsKept DEF AgentInv
    <2>10. \A e \in Callers : TurnOK(turn'[e], content', suspect')
      BY <2>1, <2>4, <2>5, <2>7
    <2> QED BY <1>2, <2>1, <2>3, <2>6, <2>8, <2>9, <2>10 DEF AgentInv
  <1>5. {} \in Revisions
    BY DEF Revisions
  <1> QED BY <1>3, <1>4, <1>5 DEF Call

LEMMA StepsDoneKeeps ==
    ASSUME AgentInv, NEW c \in Callers, StepsDone(c), UNCHANGED taskVars
    PROVE  AgentInv'
  <1> DEFINE t == turn[c]
             u == [t EXCEPT !.at = "posts", !.todo = IF t.prog.posts = {} THEN <<>> ELSE t.prog.touched]
  <1>1. TurnOK(t, content, suspect) /\ t.at = "steps" /\ t.handed = NoDoc /\ (t.halted \/ t.cursor > Len(t.prog.steps))
    BY DEF StepsDone, AgentInv
  <1>2. CacheOK(cache', content, suspect) /\ FactsOK(task', suspect) /\ UNCHANGED <<content, suspect>>
    BY DEF AgentInv, StepsDone, taskVars
  <1>3. CASE t.failed
    <2>1. Go(c, Answered(t, "failed"))
      BY <1>3 DEF StepsDone
    <2>2. Formed(t)
      BY <1>1 DEF TurnOK
    <2>3. TurnOK(Answered(t, "failed"), content, suspect)
      BY <1>1, <2>2, AnsweredIsOK
    <2> QED BY <1>2, <2>1, <2>3, OwnStep
  <1>4. CASE ~t.failed
    <2>1. Go(c, u)
      BY <1>4 DEF StepsDone
    <2>2. TurnOK(u, content, suspect)
      BY <1>1, <1>4, PostsBeginOK
    <2> HIDE DEF u
    <2> QED BY <1>2, <2>1, <2>2, OwnStep
  <1> QED BY <1>3, <1>4
-----------------------------------------------------------------------------
LEMMA ApplyKeeps ==
    ASSUME AgentInv, NEW c \in Callers, NEW plan \in Plans, Apply(c, plan), UNCHANGED taskVars
    PROVE  AgentInv'
  <1>1. TurnOK(Built(Idle, plan), content, suspect)
    BY IdleIsOK, BuiltIsOK
  <1>2. CacheOK(cache', content, suspect) /\ FactsOK(task', suspect) /\ UNCHANGED <<content, suspect>>
    BY DEF AgentInv, Apply, taskVars
  <1>3. Go(c, Built(Idle, plan))
    BY DEF Apply
  <1> QED BY <1>1, <1>2, <1>3, OwnStep

LEMMA AskAgentKeeps ==
    ASSUME AgentInv, NEW c \in Callers, NEW id, NEW d \in Checked, AskAgent(c, id, d)
    PROVE  AgentInv'
  <1>1. CacheOK(cache', content, suspect) /\ FactsOK(task', suspect) /\ UNCHANGED <<content, suspect>>
    BY DEF AgentInv, AskAgent, taskVars
  <1>2. PICK at \in {"model", "verify"} :
           Go(c, IF Held(id) THEN Asked(c, id, d, at) ELSE Answered(Asked(c, id, d, at), "failed"))
    BY DEF AskAgent
  <1>3. TurnOK(Asked(c, id, d, at), content, suspect) /\ Asked(c, id, d, at).handed = NoDoc
    BY AskedIsOK, AgentsAssumption
  <1>4. TurnOK(Answered(Asked(c, id, d, at), "failed"), content, suspect)
    <2>1. Formed(Asked(c, id, d, at))
      BY <1>3 DEF TurnOK
    <2> QED BY <1>3, <2>1, AnsweredIsOK
  <1> QED BY <1>1, <1>2, <1>3, <1>4, OwnStep

\* The lists that are no verdicts do not matter.
LEMMA OtherListsKeep ==
    ASSUME NEW Su, FactsOK(task, Su), NEW id, NEW list
    PROVE  /\ FactsOK([task EXCEPT ![id].assumptions = list], Su)
           /\ FactsOK([task EXCEPT ![id].constraints = list], Su)
  <1>1. ASSUME NEW field \in {"assumptions", "constraints"}, NEW ts,
               ts = [task EXCEPT ![id] = [task[id] EXCEPT ![field] = list]]
        PROVE  FactsOK(ts, Su)
    <2>1. DOMAIN ts = TaskIds /\ ts = [i \in TaskIds |-> ts[i]]
      BY <1>1 DEF FactsOK
    <2>2. ASSUME NEW i \in TaskIds
          PROVE  DOMAIN ts[i] = {"constraints", "assumptions", "facts"} /\ ts[i].facts = task[i].facts
      BY <1>1 DEF FactsOK
    <2> QED BY <2>1, <2>2 DEF FactsOK
  <1>2. [task EXCEPT ![id].assumptions = list] = [task EXCEPT ![id] = [task[id] EXCEPT !["assumptions"] = list]]
    OBVIOUS
  <1>3. [task EXCEPT ![id].constraints = list] = [task EXCEPT ![id] = [task[id] EXCEPT !["constraints"] = list]]
    OBVIOUS
  <1> QED BY <1>1, <1>2, <1>3

LEMMA ProposeKeeps ==
    ASSUME AgentInv, NEW c \in Callers, Propose(c)
    PROVE  AgentInv'
  <1> DEFINE t == turn[c]
  <1>1. TurnOK(t, content, suspect) /\ t.at = "model" /\ UNCHANGED <<content, cache, suspect>>
    BY DEF AgentInv, Propose
  <1>2. CacheOK(cache', content, suspect)
    BY <1>1 DEF AgentInv
  <1>3. Formed(t) /\ t.handed = NoDoc
    BY <1>1 DEF TurnOK, Formed
  <1>4. CASE Go(c, Answered(t, "failed")) /\ UNCHANGED taskVars
    <2>1. TurnOK(Answered(t, "failed"), content, suspect)
      BY <1>3, AnsweredIsOK
    <2>2. FactsOK(task', suspect)
      BY <1>4 DEF AgentInv, taskVars
    <2> QED BY <1>1, <1>2, <1>4, <2>1, <2>2, OwnStep
  <1>5. ASSUME NEW plan \in Plans, Go(c, Built(t, plan)), AddAssumption(t.task, plan.posts)
        PROVE  AgentInv'
    <2>1. TurnOK(Built(t, plan), content, suspect)
      BY <1>1, BuiltIsOK
    <2>2. FactsOK(task', suspect)
      BY <1>5, OtherListsKeep DEF AgentInv, AddAssumption
    <2> QED BY <1>1, <1>2, <1>5, <2>1, <2>2, OwnStep
  <1> QED BY <1>4, <1>5 DEF Propose

LEMMA VerifyKeeps ==
    ASSUME AgentInv, NEW c \in Callers, Verify(c)
    PROVE  AgentInv'
  <1> DEFINE t == turn[c]
             u == [t EXCEPT !.at = "verify", !.todo = <<t.doc>>, !.answer = "none"]
  <1>1. TurnOK(t, content, suspect) /\ t.at = "answered" /\ t.task # 0
    BY DEF AgentInv, Verify
  <1>2. CacheOK(cache', content, suspect) /\ FactsOK(task', suspect) /\ UNCHANGED <<content, suspect>>
    BY DEF AgentInv, Verify, taskVars
  <1>3. TurnOK(u, content, suspect)
    BY <1>1, VerifyIsOK
  <1>4. TurnOK(Answered(t, "verification failed"), content, suspect)
    <2>1. Formed(t) /\ t.handed = NoDoc
      BY <1>1 DEF TurnOK, Formed
    <2> QED BY <2>1, AnsweredIsOK
  <1>5. Go(c, u) \/ Go(c, Answered(t, "verification failed"))
    BY DEF Verify
  <1> HIDE DEF u
  <1> QED BY <1>2, <1>3, <1>4, <1>5, OwnStep

LEMMA RecordKeeps ==
    ASSUME AgentInv, NEW c \in Callers, Record(c)
    PROVE  AgentInv'
  <1> DEFINE t == turn[c]
             pass == t.base[t.doc] = {}
             fact == [doc |-> t.doc, rev |-> t.rev, pass |-> pass]
             a == IF pass THEN "success" ELSE "verification failed"
  <1>1. TurnOK(t, content, suspect) /\ t.at = "record" /\ UNCHANGED <<content, cache, suspect>>
    BY DEF AgentInv, Record
  <1>2. CacheOK(cache', content, suspect)
    BY <1>1 DEF AgentInv
  <1>3. Formed(t) /\ t.handed = NoDoc /\ RecordOK(t, content, suspect)
    BY <1>1 DEF TurnOK, Formed
  <1>4. TurnOK(Answered(t, "verification failed"), content, suspect)
    BY <1>3, AnsweredIsOK
  <1>5. TurnOK(Answered(t, a), content, suspect)
    <2>1. CASE pass
      <3>1. ~t.disturbed /\ <<t.doc, t.rev>> \notin suspect => Faulty(content, t.doc) = {}
        BY <1>1, <1>3, <2>1 DEF RecordOK
      <3>2. TurnOK(Answered(t, "success"), content, suspect)
        BY <1>3, <3>1, AnsweredIsOK
      <3> QED BY <2>1, <3>2
    <2>2. CASE ~pass
      BY <1>4, <2>2
    <2> QED BY <2>1, <2>2
  <1>6. FactOK(fact, suspect)
    <2>1. fact.doc = t.doc /\ fact.rev = t.rev /\ (fact.pass <=> t.base[t.doc] = {}) /\ fact.pass \in BOOLEAN
      OBVIOUS
    <2> HIDE DEF fact
    <2> QED BY <1>1, <1>3, <2>1 DEF FactOK, RecordOK
  <1>7. CASE Held(t.task)
    <2>1. AddVerifiedFact(t.task, fact) /\ Go(c, Answered(t, a))
      BY <1>7 DEF Record
    <2> HIDE DEF fact, a
    <2>2. task' = [task EXCEPT ![t.task].facts = Rolling(@, fact)]
      BY <2>1 DEF AddVerifiedFact
    <2>3. FactsOK(task', suspect)
      BY <1>6, <2>2, FactAdded DEF AgentInv
    <2> QED BY <1>1, <1>2, <1>5, <2>1, <2>3, OwnStep
  <1>8. CASE ~Held(t.task)
    <2>1. Go(c, Answered(t, "verification failed")) /\ UNCHANGED taskVars
      BY <1>8 DEF Record
    <2>2. FactsOK(task', suspect)
      BY <2>1 DEF AgentInv, taskVars
    <2> QED BY <1>1, <1>2, <1>4, <2>1, <2>2, OwnStep
  <1> QED BY <1>7, <1>8

LEMMA ReturnKeeps ==
    ASSUME AgentInv, NEW c \in Callers, Return(c)
    PROVE  AgentInv'
  <1>1. CacheOK(cache', content, suspect) /\ FactsOK(task', suspect) /\ UNCHANGED <<content, suspect>>
    BY DEF AgentInv, Return, taskVars
  <1>2. Go(c, Idle) /\ TurnOK(Idle, content, suspect)
    BY IdleIsOK DEF Return
  <1> QED BY <1>1, <1>2, OwnStep

LEMMA UserKeeps ==
    ASSUME AgentInv, UNCHANGED planVars, StartTask \/ \E id \in TaskIds, x \in Constraints : AddConstraint(id, x)
    PROVE  AgentInv'
  <1>1. FactsOK(task', suspect)
    <2>1. CASE StartTask
      BY <2>1 DEF StartTask, AgentInv
    <2>2. CASE \E id \in TaskIds, x \in Constraints : AddConstraint(id, x)
      <3>1. PICK id \in TaskIds, x \in Constraints : AddConstraint(id, x)
        BY <2>2
      <3> DEFINE old == task[id].constraints
                 list == IF Contains(old, x) THEN old ELSE Append(old, x)
      <3>2. task' = [task EXCEPT ![id].constraints = list]
        BY <3>1 DEF AddConstraint
      <3>3. suspect' = suspect
        BY DEF planVars
      <3> HIDE DEF list
      <3> QED BY <3>2, <3>3, OtherListsKeep DEF AgentInv
    <2> QED BY <2>1, <2>2
  <1> QED BY <1>1 DEF AgentInv, planVars

LEMMA AgentInvInitially == AgentInit => AgentInv
  <1> SUFFICES ASSUME AgentInit PROVE AgentInv
    OBVIOUS
  <1>1. content \in [Docs -> {Absent} \cup Revisions]
    BY PlanAssumption DEF AgentInit, PlanInit
  <1>2. CacheOK(cache, content, suspect)
    BY DEF AgentInit, PlanInit, CacheOK, Numbered
  <1>3. turn = [c \in Callers |-> turn[c]] /\ \A c \in Callers : TurnOK(turn[c], content, suspect)
    BY IdleIsOK DEF AgentInit, PlanInit
  <1>4. FactsOK(task, suspect)
    <2>1. \A id \in TaskIds : task[id] = NewTask
      BY DEF AgentInit, TaskInit
    <2>2. DOMAIN NewTask = {"constraints", "assumptions", "facts"} /\ NewTask.facts = <<>>
      BY DEF NewTask
    <2>3. Numbered(<<>>) /\ Len(<<>>) = 0
      BY DEF Numbered
    <2> QED BY <2>1, <2>2, <2>3 DEF AgentInit, TaskInit, FactsOK
  <1> QED BY <1>1, <1>2, <1>3, <1>4 DEF AgentInv

\* One lemma per action; a write by another caller is the case OthersAreOK.
LEMMA AgentInvInductive == AgentInv /\ [AgentNext]_agentVars => AgentInv'
  <1> SUFFICES ASSUME AgentInv, [AgentNext]_agentVars PROVE AgentInv'
    OBVIOUS
  <1>1. ASSUME NEW c \in Callers, PlanStep(c), UNCHANGED taskVars PROVE AgentInv'
    BY <1>1, LookAtKeeps, ValidatedKeeps, LookedKeeps, NextStepKeeps, CallKeeps, StepsDoneKeeps DEF PlanStep
  <1>2. ASSUME NEW c \in Callers, ServeAgent(c) PROVE AgentInv'
    BY <1>1, <1>2, ProposeKeeps, VerifyKeeps, RecordKeeps, ReturnKeeps DEF ServeAgent
  <1>3. ASSUME NEW c \in Callers, NEW plan \in Plans, Apply(c, plan) /\ UNCHANGED taskVars PROVE AgentInv'
    BY <1>3, ApplyKeeps
  <1>4. ASSUME NEW c \in Callers, NEW id \in TaskIds, NEW d \in Checked, AskAgent(c, id, d) PROVE AgentInv'
    BY <1>4, AskAgentKeeps
  <1>5. CASE UNCHANGED agentVars
    BY <1>5 DEF agentVars, planVars, taskVars, AgentInv
  <1> QED BY <1>2, <1>3, <1>4, <1>5, UserKeeps DEF AgentNext

LEMMA AgentInvImplies == AgentInv => ReferencesResolve /\ AnswersAreTrue
  <1> SUFFICES ASSUME AgentInv PROVE ReferencesResolve /\ AnswersAreTrue
    OBVIOUS
  <1>1. ReferencesResolve
    <2> SUFFICES ASSUME NEW c \in Callers, turn[c].at = "steps", ~turn[c].halted,
                        turn[c].cursor <= Len(turn[c].prog.steps), Halts(turn[c].prog.policy)
                 PROVE  Resolved(turn[c], turn[c].prog.steps[turn[c].cursor])
      BY DEF ReferencesResolve
    <2>1. TurnOK(turn[c], content, suspect)
      BY DEF AgentInv
    <2>2. ~turn[c].failed
      BY <2>1 DEF TurnOK, StepsOK
    <2> QED BY <2>1, <2>2, NextIsResolved
  <1>2. FactsAreTrue
    <2> SUFFICES ASSUME NEW id \in TaskIds, NEW k \in DOMAIN task[id].facts
                 PROVE  LET f == task[id].facts[k]
                        IN  (Sheets[f.doc] = {} /\ <<f.doc, f.rev>> \notin suspect) => (f.pass <=> f.rev = {})
      BY DEF FactsAreTrue
    <2>1. FactOK(task[id].facts[k], suspect)
      BY DEF AgentInv, FactsOK, Numbered
    <2> QED BY <2>1 DEF FactOK
  <1>3. ASSUME NEW c \in Callers, turn[c].at = "answered", turn[c].answer = "ok", NEW k \in DOMAIN turn[c].prog.touched
        PROVE  LET t == turn[c]
                   d == t.prog.touched[k]
               IN  Trusted(t, d, content[d]) =>
                      /\ "erc_clean" \in t.prog.posts => Findings(d) = {}
                      /\ "erc" \in t.prog.posts /\ <<d, t.before[d]>> \notin suspect
                            => Findings(d) \subseteq FindingsBefore(t, d)
    <2> DEFINE t == turn[c]
               d == t.prog.touched[k]
    <2>1. TurnOK(t, content, suspect)
      BY DEF AgentInv
    <2>2. k \in 1..Len(t.prog.touched)
      BY <2>1 DEF TurnOK, Formed, ProgramOK, TouchedOK
    <2>3. Kept(t, content, suspect, d)
      BY <1>3, <2>1, <2>2 DEF TurnOK, AnswerOK
    <2>4. Findings(d) = Faulty(content, d) /\ FindingsBefore(t, d) = Faulty(t.before, d)
      BY DEF Findings, FindingsBefore, Faulty
    <2> HIDE DEF d, t
    <2>5. Trusted(t, d, content[d]) =>
                      /\ "erc_clean" \in t.prog.posts => Findings(d) = {}
                      /\ "erc" \in t.prog.posts /\ <<d, t.before[d]>> \notin suspect
                            => Findings(d) \subseteq FindingsBefore(t, d)
      BY <2>3, <2>4 DEF Kept, Trusted
    <2> QED BY <2>5 DEF d, t
  <1>4. ASSUME NEW c \in Callers, turn[c].at = "answered", turn[c].answer = "success",
               Trusted(turn[c], turn[c].doc, turn[c].rev)
        PROVE  Findings(turn[c].doc) = {}
    <2>1. TurnOK(turn[c], content, suspect)
      BY DEF AgentInv
    <2> QED BY <1>4, <2>1, FindingsAre DEF TurnOK, AnswerOK, Trusted
  <1>5. AnswersAreTrue
    BY <1>2, <1>3, <1>4 DEF AnswersAreTrue
  <1> QED BY <1>1, <1>5

\* For any plans and callers: a plan that stops at the first failure never meets a reference
\* that next_step cannot resolve, because compile's check covers whatever record binds.
THEOREM ReferencesAlwaysResolve == AgentSpec => []ReferencesResolve
  <1> QED BY AgentInvInitially, AgentInvInductive, AgentInvImplies, PTL DEF AgentSpec

\* For any plans, documents, sheets, callers and cache: apply_plan's ok, kicad_agent's success
\* and the verified facts of every task are true, unless another caller wrote meanwhile or the
\* verdict is suspect.
THEOREM AnswersAreAlwaysTrue == AgentSpec => []AnswersAreTrue
  <1> QED BY AgentInvInitially, AgentInvInductive, AgentInvImplies, PTL DEF AgentSpec
=============================================================================
