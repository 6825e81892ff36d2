------------------------- MODULE BoardReview_proofs -------------------------
(***************************************************************************)
(* Proofs about BoardReview, for any callers, kicad-cli runs, boards and   *)
(* sheets: that an answer of a call that has kicad-cli to itself is earned *)
(* (ReviewsHold).                                                          *)
(*                                                                         *)
(* The project is saved while a call is on its way, and every kicad-cli    *)
(* writes the one report of its board.  What carries a verdict is that the *)
(* run a call waits for is its own and the only one underway, so that the  *)
(* report is either gone or what that run made of the project it loaded,   *)
(* and that loading fell within the call.                                  *)
(***************************************************************************)
EXTENDS BoardReview, FiniteSetTheorems, WellFoundedInduction, TLAPS

(***************************************************************************)
(* Sequences.  The library's induction takes an operator, so what the      *)
(* recursion of FlattenSeq yields is shown by the least counterexample.    *)
(***************************************************************************)
LEMMA LeastNatural ==
    ASSUME NEW T, T \subseteq Nat, T # {}
    PROVE  \E x \in T : \A y \in T : x <= y
  <1> DEFINE R == {ss \in Nat \X Nat : ss[1] < ss[2]}
  <1>1. IsWellFoundedOn(R, Nat)
    BY NatLessThanWellFounded DEF OpToRel
  <1>2. PICK x \in T : \A y \in T : ~(<<y, x>> \in R)
    BY <1>1, WFMin
  <1>3. ASSUME NEW y \in T PROVE x <= y
    <2>1. x \in Nat /\ y \in Nat
      BY <1>2
    <2>2. <<y, x>> \in Nat \X Nat /\ <<y, x>>[1] = y /\ <<y, x>>[2] = x
      BY <2>1
    <2>3. ~(y < x)
      BY <1>2, <2>2
    <2> QED BY <2>1, <2>3
  <1> QED BY <1>3

\* f is an unfolding of step over 1..n that starts with start: a recursion along a sequence.
Unfolds(f, start, step, n) ==
    f = [i \in 0..n |-> IF i = 0 THEN start ELSE step[<<f[i - 1], i>>]]

LEMMA RecursionIsDefined ==
    ASSUME NEW X, NEW n \in Nat, NEW start \in X, NEW step \in [X \X (1..n) -> X]
    PROVE  \A m \in 0..n : \E f : Unfolds(f, start, step, m) /\ f[m] \in X
  <1> DEFINE Bad == {m \in 0..n : ~ \E f : Unfolds(f, start, step, m) /\ f[m] \in X}
  <1>1. SUFFICES ASSUME Bad # {} PROVE FALSE
    OBVIOUS
  <1>2. PICK m \in Bad : \A y \in Bad : m <= y
    <2>1. Bad \subseteq Nat
      OBVIOUS
    <2> HIDE DEF Bad
    <2> QED BY <1>1, <2>1, LeastNatural
  <1>3. m # 0
    <2> DEFINE f == [i \in 0..0 |-> start]
    <2>1. f = [i \in 0..0 |-> IF i = 0 THEN start ELSE step[<<f[i - 1], i>>]] /\ f[0] \in X
      OBVIOUS
    <2>2. Unfolds(f, start, step, 0)
      BY <2>1 DEF Unfolds
    <2> QED BY <2>1, <2>2
  <1>4. m \in 1..n /\ m - 1 \in 0..n /\ m - 1 \notin Bad
    BY <1>2, <1>3
  <1>5. PICK f : Unfolds(f, start, step, m - 1) /\ f[m - 1] \in X
    BY <1>4
  <1> DEFINE g == [i \in 0..m |-> IF i = m THEN step[<<f[m - 1], m>>] ELSE f[i]]
  <1>6. ASSUME NEW i \in 0..m PROVE g[i] = IF i = 0 THEN start ELSE step[<<g[i - 1], i>>]
    <2>1. CASE i = m
      <3>1. m - 1 \in 0..m /\ m - 1 # m /\ m \in 0..m
        BY <1>4
      <3>2. g[m - 1] = f[m - 1] /\ g[m] = step[<<f[m - 1], m>>]
        BY <3>1
      <3> HIDE DEF g
      <3> QED BY <1>3, <2>1, <3>2
    <2>2. CASE i # m
      <3>1. i \in 0..(m - 1) /\ (i # 0 => i - 1 \in 0..m /\ i - 1 # m)
        BY <1>4, <2>2
      <3>2. f[i] = IF i = 0 THEN start ELSE step[<<f[i - 1], i>>]
        BY <1>5, <3>1 DEF Unfolds
      <3>3. g[i] = f[i] /\ (i # 0 => g[i - 1] = f[i - 1])
        BY <2>2, <3>1
      <3> HIDE DEF g
      <3> QED BY <3>2, <3>3
    <2> QED BY <2>1, <2>2
  <1>7. g = [i \in 0..m |-> IF i = 0 THEN start ELSE step[<<g[i - 1], i>>]]
    <2>1. g = [i \in 0..m |-> g[i]]
      OBVIOUS
    <2> HIDE DEF g
    <2> QED BY <1>6, <2>1
  <1>8. g[m] \in X
    <2>1. <<f[m - 1], m>> \in X \X (1..n)
      BY <1>4, <1>5
    <2>2. g[m] = step[<<f[m - 1], m>>]
      BY <1>4
    <2> HIDE DEF g
    <2> QED BY <2>1, <2>2
  <1>9. Unfolds(g, start, step, m)
    <2> HIDE DEF g
    <2> QED BY <1>7 DEF Unfolds
  <1> QED BY <1>2, <1>8, <1>9

\* Every partial result of a recursion is of its kind.
LEMMA RecursionStays ==
    ASSUME NEW X, NEW n \in Nat, NEW start \in X, NEW step \in [X \X (1..n) -> X],
           NEW f, Unfolds(f, start, step, n)
    PROVE  \A m \in 0..n : f[m] \in X
  <1> DEFINE Bad == {m \in 0..n : f[m] \notin X}
  <1>1. SUFFICES ASSUME Bad # {} PROVE FALSE
    OBVIOUS
  <1>2. PICK m \in Bad : \A y \in Bad : m <= y
    <2>1. Bad \subseteq Nat
      OBVIOUS
    <2> HIDE DEF Bad
    <2> QED BY <1>1, <2>1, LeastNatural
  <1>3. f[0] = start /\ m # 0
    BY <1>2 DEF Unfolds
  <1>4. m \in 1..n /\ m - 1 \in 0..n /\ f[m - 1] \in X
    BY <1>2, <1>3
  <1>5. f[m] = step[<<f[m - 1], m>>] /\ <<f[m - 1], m>> \in X \X (1..n)
    BY <1>4 DEF Unfolds
  <1> QED BY <1>2, <1>5

LEMMA ConcatHasBoth ==
    ASSUME NEW S, NEW p \in Seq(S), NEW q \in Seq(S)
    PROVE  p \o q \in Seq(S) /\ ToSet(p) \subseteq ToSet(p \o q) /\ ToSet(q) \subseteq ToSet(p \o q)
  <1>1. p \o q \in Seq(S) /\ Len(p) \in Nat /\ Len(q) \in Nat /\ Len(p \o q) = Len(p) + Len(q)
    OBVIOUS
  <1>2. DOMAIN p = 1..Len(p) /\ DOMAIN q = 1..Len(q) /\ DOMAIN (p \o q) = 1..(Len(p) + Len(q))
    BY <1>1
  <1>3. ASSUME NEW i \in 1..Len(p) PROVE (p \o q)[i] = p[i] /\ i \in 1..(Len(p) + Len(q))
    BY <1>1
  <1>4. ASSUME NEW i \in 1..Len(q) PROVE (p \o q)[Len(p) + i] = q[i] /\ Len(p) + i \in 1..(Len(p) + Len(q))
    BY <1>1
  <1> QED BY <1>1, <1>2, <1>3, <1>4 DEF ToSet

\* A concatenation is a list, and has what its parts have.
LEMMA FlattenKeeps ==
    ASSUME NEW S, NEW s \in Seq(Seq(S))
    PROVE  FlattenSeq(s) \in Seq(S) /\ \A j \in 1..Len(s) : ToSet(s[j]) \subseteq ToSet(FlattenSeq(s))
  <1> DEFINE n == Len(s)
             step == [z \in Seq(S) \X (1..n) |-> z[1] \o s[z[2]]]
             Flat(f) == f = [i \in 1..n |-> IF i = 1 THEN s[i] ELSE f[i - 1] \o s[i]]
             flatten == CHOOSE f : Flat(f)
  <1>1. n \in Nat /\ \A i \in 1..n : s[i] \in Seq(S)
    OBVIOUS
  <1>2. CASE n = 0
    <2>1. FlattenSeq(s) = s /\ s = <<>>
      BY <1>2 DEF FlattenSeq
    <2> QED BY <1>2, <2>1
  <1>3. CASE n # 0
    <2>1. FlattenSeq(s) = flatten[n]
      BY <1>3 DEF FlattenSeq
    <2>2. step \in [Seq(S) \X (1..n) -> Seq(S)]
      BY <1>1
    <2>3. <<>> \in Seq(S) /\ n \in 0..n
      BY <1>1
    <2>4. PICK f0 : Unfolds(f0, <<>>, step, n)
      <3> HIDE DEF step, n
      <3> QED BY <1>1, <2>2, <2>3, RecursionIsDefined
    <2>5. \A m \in 0..n : f0[m] \in Seq(S)
      <3> HIDE DEF step, n
      <3> QED BY <1>1, <2>2, <2>3, <2>4, RecursionStays
    <2> DEFINE g == [i \in 1..n |-> f0[i]]
    <2>6. ASSUME NEW i \in 1..n PROVE g[i] = IF i = 1 THEN s[i] ELSE g[i - 1] \o s[i]
      <3>1. i \in 0..n /\ i # 0 /\ i - 1 \in 0..n /\ f0[i - 1] \in Seq(S)
        BY <1>1, <2>5
      <3>2. f0[i] = step[<<f0[i - 1], i>>]
        <4>1. f0 = [j \in 0..n |-> IF j = 0 THEN <<>> ELSE step[<<f0[j - 1], j>>]]
          BY <2>4 DEF Unfolds
        <4> HIDE DEF step, n
        <4> QED BY <3>1, <4>1
      <3>3. f0[i] = f0[i - 1] \o s[i]
        BY <3>1, <3>2
      <3>4. f0[0] = <<>>
        <4> HIDE DEF step
        <4>1. 0 \in 0..n
          BY <1>1
        <4> QED BY <2>4, <4>1 DEF Unfolds
      <3>5. CASE i = 1
        <4>1. <<>> \o s[i] = s[i]
          BY <1>1
        <4>2. g[i] = f0[i] /\ i - 1 = 0
          BY <3>5
        <4> HIDE DEF g, step, n
        <4> QED BY <3>3, <3>4, <3>5, <4>1, <4>2
      <3>6. CASE i # 1
        <4>1. i - 1 \in 1..n
          BY <1>1, <3>6
        <4> QED BY <3>3, <3>6, <4>1
      <3> QED BY <3>5, <3>6
    <2>7. Flat(g)
      <3>1. g = [i \in 1..n |-> g[i]]
        OBVIOUS
      <3> HIDE DEF g
      <3> QED BY <2>6, <3>1
    <2>8. Flat(flatten)
      <3> HIDE DEF Flat
      <3> QED BY <2>7
    <2>9. \A i \in 1..n : flatten[i] = IF i = 1 THEN s[i] ELSE flatten[i - 1] \o s[i]
      <3> HIDE DEF flatten
      <3> QED BY <2>8
    <2> HIDE DEF flatten
    <2> DEFINE Good(m) == flatten[m] \in Seq(S) /\ \A j \in 1..m : ToSet(s[j]) \subseteq ToSet(flatten[m])
               Bad == {m \in 1..n : ~Good(m)}
    <2>10. Bad = {}
      <3>1. SUFFICES ASSUME Bad # {} PROVE FALSE
        OBVIOUS
      <3>2. PICK m \in Bad : \A y \in Bad : m <= y
        <4>1. Bad \subseteq Nat
          BY <1>1
        <4> HIDE DEF Bad
        <4> QED BY <3>1, <4>1, LeastNatural
      <3>3. CASE m = 1
        <4>1. flatten[m] = s[m] /\ s[m] \in Seq(S) /\ \A j \in 1..m : j = m
          BY <1>1, <2>9, <3>2, <3>3
        <4> QED BY <3>2, <4>1
      <3>4. CASE m # 1
        <4>a. m \in 1..n /\ m - 1 \in 1..n /\ ~(m <= m - 1) /\ \A j \in 1..m : j = m \/ j \in 1..(m - 1)
          <5> HIDE DEF Good, n
          <5> QED BY <1>1, <3>2, <3>4
        <4>b. m - 1 \notin Bad
          BY <3>2, <4>a
        <4>1. m \in 1..n /\ m - 1 \in 1..n /\ Good(m - 1) /\ \A j \in 1..m : j = m \/ j \in 1..(m - 1)
          <5> HIDE DEF Good, n
          <5> QED BY <4>a, <4>b
        <4> DEFINE p == flatten[m - 1]
        <4>2. flatten[m] = p \o s[m] /\ s[m] \in Seq(S) /\ p \in Seq(S)
          BY <1>1, <2>9, <3>4, <4>1
        <4>3. \A j \in 1..(m - 1) : ToSet(s[j]) \subseteq ToSet(p)
          BY <4>1
        <4> HIDE DEF p
        <4>4. p \o s[m] \in Seq(S) /\ ToSet(p) \subseteq ToSet(p \o s[m]) /\ ToSet(s[m]) \subseteq ToSet(p \o s[m])
          BY <4>2, ConcatHasBoth
        <4>5. \A j \in 1..m : ToSet(s[j]) \subseteq ToSet(p \o s[m])
          BY <4>1, <4>3, <4>4
        <4>6. Good(m)
          BY <4>2, <4>4, <4>5
        <4> HIDE DEF Good
        <4> QED BY <3>2, <4>6
      <3> QED BY <3>3, <3>4
    <2> HIDE DEF Good
    <2>11. Good(n)
      BY <1>1, <1>3, <2>10
    <2> QED BY <2>1, <2>11 DEF Good
  <1> QED BY <1>2, <1>3

\* What is kept of a list of sheets is a list of them, and none is lost.
LEMMA OnlyKeeps ==
    ASSUME NEW S, NEW t \in Seq(S), NEW kept
    PROVE  /\ Only(t, kept) \in Seq(S) /\ ToSet(t) \subseteq S
           /\ \A f \in ToSet(t) \cap kept : f \in ToSet(Only(t, kept))
  <1> DEFINE parts == [i \in DOMAIN t |-> IF t[i] \in kept THEN <<t[i]>> ELSE <<>>]
  <1>1. DOMAIN t = 1..Len(t) /\ Len(t) \in Nat /\ \A i \in 1..Len(t) : t[i] \in S
    OBVIOUS
  <1>2. \A i \in 1..Len(t) : parts[i] \in Seq(S)
    BY <1>1
  <1>3. parts \in Seq(Seq(S)) /\ Len(parts) = Len(t)
    <2>1. parts \in [1..Len(t) -> Seq(S)]
      BY <1>1, <1>2
    <2> QED BY <1>1, <2>1
  <1>4. ASSUME NEW i \in 1..Len(t), t[i] \in kept PROVE t[i] \in ToSet(parts[i])
    <2>1. parts[i] = <<t[i]>>
      BY <1>1, <1>4
    <2>2. 1 \in DOMAIN <<t[i]>> /\ <<t[i]>>[1] = t[i]
      OBVIOUS
    <2> HIDE DEF parts
    <2> QED BY <2>1, <2>2 DEF ToSet
  <1> HIDE DEF parts
  <1>5. FlattenSeq(parts) \in Seq(S) /\ \A j \in 1..Len(t) : ToSet(parts[j]) \subseteq ToSet(FlattenSeq(parts))
    BY <1>3, FlattenKeeps
  <1>6. Only(t, kept) = FlattenSeq(parts)
    BY DEF Only, parts
  <1>7. ASSUME NEW f \in ToSet(t) \cap kept PROVE f \in ToSet(Only(t, kept))
    <2>1. PICK i \in 1..Len(t) : f = t[i]
      BY <1>1 DEF ToSet
    <2> QED BY <1>4, <1>5, <1>6, <1>7, <2>1
  <1>8. ToSet(t) \subseteq S
    BY <1>1 DEF ToSet
  <1> QED BY <1>5, <1>6, <1>7, <1>8

LEMMA TreeIsSeq ==
    ASSUME NEW all \in [Files -> Sheets \cup {Broken}]
    PROVE  Tree(all) \in Seq(Files)
  <1> DEFINE children(f, above) == IF all[f] = Broken THEN <<>> ELSE Only(all[f].children, Files \ above)
             subs == children(Root, {Root})
             parts == [i \in DOMAIN subs |-> <<subs[i]>> \o children(subs[i], {Root, subs[i]})]
  <1>1. ASSUME NEW f \in Files, NEW above PROVE children(f, above) \in Seq(Files)
    <2>1. all[f] # Broken => all[f].children \in Seq(Files)
      BY ReviewAssumption, SheetsAssumption
    <2> QED BY <2>1, OnlyKeeps
  <1>2. Root \in Files
    BY ReviewAssumption
  <1> HIDE DEF children
  <1>3. subs \in Seq(Files) /\ DOMAIN subs = 1..Len(subs) /\ Len(subs) \in Nat
    BY <1>1, <1>2
  <1> HIDE DEF subs
  <1>4. ASSUME NEW i \in DOMAIN subs PROVE parts[i] \in Seq(Files)
    <2>1. subs[i] \in Files
      BY <1>3
    <2>2. <<subs[i]>> \in Seq(Files) /\ children(subs[i], {Root, subs[i]}) \in Seq(Files)
      BY <1>1, <2>1
    <2> QED BY <2>2
  <1>5. parts \in Seq(Seq(Files))
    <2>1. parts \in [1..Len(subs) -> Seq(Files)]
      BY <1>3, <1>4
    <2> QED BY <1>3, <2>1
  <1>6. FlattenSeq(parts) \in Seq(Files)
    <2> HIDE DEF parts
    <2> QED BY <1>5, FlattenKeeps
  <1>7. <<Root>> \o FlattenSeq(parts) \in Seq(Files)
    <2> HIDE DEF parts
    <2> QED BY <1>2, <1>6
  <1> QED BY <1>7 DEF Tree, subs, children

LEMMA AuditsAlwaysAgree ==
    ASSUME NEW s \in Sheets
    PROVE  AuditsAgree(s)
  <1>1. SUFFICES ASSUME NEW f \in Decoupling(s), f.net \in Rails \ Grounds
                 PROVE  Finding("error", NoName, f.net) \in RailFindings(s)
    BY DEF AuditsAgree
  <1>a. PICK part \in s.parts : \E q \in DOMAIN part.pins :
          f = Finding("error", part.ref, NetAt(s, part.pins[q])) /\ NetAt(s, part.pins[q]) \notin CapNets(s)
    BY <1>1 DEF Decoupling
  <1>2. PICK q \in DOMAIN part.pins :
          f = Finding("error", part.ref, NetAt(s, part.pins[q])) /\ NetAt(s, part.pins[q]) \notin CapNets(s)
    BY <1>a
  <1>3. f.net = NetAt(s, part.pins[q])
    BY <1>2 DEF Finding
  <1>4. f.net \in PowerNets(s)
    <2>1. part.pins[q] \in DOMAIN s.labels
      BY SheetsAssumption
    <2> QED BY <1>1, <1>3, <2>1 DEF PowerNets, NetAt
  <1>5. f.net \in (PowerNets(s) \ Grounds) \ CapNets(s)
    BY <1>1, <1>2, <1>3, <1>4
  <1> HIDE DEF Finding
  <1> QED BY <1>5 DEF RailFindings

(***************************************************************************)
(* The invariant.                                                          *)
(***************************************************************************)
Projects == [board : Boards, sheets : [Files -> Sheets \cup {Broken}]]
OutputNames == {"gerber", "drill", "pick_and_place", "bom"}
Findings == SUBSET Severities
Mades == SUBSET OutputNames
Stops == {"idle", "drc", "waiting", "structure", "walk", "audit", "dfm", "export", "answered"}
Verdicts == {"none", "error", "READY", "NEEDS REVIEW", "INCOMPLETE", "NOT READY", "NEEDS ATTENTION", "LOOKS GOOD",
             "warnings", "No warnings."}
RunsOrNone == Runs \cup {NoRun}

Reviewing ==
    [tool : {"drc", "validate", "review", "package"}, board : BOOLEAN, schematic : BOOLEAN, run : RunsOrNone,
     next : 1..5, first : 1..4, last : 0..4, made : Mades, warned : BOOLEAN,
     drc : [Passes -> Severities \cup {"unasked", "absent"}], found : Findings, todo : Seq(Files),
     unaudited : BOOLEAN, verdict : Verdicts, at : Stops]

ExportingOne ==
    [tool : {"export"}, run : RunsOrNone, next : 1..5, first : 1..4, last : 0..4, made : Mades,
     warned : BOOLEAN, verdict : Verdicts, at : Stops]

Calls == {Idle} \cup Reviewing \cup ExportingOne

Started ==
    [at : {"started", "loaded", "ended", "failed"}, of : Callers, saw : Projects \cup {NoFile}, parity : BOOLEAN,
     what : {"report"} \cup OutputNames]

ReviewTypeOK ==
    /\ board \in Boards /\ sheets \in [Files -> Sheets \cup {Broken}]
    /\ report \in {NoFile} \cup [Passes -> Severities \cup {"absent"}]
    /\ package \in [OutputNames -> Projects \cup {NoFile}]
    /\ run \in [Runs -> {NotStarted} \cup Started]
    /\ \A r \in Runs : run[r].at \in {"loaded", "ended"} => run[r].saw \in Projects
    /\ asked \in [Callers -> Calls]
    /\ past \in [Callers -> SUBSET Projects]
    /\ alone \in [Callers -> BOOLEAN]

\* Where each tool can be, and what it has of kicad-cli there.
Stages(c) ==
    LET a == asked[c]
    IN  /\ a.at = "idle" <=> a = Idle
        /\ a.at \in {"drc", "structure", "walk", "audit", "dfm"} => a \in Reviewing /\ a.tool # "package"
        /\ a.at = "drc" => a.board
        /\ a.at = "structure" => a.tool = "validate"
        /\ a.at \in {"walk", "audit", "dfm"} => a.tool = "review"
        /\ a.at \in {"walk", "audit"} => a.schematic
        /\ a.at \in {"drc", "structure", "walk", "dfm"} => a.todo = <<>>
        /\ a.at = "waiting" /\ ~Exporting(c) => a.todo = <<>>
        /\ a.at = "export" => Exporting(c)
        /\ a.tool \in {"drc", "validate"} => a.board
        /\ a.at \notin {"waiting"} => a.run = NoRun
        /\ a.at # "answered" /\ a # Idle => a.verdict = "none"
        /\ a.at = "answered" /\ a.verdict = "No warnings." => Exporting(c)
        /\ a.at \in {"idle", "drc", "waiting", "structure", "walk", "audit", "dfm", "export", "answered"}

\* The run a call waits for is its own, and does what it was started for.
Waits(c) ==
    LET a == asked[c] IN
    a.at = "waiting" =>
      /\ a.run \in Runs /\ run[a.run] \in Started /\ run[a.run].of = c
      /\ Exporting(c) => a.next <= a.last /\ run[a.run].what = Outputs[a.next]
      /\ ~Exporting(c) => a.board /\ run[a.run].what = "report"

\* What a call can have seen: the project as it is, and as its kicad-cli loaded it.
InCourse(c) == asked[c].at \notin {"idle", "answered"} => Now \in past[c]

Saw(c) ==
    LET r == asked[c].run IN
    asked[c].at = "waiting" /\ run[r].at \in {"loaded", "ended"} =>
      run[r].saw \in past[c] /\ run[r].parity = (run[r].saw.sheets[Root] # Broken)

\* A call that is alone waits for the only kicad-cli there is, and finds what it wrote.
Solo(c) ==
    LET r == asked[c].run IN
    alone[c] /\ asked[c].at = "waiting" =>
      /\ Underway \subseteq {r}
      /\ run[r].at = "ended" /\ run[r].what # "report" => package[run[r].what] = run[r].saw
      /\ run[r].at = "ended" /\ run[r].what = "report" => report = NoFile \/ \E omitted \in Omissions : report = Reported(r, omitted)

\* The evidence is of a project there was.
MeasuredOn(n, drc) ==
    \A p \in Passes : drc[p] # "absent" => drc[p] = n.board.drc[p] /\ (p = "schematic_parity" => n.sheets[Root] # Broken)

Measured(c) ==
    alone[c] /\ asked[c].at \in {"structure", "walk", "audit", "dfm", "answered"} /\ ~Exporting(c) /\ asked[c].board =>
      \E n \in past[c] : MeasuredOn(n, asked[c].drc)

\* Of each sheet of a tree that could be walked: it is still to be read, or was there.
Read(c, f) == \E m \in past[c] : m.sheets[f] # Broken /\ Found(m.sheets[f]) \subseteq asked[c].found

Walked(c) ==
    asked[c].at = "audit" \/ (asked[c].at = "dfm" /\ asked[c].schematic) =>
      \E n \in past[c] : ~asked[c].unaudited =>
        \A f \in ToSet(Tree(n.sheets)) : f \in ToSet(asked[c].todo) \/ Read(c, f)

\* What was made stays, and what was not made has been warned of.
Makes(c) ==
    LET a == asked[c] IN
    Exporting(c) =>
      /\ a.made \subseteq {Outputs[i] : i \in 1..4} /\ a.first <= a.next /\ (a.tool = "package" => a.first = 1)
      /\ \A i \in 1..4 : Outputs[i] \in a.made => i < a.next
      /\ a.verdict = "No warnings." => ~a.warned /\ a.next > a.last
      /\ ~a.warned /\ a.verdict # "error" => \A i \in a.first..(a.next - 1) : Outputs[i] \in a.made \/ (Outputs[i] = "drill" /\ a.first # 2)
      /\ alone[c] => /\ \A o \in a.made : package[o] \in past[c]
                     /\ \A r \in Underway : run[r].what \notin a.made

CallInv(c) ==
    /\ Stages(c) /\ Waits(c) /\ InCourse(c) /\ Saw(c) /\ Solo(c) /\ Measured(c) /\ Walked(c) /\ Makes(c)
    /\ alone[c] => ReadyIsEarned(c)

ReviewInv == ReviewTypeOK /\ \A c \in Callers : CallInv(c)

(***************************************************************************)
(* The types.                                                              *)
(***************************************************************************)
LEMMA OutputsAreNamed ==
    /\ Outputs[1] = "gerber" /\ Outputs[2] = "drill" /\ Outputs[3] = "pick_and_place" /\ Outputs[4] = "bom"
    /\ \A i \in 1..4 : Outputs[i] \in OutputNames
    /\ \A i, j \in 1..4 : Outputs[i] = Outputs[j] => i = j
    /\ ToSet(Outputs) = OutputNames
  <1>1. DOMAIN Outputs = 1..4
    BY DEF Outputs
  <1>2. Outputs[1] = "gerber" /\ Outputs[2] = "drill" /\ Outputs[3] = "pick_and_place" /\ Outputs[4] = "bom"
    BY DEF Outputs
  <1>3. \A i \in 1..4 : i = 1 \/ i = 2 \/ i = 3 \/ i = 4
    OBVIOUS
  <1>4. \A i \in 1..4 : Outputs[i] \in OutputNames
    BY <1>2, <1>3 DEF OutputNames
  <1>5. \A i, j \in 1..4 : Outputs[i] = Outputs[j] => i = j
    BY <1>2, <1>3
  <1>6. ToSet(Outputs) = {Outputs[i] : i \in 1..4}
    BY <1>1 DEF ToSet
  <1>7. 1 \in 1..4 /\ 2 \in 1..4 /\ 3 \in 1..4 /\ 4 \in 1..4
    OBVIOUS
  <1>8. {Outputs[i] : i \in 1..4} = OutputNames
    BY <1>2, <1>3, <1>7 DEF OutputNames
  <1> QED BY <1>2, <1>4, <1>5, <1>6, <1>8

\* A call is idle, or of one of two kinds.
LEMMA CallKinds ==
    ASSUME NEW c \in Callers, ReviewTypeOK
    PROVE  /\ asked[c] \in Calls
           /\ asked[c].at # "idle" /\ Stages(c) => asked[c] \in Reviewing \/ asked[c] \in ExportingOne
           /\ asked[c] \in ExportingOne => asked[c].tool = "export"
           /\ asked[c] \in Reviewing => asked[c].tool \in {"drc", "validate", "review", "package"}
           /\ asked[c].at # "idle" /\ Stages(c) /\ ~Exporting(c) => asked[c] \in Reviewing /\ asked[c].tool \in {"drc", "validate", "review"}
           /\ Exporting(c) => asked[c].at # "idle" \/ ~Stages(c)
  <1>1. asked[c] \in Calls
    BY DEF ReviewTypeOK
  <1>2. asked[c] \in ExportingOne => asked[c].tool = "export"
    BY DEF ExportingOne
  <1>3. asked[c] \in Reviewing => asked[c].tool \in {"drc", "validate", "review", "package"}
    BY DEF Reviewing
  <1>4. Idle.tool = "none" /\ Idle.at = "idle"
    BY DEF Idle
  <1> QED BY <1>1, <1>2, <1>3, <1>4 DEF Calls, Stages, Exporting

\* Changes to a call leave it of its kind.
LEMMA ReviewingSets ==
    ASSUME NEW a \in Reviewing, NEW at \in Stops, NEW r \in RunsOrNone
    PROVE  /\ [a EXCEPT !.at = at, !.run = r] \in Reviewing
           /\ [a EXCEPT !.at = at] \in Reviewing
  BY DEF Reviewing

LEMMA ExportingSets ==
    ASSUME NEW a \in ExportingOne, NEW at \in Stops, NEW r \in RunsOrNone
    PROVE  /\ [a EXCEPT !.at = at, !.run = r] \in ExportingOne
           /\ [a EXCEPT !.at = at] \in ExportingOne
  BY DEF ExportingOne

LEMMA EvidenceSets ==
    ASSUME NEW a \in Reviewing, NEW at \in Stops, NEW r \in RunsOrNone,
           NEW drc \in [Passes -> Severities \cup {"unasked", "absent"}]
    PROVE  [a EXCEPT !.at = at, !.run = r, !.drc = drc] \in Reviewing
  BY DEF Reviewing

LEMMA AnswerSets ==
    ASSUME NEW a \in Reviewing, NEW at \in Stops, NEW verdict \in Verdicts, NEW found \in Findings
    PROVE  [a EXCEPT !.at = at, !.verdict = verdict, !.found = found] \in Reviewing
  BY DEF Reviewing

LEMMA TypeInit == ReviewInit => ReviewTypeOK
  <1>1. SUFFICES ASSUME ReviewInit PROVE ReviewTypeOK
    OBVIOUS
  <1>2. board \in Boards /\ sheets \in [Files -> Sheets \cup {Broken}]
    BY <1>1, ReviewAssumption DEF ReviewInit
  <1>3. report \in {NoFile} \cup [Passes -> Severities \cup {"absent"}]
    BY <1>1, ReviewAssumption DEF ReviewInit
  <1>4. package \in [OutputNames -> Projects \cup {NoFile}]
    BY <1>1, OutputsAreNamed DEF ReviewInit
  <1>5. run \in [Runs -> {NotStarted} \cup Started] /\ \A r \in Runs : run[r].at \notin {"loaded", "ended"}
    BY <1>1 DEF ReviewInit, NotStarted
  <1>6. asked \in [Callers -> Calls]
    BY <1>1 DEF ReviewInit, Calls
  <1>7. past \in [Callers -> SUBSET Projects] /\ alone \in [Callers -> BOOLEAN]
    BY <1>1 DEF ReviewInit
  <1> QED BY <1>2, <1>3, <1>4, <1>5, <1>6, <1>7 DEF ReviewTypeOK

LEMMA NowIsProject == ReviewTypeOK => Now \in Projects
  BY DEF ReviewTypeOK, Now, Projects

\* A call that takes one of its steps.
LEMMA CallTypes ==
    ASSUME ReviewTypeOK, NEW c \in Callers, NEW b \in Calls, asked' = [asked EXCEPT ![c] = b]
    PROVE  asked' \in [Callers -> Calls] /\ asked'[c] = b /\ \A d \in Callers \ {c} : asked'[d] = asked[d]
  BY DEF ReviewTypeOK

\* A run that is over is heard of, or forgotten.
LEMMA RunTypes ==
    ASSUME ReviewTypeOK, NEW r \in Runs, NEW x \in {NotStarted} \cup Started, run' = [run EXCEPT ![r] = x],
           x.at \in {"loaded", "ended"} => x.saw \in Projects
    PROVE  /\ run' \in [Runs -> {NotStarted} \cup Started]
           /\ \A q \in Runs : run'[q].at \in {"loaded", "ended"} => run'[q].saw \in Projects
           /\ run'[r] = x /\ \A q \in Runs \ {r} : run'[q] = run[q]
  <1>1. run \in [Runs -> {NotStarted} \cup Started] /\ \A q \in Runs : run[q].at \in {"loaded", "ended"} => run[q].saw \in Projects
    BY DEF ReviewTypeOK
  <1>2. run' \in [Runs -> {NotStarted} \cup Started] /\ run'[r] = x /\ \A q \in Runs \ {r} : run'[q] = run[q]
    BY <1>1
  <1> QED BY <1>1, <1>2

LEMMA StartedSets ==
    ASSUME NEW x \in Started
    PROVE  /\ \A how \in {"started", "loaded", "ended", "failed"} :
                [x EXCEPT !.at = how] \in Started /\ [x EXCEPT !.at = how].at = how /\ [x EXCEPT !.at = how].saw = x.saw
                /\ [x EXCEPT !.at = how].of = x.of /\ [x EXCEPT !.at = how].what = x.what /\ [x EXCEPT !.at = how].parity = x.parity
           /\ \A n \in Projects, parity \in BOOLEAN :
                LET y == [x EXCEPT !.at = "loaded", !.saw = n, !.parity = parity]
                IN  y \in Started /\ y.at = "loaded" /\ y.saw = n /\ y.parity = parity /\ y.of = x.of /\ y.what = x.what
  <1>1. ASSUME NEW how \in {"started", "loaded", "ended", "failed"}
        PROVE  [x EXCEPT !.at = how] \in Started /\ [x EXCEPT !.at = how].at = how /\ [x EXCEPT !.at = how].saw = x.saw
                /\ [x EXCEPT !.at = how].of = x.of /\ [x EXCEPT !.at = how].what = x.what /\ [x EXCEPT !.at = how].parity = x.parity
    BY DEF Started
  <1>2. ASSUME NEW n \in Projects, NEW parity \in BOOLEAN
        PROVE  LET y == [x EXCEPT !.at = "loaded", !.saw = n, !.parity = parity]
               IN  y \in Started /\ y.at = "loaded" /\ y.saw = n /\ y.parity = parity /\ y.of = x.of /\ y.what = x.what
    BY DEF Started
  <1> QED BY <1>1, <1>2

\* A run that is not free is one that was started.
LEMMA RunKinds ==
    ASSUME ReviewTypeOK, NEW r \in Runs
    PROVE  /\ run[r] \in {NotStarted} \cup Started
           /\ run[r].at # "free" => run[r] \in Started
           /\ run[r] \in Started => run[r].at \in {"started", "loaded", "ended", "failed"} /\ run[r].of \in Callers
                                    /\ run[r].what \in {"report"} \cup OutputNames /\ run[r].parity \in BOOLEAN
           /\ NotStarted.at = "free"
  BY DEF ReviewTypeOK, NotStarted, Started

LEMMA ReportedTypes ==
    ASSUME ReviewTypeOK, NEW r \in Runs, run[r].saw \in Projects, NEW omitted
    PROVE  Reported(r, omitted) \in [Passes -> Severities \cup {"absent"}]
  <1>1. run[r].saw.board.drc \in [Passes -> Severities]
    BY ReviewAssumption DEF Projects
  <1> HIDE DEF Passes
  <1>2. "none" \in Severities
    BY DEF Severities
  <1> QED BY <1>1, <1>2 DEF Reported

(***************************************************************************)
(* A step of somebody else leaves a call's part of the invariant.          *)
(***************************************************************************)
Quiet(c) ==
    /\ asked'[c] = asked[c] /\ past[c] \subseteq past'[c]
    /\ asked[c].at \notin {"idle", "answered"} => Now' \in past'[c]
    /\ alone'[c] => alone[c]
    /\ asked[c].at = "waiting" => run'[asked[c].run] = run[asked[c].run]
    /\ alone'[c] /\ asked[c].at # "idle" =>
         \A r \in Runs : run'[r].at \in {"started", "loaded"} => run[r].at \in {"started", "loaded"} /\ run'[r].what = run[r].what
    /\ alone'[c] /\ asked[c].at = "waiting" => report' \in {report, NoFile} /\ package' = package
    /\ alone'[c] /\ Exporting(c) => \A o \in asked[c].made : package'[o] = package[o]

LEMMA Elsewhere ==
    ASSUME ReviewTypeOK, NEW c \in Callers, CallInv(c), Quiet(c)
    PROVE  CallInv(c)'
  <1>1. asked'[c] = asked[c] /\ past[c] \subseteq past'[c] /\ (alone'[c] => alone[c])
    BY DEF Quiet
  <1>2. Stages(c)'
    <2>1. Stages(c)
      BY DEF CallInv
    <2> QED BY <1>1, <2>1 DEF Stages, Exporting
  <1>3. Exporting(c)' = Exporting(c)
    BY <1>1 DEF Exporting
  <1>4. asked[c].at = "waiting" => run'[asked[c].run] = run[asked[c].run] /\ asked[c].run \in Runs
    BY DEF Quiet, CallInv, Waits
  <1>5. Waits(c)'
    <2>1. Waits(c)
      BY DEF CallInv
    <2> QED BY <1>1, <1>3, <1>4, <2>1 DEF Waits
  <1>6. InCourse(c)'
    BY <1>1 DEF Quiet, InCourse
  <1>7. Saw(c)'
    <2>1. Saw(c)
      BY DEF CallInv
    <2> QED BY <1>1, <1>4, <2>1 DEF Saw
  <1>8. ASSUME alone'[c], asked[c].at # "idle" PROVE Underway' \subseteq Underway
    BY <1>8 DEF Quiet, Underway
  <1>9. Solo(c)'
    <2>1. SUFFICES ASSUME alone'[c], asked[c].at = "waiting"
                   PROVE  LET r == asked[c].run
                          IN  /\ Underway' \subseteq {r}
                              /\ run'[r].at = "ended" /\ run'[r].what # "report" => package'[run'[r].what] = run'[r].saw
                              /\ run'[r].at = "ended" /\ run'[r].what = "report" =>
                                   report' = NoFile \/ \E omitted \in Omissions : report' = Reported(r, omitted)'
      BY <1>1 DEF Solo
    <2> DEFINE r == asked[c].run
    <2>2. /\ Underway \subseteq {r}
          /\ run[r].at = "ended" /\ run[r].what # "report" => package[run[r].what] = run[r].saw
          /\ run[r].at = "ended" /\ run[r].what = "report" => report = NoFile \/ \E omitted \in Omissions : report = Reported(r, omitted)
      BY <1>1, <2>1 DEF CallInv, Solo
    <2>3. run'[r] = run[r] /\ report' \in {report, NoFile} /\ package' = package
      BY <1>4, <2>1 DEF Quiet
    <2>4. \A omitted : Reported(r, omitted)' = Reported(r, omitted)
      BY <1>1, <2>3 DEF Reported
    <2>5. Underway' \subseteq Underway
      BY <1>8, <2>1
    <2>6. run'[r].at = "ended" /\ run'[r].what = "report" =>
            report' = NoFile \/ \E omitted \in Omissions : report' = Reported(r, omitted)'
      <3> HIDE DEF r
      <3> QED BY <2>2, <2>3, <2>4
    <2>7. run'[r].at = "ended" /\ run'[r].what # "report" => package'[run'[r].what] = run'[r].saw
      <3> HIDE DEF r
      <3> QED BY <2>2, <2>3
    <2>8. Underway' \subseteq {r}
      BY <2>2, <2>5
    <2> QED BY <2>6, <2>7, <2>8
  <1>10. Measured(c)'
    <2>1. Measured(c)
      BY DEF CallInv
    <2> QED BY <1>1, <1>3, <2>1 DEF Measured
  <1>11. \A f : Read(c, f) => Read(c, f)'
    BY <1>1 DEF Read
  <1>12. Walked(c)'
    <2>1. Walked(c)
      BY DEF CallInv
    <2> QED BY <1>1, <1>11, <2>1 DEF Walked
  <1>13. Makes(c)'
    <2>1. Makes(c)
      BY DEF CallInv
    <2>2. SUFFICES ASSUME Exporting(c) PROVE Makes(c)'
      BY <1>3 DEF Makes
    <2> DEFINE a == asked[c]
    <2>3. ASSUME alone'[c] PROVE (\A o \in a.made : package'[o] \in past'[c]) /\ \A r \in Underway' : run'[r].what \notin a.made
      <3>1. a.at # "idle"
        BY <2>2, CallKinds DEF CallInv
      <3>2. (\A o \in a.made : package[o] \in past[c]) /\ \A r \in Underway : run[r].what \notin a.made
        BY <1>1, <2>1, <2>2, <2>3 DEF Makes
      <3>3. \A o \in a.made : package'[o] = package[o]
        BY <2>2, <2>3 DEF Quiet
      <3>4. \A r \in Underway' : r \in Underway /\ run'[r].what = run[r].what
        BY <2>3, <3>1 DEF Quiet, Underway
      <3> HIDE DEF a
      <3> QED BY <1>1, <3>2, <3>3, <3>4
    <2> QED BY <1>1, <1>3, <2>1, <2>2, <2>3 DEF Makes
  <1>14. ASSUME alone'[c] PROVE ReadyIsEarned(c)'
    <2>1. ReadyIsEarned(c)
      BY <1>1, <1>14 DEF CallInv
    <2>2. Earned(c) => Earned(c)'
      BY <1>1 DEF Earned
    <2> QED BY <1>1, <2>1, <2>2 DEF ReadyIsEarned
  <1> QED BY <1>2, <1>5, <1>6, <1>7, <1>9, <1>10, <1>12, <1>13, <1>14 DEF CallInv

(***************************************************************************)
(* The user and kicad-cli.                                                 *)
(***************************************************************************)
LEMMA SavesKeeps == ReviewInv /\ Saves => ReviewInv'
  <1>1. SUFFICES ASSUME ReviewInv, Saves PROVE ReviewInv'
    OBVIOUS
  <1>2. ReviewTypeOK
    BY <1>1 DEF ReviewInv
  <1>3. board' \in Boards /\ sheets' \in [Files -> Sheets \cup {Broken}]
    BY <1>1, <1>2 DEF Saves, ReviewTypeOK
  <1>4. Now' \in Projects
    BY <1>3 DEF Now, Projects
  <1>5. /\ past' \in [Callers -> SUBSET Projects]
        /\ \A c \in Callers : past[c] \subseteq past'[c] /\ (asked[c].at \notin {"idle", "answered"} => Now' \in past'[c])
    BY <1>1, <1>2, <1>4 DEF Saves, ReviewTypeOK
  <1>6. ReviewTypeOK'
    BY <1>1, <1>2, <1>3, <1>5 DEF Saves, ReviewTypeOK
  <1>7. ASSUME NEW c \in Callers PROVE CallInv(c)'
    <2>1. Quiet(c)
      BY <1>1, <1>5 DEF Saves, Quiet
    <2> QED BY <1>1, <1>2, <2>1, Elsewhere DEF ReviewInv
  <1> QED BY <1>6, <1>7 DEF ReviewInv

\* A run changes; the call that waits for it knows it as its own.
LEMMA OneWaits ==
    ASSUME ReviewInv, NEW c \in Callers, asked[c].at = "waiting"
    PROVE  /\ asked[c].run \in Runs /\ run[asked[c].run] \in Started /\ run[asked[c].run].of = c
           /\ \A d \in Callers : asked[d].at = "waiting" /\ asked[d].run = asked[c].run => d = c
  <1>1. \A d \in Callers : asked[d].at = "waiting" => asked[d].run \in Runs /\ run[asked[d].run] \in Started /\ run[asked[d].run].of = d
    BY DEF ReviewInv, CallInv, Waits
  <1> QED BY <1>1

\* Whoever waits for a run that is over does not find it free.
LEMMA OverKinds ==
    ASSUME ReviewInv, NEW r \in Runs, run[r] \in Started, NEW how \in {"ended", "failed"}
    PROVE  /\ Over(r, how) \in {NotStarted} \cup Started /\ Over(r, how).at \in {"free", how}
           /\ \A c \in Callers : asked[c].at = "waiting" /\ asked[c].run = r => Over(r, how) = [run[r] EXCEPT !.at = how]
           /\ Over(r, how).at = how => Over(r, how).saw = run[r].saw
  <1>1. /\ [run[r] EXCEPT !.at = how] \in Started /\ [run[r] EXCEPT !.at = how].at = how /\ [run[r] EXCEPT !.at = how].saw = run[r].saw
        /\ NotStarted.at = "free" /\ how # "free"
    BY DEF Started, NotStarted
  <1> DEFINE y == [run[r] EXCEPT !.at = how]
  <1>2. Over(r, how) = IF \E c \in Callers : asked[c].run = r THEN y ELSE NotStarted
    BY DEF Over
  <1> HIDE DEF y
  <1>3. y \in Started /\ y.at = how /\ y.saw = run[r].saw
    BY <1>1 DEF y
  <1> QED BY <1>1, <1>2, <1>3 DEF y

LEMMA FailsKeeps ==
    ASSUME ReviewInv, NEW r \in Runs, Fails(r)
    PROVE  ReviewInv'
  <1>1. ReviewTypeOK /\ run[r].at = "started" /\ run[r] \in Started
    BY RunKinds DEF ReviewInv, Fails
  <1> DEFINE x == Over(r, "failed")
  <1>2. x \in {NotStarted} \cup Started /\ x.at \in {"free", "failed"} /\ run' = [run EXCEPT ![r] = x]
    BY <1>1, OverKinds DEF Fails
  <1>3. /\ run' \in [Runs -> {NotStarted} \cup Started]
        /\ \A q \in Runs : run'[q].at \in {"loaded", "ended"} => run'[q].saw \in Projects
        /\ run'[r] = x /\ \A q \in Runs \ {r} : run'[q] = run[q]
    <2> HIDE DEF x
    <2> QED BY <1>1, <1>2, RunTypes
  <1>4. Underway' \subseteq Underway
    <2> HIDE DEF x
    <2> QED BY <1>2, <1>3 DEF Underway
  <1>5. ReviewTypeOK'
    BY <1>1, <1>3 DEF Fails, ReviewTypeOK, projectVars, historyVars
  <1>6. Now' = Now
    BY DEF Fails, Now, projectVars
  <1>7. ASSUME NEW c \in Callers PROVE CallInv(c)'
    <2>1. CallInv(c)
      BY DEF ReviewInv
    <2>2. CASE ~(asked[c].at = "waiting" /\ asked[c].run = r)
      <3>1. asked[c].at = "waiting" => run'[asked[c].run] = run[asked[c].run]
        BY <1>3, <2>2, OneWaits
      <3>2. \A q \in Runs : run'[q].at \in {"started", "loaded"} => run'[q] = run[q]
        <4> HIDE DEF x
        <4> QED BY <1>2, <1>3
      <3>3. Quiet(c)
        BY <1>6, <2>1, <3>1, <3>2 DEF Fails, Quiet, historyVars, CallInv, InCourse
      <3> QED BY <1>1, <2>1, <3>3, Elsewhere
    <2>3. CASE asked[c].at = "waiting" /\ asked[c].run = r
      <3>1. run'[r] = [run[r] EXCEPT !.at = "failed"]
        BY <1>1, <1>3, <2>3, OverKinds
      <3>2. run'[r] \in Started /\ run'[r].at = "failed" /\ run'[r].of = run[r].of /\ run'[r].what = run[r].what
        BY <1>1, <3>1 DEF Started
      <3>3. asked' = asked /\ past' = past /\ alone' = alone /\ package' = package
        BY DEF Fails, historyVars
      <3>4. Exporting(c)' = Exporting(c)
        BY <3>3 DEF Exporting
      <3>5. Stages(c)'
        BY <2>1, <3>3 DEF CallInv, Stages, Exporting
      <3>6. Waits(c)'
        BY <2>1, <2>3, <3>2, <3>3, <3>4 DEF CallInv, Waits
      <3>7. InCourse(c)'
        BY <1>6, <2>1, <3>3 DEF CallInv, InCourse
      <3>8. Saw(c)' /\ Solo(c)'
        BY <1>4, <2>1, <2>3, <3>2, <3>3 DEF CallInv, Saw, Solo
      <3>9. Measured(c)' /\ Walked(c)'
        BY <2>3, <3>3 DEF Measured, Walked
      <3>10. Makes(c)'
        <4>1. \A q \in Underway' : run'[q].what = run[q].what
          BY <1>3, <3>2 DEF Underway
        <4>2. Makes(c)
          BY <2>1 DEF CallInv
        <4>3. alone'[c] /\ Exporting(c) => \A q \in Underway' : run'[q].what \notin asked'[c].made
          BY <1>4, <3>3, <4>1, <4>2 DEF Makes
        <4> QED BY <3>3, <3>4, <4>2, <4>3 DEF Makes
      <3>11. ReadyIsEarned(c)'
        BY <2>3, <3>3 DEF ReadyIsEarned
      <3> QED BY <3>5, <3>6, <3>7, <3>8, <3>9, <3>10, <3>11 DEF CallInv
    <2> QED BY <2>2, <2>3
  <1> QED BY <1>5, <1>7 DEF ReviewInv

LEMMA LoadsKeeps ==
    ASSUME ReviewInv, NEW r \in Runs, Loads(r)
    PROVE  ReviewInv'
  <1>1. ReviewTypeOK /\ run[r].at = "started" /\ run[r] \in Started
    BY RunKinds DEF ReviewInv, Loads
  <1> DEFINE x == [run[r] EXCEPT !.at = "loaded", !.saw = Now, !.parity = sheets[Root] # Broken]
  <1>2. run' = [run EXCEPT ![r] = x]
    BY DEF Loads
  <1>3. x \in Started /\ x.at = "loaded" /\ x.saw = Now /\ x.parity = (sheets[Root] # Broken) /\ x.of = run[r].of /\ x.what = run[r].what
    <2>1. Now \in Projects
      BY <1>1, NowIsProject
    <2> DEFINE n == Now
               parity == sheets[Root] # Broken
    <2>2. n \in Projects /\ parity \in BOOLEAN
      BY <2>1
    <2> HIDE DEF n, parity
    <2>3. LET y == [run[r] EXCEPT !.at = "loaded", !.saw = n, !.parity = parity]
          IN  y \in Started /\ y.at = "loaded" /\ y.saw = n /\ y.parity = parity /\ y.of = run[r].of /\ y.what = run[r].what
      BY <1>1, <2>2 DEF Started
    <2> QED BY <2>3 DEF n, parity
  <1> HIDE DEF x
  <1>4. /\ run' \in [Runs -> {NotStarted} \cup Started]
        /\ \A q \in Runs : run'[q].at \in {"loaded", "ended"} => run'[q].saw \in Projects
        /\ run'[r] = x /\ \A q \in Runs \ {r} : run'[q] = run[q]
    BY <1>1, <1>2, <1>3, NowIsProject, RunTypes
  <1>5. Underway' \subseteq Underway /\ \A q \in Underway' : run'[q].what = run[q].what
    BY <1>1, <1>3, <1>4 DEF Underway
  <1>6. ReviewTypeOK'
    BY <1>1, <1>4 DEF Loads, ReviewTypeOK, projectVars, historyVars
  <1>7. Now' = Now
    BY DEF Loads, Now, projectVars
  <1>8. asked' = asked /\ past' = past /\ alone' = alone /\ package' = package /\ report' = report
    BY DEF Loads, historyVars
  <1>9. ASSUME NEW c \in Callers PROVE CallInv(c)'
    <2>1. CallInv(c)
      BY DEF ReviewInv
    <2>2. CASE ~(asked[c].at = "waiting" /\ asked[c].run = r)
      <3>1. asked[c].at = "waiting" => run'[asked[c].run] = run[asked[c].run]
        BY <1>4, <2>2, OneWaits
      <3>2. \A q \in Runs : run'[q].at \in {"started", "loaded"} => run[q].at \in {"started", "loaded"} /\ run'[q].what = run[q].what
        BY <1>5 DEF Underway
      <3>3. Quiet(c)
        BY <1>7, <1>8, <2>1, <3>1, <3>2 DEF Quiet, CallInv, InCourse
      <3> QED BY <1>1, <2>1, <3>3, Elsewhere
    <2>3. CASE asked[c].at = "waiting" /\ asked[c].run = r
      <3>4. Exporting(c)' = Exporting(c)
        BY <1>8 DEF Exporting
      <3>5. Stages(c)'
        BY <2>1, <1>8 DEF CallInv, Stages, Exporting
      <3>6. Waits(c)'
        BY <1>3, <1>4, <1>8, <2>1, <2>3, <3>4 DEF CallInv, Waits
      <3>7. InCourse(c)' /\ Now \in past[c]
        BY <1>7, <1>8, <2>1, <2>3 DEF CallInv, InCourse
      <3>8. Saw(c)'
        <4>1. Now.sheets[Root] = sheets[Root]
          BY DEF Now
        <4>2. x.saw \in past[c] /\ x.parity = (x.saw.sheets[Root] # Broken)
          BY <1>3, <3>7, <4>1
        <4> QED BY <1>4, <1>8, <2>3, <4>2 DEF Saw
      <3>9. Solo(c)'
        BY <1>3, <1>4, <1>5, <1>8, <2>1, <2>3 DEF CallInv, Solo
      <3>10. Measured(c)' /\ Walked(c)'
        BY <1>8, <2>3 DEF Measured, Walked
      <3>11. Makes(c)'
        <4>1. Makes(c)
          BY <2>1 DEF CallInv
        <4>2. alone'[c] /\ Exporting(c) => \A q \in Underway' : run'[q].what \notin asked'[c].made
          BY <1>5, <1>8, <4>1 DEF Makes
        <4> QED BY <1>8, <3>4, <4>1, <4>2 DEF Makes
      <3>12. ReadyIsEarned(c)'
        BY <1>8, <2>3 DEF ReadyIsEarned
      <3> QED BY <3>5, <3>6, <3>7, <3>8, <3>9, <3>10, <3>11, <3>12 DEF CallInv
    <2> QED BY <2>2, <2>3
  <1> QED BY <1>6, <1>9 DEF ReviewInv

\* A kicad-cli that is done has written its file; if the call that is alone does not
\* wait for it, no call that is alone minds.
LEMMA EndsKeeps ==
    ASSUME ReviewInv, NEW r \in Runs, Ends(r)
    PROVE  ReviewInv'
  <1>1. ReviewTypeOK /\ run[r].at = "loaded" /\ run[r] \in Started /\ run[r].saw \in Projects /\ run[r].what \in {"report"} \cup OutputNames
    BY RunKinds DEF ReviewInv, Ends, ReviewTypeOK
  <1> DEFINE x == Over(r, "ended")
  <1>2. x \in {NotStarted} \cup Started /\ x.at \in {"free", "ended"} /\ (x.at = "ended" => x.saw = run[r].saw) /\ run' = [run EXCEPT ![r] = x]
    BY <1>1, OverKinds DEF Ends
  <1> HIDE DEF x
  <1>3. /\ run' \in [Runs -> {NotStarted} \cup Started]
        /\ \A q \in Runs : run'[q].at \in {"loaded", "ended"} => run'[q].saw \in Projects
        /\ run'[r] = x /\ \A q \in Runs \ {r} : run'[q] = run[q]
    BY <1>1, <1>2, RunTypes
  <1>4. Underway' \subseteq Underway /\ r \in Underway /\ r \notin Underway' /\ \A q \in Underway' : run'[q].what = run[q].what
    BY <1>1, <1>2, <1>3 DEF Underway
  <1>5. /\ run[r].what = "report" => package' = package /\ \E omitted \in Omissions : report' = Reported(r, omitted)
        /\ run[r].what # "report" => report' = report /\ package' = [package EXCEPT ![run[r].what] = run[r].saw]
    BY DEF Ends
  <1>6. report' \in {NoFile} \cup [Passes -> Severities \cup {"absent"}] /\ package' \in [OutputNames -> Projects \cup {NoFile}]
    BY <1>1, <1>5, ReportedTypes DEF ReviewTypeOK
  <1>7. ReviewTypeOK'
    BY <1>1, <1>3, <1>6 DEF Ends, ReviewTypeOK, projectVars, historyVars
  <1>8. asked' = asked /\ past' = past /\ alone' = alone /\ Now' = Now
    BY DEF Ends, historyVars, Now, projectVars
  <1>9. ASSUME NEW c \in Callers PROVE CallInv(c)'
    <2>1. CallInv(c)
      BY DEF ReviewInv
    <2>2. alone[c] /\ Exporting(c) => \A o \in asked[c].made : package'[o] = package[o]
      <3>1. SUFFICES ASSUME alone[c], Exporting(c), NEW o \in asked[c].made PROVE package'[o] = package[o]
        OBVIOUS
      <3>2. run[r].what \notin asked[c].made
        BY <1>4, <2>1, <3>1 DEF CallInv, Makes
      <3>3. o \in OutputNames
        <4>1. asked[c].made \subseteq {Outputs[i] : i \in 1..4}
          BY <2>1, <3>1 DEF CallInv, Makes
        <4> QED BY <3>1, <4>1, OutputsAreNamed
      <3> QED BY <1>1, <1>5, <3>1, <3>2, <3>3 DEF ReviewTypeOK
    <2>3. CASE ~(asked[c].at = "waiting" /\ asked[c].run = r)
      <3>1. asked[c].at = "waiting" => run'[asked[c].run] = run[asked[c].run]
        BY <1>3, <2>3, OneWaits
      <3>2. \A q \in Runs : run'[q].at \in {"started", "loaded"} => run[q].at \in {"started", "loaded"} /\ run'[q].what = run[q].what
        BY <1>4 DEF Underway
      <3>3. ~(alone[c] /\ asked[c].at = "waiting")
        BY <1>4, <2>1, <2>3 DEF CallInv, Solo
      <3>4. Quiet(c)
        BY <1>8, <2>1, <2>2, <3>1, <3>2, <3>3 DEF Quiet, CallInv, InCourse
      <3> QED BY <1>1, <2>1, <3>4, Elsewhere
    <2>4. CASE asked[c].at = "waiting" /\ asked[c].run = r
      <3>1. x = [run[r] EXCEPT !.at = "ended"]
        BY <1>1, <2>4, OverKinds DEF x
      <3>2. x \in Started /\ x.at = "ended" /\ x.of = run[r].of /\ x.what = run[r].what /\ x.saw = run[r].saw /\ x.parity = run[r].parity
        BY <1>1, <3>1 DEF Started
      <3>4. Exporting(c)' = Exporting(c)
        BY <1>8 DEF Exporting
      <3>5. Stages(c)'
        BY <2>1, <1>8 DEF CallInv, Stages, Exporting
      <3>6. Waits(c)'
        BY <1>3, <1>8, <2>1, <2>4, <3>2, <3>4 DEF CallInv, Waits
      <3>7. InCourse(c)'
        BY <1>8, <2>1 DEF CallInv, InCourse
      <3>8. Saw(c)'
        <4>1. run[r].saw \in past[c] /\ run[r].parity = (run[r].saw.sheets[Root] # Broken)
          BY <1>1, <2>1, <2>4 DEF CallInv, Saw
        <4> QED BY <1>3, <1>8, <2>4, <3>2, <4>1 DEF Saw
      <3>9. Solo(c)'
        <4>1. alone'[c] => Underway' \subseteq {asked'[c].run}
          BY <1>4, <1>8, <2>1, <2>4 DEF CallInv, Solo
        <4>2. run[r].what # "report" => package'[run[r].what] = run[r].saw
          BY <1>1, <1>5 DEF ReviewTypeOK
        <4>3. ASSUME NEW omitted PROVE Reported(r, omitted)' = Reported(r, omitted)
          BY <1>3, <3>2 DEF Reported
        <4>4. run[r].what = "report" => \E omitted \in Omissions : report' = Reported(r, omitted)'
          BY <1>5, <4>3
        <4>5. /\ run'[r].what # "report" => package'[run'[r].what] = run'[r].saw
              /\ run'[r].what = "report" => \E omitted \in Omissions : report' = Reported(r, omitted)'
          BY <1>3, <3>2, <4>2, <4>4
        <4>6. asked'[c].run = r
          BY <1>8, <2>4
        <4> QED BY <4>1, <4>5, <4>6 DEF Solo
      <3>10. Measured(c)' /\ Walked(c)'
        BY <1>8, <2>4 DEF Measured, Walked
      <3>11. Makes(c)'
        <4>1. Makes(c)
          BY <2>1 DEF CallInv
        <4>2. alone'[c] /\ Exporting(c) => \A q \in Underway' : run'[q].what \notin asked'[c].made
          BY <1>4, <1>8, <4>1 DEF Makes
        <4>3. alone'[c] /\ Exporting(c) => \A o \in asked'[c].made : package'[o] \in past'[c]
          BY <1>8, <2>2, <4>1 DEF Makes
        <4> QED BY <1>8, <3>4, <4>1, <4>2, <4>3 DEF Makes
      <3>12. ReadyIsEarned(c)'
        BY <1>8, <2>4 DEF ReadyIsEarned
      <3> QED BY <3>5, <3>6, <3>7, <3>8, <3>9, <3>10, <3>11, <3>12 DEF CallInv
    <2> QED BY <2>3, <2>4
  <1> QED BY <1>7, <1>9 DEF ReviewInv

(***************************************************************************)
(* The calls.                                                              *)
(***************************************************************************)

\* A call takes a step, hearing perhaps of its run and taking the report away:
\* nobody else is disturbed.
CallSteps(c, b) ==
    /\ asked' = [asked EXCEPT ![c] = b]
    /\ run' = run \/ (asked[c].at = "waiting" /\ run' = [run EXCEPT ![asked[c].run] = NotStarted])
    /\ report' \in {report, NoFile}
    /\ board' = board /\ sheets' = sheets /\ package' = package /\ past' = past /\ alone' = alone

LEMMA CallStep ==
    ASSUME ReviewInv, NEW c \in Callers, NEW b \in Calls, CallSteps(c, b)
    PROVE  /\ asked'[c] = b /\ Now' = Now
           /\ Underway' \subseteq Underway /\ \A q \in Underway' : run'[q].what = run[q].what
           /\ CallInv(c)' => ReviewInv'
  <1>1. ReviewTypeOK
    BY DEF ReviewInv
  <1>2. asked' \in [Callers -> Calls] /\ asked'[c] = b /\ \A d \in Callers \ {c} : asked'[d] = asked[d]
    BY <1>1, CallTypes DEF CallSteps
  <1>3. Now' = Now
    BY DEF CallSteps, Now
  <1>4. /\ run' \in [Runs -> {NotStarted} \cup Started]
        /\ \A q \in Runs : run'[q].at \in {"loaded", "ended"} => run'[q].saw \in Projects
        /\ \A q \in Runs : run'[q] = run[q] \/ (run'[q].at = "free" /\ asked[c].at = "waiting" /\ q = asked[c].run)
    <2>1. CASE run' = run
      BY <1>1, <2>1 DEF ReviewTypeOK
    <2>2. CASE asked[c].at = "waiting" /\ run' = [run EXCEPT ![asked[c].run] = NotStarted]
      <3>1. asked[c].run \in Runs
        BY <2>2, OneWaits
      <3>2. NotStarted.at = "free"
        BY DEF NotStarted
      <3> QED BY <1>1, <2>2, <3>1, <3>2, RunTypes
    <2> QED BY <2>1, <2>2 DEF CallSteps
  <1>5. Underway' \subseteq Underway /\ \A q \in Underway' : run'[q].what = run[q].what
    BY <1>4 DEF Underway
  <1>6. ReviewTypeOK'
    BY <1>1, <1>2, <1>4 DEF CallSteps, ReviewTypeOK
  <1>7. ASSUME NEW d \in Callers \ {c} PROVE CallInv(d)'
    <2>1. CallInv(d)
      BY DEF ReviewInv
    <2>2. asked[d].at = "waiting" => run'[asked[d].run] = run[asked[d].run]
      BY <1>4, OneWaits
    <2>3. \A q \in Runs : run'[q].at \in {"started", "loaded"} => run[q].at \in {"started", "loaded"} /\ run'[q].what = run[q].what
      BY <1>5 DEF Underway
    <2>4. Quiet(d)
      BY <1>2, <1>3, <2>1, <2>2, <2>3 DEF Quiet, CallSteps, CallInv, InCourse
    <2> QED BY <1>1, <2>1, <2>4, Elsewhere
  <1> QED BY <1>2, <1>3, <1>5, <1>6, <1>7 DEF ReviewInv

\* A step of a review, a validation or a DRC that waits for nothing.
LEMMA ReviewingStep ==
    ASSUME ReviewInv, NEW c \in Callers, NEW b \in Reviewing, CallSteps(c, b), ~Exporting(c),
           b.tool = asked[c].tool, b.board = asked[c].board, b.schematic = asked[c].schematic, b.run = NoRun,
           b.at \in {"structure", "walk", "audit", "dfm", "answered"},
           b.at # "answered" => b.verdict = "none", b.verdict # "No warnings.",
           b.at = "structure" => b.tool = "validate",
           b.at \in {"walk", "audit", "dfm"} => b.tool = "review",
           b.at \in {"walk", "audit"} => b.schematic,
           b.at \in {"structure", "walk", "dfm"} => b.todo = <<>>,
           b.tool \in {"drc", "validate"} => b.board,
           asked[c].at \notin {"idle", "answered"},
           alone[c] /\ b.board => \E n \in past[c] : MeasuredOn(n, b.drc),
           b.at = "audit" \/ (b.at = "dfm" /\ b.schematic) =>
             \E n \in past[c] : ~b.unaudited =>
               \A f \in ToSet(Tree(n.sheets)) :
                 f \in ToSet(b.todo) \/ \E m \in past[c] : m.sheets[f] # Broken /\ Found(m.sheets[f]) \subseteq b.found,
           alone[c] /\ b.at = "answered" /\ b.verdict \in {"READY", "LOOKS GOOD"} => Earned(c)
    PROVE  ReviewInv'
  <1>1. ReviewTypeOK /\ CallInv(c) /\ asked[c].at # "idle"
    BY DEF ReviewInv
  <1>2. b \in Calls
    BY DEF Calls
  <1>3. asked'[c] = b /\ Now' = Now /\ past' = past /\ alone' = alone
    BY <1>2, CallStep DEF CallSteps
  <1>4. ~Exporting(c)' /\ b.tool \in {"drc", "validate", "review"}
    <2>1. Stages(c)
      BY <1>1 DEF CallInv
    <2>2. asked[c].tool \in {"drc", "validate", "review"}
      BY <1>1, <2>1, CallKinds
    <2> QED BY <1>3, <2>2 DEF Exporting
  <1>5. b # Idle
    <2>1. Idle.at = "idle"
      BY DEF Idle
    <2> QED BY <2>1
  <1>6. Stages(c)'
    BY <1>3, <1>4, <1>5 DEF Stages
  <1>7. Waits(c)' /\ Saw(c)' /\ Solo(c)' /\ Makes(c)'
    BY <1>3, <1>4 DEF Waits, Saw, Solo, Makes
  <1>8. InCourse(c)'
    BY <1>1, <1>3 DEF InCourse, CallInv
  <1>9. Measured(c)'
    BY <1>3 DEF Measured
  <1>10. Walked(c)'
    BY <1>3 DEF Walked, Read
  <1>11. alone'[c] => ReadyIsEarned(c)'
    <2>1. Earned(c) => Earned(c)'
      BY <1>3 DEF Earned
    <2> QED BY <1>3, <2>1 DEF ReadyIsEarned
  <1>12. CallInv(c)'
    BY <1>6, <1>7, <1>8, <1>9, <1>10, <1>11 DEF CallInv
  <1> QED BY <1>2, <1>12, CallStep

LEMMA GateSees ==
    ASSUME NEW c \in Callers, asked[c] \in Reviewing
    PROVE  \A p \in Passes : asked[c].drc[p] \in {"warning", "error"} => asked[c].drc[p] \in GateFindings(c)
  <1> DEFINE names == <<"violations", "unconnected_items", "schematic_parity">>
             seen == [i \in 1..3 |-> asked[c].drc[names[i]]]
  <1>1. \A p \in Passes : \E i \in 1..3 : p = names[i]
    <2>1. 1 \in 1..3 /\ 2 \in 1..3 /\ 3 \in 1..3
      OBVIOUS
    <2> QED BY <2>1 DEF Passes
  <1> HIDE DEF names
  <1>2. \A p \in Passes : asked[c].drc[p] \in ToSet(seen)
    BY <1>1 DEF ToSet
  <1>3. GateFindings(c) = ToSet(seen) \cap {"warning", "error"}
    BY DEF GateFindings, names
  <1> QED BY <1>2, <1>3

\* A gate that misses no pass and finds nothing has clean evidence, of a board that
\* could be compared with its schematic.
LEMMA CleanEvidence ==
    ASSUME NEW c \in Callers, asked[c] \in Reviewing, NEW n \in Projects, MeasuredOn(n, asked[c].drc),
           ~GateIncomplete(c), "error" \notin GateFindings(c), "warning" \notin GateFindings(c)
    PROVE  Clean(n.board) /\ n.sheets[Root] # Broken
  <1>1. \A p \in Passes : asked[c].drc[p] = n.board.drc[p]
    BY DEF MeasuredOn, GateIncomplete
  <1>2. n.sheets[Root] # Broken
    <2>1. "schematic_parity" \in Passes
      BY DEF Passes
    <2> QED BY <2>1 DEF MeasuredOn, GateIncomplete
  <1>3. \A p \in Passes : n.board.drc[p] \in Severities
    BY ReviewAssumption DEF Projects
  <1>4. ASSUME NEW p \in Passes PROVE n.board.drc[p] = "none"
    <2>1. asked[c].drc[p] \notin {"warning", "error"}
      BY GateSees
    <2> QED BY <1>1, <1>3, <2>1 DEF Severities
  <1> QED BY <1>2, <1>4 DEF Clean

LEMMA GateTypes ==
    ASSUME NEW c \in Callers
    PROVE  GateFindings(c) \subseteq Severities
  BY DEF GateFindings, Severities

LEMMA AnswersSteps ==
    ASSUME ReviewTypeOK, NEW c \in Callers, asked[c] \in Reviewing, NEW verdict \in Verdicts, NEW found \in Findings,
           Answers(c, verdict, found), UNCHANGED <<projectVars, report, package, run, historyVars>>
    PROVE  \E b \in Reviewing :
             /\ CallSteps(c, b) /\ b.at = "answered" /\ b.verdict = verdict /\ b.found = found /\ b.drc = asked[c].drc
             /\ b.tool = asked[c].tool /\ b.board = asked[c].board /\ b.schematic = asked[c].schematic /\ b.run = asked[c].run
             /\ b.unaudited = asked[c].unaudited
  <1> DEFINE a == asked[c]
             b == [a EXCEPT !.at = "answered", !.verdict = verdict, !.found = found]
  <1>1. asked' = [asked EXCEPT ![c] = b]
    BY DEF Answers, ReviewTypeOK
  <1>2. b \in Reviewing
    <2> HIDE DEF a
    <2>1. a \in Reviewing
      BY DEF a
    <2>2. "answered" \in Stops
      BY DEF Stops
    <2> DEFINE at == "answered"
    <2>3. at \in Stops
      BY <2>2
    <2> HIDE DEF at
    <2>4. [a EXCEPT !.at = at, !.verdict = verdict, !.found = found] \in Reviewing
      BY <2>1, <2>3, AnswerSets
    <2> QED BY <2>4 DEF at
  <1>3. /\ b.at = "answered" /\ b.verdict = verdict /\ b.found = found /\ b.drc = a.drc /\ b.tool = a.tool /\ b.board = a.board
        /\ b.schematic = a.schematic /\ b.run = a.run /\ b.unaudited = a.unaudited
    BY DEF Reviewing
  <1>4. CallSteps(c, b)
    BY <1>1 DEF CallSteps, projectVars, historyVars
  <1> HIDE DEF b
  <1> QED BY <1>2, <1>3, <1>4

LEMMA ReadsBoardKeeps ==
    ASSUME ReviewInv, NEW c \in Callers, ReadsBoard(c)
    PROVE  ReviewInv'
  <1>1. ReviewTypeOK /\ CallInv(c) /\ asked[c].at = "structure"
    BY DEF ReviewInv, ReadsBoard
  <1>2. asked[c] \in Reviewing /\ asked[c].tool = "validate" /\ asked[c].board /\ asked[c].run = NoRun /\ ~Exporting(c)
    BY <1>1 DEF CallInv, Stages, Exporting
  <1>3. Now \in past[c] /\ past[c] \subseteq Projects
    BY <1>1 DEF CallInv, InCourse, ReviewTypeOK
  <1> DEFINE found == GateFindings(c) \cup ({board.dfm} \ {"none"}) \cup (IF GateIncomplete(c) THEN {"warning"} ELSE {})
             verdict == IF "error" \in found THEN "NOT READY" ELSE IF GateIncomplete(c) THEN "INCOMPLETE"
                        ELSE IF found # {} THEN "NEEDS REVIEW" ELSE "READY"
  <1>4. board.dfm \in Severities
    BY <1>1, ReviewAssumption DEF ReviewTypeOK
  <1>5. found \in Findings /\ verdict \in Verdicts
    <2>1. found \subseteq Severities
      BY <1>4, GateTypes DEF Severities
    <2>2. verdict \in Verdicts
      <3> HIDE DEF found
      <3> QED BY DEF Verdicts
    <2> HIDE DEF found, verdict
    <2> QED BY <2>1, <2>2 DEF Findings
  <1>6. Answers(c, verdict, found) /\ UNCHANGED <<projectVars, report, package, run, historyVars>>
    BY DEF ReadsBoard
  <1>7. verdict = "READY" => ~GateIncomplete(c) /\ GateFindings(c) = {} /\ board.dfm = "none"
    BY <1>4
  <1>8. verdict # "LOOKS GOOD" /\ verdict # "No warnings."
    <2> HIDE DEF found
    <2> QED OBVIOUS
  <1> HIDE DEF found, verdict
  <1>9. PICK b \in Reviewing :
             /\ CallSteps(c, b) /\ b.at = "answered" /\ b.verdict = verdict /\ b.found = found /\ b.drc = asked[c].drc
             /\ b.tool = asked[c].tool /\ b.board = asked[c].board /\ b.schematic = asked[c].schematic /\ b.run = asked[c].run
             /\ b.unaudited = asked[c].unaudited
    <2>1. ReviewTypeOK /\ asked[c] \in Reviewing
      BY <1>1, <1>2
    <2> QED BY <2>1, <1>5, <1>6, AnswersSteps
  <1>10. alone[c] => \E n \in past[c] : MeasuredOn(n, asked[c].drc)
    BY <1>1, <1>2 DEF CallInv, Measured
  <1>11. ASSUME alone[c], verdict \in {"READY", "LOOKS GOOD"} PROVE Earned(c)
    <2>1. PICK n \in past[c] : MeasuredOn(n, asked[c].drc)
      BY <1>10, <1>11
    <2>2. Clean(n.board) /\ n.sheets[Root] # Broken
      BY <1>2, <1>3, <1>7, <1>8, <1>11, <2>1, CleanEvidence
    <2>3. Now.board.dfm = "none"
      BY <1>7, <1>8, <1>11 DEF Now
    <2> QED BY <1>2, <1>3, <2>2, <2>3 DEF Earned
  <1> QED BY <1>1, <1>2, <1>8, <1>9, <1>10, <1>11, ReviewingStep

\* What a sheet is found to have is no more than what the review has found.
LEMMA FoundTypes == \A s : Found(s) \subseteq {"warning", "error"}
  BY DEF Found

LEMMA ConcludesKeeps ==
    ASSUME ReviewInv, NEW c \in Callers, Concludes(c)
    PROVE  ReviewInv'
  <1>1. ReviewTypeOK /\ CallInv(c) /\ asked[c].at = "dfm"
    BY DEF ReviewInv, Concludes
  <1>2. asked[c] \in Reviewing /\ asked[c].tool = "review" /\ asked[c].todo = <<>> /\ asked[c].run = NoRun /\ ~Exporting(c)
    BY <1>1 DEF CallInv, Stages, Exporting
  <1>3. Now \in past[c] /\ past[c] \subseteq Projects
    BY <1>1 DEF CallInv, InCourse, ReviewTypeOK
  <1> DEFINE incomplete == asked[c].board /\ GateIncomplete(c)
             found == asked[c].found \cup GateFindings(c) \cup (IF asked[c].board THEN {board.dfm} \ {"none"} ELSE {})
                        \cup (IF incomplete THEN {"warning"} ELSE {})
             verdict == IF "error" \in found THEN "NOT READY" ELSE IF asked[c].unaudited \/ incomplete THEN "INCOMPLETE"
                        ELSE IF "warning" \in found THEN "NEEDS ATTENTION" ELSE "LOOKS GOOD"
  <1>4. board.dfm \in Severities /\ asked[c].found \subseteq Severities
    BY <1>1, <1>2, ReviewAssumption DEF ReviewTypeOK, Reviewing, Findings
  <1>5. found \in Findings /\ verdict \in Verdicts
    <2>1. found \subseteq Severities
      BY <1>4, GateTypes DEF Severities
    <2>2. verdict \in Verdicts
      <3> HIDE DEF found, incomplete
      <3> QED BY DEF Verdicts
    <2> HIDE DEF found, verdict
    <2> QED BY <2>1, <2>2 DEF Findings
  <1>6. Answers(c, verdict, found) /\ UNCHANGED <<projectVars, report, package, run, historyVars>>
    BY DEF Concludes
  <1>7. verdict = "LOOKS GOOD" =>
          /\ "error" \notin found /\ "warning" \notin found /\ ~asked[c].unaudited /\ ~incomplete
    <2> HIDE DEF found, incomplete
    <2> QED OBVIOUS
  <1>8. verdict # "READY" /\ verdict # "No warnings."
    <2> HIDE DEF found, incomplete
    <2> QED OBVIOUS
  <1>9. asked[c].found \subseteq found /\ GateFindings(c) \subseteq found /\ (asked[c].board => {board.dfm} \ {"none"} \subseteq found)
    OBVIOUS
  <1>10. asked[c].board /\ ~incomplete => ~GateIncomplete(c)
    OBVIOUS
  <1> HIDE DEF found, verdict, incomplete
  <1>11. PICK b \in Reviewing :
             /\ CallSteps(c, b) /\ b.at = "answered" /\ b.verdict = verdict /\ b.found = found /\ b.drc = asked[c].drc
             /\ b.tool = asked[c].tool /\ b.board = asked[c].board /\ b.schematic = asked[c].schematic /\ b.run = asked[c].run
             /\ b.unaudited = asked[c].unaudited
    BY <1>1, <1>2, <1>5, <1>6, AnswersSteps
  <1>12. alone[c] /\ asked[c].board => \E n \in past[c] : MeasuredOn(n, asked[c].drc)
    BY <1>1, <1>2 DEF CallInv, Measured
  <1>13. ASSUME alone[c], verdict \in {"READY", "LOOKS GOOD"} PROVE Earned(c)
    <2>1. "error" \notin found /\ "warning" \notin found /\ ~asked[c].unaudited /\ ~incomplete
      BY <1>7, <1>8, <1>13
    <2>2. ASSUME asked[c].board
          PROVE  (\E n \in past[c] : Clean(n.board) /\ n.sheets[Root] # Broken) /\ \E n \in past[c] : n.board.dfm = "none"
      <3>1. PICK n \in past[c] : MeasuredOn(n, asked[c].drc)
        BY <1>12, <1>13, <2>2
      <3>2. Clean(n.board) /\ n.sheets[Root] # Broken
        BY <1>2, <1>3, <1>9, <1>10, <2>1, <2>2, <3>1, CleanEvidence
      <3>3. Now.board.dfm = "none"
        BY <1>4, <1>9, <2>1, <2>2 DEF Now, Severities
      <3> QED BY <1>3, <3>2, <3>3
    <2>3. ASSUME asked[c].schematic
          PROVE  \E n \in past[c] : \A f \in ToSet(Tree(n.sheets)) : \E m \in past[c] : m.sheets[f] # Broken /\ Found(m.sheets[f]) = {}
      <3>1. PICK n \in past[c] : \A f \in ToSet(Tree(n.sheets)) : f \in ToSet(asked[c].todo) \/ Read(c, f)
        BY <1>1, <2>1, <2>3 DEF CallInv, Walked
      <3>2. ToSet(asked[c].todo) = {}
        BY <1>2 DEF ToSet
      <3>3. ASSUME NEW f \in ToSet(Tree(n.sheets))
            PROVE  \E m \in past[c] : m.sheets[f] # Broken /\ Found(m.sheets[f]) = {}
        <4>1. PICK m \in past[c] : m.sheets[f] # Broken /\ Found(m.sheets[f]) \subseteq asked[c].found
          BY <3>1, <3>2 DEF Read
        <4>2. Found(m.sheets[f]) = {}
          BY <1>9, <2>1, <4>1, FoundTypes
        <4> QED BY <4>1, <4>2
      <3> QED BY <3>3
    <2> QED BY <2>2, <2>3 DEF Earned
  <1> QED BY <1>1, <1>2, <1>8, <1>11, <1>12, <1>13, ReviewingStep

LEMMA AfterDrcs ==
    ASSUME NEW c \in Callers, asked[c].tool \in {"drc", "validate", "review"}
    PROVE  /\ asked[c].tool = "drc" => AfterDrc(c) = "answered"
           /\ asked[c].tool = "validate" => AfterDrc(c) = "structure"
           /\ asked[c].tool = "review" /\ asked[c].schematic => AfterDrc(c) = "walk"
           /\ asked[c].tool = "review" /\ ~asked[c].schematic => AfterDrc(c) = "dfm"
           /\ AfterDrc(c) \in Stops /\ AfterDrc(c) \in {"answered", "structure", "walk", "dfm"}
  BY DEF AfterDrc, Stops

\* A call goes on with what DRC had to say, or without it.
LEMMA DrcDone ==
    ASSUME ReviewInv, NEW c \in Callers, asked[c].at = "waiting", ~Exporting(c),
           NEW drc \in [Passes -> Severities \cup {"unasked", "absent"}],
           asked' = [asked EXCEPT ![c].at = AfterDrc(c), ![c].run = NoRun, ![c].drc = drc],
           run' = run \/ run' = [run EXCEPT ![asked[c].run] = NotStarted],
           report' \in {report, NoFile},
           board' = board /\ sheets' = sheets /\ package' = package /\ past' = past /\ alone' = alone,
           alone[c] => \E n \in past[c] : MeasuredOn(n, drc)
    PROVE  ReviewInv'
  <1>1. ReviewTypeOK /\ CallInv(c) /\ Stages(c)
    BY DEF ReviewInv, CallInv
  <1>2. asked[c] \in Reviewing /\ asked[c].tool \in {"drc", "validate", "review"}
    BY <1>1, CallKinds
  <1> DEFINE a == asked[c]
             at == AfterDrc(c)
             b == [a EXCEPT !.at = at, !.run = NoRun, !.drc = drc]
  <1>3. at \in Stops /\ at \in {"answered", "structure", "walk", "dfm"}
    BY <1>2, AfterDrcs
  <1>4. asked' = [asked EXCEPT ![c] = b]
    BY <1>1 DEF ReviewTypeOK
  <1>5. b \in Reviewing
    <2>1. a \in Reviewing /\ NoRun \in RunsOrNone
      BY <1>2 DEF RunsOrNone
    <2> HIDE DEF a, at
    <2> QED BY <1>3, <2>1, EvidenceSets
  <1>6. /\ b.at = at /\ b.run = NoRun /\ b.drc = drc /\ b.tool = a.tool /\ b.board = a.board /\ b.schematic = a.schematic
        /\ b.todo = a.todo /\ b.verdict = a.verdict
    BY <1>2 DEF Reviewing
  <1>7. CallSteps(c, b)
    BY <1>4 DEF CallSteps
  <1>8. a.todo = <<>> /\ a.verdict = "none" /\ a.board
    <2>1. a # Idle
      BY DEF Idle
    <2> QED BY <1>1, <2>1 DEF CallInv, Stages, Waits
  <1>9. /\ at = "structure" => a.tool = "validate"
        /\ at \in {"walk", "dfm"} => a.tool = "review"
        /\ at = "walk" => a.schematic
        /\ at = "dfm" => ~a.schematic
    BY <1>2, AfterDrcs
  <1> HIDE DEF b, at
  <1> QED BY <1>1, <1>2, <1>3, <1>5, <1>6, <1>7, <1>8, <1>9, ReviewingStep

\* No evidence is of any project.
LEMMA WithoutDrcKeeps ==
    ASSUME ReviewInv, NEW c \in Callers, asked[c].at = "waiting", ~Exporting(c), WithoutDrc(c),
           run' = run \/ run' = [run EXCEPT ![asked[c].run] = NotStarted],
           UNCHANGED <<board, sheets, report, package, past, alone>>
    PROVE  ReviewInv'
  <1> DEFINE drc == [p \in Passes |-> "absent"]
  <1>1. drc \in [Passes -> Severities \cup {"unasked", "absent"}]
    OBVIOUS
  <1>2. \E n \in past[c] : MeasuredOn(n, drc)
    <2>1. Now \in past[c]
      BY DEF ReviewInv, CallInv, InCourse
    <2> QED BY <2>1 DEF MeasuredOn
  <1>3. asked' = [asked EXCEPT ![c].at = AfterDrc(c), ![c].run = NoRun, ![c].drc = drc]
    BY DEF WithoutDrc
  <1> HIDE DEF drc
  <1> QED BY <1>1, <1>2, <1>3, DrcDone

\* What a kicad-cli reported of the project it had loaded is evidence of that project.
LEMMA EvidenceIsMeasured ==
    ASSUME ReviewTypeOK, NEW r \in Runs, NEW omitted, report = Reported(r, omitted),
           run[r].saw \in Projects, run[r].parity = (run[r].saw.sheets[Root] # Broken)
    PROVE  MeasuredOn(run[r].saw, Evidence(r))
  <1> DEFINE n == run[r].saw
             e == Evidence(r)
  <1>1. report \in [Passes -> Severities \cup {"absent"}]
    BY ReportedTypes
  <1>2. \A p \in Passes : report[p] = IF p \in omitted THEN "absent"
                                      ELSE IF p = "schematic_parity" /\ ~run[r].parity THEN "none" ELSE n.board.drc[p]
    BY DEF Reported
  <1>3. ASSUME NEW p \in Passes, e[p] # "absent"
        PROVE  e[p] = n.board.drc[p] /\ (p = "schematic_parity" => n.sheets[Root] # Broken)
    <2>1. CASE p = "schematic_parity"
      <3>1. "schematic_parity" \in Passes
        BY DEF Passes
      <3>2. ~(report.schematic_parity = "none" /\ ~run[r].parity)
        BY <1>1, <1>3, <2>1, <3>1 DEF Evidence
      <3>3. e[p] = report[p] /\ report.schematic_parity = report["schematic_parity"]
        BY <3>2 DEF Evidence
      <3> QED BY <1>2, <1>3, <2>1, <3>1, <3>2, <3>3
    <2>2. CASE p # "schematic_parity"
      <3>1. e[p] = report[p]
        BY <1>1, <2>2 DEF Evidence
      <3> QED BY <1>2, <1>3, <2>2, <3>1
    <2> QED BY <2>1, <2>2
  <1> QED BY <1>3 DEF MeasuredOn

LEMMA ReadsReportKeeps ==
    ASSUME ReviewInv, NEW c \in Callers, ReadsReport(c)
    PROVE  ReviewInv'
  <1>1. ReviewTypeOK /\ CallInv(c) /\ asked[c].at = "waiting" /\ ~Exporting(c)
    BY DEF ReviewInv, ReadsReport
  <1> DEFINE r == asked[c].run
  <1>2. /\ run' = [run EXCEPT ![r] = NotStarted] /\ run[r].at = "ended"
        /\ board' = board /\ sheets' = sheets /\ package' = package /\ past' = past /\ alone' = alone
    BY DEF ReadsReport, Heard, projectVars, historyVars
  <1>3. CASE report = NoFile /\ WithoutDrc(c) /\ UNCHANGED report
    BY <1>1, <1>2, <1>3, WithoutDrcKeeps
  <1>4. CASE /\ report # NoFile
             /\ asked' = [asked EXCEPT ![c].at = AfterDrc(c), ![c].run = NoRun, ![c].drc = Evidence(r)]
             /\ report' = NoFile
    <2>1. r \in Runs /\ run[r].what = "report"
      BY <1>1 DEF CallInv, Waits
    <2>2. run[r].saw \in past[c] /\ run[r].saw \in Projects /\ run[r].parity = (run[r].saw.sheets[Root] # Broken)
      BY <1>1, <1>2, <2>1 DEF CallInv, Saw, ReviewTypeOK
    <2>3. report \in [Passes -> Severities \cup {"absent"}]
      BY <1>1, <1>4 DEF ReviewTypeOK
    <2> DEFINE drc == Evidence(r)
    <2>4. drc \in [Passes -> Severities \cup {"unasked", "absent"}]
      BY <2>3 DEF Evidence
    <2>5. ASSUME alone[c] PROVE \E n \in past[c] : MeasuredOn(n, drc)
      <3>1. PICK omitted \in Omissions : report = Reported(r, omitted)
        BY <1>1, <1>2, <1>4, <2>1, <2>5 DEF CallInv, Solo
      <3>2. MeasuredOn(run[r].saw, Evidence(r))
        BY <1>1, <2>1, <2>2, <3>1, EvidenceIsMeasured
      <3> QED BY <2>2, <3>2
    <2> HIDE DEF drc
    <2>6. asked' = [asked EXCEPT ![c].at = AfterDrc(c), ![c].run = NoRun, ![c].drc = drc]
      BY <1>4 DEF drc
    <2>7. report' \in {report, NoFile}
      BY <1>4
    <2> QED BY <1>1, <1>2, <2>4, <2>5, <2>6, <2>7, DrcDone
  <1> QED BY <1>3, <1>4 DEF ReadsReport

\* A tree is walked at one time, and its sheets read at others.
LEMMA WalkSets ==
    ASSUME NEW a \in Reviewing, NEW at \in Stops, NEW todo \in Seq(Files), NEW unaudited \in BOOLEAN
    PROVE  [a EXCEPT !.at = at, !.todo = todo, !.unaudited = unaudited] \in Reviewing
  <1> DEFINE lists == Seq(Files)
  <1>1. todo \in lists
    OBVIOUS
  <1>2. Reviewing =
    [tool : {"drc", "validate", "review", "package"}, board : BOOLEAN, schematic : BOOLEAN, run : RunsOrNone,
     next : 1..5, first : 1..4, last : 0..4, made : Mades, warned : BOOLEAN,
     drc : [Passes -> Severities \cup {"unasked", "absent"}], found : Findings, todo : lists,
     unaudited : BOOLEAN, verdict : Verdicts, at : Stops]
    BY DEF Reviewing
  <1> HIDE DEF lists
  <1>3. [a EXCEPT !.at = at, !.todo = todo, !.unaudited = unaudited] \in Reviewing
    BY <1>1, <1>2
  <1> QED BY <1>3

LEMMA TodoSets ==
    ASSUME NEW a \in Reviewing, NEW todo \in Seq(Files), NEW found \in Findings
    PROVE  [a EXCEPT !.todo = todo, !.found = found] \in Reviewing
  <1> DEFINE lists == Seq(Files)
  <1>1. todo \in lists
    OBVIOUS
  <1>2. Reviewing =
    [tool : {"drc", "validate", "review", "package"}, board : BOOLEAN, schematic : BOOLEAN, run : RunsOrNone,
     next : 1..5, first : 1..4, last : 0..4, made : Mades, warned : BOOLEAN,
     drc : [Passes -> Severities \cup {"unasked", "absent"}], found : Findings, todo : lists,
     unaudited : BOOLEAN, verdict : Verdicts, at : Stops]
    BY DEF Reviewing
  <1> HIDE DEF lists
  <1> QED BY <1>1, <1>2

LEMMA WalksKeeps ==
    ASSUME ReviewInv, NEW c \in Callers, Walks(c)
    PROVE  ReviewInv'
  <1>1. ReviewTypeOK /\ CallInv(c) /\ asked[c].at = "walk"
    BY DEF ReviewInv, Walks
  <1>2. asked[c] \in Reviewing /\ asked[c].tool = "review" /\ asked[c].schematic /\ asked[c].run = NoRun /\ asked[c].verdict = "none"
    <2>1. asked[c] # Idle
      BY <1>1 DEF Idle
    <2> QED BY <1>1, <2>1 DEF CallInv, Stages
  <1>3. Now \in past[c] /\ ~Exporting(c)
    BY <1>1, <1>2 DEF CallInv, InCourse, Exporting
  <1> DEFINE a == asked[c]
             todo == Only(Tree(sheets), {f \in Files : sheets[f] # Broken})
             unaudited == \E f \in ToSet(Tree(sheets)) : sheets[f] = Broken
             at == "audit"
             b == [a EXCEPT !.at = at, !.todo = todo, !.unaudited = unaudited]
  <1>4. Tree(sheets) \in Seq(Files)
    BY <1>1, TreeIsSeq DEF ReviewTypeOK
  <1>5. todo \in Seq(Files) /\ \A f \in ToSet(Tree(sheets)) : sheets[f] # Broken => f \in ToSet(todo)
    BY <1>4, OnlyKeeps
  <1>6. asked' = [asked EXCEPT ![c] = b]
    BY <1>1 DEF Walks, ReviewTypeOK
  <1>7. unaudited \in BOOLEAN /\ at \in Stops
    BY DEF Stops
  <1>8. Now.sheets = sheets
    BY DEF Now
  <1>9. ~unaudited => \A f \in ToSet(Tree(Now.sheets)) : f \in ToSet(todo)
    BY <1>5, <1>8
  <1> HIDE DEF todo, unaudited
  <1>10. b \in Reviewing
    <2> HIDE DEF at
    <2> QED BY <1>2, <1>5, <1>7, WalkSets
  <1>11. /\ b.at = "audit" /\ b.todo = todo /\ b.unaudited = unaudited /\ b.run = a.run /\ b.drc = a.drc /\ b.tool = a.tool
         /\ b.board = a.board /\ b.schematic = a.schematic /\ b.verdict = a.verdict
    BY <1>2 DEF Reviewing
  <1>12. CallSteps(c, b)
    BY <1>6 DEF Walks, CallSteps, projectVars, historyVars
  <1> HIDE DEF b
  <1>13. ~b.unaudited => \A f \in ToSet(Tree(Now.sheets)) : f \in ToSet(b.todo)
    BY <1>9, <1>11
  <1>14. \E n \in past[c] : ~b.unaudited =>
            \A f \in ToSet(Tree(n.sheets)) :
              f \in ToSet(b.todo) \/ \E m \in past[c] : m.sheets[f] # Broken /\ Found(m.sheets[f]) \subseteq b.found
    BY <1>3, <1>13
  <1>15. alone[c] /\ b.board => \E n \in past[c] : MeasuredOn(n, b.drc)
    BY <1>1, <1>3, <1>11 DEF CallInv, Measured
  <1> QED BY <1>1, <1>2, <1>3, <1>10, <1>11, <1>12, <1>14, <1>15, ReviewingStep

LEMMA AuditsDoneKeeps ==
    ASSUME ReviewInv, NEW c \in Callers, AuditsDone(c)
    PROVE  ReviewInv'
  <1>1. ReviewTypeOK /\ CallInv(c) /\ asked[c].at = "audit" /\ asked[c].todo = <<>>
    BY DEF ReviewInv, AuditsDone
  <1>2. asked[c] \in Reviewing /\ asked[c].tool = "review" /\ asked[c].schematic /\ asked[c].run = NoRun /\ asked[c].verdict = "none"
    <2>1. asked[c] # Idle
      BY <1>1 DEF Idle
    <2> QED BY <1>1, <2>1 DEF CallInv, Stages
  <1> DEFINE a == asked[c]
             at == "dfm"
             b == [a EXCEPT !.at = at]
  <1>3. ~Exporting(c) /\ at \in Stops
    BY <1>2 DEF Exporting, Stops
  <1>4. asked' = [asked EXCEPT ![c] = b]
    BY <1>1 DEF AuditsDone, Becomes, ReviewTypeOK
  <1>5. b \in Reviewing
    <2> HIDE DEF at
    <2> QED BY <1>2, <1>3, ReviewingSets DEF RunsOrNone
  <1>6. /\ b.at = "dfm" /\ b.todo = <<>> /\ b.unaudited = a.unaudited /\ b.run = a.run /\ b.drc = a.drc /\ b.tool = a.tool
         /\ b.board = a.board /\ b.schematic = a.schematic /\ b.verdict = a.verdict /\ b.found = a.found
    BY <1>1, <1>2 DEF Reviewing
  <1>7. CallSteps(c, b)
    BY <1>4 DEF AuditsDone, CallSteps, projectVars, historyVars
  <1> HIDE DEF b
  <1>8. \E n \in past[c] : ~b.unaudited =>
            \A f \in ToSet(Tree(n.sheets)) :
              f \in ToSet(b.todo) \/ \E m \in past[c] : m.sheets[f] # Broken /\ Found(m.sheets[f]) \subseteq b.found
    BY <1>1, <1>6 DEF CallInv, Walked, Read
  <1>9. alone[c] /\ b.board => \E n \in past[c] : MeasuredOn(n, b.drc)
    BY <1>1, <1>3, <1>6 DEF CallInv, Measured
  <1> QED BY <1>1, <1>2, <1>3, <1>5, <1>6, <1>7, <1>8, <1>9, ReviewingStep

LEMMA HeadOrTail ==
    ASSUME NEW S, NEW s \in Seq(S), s # <<>>
    PROVE  Tail(s) \in Seq(S) /\ \A x \in ToSet(s) : x = Head(s) \/ x \in ToSet(Tail(s))
  <1>1. Len(s) \in Nat /\ Len(s) # 0 /\ Tail(s) \in Seq(S) /\ Len(Tail(s)) = Len(s) - 1
    OBVIOUS
  <1>2. DOMAIN s = 1..Len(s) /\ DOMAIN Tail(s) = 1..(Len(s) - 1)
    BY <1>1
  <1>3. ASSUME NEW i \in 1..Len(s), i # 1 PROVE s[i] \in ToSet(Tail(s))
    <2>1. i - 1 \in 1..(Len(s) - 1) /\ Tail(s)[i - 1] = s[i]
      BY <1>1, <1>3
    <2> QED BY <1>2, <2>1 DEF ToSet
  <1>4. Head(s) = s[1]
    OBVIOUS
  <1> QED BY <1>1, <1>2, <1>3, <1>4 DEF ToSet

LEMMA AuditsSheetKeeps ==
    ASSUME ReviewInv, NEW c \in Callers, AuditsSheet(c)
    PROVE  ReviewInv'
  <1>1. ReviewTypeOK /\ CallInv(c) /\ asked[c].at = "audit" /\ asked[c].todo # <<>>
    BY DEF ReviewInv, AuditsSheet
  <1>2. asked[c] \in Reviewing /\ asked[c].tool = "review" /\ asked[c].schematic /\ asked[c].run = NoRun /\ asked[c].verdict = "none"
    <2>1. asked[c] # Idle
      BY <1>1 DEF Idle
    <2> QED BY <1>1, <2>1 DEF CallInv, Stages
  <1>3. ~Exporting(c) /\ Now \in past[c]
    BY <1>1, <1>2 DEF Exporting, CallInv, InCourse
  <1>4. alone[c] /\ asked[c].board => \E n \in past[c] : MeasuredOn(n, asked[c].drc)
    BY <1>1, <1>3 DEF CallInv, Measured
  <1> DEFINE a == asked[c]
             f == Head(a.todo)
  <1>5. CASE sheets[f] = Broken
    <2> DEFINE at == "answered"
               verdict == "error"
               found == a.found
               b == [a EXCEPT !.at = at, !.verdict = verdict, !.found = found]
    <2>1. asked' = [asked EXCEPT ![c].at = "answered", ![c].verdict = "error"]
      BY <1>5 DEF AuditsSheet
    <2>2. asked' = [asked EXCEPT ![c] = b]
      <3>1. [a EXCEPT !.at = at, !.verdict = verdict] = b
        BY <1>2 DEF Reviewing
      <3> HIDE DEF b
      <3> QED BY <1>1, <2>1, <3>1 DEF ReviewTypeOK
    <2>3. at \in Stops /\ verdict \in Verdicts /\ found \in Findings
      BY <1>2 DEF Stops, Verdicts, Reviewing
    <2>4. b \in Reviewing
      <3> HIDE DEF at, verdict, found
      <3> QED BY <1>2, <2>3, AnswerSets
    <2>5. b.at = "answered" /\ b.verdict = "error" /\ b.run = a.run /\ b.drc = a.drc /\ b.tool = a.tool
          /\ b.board = a.board /\ b.schematic = a.schematic
      BY <1>2 DEF Reviewing
    <2>6. CallSteps(c, b)
      BY <2>2 DEF AuditsSheet, CallSteps, projectVars, historyVars
    <2> HIDE DEF b
    <2> QED BY <1>1, <1>2, <1>3, <1>4, <2>4, <2>5, <2>6, ReviewingStep
  <1>6. CASE sheets[f] # Broken
    <2> DEFINE todo == Tail(a.todo)
               found == a.found \cup Found(sheets[f])
               b == [a EXCEPT !.todo = todo, !.found = found]
    <2>1. asked' = [asked EXCEPT ![c] = b]
      BY <1>1, <1>6 DEF AuditsSheet, ReviewTypeOK
    <2>2. todo \in Seq(Files) /\ \A x \in ToSet(a.todo) : x = f \/ x \in ToSet(todo)
      <3>1. a.todo \in Seq(Files)
        BY <1>2 DEF Reviewing
      <3> QED BY <1>1, <3>1, HeadOrTail
    <2>3. found \in Findings
      BY <1>2, FoundTypes DEF Findings, Reviewing, Severities
    <2>4. a.found \subseteq found /\ Found(sheets[f]) \subseteq found
      OBVIOUS
    <2>5. b \in Reviewing
      <3> HIDE DEF todo, found
      <3> QED BY <1>2, <2>2, <2>3, TodoSets
    <2>6. /\ b.at = "audit" /\ b.todo = todo /\ b.found = found /\ b.unaudited = a.unaudited /\ b.run = a.run /\ b.drc = a.drc
          /\ b.tool = a.tool /\ b.board = a.board /\ b.schematic = a.schematic /\ b.verdict = a.verdict
      BY <1>1, <1>2 DEF Reviewing
    <2>7. CallSteps(c, b)
      BY <2>1 DEF AuditsSheet, CallSteps, projectVars, historyVars
    <2> HIDE DEF b, todo, found
    <2>8. PICK n \in past[c] : ~a.unaudited => \A x \in ToSet(Tree(n.sheets)) : x \in ToSet(a.todo) \/ Read(c, x)
      BY <1>1 DEF CallInv, Walked
    <2>9. ASSUME ~b.unaudited, NEW x \in ToSet(Tree(n.sheets))
          PROVE  x \in ToSet(b.todo) \/ \E m \in past[c] : m.sheets[x] # Broken /\ Found(m.sheets[x]) \subseteq b.found
      <3>1. Now.sheets = sheets
        BY DEF Now
      <3>2. CASE Read(c, x)
        BY <2>4, <2>6, <3>2 DEF Read
      <3>3. CASE x = f
        BY <1>3, <1>6, <2>4, <2>6, <3>1, <3>3
      <3>4. CASE x \in ToSet(todo)
        BY <2>6, <3>4
      <3> QED BY <2>2, <2>6, <2>8, <2>9, <3>2, <3>3, <3>4
    <2>10. \E m \in past[c] : ~b.unaudited =>
             \A x \in ToSet(Tree(m.sheets)) :
               x \in ToSet(b.todo) \/ \E q \in past[c] : q.sheets[x] # Broken /\ Found(q.sheets[x]) \subseteq b.found
      BY <2>8, <2>9
    <2> QED BY <1>1, <1>2, <1>3, <1>4, <2>5, <2>6, <2>7, <2>10, ReviewingStep
  <1> QED BY <1>5, <1>6

\* A step of an export or of a package.
LEMMA ExportStep ==
    ASSUME ReviewInv, NEW c \in Callers, NEW b \in Reviewing \cup ExportingOne, CallSteps(c, b), Exporting(c),
           asked[c].at # "answered", b.tool = asked[c].tool, b.run = NoRun, b.first = asked[c].first, b.at \in {"export", "answered"},
           b.at = "export" => b.verdict = "none",
           b.verdict \in {"none", "error", "warnings", "No warnings."},
           b.made \subseteq {Outputs[i] : i \in 1..4}, b.first <= b.next,
           \A i \in 1..4 : Outputs[i] \in b.made => i < b.next,
           b.verdict = "No warnings." => ~b.warned /\ b.next > b.last,
           ~b.warned /\ b.verdict # "error" =>
             \A i \in b.first..(b.next - 1) : Outputs[i] \in b.made \/ (Outputs[i] = "drill" /\ b.first # 2),
           alone[c] => \A o \in b.made : package[o] \in past[c],
           alone[c] => \A r \in Underway' : run'[r].what \notin b.made
    PROVE  ReviewInv'
  <1>1. CallInv(c) /\ ReviewTypeOK
    BY DEF ReviewInv
  <1>2. b \in Calls
    BY DEF Calls
  <1>3. asked'[c] = b /\ Now' = Now /\ past' = past /\ alone' = alone /\ package' = package
    BY <1>2, CallStep DEF CallSteps
  <1>4. Exporting(c)' /\ b.tool \in {"package", "export"}
    BY <1>3 DEF Exporting
  <1>5. b # Idle
    <2>1. Idle.at = "idle"
      BY DEF Idle
    <2> QED BY <2>1
  <1>6. Stages(c)'
    BY <1>3, <1>4, <1>5 DEF Stages
  <1>7. Waits(c)' /\ Saw(c)' /\ Solo(c)' /\ Measured(c)' /\ Walked(c)'
    BY <1>3, <1>4 DEF Waits, Saw, Solo, Measured, Walked
  <1>8. InCourse(c)'
    <2>1. Stages(c)
      BY <1>1 DEF CallInv
    <2>2. asked[c].at # "idle"
      BY <1>1, <2>1, CallKinds
    <2>3. Now \in past[c]
      BY <1>1, <2>2 DEF CallInv, InCourse
    <2> QED BY <1>3, <2>3 DEF InCourse
  <1>9. Makes(c)'
    <2>1. b.tool = "package" => b.first = 1
      BY <1>1 DEF CallInv, Makes
    <2> QED BY <1>3, <2>1 DEF Makes
  <1>10. ReadyIsEarned(c)'
    BY <1>3 DEF ReadyIsEarned
  <1>11. CallInv(c)'
    BY <1>6, <1>7, <1>8, <1>9, <1>10 DEF CallInv
  <1> QED BY <1>2, <1>11, CallStep

LEMMA ExportFacts ==
    ASSUME ReviewInv, NEW c \in Callers, Exporting(c), asked[c].at \in {"export", "waiting"}
    PROVE  LET a == asked[c]
           IN  /\ a \in Reviewing \cup ExportingOne /\ a.verdict = "none" /\ a.tool \in {"package", "export"}
               /\ a.next \in 1..5 /\ a.first \in 1..4 /\ a.last \in 0..4 /\ a.made \in Mades /\ a.warned \in BOOLEAN
               /\ a.made \subseteq {Outputs[i] : i \in 1..4} /\ a.first <= a.next /\ (a.tool = "package" => a.first = 1)
               /\ \A i \in 1..4 : Outputs[i] \in a.made => i < a.next
               /\ ~a.warned => \A i \in a.first..(a.next - 1) : Outputs[i] \in a.made \/ (Outputs[i] = "drill" /\ a.first # 2)
               /\ alone[c] => (\A o \in a.made : package[o] \in past[c]) /\ \A r \in Underway : run[r].what \notin a.made
  <1>1. ReviewTypeOK /\ CallInv(c) /\ Stages(c)
    BY DEF ReviewInv, CallInv
  <1> DEFINE a == asked[c]
  <1>2. a \in Reviewing \cup ExportingOne
    BY <1>1, CallKinds
  <1>3. a.verdict = "none"
    <2>1. a # Idle
      BY DEF Idle
    <2> QED BY <1>1, <2>1 DEF Stages
  <1>4. a.tool \in {"package", "export"}
    BY DEF Exporting
  <1>5. a.next \in 1..5 /\ a.first \in 1..4 /\ a.last \in 0..4 /\ a.made \in Mades /\ a.warned \in BOOLEAN
    BY <1>2 DEF Reviewing, ExportingOne
  <1>6. Makes(c)
    BY <1>1 DEF CallInv
  <1> QED BY <1>2, <1>3, <1>4, <1>5, <1>6 DEF Makes

\* What was not made is warned of, or is the drill file, whose failure is not told.
LEMMA UnmadeKeeps ==
    ASSUME ReviewInv, NEW c \in Callers, asked[c].at = "waiting", Exporting(c), Unmade(c),
           run' = run \/ run' = [run EXCEPT ![asked[c].run] = NotStarted],
           UNCHANGED <<board, sheets, report, package, past, alone>>
    PROVE  ReviewInv'
  <1>1. ReviewTypeOK /\ CallInv(c)
    BY DEF ReviewInv
  <1> DEFINE a == asked[c]
  <1>2. /\ a \in Reviewing \cup ExportingOne /\ a.verdict = "none" /\ a.tool \in {"package", "export"}
        /\ a.next \in 1..5 /\ a.first \in 1..4 /\ a.last \in 0..4 /\ a.made \in Mades /\ a.warned \in BOOLEAN
        /\ a.made \subseteq {Outputs[i] : i \in 1..4} /\ a.first <= a.next /\ (a.tool = "package" => a.first = 1)
        /\ \A i \in 1..4 : Outputs[i] \in a.made => i < a.next
        /\ ~a.warned => \A i \in a.first..(a.next - 1) : Outputs[i] \in a.made \/ (Outputs[i] = "drill" /\ a.first # 2)
        /\ alone[c] => (\A o \in a.made : package[o] \in past[c]) /\ \A r \in Underway : run[r].what \notin a.made
    BY ExportFacts
  <1>3. a.next <= 4
    BY <1>1, <1>2 DEF CallInv, Waits
  <1>4. ASSUME NEW b \in Calls, CallSteps(c, b), b.made = a.made, alone[c] PROVE \A r \in Underway' : run'[r].what \notin b.made
    <2>1. Underway' \subseteq Underway /\ \A r \in Underway' : run'[r].what = run[r].what
      BY <1>4, CallStep
    <2> QED BY <1>2, <1>4, <2>1
  <1>5. CASE a.tool = "export" /\ a.next = a.first
    <2> DEFINE at == "answered"
               verdict == "error"
               b == [a EXCEPT !.at = at, !.run = NoRun, !.verdict = verdict]
    <2>1. asked' = [asked EXCEPT ![c] = b]
      BY <1>1, <1>5 DEF Unmade, ReviewTypeOK
    <2>2. at \in Stops /\ verdict \in Verdicts /\ NoRun \in RunsOrNone
      BY DEF Stops, Verdicts, RunsOrNone
    <2>3. b \in Reviewing \cup ExportingOne
      <3> HIDE DEF at, verdict
      <3>1. a \in Reviewing => b \in Reviewing
        BY <2>2 DEF Reviewing
      <3>2. a \in ExportingOne => b \in ExportingOne
        BY <2>2 DEF ExportingOne
      <3> QED BY <1>2, <3>1, <3>2
    <2>4. /\ b.at = "answered" /\ b.verdict = "error" /\ b.run = NoRun /\ b.tool = a.tool /\ b.first = a.first /\ b.next = a.next
          /\ b.made = a.made
      BY <1>2 DEF Reviewing, ExportingOne
    <2>5. CallSteps(c, b)
      BY <2>1 DEF CallSteps
    <2> HIDE DEF b
    <2>6. b \in Calls
      BY <2>3 DEF Calls
    <2>7. alone[c] => \A r \in Underway' : run'[r].what \notin b.made
      BY <1>4, <2>4, <2>5, <2>6
    <2> QED BY <1>2, <2>3, <2>4, <2>5, <2>7, ExportStep
  <1>6. CASE ~(a.tool = "export" /\ a.next = a.first)
    <2>1. PICK warned \in BOOLEAN : warned = (a.warned \/ Outputs[a.next] # "drill")
      OBVIOUS
    <2> DEFINE at == "export"
               next == a.next + 1
               made == a.made
               b == [a EXCEPT !.at = at, !.run = NoRun, !.next = next, !.made = made, !.warned = warned]
    <2>2. asked' = [asked EXCEPT ![c] = b]
      <3>1. NextOutput(c, {}, Outputs[a.next] # "drill")
        BY <1>6 DEF Unmade
      <3>2. a.made \cup {} = a.made
        OBVIOUS
      <3> QED BY <1>1, <2>1, <3>1, <3>2 DEF NextOutput, ReviewTypeOK
    <2>a. at \in Stops /\ next \in 1..5 /\ made \in Mades
      BY <1>2, <1>3 DEF Stops
    <2>3. /\ a \in Reviewing => b \in Reviewing
          /\ a \in ExportingOne => b \in ExportingOne
          /\ b.at = at /\ b.run = NoRun /\ b.next = next /\ b.made = made
          /\ b.warned = warned /\ b.first = a.first /\ b.last = a.last /\ b.tool = a.tool /\ b.verdict = a.verdict
      <3>1. NoRun \in RunsOrNone
        BY DEF RunsOrNone
      <3>2. a \in Reviewing \cup ExportingOne
        BY <1>2
      <3> HIDE DEF at, next, made
      <3>3. a \in Reviewing => b \in Reviewing
        BY <2>1, <2>a, <3>1 DEF Reviewing
      <3>4. a \in ExportingOne => b \in ExportingOne
        BY <2>1, <2>a, <3>1 DEF ExportingOne
      <3>5. /\ b.at = at /\ b.run = NoRun /\ b.next = next /\ b.made = made
            /\ b.warned = warned /\ b.first = a.first /\ b.last = a.last /\ b.tool = a.tool /\ b.verdict = a.verdict
        BY <3>2 DEF Reviewing, ExportingOne
      <3> QED BY <3>3, <3>4, <3>5
    <2>4. b.made = a.made /\ b.at = "export"
      BY <2>3
    <2>5. CallSteps(c, b)
      BY <2>2 DEF CallSteps
    <2> HIDE DEF b, at, made
    <2>6. b \in Reviewing \cup ExportingOne /\ b \in Calls
      BY <1>2, <2>3 DEF Calls
    <2>7. alone[c] => \A r \in Underway' : run'[r].what \notin b.made
      BY <1>4, <2>4, <2>5, <2>6
    <2>8. ASSUME ~b.warned, NEW i \in b.first..(b.next - 1)
          PROVE  Outputs[i] \in b.made \/ (Outputs[i] = "drill" /\ b.first # 2)
      <3>1. ~a.warned /\ Outputs[a.next] = "drill"
        BY <1>2, <2>1, <2>3, <2>8
      <3>2. CASE i = a.next
        <4>1. Outputs[i] = "drill" /\ i = 2
          BY <1>2, <1>3, <3>1, <3>2, OutputsAreNamed
        <4>2. b.first # 2
          BY <1>2, <1>6, <2>3, <3>2, <4>1
        <4> QED BY <4>1, <4>2
      <3>3. CASE i # a.next
        <4>1. i \in a.first..(a.next - 1)
          BY <1>2, <2>3, <3>3
        <4> QED BY <1>2, <2>3, <2>4, <3>1, <4>1
      <3> QED BY <3>2, <3>3
    <2>9. /\ b.first <= b.next /\ \A i \in 1..4 : Outputs[i] \in b.made => i < b.next
      BY <1>2, <2>3, <2>4
    <2> QED BY <1>2, <2>3, <2>4, <2>5, <2>6, <2>7, <2>8, <2>9, ExportStep
  <1> QED BY <1>5, <1>6

LEMMA LosesPatienceKeeps ==
    ASSUME ReviewInv, NEW c \in Callers, LosesPatience(c)
    PROVE  ReviewInv'
  <1>1. asked[c].at = "waiting" /\ run' = run /\ UNCHANGED <<board, sheets, report, package, past, alone>>
    BY DEF LosesPatience, projectVars, historyVars
  <1>2. CASE Exporting(c)
    BY <1>1, <1>2, UnmadeKeeps DEF LosesPatience
  <1>3. CASE ~Exporting(c)
    BY <1>1, <1>3, WithoutDrcKeeps DEF LosesPatience
  <1> QED BY <1>2, <1>3

LEMMA HearsOfFailureKeeps ==
    ASSUME ReviewInv, NEW c \in Callers, HearsOfFailure(c)
    PROVE  ReviewInv'
  <1>1. /\ asked[c].at = "waiting" /\ run' = [run EXCEPT ![asked[c].run] = NotStarted]
        /\ UNCHANGED <<board, sheets, report, package, past, alone>>
    BY DEF HearsOfFailure, Heard, projectVars, historyVars
  <1>2. CASE Exporting(c)
    BY <1>1, <1>2, UnmadeKeeps DEF HearsOfFailure
  <1>3. CASE ~Exporting(c)
    BY <1>1, <1>3, WithoutDrcKeeps DEF HearsOfFailure
  <1> QED BY <1>2, <1>3

\* What was made is the project as kicad-cli loaded it.
LEMMA OutputtedKeeps ==
    ASSUME ReviewInv, NEW c \in Callers, Outputted(c)
    PROVE  ReviewInv'
  <1>1. ReviewTypeOK /\ CallInv(c) /\ asked[c].at = "waiting" /\ Exporting(c)
    BY DEF ReviewInv, Outputted
  <1> DEFINE a == asked[c]
             r == a.run
  <1>2. /\ a \in Reviewing \cup ExportingOne /\ a.verdict = "none" /\ a.tool \in {"package", "export"}
        /\ a.next \in 1..5 /\ a.first \in 1..4 /\ a.last \in 0..4 /\ a.made \in Mades /\ a.warned \in BOOLEAN
        /\ a.made \subseteq {Outputs[i] : i \in 1..4} /\ a.first <= a.next /\ (a.tool = "package" => a.first = 1)
        /\ \A i \in 1..4 : Outputs[i] \in a.made => i < a.next
        /\ ~a.warned => \A i \in a.first..(a.next - 1) : Outputs[i] \in a.made \/ (Outputs[i] = "drill" /\ a.first # 2)
        /\ alone[c] => (\A o \in a.made : package[o] \in past[c]) /\ \A q \in Underway : run[q].what \notin a.made
    BY <1>1, ExportFacts
  <1>3. /\ r \in Runs /\ run[r].what = Outputs[a.next] /\ a.next <= 4 /\ run[r].at = "ended"
        /\ run' = [run EXCEPT ![r] = NotStarted]
        /\ report' = report /\ board' = board /\ sheets' = sheets /\ package' = package /\ past' = past /\ alone' = alone
    BY <1>1, <1>2 DEF Outputted, CallInv, Waits, Heard, projectVars, historyVars
  <1>4. a.next \in 1..4 /\ Outputs[a.next] \in OutputNames /\ Outputs[a.next] # "report"
    BY <1>2, <1>3, OutputsAreNamed DEF OutputNames
  <1> DEFINE at == "export"
             next == a.next + 1
             made == a.made \cup {Outputs[a.next]}
             warned == a.warned
             b == [a EXCEPT !.at = at, !.run = NoRun, !.next = next, !.made = made, !.warned = warned]
  <1>5. asked' = [asked EXCEPT ![c] = b]
    <2>1. (a.warned \/ FALSE) = a.warned
      BY <1>2
    <2>2. NextOutput(c, {Outputs[a.next]}, FALSE)
      BY <1>3 DEF Outputted
    <2> QED BY <1>1, <2>1, <2>2 DEF NextOutput, ReviewTypeOK
  <1>6. at \in Stops /\ next \in 1..5 /\ made \in Mades /\ warned \in BOOLEAN /\ NoRun \in RunsOrNone
    BY <1>2, <1>4 DEF Stops, Mades, RunsOrNone
  <1>7. /\ b \in Reviewing \cup ExportingOne
        /\ b.at = at /\ b.run = NoRun /\ b.next = next /\ b.made = made
        /\ b.warned = warned /\ b.first = a.first /\ b.last = a.last /\ b.tool = a.tool /\ b.verdict = a.verdict
    <2> HIDE DEF at, next, made, warned
    <2>1. a \in Reviewing => b \in Reviewing
      BY <1>6 DEF Reviewing
    <2>2. a \in ExportingOne => b \in ExportingOne
      BY <1>6 DEF ExportingOne
    <2>3. /\ b.at = at /\ b.run = NoRun /\ b.next = next /\ b.made = made
          /\ b.warned = warned /\ b.first = a.first /\ b.last = a.last /\ b.tool = a.tool /\ b.verdict = a.verdict
      BY <1>2 DEF Reviewing, ExportingOne
    <2> QED BY <1>2, <2>1, <2>2, <2>3
  <1>8. CallSteps(c, b)
    BY <1>1, <1>3, <1>5 DEF CallSteps
  <1>9. /\ b.first <= b.next /\ b.made \subseteq {Outputs[i] : i \in 1..4}
        /\ \A i \in 1..4 : Outputs[i] \in b.made => i < b.next
    <2> HIDE DEF b
    <2>1. made \subseteq {Outputs[i] : i \in 1..4} /\ a.first <= next
      BY <1>2, <1>4
    <2>2. ASSUME NEW i \in 1..4, Outputs[i] \in made PROVE i < next
      BY <1>2, <1>4, <2>2, OutputsAreNamed
    <2> QED BY <1>7, <2>1, <2>2
  <1>10. ASSUME ~b.warned, NEW i \in b.first..(b.next - 1)
         PROVE  Outputs[i] \in b.made \/ (Outputs[i] = "drill" /\ b.first # 2)
    <2> HIDE DEF b
    <2>1. i = a.next \/ i \in a.first..(a.next - 1)
      BY <1>2, <1>7
    <2> QED BY <1>2, <1>7, <1>10, <2>1
  <1>11. alone[c] => \A o \in b.made : package[o] \in past[c]
    <2> HIDE DEF b
    <2>1. alone[c] => package[Outputs[a.next]] = run[r].saw
      BY <1>1, <1>3, <1>4 DEF CallInv, Solo
    <2>2. run[r].saw \in past[c]
      BY <1>1, <1>3 DEF CallInv, Saw
    <2> QED BY <1>2, <1>7, <2>1, <2>2
  <1>12. alone[c] => \A q \in Underway' : run'[q].what \notin b.made
    <2>1. b \in Calls
      BY <1>7 DEF Calls
    <2> HIDE DEF b
    <2>2. Underway' \subseteq Underway
      BY <1>8, <2>1, CallStep
    <2>3. r \notin Underway
      BY <1>3 DEF Underway
    <2>4. alone[c] => Underway \subseteq {r}
      BY <1>1 DEF CallInv, Solo
    <2> QED BY <2>2, <2>3, <2>4
  <1> HIDE DEF b
  <1>13. b.at = "export" /\ b.verdict = "none"
    BY <1>2, <1>7
  <1> QED BY <1>1, <1>7, <1>8, <1>9, <1>10, <1>11, <1>12, <1>13, ExportStep

LEMMA PackagedKeeps ==
    ASSUME ReviewInv, NEW c \in Callers, Packaged(c)
    PROVE  ReviewInv'
  <1>1. ReviewTypeOK /\ CallInv(c) /\ asked[c].at = "export" /\ Exporting(c) /\ asked[c].next > asked[c].last
    BY DEF ReviewInv, Packaged, CallInv, Stages
  <1> DEFINE a == asked[c]
  <1>2. /\ a \in Reviewing \cup ExportingOne /\ a.verdict = "none" /\ a.tool \in {"package", "export"}
        /\ a.next \in 1..5 /\ a.first \in 1..4 /\ a.last \in 0..4 /\ a.made \in Mades /\ a.warned \in BOOLEAN
        /\ a.made \subseteq {Outputs[i] : i \in 1..4} /\ a.first <= a.next /\ (a.tool = "package" => a.first = 1)
        /\ \A i \in 1..4 : Outputs[i] \in a.made => i < a.next
        /\ ~a.warned => \A i \in a.first..(a.next - 1) : Outputs[i] \in a.made \/ (Outputs[i] = "drill" /\ a.first # 2)
        /\ alone[c] => (\A o \in a.made : package[o] \in past[c]) /\ \A q \in Underway : run[q].what \notin a.made
    BY <1>1, ExportFacts
  <1>3. a.run = NoRun
    BY <1>1 DEF CallInv, Stages
  <1> DEFINE at == "answered"
             verdict == IF a.warned THEN "warnings" ELSE "No warnings."
             b == [a EXCEPT !.at = at, !.verdict = verdict]
  <1>4. asked' = [asked EXCEPT ![c] = b]
    BY <1>1 DEF Packaged, ReviewTypeOK
  <1>5. at \in Stops /\ verdict \in Verdicts
    BY DEF Stops, Verdicts
  <1>6. /\ b \in Reviewing \cup ExportingOne
        /\ b.at = at /\ b.verdict = verdict /\ b.run = a.run /\ b.next = a.next /\ b.made = a.made
        /\ b.warned = a.warned /\ b.first = a.first /\ b.last = a.last /\ b.tool = a.tool
    <2> HIDE DEF at, verdict
    <2>1. a \in Reviewing => b \in Reviewing
      BY <1>5 DEF Reviewing
    <2>2. a \in ExportingOne => b \in ExportingOne
      BY <1>5 DEF ExportingOne
    <2>3. /\ b.at = at /\ b.verdict = verdict /\ b.run = a.run /\ b.next = a.next /\ b.made = a.made
          /\ b.warned = a.warned /\ b.first = a.first /\ b.last = a.last /\ b.tool = a.tool
      BY <1>2 DEF Reviewing, ExportingOne
    <2> QED BY <1>2, <2>1, <2>2, <2>3
  <1>7. CallSteps(c, b)
    BY <1>4 DEF Packaged, CallSteps, projectVars, historyVars
  <1> HIDE DEF b
  <1>8. b.at = "answered" /\ b.verdict \in {"warnings", "No warnings."} /\ (b.verdict = "No warnings." => ~b.warned)
    BY <1>6
  <1>9. alone[c] => \A q \in Underway' : run'[q].what \notin b.made
    <2>1. b \in Calls
      BY <1>6 DEF Calls
    <2>2. Underway' \subseteq Underway /\ \A q \in Underway' : run'[q].what = run[q].what
      BY <1>7, <2>1, CallStep
    <2> QED BY <1>2, <1>6, <2>2
  <1> QED BY <1>1, <1>2, <1>3, <1>6, <1>7, <1>8, <1>9, ExportStep

\* A call begins: it is alone if no kicad-cli is about, and all it has seen is now.
LEMMA BeginsKeeps ==
    ASSUME ReviewInv, NEW c \in Callers, NEW b \in Reviewing \cup ExportingOne, asked[c].at = "idle",
           asked' = [asked EXCEPT ![c] = b],
           past' = [past EXCEPT ![c] = {Now}], alone' = [alone EXCEPT ![c] = Underway = {}],
           UNCHANGED <<board, sheets, report, package, run>>,
           b.at \in {"drc", "walk", "export"}, b.run = NoRun, b.verdict = "none", b.made = {},
           b.at = "drc" => b \in Reviewing /\ b.tool # "package" /\ b.board,
           b.at = "walk" => b \in Reviewing /\ b.tool = "review" /\ b.schematic /\ ~b.board,
           b.at # "export" => b.todo = <<>>,
           b.at = "export" <=> b.tool \in {"package", "export"},
           b.tool \in {"drc", "validate"} => b.board,
           b.next = b.first, b.tool = "package" => b.first = 1
    PROVE  ReviewInv'
  <1>1. ReviewTypeOK
    BY DEF ReviewInv
  <1>2. b \in Calls /\ b # Idle
    <2>1. Idle.at = "idle"
      BY DEF Idle
    <2> QED BY <2>1 DEF Calls
  <1>3. asked' \in [Callers -> Calls] /\ asked'[c] = b /\ \A d \in Callers \ {c} : asked'[d] = asked[d]
    BY <1>1, <1>2, CallTypes
  <1>4. Now' = Now /\ Now \in Projects
    BY <1>1, NowIsProject DEF Now
  <1>5. /\ past' \in [Callers -> SUBSET Projects] /\ past'[c] = {Now} /\ \A d \in Callers \ {c} : past'[d] = past[d]
        /\ alone' \in [Callers -> BOOLEAN] /\ \A d \in Callers \ {c} : alone'[d] = alone[d]
    BY <1>1, <1>4 DEF ReviewTypeOK
  <1>6. ReviewTypeOK'
    BY <1>1, <1>3, <1>5 DEF ReviewTypeOK
  <1>7. Underway' = Underway
    BY DEF Underway
  <1>8. CASE alone'[c] = (Underway = {})
    <2>1. Exporting(c)' <=> b.at = "export"
      BY <1>3 DEF Exporting
    <2>2. Stages(c)'
      BY <1>2, <1>3, <2>1 DEF Stages
    <2>a. asked'[c].at \notin {"waiting", "structure", "audit", "dfm", "answered"} /\ (asked'[c].at = "walk" => ~(Exporting(c)'))
      BY <1>3, <2>1
    <2>3. Waits(c)' /\ Saw(c)' /\ Solo(c)' /\ ReadyIsEarned(c)' /\ Walked(c)'
      BY <2>a DEF Waits, Saw, Solo, ReadyIsEarned, Walked
    <2>b. Measured(c)'
      <3>1. b.at = "walk" => ~b.board
        BY <1>3
      <3> QED BY <1>3, <2>a, <3>1 DEF Measured
    <2>4. InCourse(c)'
      BY <1>3, <1>4, <1>5 DEF InCourse
    <2>5. Makes(c)'
      <3>1. b.first \in Int /\ b.first <= b.next /\ \A i \in b.first..(b.next - 1) : FALSE
        BY DEF Reviewing, ExportingOne
      <3>2. b.verdict # "No warnings."
        OBVIOUS
      <3> QED BY <1>3, <3>1, <3>2 DEF Makes
    <2>6. CallInv(c)'
      BY <2>2, <2>3, <2>b, <2>4, <2>5 DEF CallInv
    <2>7. ASSUME NEW d \in Callers \ {c} PROVE CallInv(d)'
      <3>1. CallInv(d)
        BY DEF ReviewInv
      <3>2. Quiet(d)
        BY <1>3, <1>4, <1>5, <3>1 DEF Quiet, CallInv, InCourse
      <3> QED BY <1>1, <3>1, <3>2, Elsewhere
    <2> QED BY <1>6, <2>6, <2>7 DEF ReviewInv
  <1> QED BY <1>1, <1>8 DEF ReviewTypeOK

LEMMA AskKeeps ==
    ASSUME ReviewInv, NEW c \in Callers, NEW tool \in {"drc", "validate", "review", "package"},
           NEW ofBoard \in BOOLEAN, NEW ofSchematic \in BOOLEAN, NEW outputs \in {0, 2, 3, 4},
           Ask(c, tool, ofBoard, ofSchematic, outputs)
    PROVE  ReviewInv'
  <1> DEFINE at == IF tool = "package" THEN "export" ELSE IF ofBoard THEN "drc" ELSE "walk"
             made == {}
             found == {}
             todo == <<>>
             drc == [p \in Passes |-> "unasked"]
             warned == outputs = 3
             verdict == "none"
             b == [tool |-> tool, board |-> ofBoard, schematic |-> ofSchematic, run |-> NoRun, next |-> 1, first |-> 1,
                   last |-> outputs, made |-> made, warned |-> warned, drc |-> drc, found |-> found, todo |-> todo,
                   unaudited |-> FALSE, verdict |-> verdict, at |-> at]
  <1>1. /\ asked[c].at = "idle" /\ asked' = [asked EXCEPT ![c] = b]
        /\ past' = [past EXCEPT ![c] = {Now}] /\ alone' = [alone EXCEPT ![c] = Underway = {}]
        /\ UNCHANGED <<board, sheets, report, package, run>>
    BY DEF Ask, projectVars
  <1>2. /\ tool = "review" => ofBoard \/ ofSchematic
        /\ tool # "review" => ofBoard
    BY DEF Ask
  <1>3. /\ at \in Stops /\ verdict \in Verdicts /\ made \in Mades /\ found \in Findings /\ todo \in Seq(Files)
        /\ drc \in [Passes -> Severities \cup {"unasked", "absent"}] /\ warned \in BOOLEAN /\ NoRun \in RunsOrNone
    BY DEF Stops, Verdicts, Mades, Findings, RunsOrNone
  <1>4. /\ at \in {"drc", "walk", "export"}
        /\ at = "drc" => tool # "package" /\ ofBoard
        /\ at = "walk" => tool = "review" /\ ofSchematic /\ ~ofBoard
        /\ at = "export" <=> tool = "package"
    BY <1>2
  <1>5. b \in Reviewing
    <2> HIDE DEF at, made, found, todo, drc, warned, verdict
    <2>1. outputs \in 0..4 /\ 1 \in 1..5 /\ 1 \in 1..4
      OBVIOUS
    <2> QED BY <1>3, <2>1 DEF Reviewing
  <1>6. /\ b.at = at /\ b.tool = tool /\ b.board = ofBoard /\ b.schematic = ofSchematic /\ b.run = NoRun /\ b.verdict = "none"
        /\ b.made = {} /\ b.todo = <<>> /\ b.next = 1 /\ b.first = 1
    OBVIOUS
  <1> HIDE DEF b, at
  <1>7. tool \in {"drc", "validate"} => ofBoard
    BY <1>2
  <1>8. tool \in {"package", "export"} <=> tool = "package"
    OBVIOUS
  <1>9. b \in Reviewing \cup ExportingOne
    BY <1>5
  <1> QED BY <1>1, <1>4, <1>5, <1>6, <1>7, <1>8, <1>9, BeginsKeeps

LEMMA AskExportKeeps ==
    ASSUME ReviewInv, NEW c \in Callers, NEW export \in Exports, AskExport(c, export)
    PROVE  ReviewInv'
  <1>1. export[1] \in 1..4 /\ export[2] \in 1..4
    BY DEF Exports
  <1> DEFINE first == export[1]
             last == export[2]
             at == "export"
             verdict == "none"
             made == {}
             tool == "export"
             b == [tool |-> tool, run |-> NoRun, next |-> first, first |-> first, last |-> last,
                   made |-> made, warned |-> FALSE, verdict |-> verdict, at |-> at]
  <1>2. /\ asked[c].at = "idle" /\ asked' = [asked EXCEPT ![c] = b]
        /\ past' = [past EXCEPT ![c] = {Now}] /\ alone' = [alone EXCEPT ![c] = Underway = {}]
        /\ UNCHANGED <<board, sheets, report, package, run>>
    BY DEF AskExport, projectVars
  <1>3. at \in Stops /\ verdict \in Verdicts /\ made \in Mades /\ NoRun \in RunsOrNone /\ tool \in {"export"}
    BY DEF Stops, Verdicts, Mades, RunsOrNone
  <1>4. b \in ExportingOne
    <2>1. first \in 1..5 /\ first \in 1..4 /\ last \in 0..4
      BY <1>1
    <2> HIDE DEF at, verdict, made, first, last, tool
    <2> QED BY <1>3, <2>1 DEF ExportingOne
  <1>5. b.at = "export" /\ b.tool = "export" /\ b.run = NoRun /\ b.verdict = "none" /\ b.made = {} /\ b.next = b.first
    OBVIOUS
  <1>6. b \in Reviewing \cup ExportingOne
    BY <1>4
  <1> HIDE DEF b
  <1> QED BY <1>2, <1>5, <1>6, BeginsKeeps

\* A kicad-cli is started, and no other call that waits is alone any more.
LEMMA SpawnKeeps ==
    ASSUME ReviewInv, NEW c \in Callers, NEW r \in Runs, Spawn(c, r)
    PROVE  ReviewInv'
  <1>1. ReviewTypeOK /\ CallInv(c) /\ run[r].at = "free" /\ asked[c].at \in {"drc", "export"}
    BY DEF ReviewInv, Spawn
  <1> DEFINE a == asked[c]
             what == IF a.at = "drc" THEN "report" ELSE Outputs[a.next]
             x == [at |-> "started", of |-> c, saw |-> NoFile, parity |-> FALSE, what |-> what]
             at == "waiting"
             b == [a EXCEPT !.at = at, !.run = r]
  <1>2. /\ a.at = "drc" => a \in Reviewing /\ a.tool # "package" /\ a.board /\ a.todo = <<>> /\ ~Exporting(c)
        /\ a.at = "export" => Exporting(c) /\ a.next <= a.last
        /\ a.verdict = "none" /\ a \in Reviewing \cup ExportingOne
    <2>1. Stages(c)
      BY <1>1 DEF CallInv
    <2>2. a \in Reviewing \cup ExportingOne
      BY <1>1, <2>1, CallKinds
    <2>3. a.verdict = "none"
      <3>1. a # Idle
        BY <1>1 DEF Idle
      <3> QED BY <1>1, <2>1, <3>1 DEF Stages
    <2>4. ASSUME a.at = "drc" PROVE a \in Reviewing /\ a.tool # "package" /\ a.board /\ a.todo = <<>> /\ ~Exporting(c)
      <3>1. a \in Reviewing /\ a.tool # "package" /\ a.board /\ a.todo = <<>>
        BY <2>1, <2>4 DEF Stages
      <3>2. a.tool # "export"
        BY <3>1 DEF Reviewing
      <3> QED BY <3>1, <3>2 DEF Exporting
    <2>5. a.at = "export" => Exporting(c) /\ a.next <= a.last
      BY <2>1 DEF Stages, Spawn
    <2> QED BY <2>2, <2>3, <2>4, <2>5
  <1>3. a.at = "export" => a.next \in 1..4
    BY <1>1, <1>2, ExportFacts
  <1>4. what \in {"report"} \cup OutputNames
    BY <1>1, <1>3, OutputsAreNamed
  <1>5. /\ run' = [run EXCEPT ![r] = x] /\ asked' = [asked EXCEPT ![c] = b]
        /\ alone' = [d \in Callers |-> alone[d] /\ (d = c \/ asked[d].at = "idle") /\ (d = c => Underway = {})]
        /\ UNCHANGED <<board, sheets, report, package, past>>
    BY <1>1 DEF Spawn, ReviewTypeOK, projectVars
  <1>6. x \in Started /\ x.at = "started" /\ x.of = c /\ x.what = what
    <2> HIDE DEF what
    <2> QED BY <1>4 DEF Started
  <1> HIDE DEF x
  <1>7. /\ run' \in [Runs -> {NotStarted} \cup Started]
        /\ \A q \in Runs : run'[q].at \in {"loaded", "ended"} => run'[q].saw \in Projects
        /\ run'[r] = x /\ \A q \in Runs \ {r} : run'[q] = run[q]
    BY <1>1, <1>5, <1>6, RunTypes
  <1>8. /\ b \in Calls /\ b.at = "waiting" /\ b.run = r /\ b.tool = a.tool /\ b.verdict = a.verdict
        /\ a \in Reviewing => b \in Reviewing /\ b.todo = a.todo /\ b.board = a.board
        /\ b.made = a.made /\ b.next = a.next /\ b.first = a.first /\ b.last = a.last /\ b.warned = a.warned
    <2>1. at \in Stops /\ r \in RunsOrNone
      BY DEF Stops, RunsOrNone
    <2> HIDE DEF at, a
    <2>2. a \in Reviewing => b \in Reviewing /\ b.todo = a.todo /\ b.board = a.board
      BY <2>1 DEF Reviewing
    <2>3. a \in ExportingOne => b \in ExportingOne
      BY <2>1 DEF ExportingOne
    <2>4. /\ b.at = at /\ b.run = r /\ b.tool = a.tool /\ b.verdict = a.verdict
          /\ b.made = a.made /\ b.next = a.next /\ b.first = a.first /\ b.last = a.last /\ b.warned = a.warned
      BY <1>2 DEF Reviewing, ExportingOne
    <2>5. at = "waiting"
      BY DEF at
    <2>6. a \in Reviewing \/ a \in ExportingOne
      BY <1>2 DEF a
    <2> QED BY <2>2, <2>3, <2>4, <2>5, <2>6 DEF Calls
  <1> HIDE DEF b
  <1>9. asked' \in [Callers -> Calls] /\ asked'[c] = b /\ \A d \in Callers \ {c} : asked'[d] = asked[d]
    BY <1>1, <1>5, <1>8, CallTypes
  <1>10. alone' \in [Callers -> BOOLEAN]
    BY <1>5
  <1>11. ReviewTypeOK'
    BY <1>1, <1>5, <1>7, <1>9, <1>10 DEF ReviewTypeOK
  <1>12. Now' = Now
    BY <1>5 DEF Now
  <1>13. alone'[c] => alone[c] /\ Underway' \subseteq {r}
    <2>1. alone'[c] => alone[c] /\ Underway = {}
      BY <1>5
    <2>2. Underway' \subseteq Underway \cup {r}
      BY <1>7 DEF Underway
    <2> QED BY <2>1, <2>2
  <1>14. CallInv(c)'
    <2>1. Exporting(c)' = Exporting(c)
      BY <1>8, <1>9 DEF Exporting
    <2>2. b # Idle
      BY <1>8 DEF Idle
    <2>3. a.tool \in {"drc", "validate"} => a.board
      BY <1>1 DEF CallInv, Stages
    <2>4. ~Exporting(c) => a \in Reviewing /\ a.todo = <<>> /\ a.board /\ a.at = "drc"
      BY <1>1, <1>2
    <2>5. Exporting(c) => a.at = "export"
      BY <1>1, <1>2
    <2>6. Stages(c)'
      <3>1. ~Exporting(c) => b.todo = <<>> /\ b.board
        BY <1>8, <2>4
      <3>2. b.tool \in {"drc", "validate"} => b.board
        BY <1>8, <2>3, <2>4 DEF Exporting
      <3> QED BY <1>2, <1>8, <1>9, <2>1, <2>2, <3>1, <3>2 DEF Stages
    <2>7. Waits(c)'
      <3>1. Exporting(c) => b.next <= b.last /\ what = Outputs[b.next]
        BY <1>2, <1>8, <2>5
      <3>2. ~Exporting(c) => b.board /\ what = "report"
        BY <1>8, <2>4
      <3> HIDE DEF what
      <3> QED BY <1>6, <1>7, <1>8, <1>9, <2>1, <3>1, <3>2 DEF Waits
    <2>8. InCourse(c)'
      BY <1>1, <1>5, <1>9, <1>12 DEF CallInv, InCourse
    <2>9. Saw(c)' /\ Solo(c)'
      BY <1>6, <1>7, <1>8, <1>9, <1>13 DEF Saw, Solo
    <2>10. Measured(c)' /\ Walked(c)' /\ ReadyIsEarned(c)'
      BY <1>8, <1>9 DEF Measured, Walked, ReadyIsEarned
    <2>11. Makes(c)'
      <3>1. SUFFICES ASSUME Exporting(c) PROVE Makes(c)'
        BY <2>1 DEF Makes
      <3>2. Makes(c) /\ a.at = "export" /\ a.next \in 1..4 /\ what = Outputs[a.next]
        BY <1>1, <1>3, <2>5, <3>1 DEF CallInv
      <3>3. Outputs[a.next] \notin a.made
        <4>1. \A i \in 1..4 : Outputs[i] \in a.made => i < a.next
          BY <3>1, <3>2 DEF Makes
        <4> QED BY <3>2, <4>1
      <3>4. alone'[c] => \A q \in Underway' : run'[q].what \notin b.made
        <4> HIDE DEF what
        <4> QED BY <1>6, <1>7, <1>8, <1>13, <3>2, <3>3
      <3>5. alone'[c] => \A o \in b.made : package'[o] \in past'[c]
        BY <1>5, <1>8, <1>13, <3>1, <3>2 DEF Makes
      <3> HIDE DEF what
      <3> QED BY <1>8, <1>9, <2>1, <3>1, <3>2, <3>4, <3>5 DEF Makes
    <2> QED BY <2>6, <2>7, <2>8, <2>9, <2>10, <2>11 DEF CallInv
  <1>15. ASSUME NEW d \in Callers \ {c} PROVE CallInv(d)'
    <2>1. CallInv(d)
      BY DEF ReviewInv
    <2>2. alone'[d] => alone[d] /\ asked[d].at = "idle"
      BY <1>5
    <2>3. asked[d].at = "waiting" => run'[asked[d].run] = run[asked[d].run]
      <3>1. r # asked[d].run \/ asked[d].at # "waiting"
        BY <1>1, <2>1 DEF CallInv, Waits, Started
      <3>2. asked[d].at = "waiting" => asked[d].run \in Runs
        BY <2>1 DEF CallInv, Waits
      <3> QED BY <1>7, <3>1, <3>2
    <2>4. Exporting(d) => asked[d].at # "idle"
      BY <1>1, <2>1, CallKinds DEF CallInv
    <2>5. Quiet(d)
      BY <1>5, <1>9, <1>12, <2>1, <2>2, <2>3, <2>4 DEF Quiet, CallInv, InCourse
    <2> QED BY <1>1, <2>1, <2>5, Elsewhere
  <1> QED BY <1>11, <1>14, <1>15 DEF ReviewInv

\* A call at rest has nothing to be held to.
LEMMA IdleHolds ==
    ASSUME NEW c \in Callers, asked[c] = Idle
    PROVE  CallInv(c)
  <1>1. Idle.at = "idle" /\ Idle.tool = "none" /\ Idle.run = NoRun
    BY DEF Idle
  <1>2. ~Exporting(c)
    BY <1>1 DEF Exporting
  <1>3. Stages(c)
    BY <1>1, <1>2 DEF Stages
  <1> QED BY <1>1, <1>2, <1>3 DEF CallInv, Waits, InCourse, Saw, Solo, Measured, Walked, Makes, ReadyIsEarned

LEMMA ToldKeeps ==
    ASSUME ReviewInv, NEW c \in Callers, Told(c)
    PROVE  ReviewInv'
  <1>1. ReviewTypeOK
    BY DEF ReviewInv
  <1>2. asked' = [asked EXCEPT ![c] = Idle] /\ past' = [past EXCEPT ![c] = {}]
        /\ UNCHANGED <<board, sheets, report, package, run, alone>>
    BY DEF Told, projectVars
  <1>3. asked' \in [Callers -> Calls] /\ asked'[c] = Idle /\ \A d \in Callers \ {c} : asked'[d] = asked[d]
    <2>1. Idle \in Calls
      BY DEF Calls
    <2> QED BY <1>1, <1>2, <2>1, CallTypes
  <1>4. past' \in [Callers -> SUBSET Projects] /\ \A d \in Callers \ {c} : past'[d] = past[d]
    BY <1>1, <1>2 DEF ReviewTypeOK
  <1>5. ReviewTypeOK'
    BY <1>1, <1>2, <1>3, <1>4 DEF ReviewTypeOK
  <1>6. CallInv(c)'
    <2>1. Idle.at = "idle" /\ Idle.tool = "none" /\ Idle.run = NoRun
      BY DEF Idle
    <2>2. ~Exporting(c)'
      BY <1>3, <2>1 DEF Exporting
    <2>3. Stages(c)'
      BY <1>3, <2>1, <2>2 DEF Stages
    <2> QED BY <1>3, <2>1, <2>2, <2>3 DEF CallInv, Waits, InCourse, Saw, Solo, Measured, Walked, Makes, ReadyIsEarned
  <1>7. ASSUME NEW d \in Callers \ {c} PROVE CallInv(d)'
    <2>1. CallInv(d)
      BY DEF ReviewInv
    <2>2. Now' = Now
      BY <1>2 DEF Now
    <2>3. Quiet(d)
      BY <1>2, <1>3, <1>4, <2>1, <2>2 DEF Quiet, CallInv, InCourse
    <2> QED BY <1>1, <2>1, <2>3, Elsewhere
  <1> QED BY <1>5, <1>6, <1>7 DEF ReviewInv

(***************************************************************************)
(* The theorems.                                                           *)
(***************************************************************************)
LEMMA InitHolds == ReviewInit => ReviewInv
  <1>1. ASSUME ReviewInit, NEW c \in Callers PROVE CallInv(c)
    <2>1. asked[c] = Idle
      BY <1>1 DEF ReviewInit
    <2> QED BY <2>1, IdleHolds
  <1> QED BY <1>1, TypeInit DEF ReviewInv

LEMMA NextHolds == ReviewInv /\ [ReviewNext]_reviewVars => ReviewInv'
  <1>1. SUFFICES ASSUME ReviewInv, [ReviewNext]_reviewVars PROVE ReviewInv'
    OBVIOUS
  <1>2. ASSUME NEW c \in Callers, NEW tool \in {"drc", "validate", "review", "package"}, NEW b \in BOOLEAN, NEW s \in BOOLEAN,
               NEW outputs \in {0, 2, 3, 4}, Ask(c, tool, b, s, outputs)
        PROVE  ReviewInv'
    BY <1>1, <1>2, AskKeeps
  <1>3. ASSUME NEW c \in Callers, NEW export \in Exports, AskExport(c, export) PROVE ReviewInv'
    BY <1>1, <1>3, AskExportKeeps
  <1>4. ASSUME NEW c \in Callers, NEW r \in Runs, Spawn(c, r) PROVE ReviewInv'
    BY <1>1, <1>4, SpawnKeeps
  <1>5. ASSUME NEW c \in Callers, LosesPatience(c) \/ HearsOfFailure(c) \/ Outputted(c) \/ ReadsReport(c) \/ ReadsBoard(c)
        PROVE  ReviewInv'
    BY <1>1, <1>5, LosesPatienceKeeps, HearsOfFailureKeeps, OutputtedKeeps, ReadsReportKeeps, ReadsBoardKeeps
  <1>6. ASSUME NEW c \in Callers, Walks(c) \/ AuditsSheet(c) \/ AuditsDone(c) \/ Concludes(c) \/ Packaged(c) \/ Told(c)
        PROVE  ReviewInv'
    BY <1>1, <1>6, WalksKeeps, AuditsSheetKeeps, AuditsDoneKeeps, ConcludesKeeps, PackagedKeeps, ToldKeeps
  <1>7. ASSUME NEW r \in Runs, Loads(r) \/ Ends(r) \/ Fails(r) PROVE ReviewInv'
    BY <1>1, <1>7, LoadsKeeps, EndsKeeps, FailsKeeps
  <1>8. ASSUME Saves PROVE ReviewInv'
    BY <1>1, <1>8, SavesKeeps
  <1>9. ASSUME UNCHANGED reviewVars PROVE ReviewInv'
    <2>1. UNCHANGED <<board, sheets, report, package, run, asked, past, alone>>
      BY <1>9 DEF reviewVars
    <2>2. ReviewTypeOK'
      BY <1>1, <2>1 DEF ReviewInv, ReviewTypeOK
    <2>3. ASSUME NEW c \in Callers PROVE CallInv(c)'
      <3>1. CallInv(c)
        BY <1>1 DEF ReviewInv
      <3>2. Quiet(c)
        BY <2>1, <3>1 DEF Quiet, CallInv, InCourse, Now
      <3> QED BY <1>1, <3>1, <3>2, Elsewhere DEF ReviewInv
    <2> QED BY <2>2, <2>3 DEF ReviewInv
  <1> QED BY <1>1, <1>2, <1>3, <1>4, <1>5, <1>6, <1>7, <1>8, <1>9 DEF ReviewNext

\* What run_design_review, validate_for_manufacturing, run_drc and the exports answer
\* rests on an invariant of each call: the kicad-cli it waits for is its own and does
\* what it was started for; a call that has kicad-cli to itself finds in the report what
\* its own run wrote; its evidence is of a project there was in the course of the call;
\* each sheet of the tree it walked is still to be read or was there; what it has made
\* stays.
THEOREM ReviewsStayInOrder == ReviewSpec => []ReviewInv
  BY InitHolds, NextHolds, PTL DEF ReviewSpec

\* The two audits that look at one capacitor agree on every sheet, and of a call that has
\* kicad-cli to itself: a verdict of READY or LOOKS GOOD is earned by a board without
\* errors, compared with its schematic, and a tree of sheets each of which was there with
\* nothing amiss; the counts of a DRC are of a board that was there; a package without
\* warnings shows the project as it was during the call.
THEOREM ReviewsAlwaysHold == ReviewSpec => []ReviewsHold
  <1>1. ReviewInv => ReviewsHold
    <2>1. SUFFICES ASSUME ReviewInv PROVE ReviewsHold
      OBVIOUS
    <2>2. ReviewTypeOK
      BY <2>1 DEF ReviewInv
    <2>3. ASSUME NEW f \in Files, sheets[f] # Broken PROVE AuditsAgree(sheets[f])
      <3>1. sheets[f] \in Sheets
        BY <2>2, <2>3 DEF ReviewTypeOK
      <3> QED BY <3>1, AuditsAlwaysAgree
    <2>4. ASSUME NEW c \in Callers, alone[c] PROVE ReadyIsEarned(c) /\ CountsAreMeasured(c) /\ PackageIsMade(c)
      <3>1. CallInv(c) /\ Stages(c)
        BY <2>1 DEF ReviewInv, CallInv
      <3>2. ReadyIsEarned(c)
        BY <2>4, <3>1 DEF CallInv
      <3>3. CountsAreMeasured(c)
        <4>1. SUFFICES ASSUME asked[c].at = "answered", asked[c].tool = "drc" PROVE \E n \in past[c] : MeasuredOn(n, asked[c].drc)
          BY DEF CountsAreMeasured, MeasuredOn
        <4>2. ~Exporting(c) /\ asked[c].board
          BY <3>1, <4>1 DEF Exporting, Stages
        <4> QED BY <2>4, <3>1, <4>1, <4>2 DEF CallInv, Measured
      <3>4. PackageIsMade(c)
        <4>1. SUFFICES ASSUME asked[c].at = "answered", asked[c].verdict = "No warnings.",
                              NEW i \in asked[c].first..asked[c].last, Outputs[i] # "drill" \/ asked[c].first = 2
                       PROVE  package[Outputs[i]] \in past[c]
          BY DEF PackageIsMade
        <4>2. Exporting(c) /\ Makes(c)
          BY <3>1, <4>1 DEF Stages, CallInv
        <4>3. asked[c].next \in Int /\ asked[c].last \in Int /\ asked[c].first \in Int
          <5>1. asked[c] \in Reviewing \/ asked[c] \in ExportingOne
            BY <2>2, <3>1, <4>1, CallKinds
          <5> QED BY <5>1 DEF Reviewing, ExportingOne
        <4>4. i \in asked[c].first..(asked[c].next - 1) /\ ~asked[c].warned
          <5>1. asked[c].next > asked[c].last /\ ~asked[c].warned
            BY <4>1, <4>2 DEF Makes
          <5>2. asked[c].first <= i /\ i <= asked[c].last /\ i \in Int
            <6>1. \A x, y \in Int : \A z \in x..y : x <= z /\ z <= y /\ z \in Int
              OBVIOUS
            <6> QED BY <4>3, <6>1
          <5> QED BY <4>3, <5>1, <5>2
        <4>5. Outputs[i] \in asked[c].made
          <5>1. asked[c].verdict # "error"
            BY <4>1
          <5> QED BY <4>1, <4>2, <4>4, <5>1 DEF Makes
        <4> QED BY <2>4, <4>2, <4>5 DEF Makes
      <3> QED BY <3>2, <3>3, <3>4
    <2> QED BY <2>3, <2>4 DEF ReviewsHold
  <1> QED BY <1>1, ReviewsStayInOrder, PTL
=============================================================================
