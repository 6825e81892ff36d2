--------------------------- MODULE Stores_proofs ---------------------------
(***************************************************************************)
(* What a server keeps besides the documents: the idempotency ledger, the  *)
(* operating mode, the run journal, the evidence store, the tasks, and the *)
(* catalogue its clients share.  They share nothing; each is proved by     *)
(* itself, for any keys and capacity, callers, runs and limits, artefacts, *)
(* clients, toolsets and requests, and then all of them together.          *)
(***************************************************************************)
EXTENDS Stores, FiniteSetTheorems, WellFoundedInduction, TLAPS
-----------------------------------------------------------------------------
(* Sublists and totals.  Induction is by the least counterexample: the       *)
(* library's own takes an operator.                                          *)

LEMMA LeastNatural ==
    ASSUME NEW T, T \subseteq Nat, T # {}
    PROVE  \E x \in T : \A y \in T : x <= y
  <1> DEFINE R == {ss \in Nat \X Nat : ss[1] < ss[2]}
  <1>1. IsWellFoundedOn(R, Nat)
    BY NatLessThanWellFounded DEF OpToRel
  <1>2. PICK x \in T : \A y \in T : ~(<<y, x>> \in R)
    BY <1>1, WFMin
  <1>3. ASSUME NEW y \in T PROVE x <= y
    <2>1. x \in Nat /\ y \in Nat
      BY <1>2
    <2>2. <<y, x>> \in Nat \X Nat /\ <<y, x>>[1] = y /\ <<y, x>>[2] = x
      BY <2>1
    <2>3. ~(y < x)
      BY <1>2, <2>2
    <2> QED BY <2>1, <2>3
  <1> QED BY <1>3

\* Positions have ranks of their own, in their order.
LEMMA RanksGrow ==
    ASSUME NEW at \in SUBSET Nat, IsFiniteSet(at)
    PROVE  /\ Cardinality(at) \in Nat
           /\ \A i \in at : Rank(at, i) \in 1..Cardinality(at)
           /\ \A i, j \in at : i < j => Rank(at, i) < Rank(at, j)
  <1>1. Cardinality(at) \in Nat
    BY FS_CardinalityType
  <1>2. \A k \in at : k \in Int
    OBVIOUS
  <1> DEFINE upto(i) == {j \in at : j <= i}
  <1>3. ASSUME NEW i \in at
        PROVE  /\ IsFiniteSet(upto(i)) /\ Rank(at, i) = Cardinality(upto(i)) /\ Rank(at, i) \in Nat
               /\ Rank(at, i) <= Cardinality(at) /\ Rank(at, i) # 0
    <2>1. upto(i) \in SUBSET at /\ i \in upto(i) /\ Rank(at, i) = Cardinality(upto(i))
      BY DEF Rank
    <2> HIDE DEF upto
    <2>2. IsFiniteSet(upto(i)) /\ Cardinality(upto(i)) <= Cardinality(at)
      BY <1>1, <2>1, FS_Subset
    <2>3. Cardinality(upto(i)) \in Nat
      BY <2>2, FS_CardinalityType
    <2>4. Cardinality(upto(i)) # 0
      BY <2>1, <2>2, FS_EmptySet
    <2> QED BY <2>1, <2>2, <2>3, <2>4
  <1>4. ASSUME NEW i \in at, NEW j \in at, i < j PROVE Rank(at, i) < Rank(at, j)
    <2>1. upto(i) \in SUBSET upto(j) /\ j \in upto(j) /\ j \notin upto(i)
      <3>1. i \in Int /\ j \in Int /\ j <= j /\ ~(j <= i)
        BY <1>2, <1>4
      <3>2. ASSUME NEW k \in upto(i) PROVE k \in upto(j)
        <4>1. k \in at /\ k <= i /\ k \in Int
          BY <1>2, <3>2
        <4> QED BY <1>4, <3>1, <4>1
      <3> QED BY <3>1, <3>2
    <2> HIDE DEF upto
    <2>2. Cardinality(upto(i)) <= Cardinality(upto(j)) /\ (Cardinality(upto(j)) = Cardinality(upto(i)) => upto(j) = upto(i))
      BY <1>3, <2>1, FS_Subset
    <2> QED BY <1>3, <2>1, <2>2
  <1> HIDE DEF upto
  <1>5. \A i \in at : Rank(at, i) \in 1..Cardinality(at)
    <2> SUFFICES ASSUME NEW i \in at PROVE Rank(at, i) \in 1..Cardinality(at)
      OBVIOUS
    <2> QED BY <1>1, <1>3
  <1> QED BY <1>1, <1>4, <1>5

\* Every rank is the rank of some position.
LEMMA EveryRank ==
    ASSUME NEW at \in SUBSET Nat, IsFiniteSet(at), NEW m \in 1..Cardinality(at)
    PROVE  \E i \in at : Rank(at, i) = m
  <1> DEFINE c == Cardinality(at)
             f == [i \in at |-> Rank(at, i)]
  <1>1. IsFiniteSet(1..c) /\ Cardinality(1..c) = c /\ c \in Nat
    BY RanksGrow, FS_Interval
  <1>2. f \in Injection(at, 1..c)
    <2>1. f \in [at -> 1..c]
      BY RanksGrow
    <2>2. \A i, j \in at : i # j => f[i] # f[j]
      <3> SUFFICES ASSUME NEW i \in at, NEW j \in at, i # j PROVE Rank(at, i) # Rank(at, j)
        OBVIOUS
      <3>1. Rank(at, i) \in 1..c /\ Rank(at, j) \in 1..c /\ (i < j \/ j < i)
        BY RanksGrow
      <3>2. (i < j => Rank(at, i) < Rank(at, j)) /\ (j < i => Rank(at, j) < Rank(at, i))
        BY RanksGrow
      <3> QED BY <3>1, <3>2
    <2> HIDE DEF f
    <2> QED BY <2>1, <2>2 DEF Injection, IsInjective
  <1>3. f \in Surjection(at, 1..c)
    <2> HIDE DEF f
    <2> QED BY <1>1, <1>2, FS_Injection
  <1>4. \E i \in at : f[i] = m
    <2> HIDE DEF f
    <2> QED BY <1>3 DEF Surjection
  <1> QED BY <1>4

\* The positions, in their order.
Enumerates(p, at) ==
    /\ p \in [1..Cardinality(at) -> at]
    /\ \A l, m \in 1..Cardinality(at) : l < m => p[l] < p[m]
    /\ \A m \in 1..Cardinality(at) : Rank(at, p[m]) = m
    /\ \A i \in at : \E m \in 1..Cardinality(at) : p[m] = i

\* A sublist takes the positions it is given, each once and in their order.
LEMMA SublistPositions ==
    ASSUME NEW at \in SUBSET Nat, IsFiniteSet(at), NEW seq
    PROVE  /\ Cardinality(at) \in Nat /\ DOMAIN Sublist(seq, at) = 1..Cardinality(at)
           /\ \E p : Enumerates(p, at) /\ Sublist(seq, at) = [m \in 1..Cardinality(at) |-> seq[p[m]]]
  <1> DEFINE c == Cardinality(at)
             p == [m \in 1..c |-> CHOOSE i \in at : Rank(at, i) = m]
  <1>1. c \in Nat
    BY RanksGrow
  <1>2. ASSUME NEW m \in 1..c PROVE p[m] \in at /\ Rank(at, p[m]) = m
    BY EveryRank
  <1>3. p \in [1..c -> at]
    BY <1>2
  <1>4. Sublist(seq, at) = [m \in 1..c |-> seq[p[m]]]
    BY DEF Sublist
  <1> HIDE DEF p
  <1>5. ASSUME NEW i \in at, NEW j \in at, Rank(at, i) = Rank(at, j) PROVE i = j
    <2>1. Rank(at, i) \in 1..c /\ Rank(at, j) \in 1..c
      BY RanksGrow
    <2>2. (i < j => Rank(at, i) < Rank(at, j)) /\ (j < i => Rank(at, j) < Rank(at, i))
      BY RanksGrow
    <2> QED BY <1>5, <2>1, <2>2
  <1>6. \A i \in at : \E m \in 1..c : p[m] = i
    <2> TAKE i \in at
    <2>1. Rank(at, i) \in 1..c
      BY RanksGrow
    <2> QED BY <1>2, <1>5, <2>1
  <1>7. \A l, m \in 1..c : l < m => p[l] < p[m]
    <2> SUFFICES ASSUME NEW l \in 1..c, NEW m \in 1..c, l < m PROVE p[l] < p[m]
      OBVIOUS
    <2>1. Rank(at, p[l]) = l /\ Rank(at, p[m]) = m /\ p[l] \in at /\ p[m] \in at
      BY <1>2
    <2>2. p[m] < p[l] => Rank(at, p[m]) < Rank(at, p[l])
      BY <2>1, RanksGrow
    <2>3. \A k \in at : k \in Int
      OBVIOUS
    <2>4. l # m /\ ~(m < l)
      BY <1>1
    <2>5. p[l] \in Int /\ p[m] \in Int /\ p[l] # p[m]
      BY <2>1, <2>3, <2>4
    <2> QED BY <2>1, <2>2, <2>4, <2>5
  <1>8. Enumerates(p, at)
    BY <1>2, <1>3, <1>6, <1>7 DEF Enumerates
  <1>9. DOMAIN Sublist(seq, at) = 1..c
    BY <1>4
  <1> QED BY <1>1, <1>4, <1>8, <1>9

Sums(f, s, n) == f = [i \in 0..n |-> IF i = 0 THEN 0 ELSE f[i - 1] + s[i]]

\* The recursion of Total has a solution.
LEMMA SumIsDefined ==
    ASSUME NEW s, NEW n \in Nat
    PROVE  \E f : Sums(f, s, n)
  <1> DEFINE Bad == {m \in Nat : ~ \E f : Sums(f, s, m)}
  <1>1. SUFFICES ASSUME Bad # {} PROVE FALSE
    OBVIOUS
  <1>2. PICK m \in Bad : \A y \in Bad : m <= y
    BY <1>1, LeastNatural
  <1>3. m # 0
    <2>1. Sums([i \in 0..0 |-> 0], s, 0)
      BY DEF Sums
    <2> QED BY <2>1
  <1>4. m \in Nat /\ m - 1 \in Nat /\ m - 1 \notin Bad
    BY <1>2, <1>3
  <1>5. PICK f : Sums(f, s, m - 1)
    BY <1>4
  <1> DEFINE g == [i \in 0..m |-> IF i < m THEN f[i] ELSE f[m - 1] + s[m]]
  <1>6. ASSUME NEW i \in 0..m PROVE g[i] = IF i = 0 THEN 0 ELSE g[i - 1] + s[i]
    <2>1. CASE i < m
      <3>1. i \in 0..(m - 1) /\ g[i] = f[i]
        BY <1>4, <2>1
      <3>2. f[i] = IF i = 0 THEN 0 ELSE f[i - 1] + s[i]
        BY <1>5, <3>1 DEF Sums
      <3>3. i # 0 => g[i - 1] = f[i - 1]
        BY <1>4, <2>1
      <3> QED BY <3>1, <3>2, <3>3
    <2>2. CASE i = m
      <3>1. m \in 0..m /\ m - 1 \in 0..m /\ m - 1 < m /\ ~(m < m)
        BY <1>4
      <3>2. g[m] = f[m - 1] + s[m] /\ g[m - 1] = f[m - 1]
        BY <3>1
      <3> QED BY <1>3, <2>2, <3>2
    <2> QED BY <1>4, <2>1, <2>2
  <1>7. g = [i \in 0..m |-> IF i = 0 THEN 0 ELSE g[i - 1] + s[i]]
    <2> HIDE DEF g
    <2>1. \A i \in 0..m : g[i] = (IF i = 0 THEN 0 ELSE g[i - 1] + s[i])
      BY <1>6
    <2>2. g = [i \in 0..m |-> g[i]]
      BY DEF g
    <2> QED BY <2>1, <2>2
  <1>8. Sums(g, s, m)
    BY <1>7 DEF Sums
  <1> QED BY <1>2, <1>8

LEMMA TotalSolves ==
    ASSUME NEW s, NEW n \in Nat
    PROVE  \E f : Sums(f, s, n) /\ Total(s, n) = f[n]
  <1> DEFINE f == CHOOSE h : h = [i \in 0..n |-> IF i = 0 THEN 0 ELSE h[i - 1] + s[i]]
  <1>1. \E h : h = [i \in 0..n |-> IF i = 0 THEN 0 ELSE h[i - 1] + s[i]]
    BY SumIsDefined DEF Sums
  <1>2. f = [i \in 0..n |-> IF i = 0 THEN 0 ELSE f[i - 1] + s[i]]
    BY <1>1
  <1>3. Total(s, n) = f[n]
    BY DEF Total
  <1> HIDE DEF f
  <1> QED BY <1>2, <1>3 DEF Sums

Agree(s, t, k) == \A i \in 1..k : s[i] = t[i]

\* Two solutions agree as far as the sizes do.
LEMMA SumsAgree ==
    ASSUME NEW f, NEW g, NEW s, NEW t, NEW n \in Nat, NEW m \in Nat, Sums(f, s, n), Sums(g, t, m),
           NEW k \in Nat, k <= n, k <= m, Agree(s, t, k)
    PROVE  f[k] = g[k]
  <1> DEFINE Bad == {i \in Nat : i <= k /\ f[i] # g[i]}
  <1>1. SUFFICES ASSUME Bad # {} PROVE FALSE
    BY DEF Bad
  <1>2. PICK j \in Bad : \A y \in Bad : j <= y
    BY <1>1, LeastNatural
  <1>3. j \in Nat /\ j <= k /\ f[j] # g[j] /\ j \in 0..n /\ j \in 0..m
    BY <1>2
  <1>4. f[j] = (IF j = 0 THEN 0 ELSE f[j - 1] + s[j]) /\ g[j] = (IF j = 0 THEN 0 ELSE g[j - 1] + t[j])
    BY <1>3 DEF Sums
  <1>5. j # 0
    BY <1>3, <1>4
  <1>6. j - 1 \in Nat /\ j - 1 <= k /\ ~(j <= j - 1) /\ j \in 1..k
    BY <1>3, <1>5
  <1>7. f[j - 1] = g[j - 1]
    BY <1>2, <1>6
  <1> QED BY <1>3, <1>4, <1>5, <1>6, <1>7 DEF Agree

\* Totals depend on the sizes they add up and on no other,
LEMMA TotalsAgree ==
    ASSUME NEW s, NEW t, NEW n \in Nat, \A i \in 1..n : s[i] = t[i]
    PROVE  Total(s, n) = Total(t, n)
  <1>1. PICK f : Sums(f, s, n) /\ Total(s, n) = f[n]
    BY TotalSolves
  <1>2. PICK g : Sums(g, t, n) /\ Total(t, n) = g[n]
    BY TotalSolves
  <1>3. n <= n
    OBVIOUS
  <1>4. Sums(f, s, n) /\ Sums(g, t, n) /\ Agree(s, t, n)
    BY <1>1, <1>2 DEF Agree
  <1>5. f[n] = g[n]
    BY <1>3, <1>4, SumsAgree
  <1> QED BY <1>1, <1>2, <1>5

\* begin at zero and grow by one size at a time,
LEMMA TotalSteps ==
    ASSUME NEW s
    PROVE  /\ Total(s, 0) = 0
           /\ \A n \in Nat : n # 0 => Total(s, n) = Total(s, n - 1) + s[n]
  <1>1. Total(s, 0) = 0
    <2>1. PICK f : Sums(f, s, 0) /\ Total(s, 0) = f[0]
      BY TotalSolves
    <2> QED BY <2>1 DEF Sums
  <1>2. ASSUME NEW n \in Nat, n # 0 PROVE Total(s, n) = Total(s, n - 1) + s[n]
    <2>1. n - 1 \in Nat /\ n \in 0..n /\ n - 1 <= n /\ n - 1 <= n - 1
      BY <1>2
    <2>2. PICK f : Sums(f, s, n) /\ Total(s, n) = f[n]
      BY TotalSolves
    <2>3. PICK g : Sums(g, s, n - 1) /\ Total(s, n - 1) = g[n - 1]
      BY <2>1, TotalSolves
    <2>4. f[n - 1] = g[n - 1]
      <3>1. Agree(s, s, n - 1)
        BY DEF Agree
      <3> QED BY <2>1, <2>2, <2>3, <3>1, SumsAgree
    <2>5. f[n] = f[n - 1] + s[n]
      BY <1>2, <2>1, <2>2 DEF Sums
    <2> QED BY <2>2, <2>3, <2>4, <2>5
  <1> QED BY <1>1, <1>2

\* are natural numbers,
LEMMA TotalsTyped ==
    ASSUME NEW s, NEW n \in Nat, \A i \in 1..n : s[i] \in Nat
    PROVE  \A k \in 0..n : Total(s, k) \in Nat
  <1> DEFINE Bad == {i \in Nat : i <= n /\ Total(s, i) \notin Nat}
  <1>1. SUFFICES ASSUME Bad # {} PROVE FALSE
    BY DEF Bad
  <1>2. PICK j \in Bad : \A y \in Bad : j <= y
    BY <1>1, LeastNatural
  <1>3. j \in Nat /\ j <= n /\ Total(s, j) \notin Nat
    BY <1>2
  <1>4. j # 0
    BY <1>3, TotalSteps
  <1>5. j - 1 \in Nat /\ j - 1 <= n /\ ~(j <= j - 1) /\ j \in 1..n
    BY <1>3, <1>4
  <1>6. Total(s, j - 1) \in Nat
    BY <1>2, <1>5
  <1>7. Total(s, j) = Total(s, j - 1) + s[j]
    BY <1>3, <1>4, TotalSteps
  <1> QED BY <1>3, <1>5, <1>6, <1>7

Part(t, n, s, d) == \A i \in 1..n : t[i] = s[d + i]

\* and those of a later part are differences.
LEMMA TotalsOfAPart ==
    ASSUME NEW s, NEW t, NEW d \in Nat, NEW n \in Nat,
           \A i \in 1..(d + n) : s[i] \in Nat, Part(t, n, s, d)
    PROVE  Total(s, d + n) = Total(s, d) + Total(t, n)
  <1> DEFINE Bad == {i \in Nat : i <= n /\ Total(s, d + i) # Total(s, d) + Total(t, i)}
  <1>1. SUFFICES ASSUME Bad # {} PROVE FALSE
    BY DEF Bad
  <1>2. PICK j \in Bad : \A y \in Bad : j <= y
    BY <1>1, LeastNatural
  <1>3. j \in Nat /\ j <= n /\ Total(s, d + j) # Total(s, d) + Total(t, j)
    BY <1>2
  <1>4. Total(s, d) \in Nat
    BY TotalsTyped
  <1>5. j # 0
    BY <1>3, <1>4, TotalSteps
  <1>6. /\ j - 1 \in Nat /\ j - 1 <= n /\ ~(j <= j - 1) /\ j \in 1..n /\ d + j \in Nat /\ d + j # 0
        /\ d + (j - 1) = (d + j) - 1 /\ d + (j - 1) \in 0..(d + n) /\ d + j \in 1..(d + n)
    BY <1>3, <1>5
  <1>7. Total(s, d + (j - 1)) = Total(s, d) + Total(t, j - 1)
    BY <1>2, <1>6
  <1>8. Total(t, j) = Total(t, j - 1) + s[d + j]
    BY <1>3, <1>5, <1>6, TotalSteps DEF Part
  <1>9. Total(s, d + j) = Total(s, d + (j - 1)) + s[d + j]
    BY <1>6, TotalSteps
  <1>10. \A i \in 1..n : t[i] \in Nat
    <2>1. \A i \in 1..n : d + i \in 1..(d + n)
      OBVIOUS
    <2> QED BY <2>1 DEF Part
  <1>11. Total(t, j - 1) \in Nat /\ s[d + j] \in Nat
    BY <1>6, <1>10, TotalsTyped
  <1> QED BY <1>3, <1>4, <1>7, <1>8, <1>9, <1>11

\* The positions of a sequence: there are finitely many, and a sublist of it has
\* as many entries as it was given positions.
LEMMA SublistOfSeq ==
    ASSUME NEW S, NEW seq \in Seq(S), NEW at \in SUBSET DOMAIN seq
    PROVE  /\ IsFiniteSet(at) /\ Cardinality(at) \in Nat /\ at \subseteq 1..Len(seq) /\ at \in SUBSET Nat
           /\ Sublist(seq, at) \in Seq(S) /\ Len(Sublist(seq, at)) = Cardinality(at)
           /\ \A m \in 1..Cardinality(at) : \E i \in at : Sublist(seq, at)[m] = seq[i]
           /\ \A i \in at : \E m \in 1..Cardinality(at) : Sublist(seq, at)[m] = seq[i]
  <1>1. at \subseteq 1..Len(seq) /\ Len(seq) \in Nat
    OBVIOUS
  <1>2. IsFiniteSet(at) /\ Cardinality(at) \in Nat
    <2>1. IsFiniteSet(1..Len(seq))
      BY <1>1, FS_Interval
    <2> QED BY <1>1, <2>1, FS_Subset, FS_CardinalityType
  <1>3. at \in SUBSET Nat
    BY <1>1
  <1>4. PICK p : Enumerates(p, at) /\ Sublist(seq, at) = [m \in 1..Cardinality(at) |-> seq[p[m]]]
    BY <1>2, <1>3, SublistPositions
  <1>5. \A i \in at : seq[i] \in S
    BY <1>1
  <1>6. Sublist(seq, at) \in [1..Cardinality(at) -> S]
    BY <1>4, <1>5 DEF Enumerates
  <1>7. Sublist(seq, at) \in Seq(S) /\ Len(Sublist(seq, at)) = Cardinality(at)
    BY <1>2, <1>6
  <1>8. \A m \in 1..Cardinality(at) : p[m] \in at /\ Sublist(seq, at)[m] = seq[p[m]]
    BY <1>4 DEF Enumerates
  <1>9. \A i \in at : \E m \in 1..Cardinality(at) : Sublist(seq, at)[m] = seq[i]
    BY <1>4, <1>8 DEF Enumerates
  <1> QED BY <1>1, <1>2, <1>3, <1>7, <1>8, <1>9

-----------------------------------------------------------------------------
(* The ledger: eviction never makes it forget an operation that is still     *)
(* running.                                                                  *)

\* Eviction looks at finished keys only.
LEMMA EvictedAreDone ==
    ASSUME NEW e, NEW o, NEW id \in Evicted(e, o)
    PROVE  e[id] \in Results
  BY DEF Evicted

\* The map stays a map from keys to entries.
LEMMA EntriesStayTyped ==
    ASSUME EntriesOK, [LedgerNext]_ledgerVars
    PROVE  EntriesOK'
  <1> USE DEF EntriesOK
  <1>1. ASSUME NEW id \in Ids, ClaimFresh(id) PROVE EntriesOK'
    BY <1>1 DEF ClaimFresh
  <1>2. ASSUME NEW id \in Ids, NEW r \in Results, Complete(id, r) PROVE EntriesOK'
    BY <1>2 DEF Complete
  <1>3. ASSUME NEW id \in Ids, Abandon(id) PROVE EntriesOK'
    BY <1>3 DEF Abandon
  <1>4. CASE UNCHANGED ledgerVars
    BY <1>4 DEF ledgerVars
  <1> QED
    BY <1>1, <1>2, <1>3, <1>4 DEF LedgerNext

\* The types of the entries, in every reachable state.
THEOREM EntriesTyped == LedgerSpec => []EntriesOK
  <1>1. LedgerInit => EntriesOK
    BY DEF LedgerInit, EntriesOK
  <1>2. EntriesOK /\ [LedgerNext]_ledgerVars => EntriesOK'
    BY EntriesStayTyped
  <1> QED
    BY <1>1, <1>2, PTL DEF LedgerSpec

\* claim's eviction passes over every key in flight (InFlightNeverForgotten).
THEOREM InFlightIsNeverForgotten == LedgerSpec => InFlightNeverForgotten
  <1> DEFINE Kept == \A id, k \in Ids : Claims(k) /\ Forgets(id) => entries[id] \in Results
  <1>1. EntriesOK /\ [LedgerNext]_ledgerVars => Kept
    <2> SUFFICES ASSUME EntriesOK, [LedgerNext]_ledgerVars,
                        NEW id \in Ids, NEW k \in Ids, Claims(k), Forgets(id)
                 PROVE  entries[id] \in Results
      OBVIOUS
    <2>1. ASSUME NEW j \in Ids, ClaimFresh(j) PROVE entries[id] \in Results
      <3> DEFINE e == [entries EXCEPT ![j] = InFlight]
                 gone == Evicted(e, Append(order, j))
      <3>1. entries[id] # Unknown /\ entries'[id] = Unknown
        BY DEF Forgets
      <3>2. entries[j] = Unknown /\ entries' = [i \in Ids |-> IF i \in gone THEN Unknown ELSE e[i]]
        BY <2>1 DEF ClaimFresh
      <3>3. id # j /\ e[id] = entries[id]
        BY <3>1, <3>2 DEF EntriesOK
      <3>4. id \in gone
        BY <3>1, <3>2, <3>3
      <3> HIDE DEF e
      <3>5. e[id] \in Results
        BY <3>4, EvictedAreDone
      <3> QED
        BY <3>3, <3>5
    <2>2. ASSUME NEW j \in Ids, NEW r \in Results, Complete(j, r) PROVE FALSE
      BY <2>2, EntriesAssumption DEF Complete, Claims, EntriesOK
    <2>3. ASSUME NEW j \in Ids, Abandon(j) PROVE FALSE
      BY <2>3, EntriesAssumption DEF Abandon, Claims, EntriesOK
    <2>4. CASE UNCHANGED ledgerVars
      BY <2>4, EntriesAssumption DEF ledgerVars, Claims
    <2> QED
      BY <2>1, <2>2, <2>3, <2>4 DEF LedgerNext
  <1> QED
    BY <1>1, EntriesTyped, PTL DEF LedgerSpec, InFlightNeverForgotten

\* The queue o lists each of these keys, once.
Lists(o, ids) ==
    /\ o \in Seq(Ids)
    /\ \A i, j \in 1..Len(o) : o[i] = o[j] => i = j
    /\ \A i \in 1..Len(o) : o[i] \in ids
    /\ \A id \in ids : \E i \in 1..Len(o) : o[i] = id

LEMMA ListsCount ==
    ASSUME NEW o, NEW ids, Lists(o, ids)
    PROVE  {o[i] : i \in DOMAIN o} = ids /\ Len(o) = Cardinality(ids)
  <1>1. o \in Seq(Ids) /\ DOMAIN o = 1..Len(o) /\ Len(o) \in Nat
    BY DEF Lists
  <1>2. {o[i] : i \in DOMAIN o} = ids
    BY <1>1 DEF Lists
  <1>3. o \in Bijection(1..Len(o), ids)
    <2>1. o \in [1..Len(o) -> ids]
      BY <1>1 DEF Lists
    <2> QED BY <1>1, <2>1 DEF Lists, Bijection, Injection, Surjection, IsInjective
  <1>4. ExistsBijection(1..Len(o), ids)
    BY <1>3 DEF ExistsBijection
  <1> QED BY <1>1, <1>2, <1>4, FS_CountingElements

LEMMA WithoutLists ==
    ASSUME NEW o, NEW ids, NEW gone, Lists(o, ids)
    PROVE  Lists(Without(o, gone), ids \ gone)
  <1> DEFINE at == {i \in DOMAIN o : o[i] \notin gone}
             w == Sublist(o, at)
             c == Cardinality(at)
  <1>1. o \in Seq(Ids) /\ DOMAIN o = 1..Len(o) /\ at \in SUBSET DOMAIN o
    BY DEF Lists
  <1>2. \A i \in DOMAIN o : i \in at <=> o[i] \notin gone
    OBVIOUS
  <1> HIDE DEF at
  <1>3. IsFiniteSet(at) /\ c \in Nat /\ at \in SUBSET Nat /\ w \in Seq(Ids) /\ Len(w) = c
    BY <1>1, SublistOfSeq
  <1>4. PICK p : Enumerates(p, at) /\ w = [m \in 1..c |-> o[p[m]]]
    BY <1>3, SublistPositions
  <1>5. \A m \in 1..c : w[m] = o[p[m]] /\ p[m] \in at /\ p[m] \in 1..Len(o)
    BY <1>1, <1>4 DEF Enumerates
  <1>6. ASSUME NEW l \in 1..c, NEW m \in 1..c, w[l] = w[m] PROVE l = m
    <2>1. p[l] = p[m] /\ p[l] \in Int
      BY <1>1, <1>3, <1>5, <1>6 DEF Lists
    <2>2. l \in Int /\ m \in Int /\ ~(p[l] < p[m]) /\ ~(p[m] < p[l])
      BY <1>3, <2>1
    <2> QED BY <1>4, <2>2 DEF Enumerates
  <1>7. \A m \in 1..c : w[m] \in ids \ gone
    BY <1>1, <1>2, <1>5 DEF Lists
  <1>8. \A id \in ids \ gone : \E m \in 1..c : w[m] = id
    <2> TAKE id \in ids \ gone
    <2>1. PICK i \in 1..Len(o) : o[i] = id
      BY DEF Lists
    <2>2. i \in at
      BY <1>1, <1>2, <2>1
    <2> QED BY <1>4, <1>5, <2>1, <2>2 DEF Enumerates
  <1>9. w = Without(o, gone)
    BY DEF Without, at
  <1> HIDE DEF w, c
  <1> QED BY <1>3, <1>6, <1>7, <1>8, <1>9 DEF Lists

LEMMA AppendLists ==
    ASSUME NEW o, NEW ids, NEW id \in Ids, id \notin ids, Lists(o, ids)
    PROVE  Lists(Append(o, id), ids \cup {id})
  <1> DEFINE w == Append(o, id)
  <1>1. o \in Seq(Ids) /\ Len(o) \in Nat /\ w \in Seq(Ids) /\ Len(w) = Len(o) + 1
    BY DEF Lists
  <1>2. w[Len(o) + 1] = id /\ \A i \in 1..Len(o) : w[i] = o[i]
    BY <1>1
  <1>3. \A i \in 1..Len(w) : i = Len(o) + 1 \/ i \in 1..Len(o)
    BY <1>1
  <1>4. Len(o) + 1 \in 1..Len(w) /\ \A i \in 1..Len(o) : i \in 1..Len(w)
    BY <1>1
  <1> HIDE DEF w
  <1>5. \A i \in 1..Len(o) : w[i] # id
    BY <1>2 DEF Lists
  <1>6. \A i, j \in 1..Len(w) : w[i] = w[j] => i = j
    BY <1>2, <1>3, <1>5 DEF Lists
  <1>7. \A i \in 1..Len(w) : w[i] \in ids \cup {id}
    BY <1>2, <1>3 DEF Lists
  <1>8. \A x \in ids \cup {id} : \E i \in 1..Len(w) : w[i] = x
    BY <1>2, <1>4 DEF Lists
  <1> QED BY <1>1, <1>6, <1>7, <1>8 DEF Lists, w

\* The inductive form of LedgerOK.
LedgerInv == EntriesOK /\ Lists(order, Known(entries))

LEMMA LedgerInitially == LedgerInit => LedgerInv
  <1> SUFFICES ASSUME LedgerInit PROVE LedgerInv
    OBVIOUS
  <1>1. order = <<>> /\ Len(order) = 0 /\ Known(entries) = {} /\ EntriesOK
    BY DEF LedgerInit, Known, EntriesOK
  <1>2. order \in Seq(Ids) /\ 1..0 = {}
    BY <1>1
  <1> QED BY <1>1, <1>2 DEF LedgerInv, Lists

LEMMA LedgerInductive == LedgerInv /\ [LedgerNext]_ledgerVars => LedgerInv'
  <1> SUFFICES ASSUME LedgerInv, [LedgerNext]_ledgerVars PROVE LedgerInv'
    OBVIOUS
  <1>1. EntriesOK'
    BY EntriesStayTyped DEF LedgerInv
  <1>2. ASSUME NEW id \in Ids, ClaimFresh(id) PROVE Lists(order', Known(entries'))
    <2> DEFINE e == [entries EXCEPT ![id] = InFlight]
               o == Append(order, id)
               gone == Evicted(e, o)
    <2>1. entries[id] = Unknown /\ entries' = [k \in Ids |-> IF k \in gone THEN Unknown ELSE e[k]]
          /\ order' = Without(o, gone)
      BY <1>2 DEF ClaimFresh
    <2>2. Known(e) = Known(entries) \cup {id} /\ id \notin Known(entries)
      BY <2>1, EntriesAssumption DEF Known, LedgerInv, EntriesOK
    <2>3. Lists(order, Known(entries))
      BY DEF LedgerInv
    <2>4. Lists(o, Known(entries) \cup {id})
      BY <2>2, <2>3, AppendLists
    <2> HIDE DEF e, o, gone
    <2>5. Known(entries') = Known(e) \ gone
      BY <2>1 DEF Known
    <2> QED BY <2>1, <2>2, <2>4, <2>5, WithoutLists
  <1>3. ASSUME NEW id \in Ids, NEW r \in Results, Complete(id, r) PROVE Lists(order', Known(entries'))
    <2>1. Known(entries') = Known(entries) /\ order' = order
      BY <1>3, EntriesAssumption DEF Complete, Known, LedgerInv, EntriesOK
    <2> QED BY <2>1 DEF LedgerInv
  <1>4. ASSUME NEW id \in Ids, Abandon(id) PROVE Lists(order', Known(entries'))
    <2>1. Known(entries') = Known(entries) \ {id} /\ order' = Without(order, {id})
      BY <1>4 DEF Abandon, Known, LedgerInv, EntriesOK
    <2> QED BY <2>1, WithoutLists DEF LedgerInv
  <1>5. Lists(order', Known(entries'))
    <2>1. CASE UNCHANGED ledgerVars
      <3>1. order' = order /\ entries' = entries
        BY <2>1 DEF ledgerVars
      <3> QED BY <3>1 DEF LedgerInv
    <2> QED BY <1>2, <1>3, <1>4, <2>1 DEF LedgerNext
  <1> QED BY <1>1, <1>5 DEF LedgerInv

LEMMA LedgerInvIsEnough == LedgerInv => LedgerOK
  BY ListsCount DEF LedgerInv, LedgerOK, Lists

\* In every reachable state the queue lists each key of the map once (LedgerOK).
THEOREM QueueAndMapAgree == LedgerSpec => []LedgerOK
  BY LedgerInitially, LedgerInductive, LedgerInvIsEnough, PTL DEF LedgerSpec

-----------------------------------------------------------------------------
(* The mode: it only gets stricter, whoever restricts it at once.            *)

LEMMA TiersAreNumbers == \A m \in Modes : Tier(m) \in 0..2
  BY DEF Modes, Tier

\* The stricter of two modes is as strict as both.
LEMMA RestrictedIsStrict ==
    ASSUME NEW m \in Modes, NEW other \in Modes
    PROVE  /\ Restricted(m, other) \in Modes
           /\ Tier(Restricted(m, other)) <= Tier(m)
           /\ Tier(Restricted(m, other)) <= Tier(other)
  BY TiersAreNumbers DEF Restricted

LEMMA ModeInitially == ModeInit => ModeInv
  BY StartAssumption DEF ModeInit, ModeInv, ModeTypeOK, CallerState, RestrictionsHold

LEMMA ModeInductive == ModeInv /\ [ModeNext]_modeVars => ModeInv'
  <1> SUFFICES ASSUME ModeInv, [ModeNext]_modeVars PROVE ModeInv'
    OBVIOUS
  <1> USE DEF ModeInv, ModeTypeOK, RestrictionsHold
  <1>1. ASSUME NEW p \in Callers, NEW m \in Modes, RestrictTo(p, m) PROVE ModeInv'
    <2>1. caller' \in [Callers -> CallerState]
      BY <1>1 DEF RestrictTo, CallerState
    <2>2. Tier(mode) <= Tier(mode)
      BY TiersAreNumbers
    <2> QED BY <1>1, <2>1, <2>2 DEF RestrictTo, CallerState
  <1>2. ASSUME NEW p \in Callers, NothingToDo(p) PROVE ModeInv'
    <2>1. caller[p] \in CallerState /\ mode' = mode
      BY <1>2 DEF NothingToDo
    <2>2. Tier(mode) <= Tier(caller[p].want)
      <3>1. Tier(mode) <= Tier(caller[p].seen) /\ Tier(caller[p].seen) <= Tier(caller[p].want)
        BY <1>2, <2>1, RestrictedIsStrict DEF NothingToDo, CallerState
      <3> QED BY <2>1, <3>1, TiersAreNumbers DEF CallerState
    <2>3. caller' \in [Callers -> CallerState]
      BY <1>2, <2>1 DEF NothingToDo, Returned, CallerState
    <2> QED BY <1>2, <2>1, <2>2, <2>3 DEF NothingToDo, Returned, CallerState
  <1>3. ASSUME NEW p \in Callers, CompareExchange(p) PROVE ModeInv'
    <2> DEFINE next == Restricted(caller[p].seen, caller[p].want)
    <2>1. caller[p] \in CallerState
      OBVIOUS
    <2>2. next \in Modes /\ Tier(next) <= Tier(caller[p].seen) /\ Tier(next) <= Tier(caller[p].want)
      BY <2>1, RestrictedIsStrict DEF CallerState
    <2>3. CASE mode = caller[p].seen
      <3>1. mode' = next /\ Returned(p)
        BY <1>3, <2>3 DEF CompareExchange
      <3>2. caller' \in [Callers -> CallerState]
        BY <2>1, <3>1 DEF Returned, CallerState
      <3>3. \A t \in 0..2 : Tier(mode) <= t => Tier(next) <= t
        BY <2>1, <2>2, <2>3, TiersAreNumbers DEF CallerState
      <3>4. \A m \in promised' : Tier(next) <= Tier(m)
        BY <2>2, <3>1, <3>3, TiersAreNumbers DEF Returned
      <3>5. \A q \in Callers : caller'[q].at = "loop" => Tier(next) <= Tier(caller'[q].seen)
        BY <2>1, <3>1, <3>3, TiersAreNumbers DEF Returned, CallerState
      <3>6. promised' \subseteq Modes
        BY <2>1, <3>1 DEF Returned, CallerState
      <3> HIDE DEF next
      <3> QED BY <2>2, <3>1, <3>2, <3>4, <3>5, <3>6
    <2>4. CASE mode # caller[p].seen
      <3>1. caller' = [caller EXCEPT ![p].seen = mode] /\ UNCHANGED <<mode, promised>>
        BY <1>3, <2>4 DEF CompareExchange
      <3>2. caller' \in [Callers -> CallerState]
        BY <2>1, <3>1 DEF CallerState
      <3>3. Tier(mode) <= Tier(mode)
        BY TiersAreNumbers
      <3> QED BY <2>1, <3>1, <3>2, <3>3 DEF CallerState
    <2> QED BY <2>3, <2>4
  <1>4. CASE UNCHANGED modeVars
    BY <1>4 DEF modeVars
  <1> QED BY <1>1, <1>2, <1>3, <1>4 DEF ModeNext

\* Whoever restricts the mode, in whatever interleaving of the loads and
\* exchanges: each restriction that returned holds from then on (mode.rs:193).
THEOREM RestrictionsAlwaysHold == ModeSpec => []ModeInv
  BY ModeInitially, ModeInductive, PTL DEF ModeSpec

-----------------------------------------------------------------------------
(* The journal of one server.  A line that does not parse, or that nothing   *)
(* ended when its append was cut short, is charged to an append cut short;   *)
(* no such line has two entries whose append returned or still may.          *)

Charged(ls, cut) == {i \in 1..Len(ls) : ~ls[i].whole \/ (cut /\ i = Len(ls))}

\* No run is on two lines, no line has two that are returned or still on their way, and
\* the last line has none once its append was cut short.
LinesOK(ls, live, cut) ==
    /\ ls \in Seq(Line)
    /\ \A i, j \in 1..Len(ls) : i # j => ls[i].runs \cap ls[j].runs = {}
    /\ \A i \in 1..Len(ls) : \A q, r \in ls[i].runs \cap live : q = r
    /\ cut => Len(ls) > 0 /\ ls[Len(ls)].runs \cap live = {}

Cut(s) == ~ended /\ append[s].at # "newline"
Live(s) == returned \cup {append[s].run}

Appending(x, r, k, v) == [at |-> x, run |-> r, kept |-> k, victims |-> v]

\* Where the append of the server is with its run.
AppendOK(a, ls, done, back) ==
    /\ a = Appending(a.at, a.run, a.kept, a.victims)
    /\ a.at = "idle" => a.run = NoRun
    /\ a.at # "idle" => a.run \in Runs \ back
    /\ a.at \in {"images", "line"} => \A i \in 1..Len(ls) : a.run \notin ls[i].runs
    /\ a.at = "newline" => Len(ls) > 0 /\ a.run \in ls[Len(ls)].runs
    /\ a.at \in {"compact", "rename", "measure", "evict"} => done
    /\ a.at = "rename" => Len(ls) > MaxEntries /\ a.kept = SubSeq(ls, Len(ls) - MaxEntries + 1, Len(ls))

JournalInv(s) ==
    /\ ended \in BOOLEAN /\ stops \in Nat /\ returned \subseteq Runs
    /\ LinesOK(lines, Live(s), Cut(s))
    /\ append = [t \in Servers |-> append[t]]
    /\ AppendOK(append[s], lines, ended, returned)
    /\ Cardinality(Charged(lines, Cut(s))) <= stops

LEMMA ChargedFinite ==
    ASSUME NEW ls \in Seq(Line), NEW cut
    PROVE  IsFiniteSet(Charged(ls, cut)) /\ Cardinality(Charged(ls, cut)) \in Nat
  <1>1. IsFiniteSet(1..Len(ls))
    BY FS_Interval
  <1>2. Charged(ls, cut) \in SUBSET (1..Len(ls))
    BY DEF Charged
  <1>3. IsFiniteSet(Charged(ls, cut))
    BY <1>1, <1>2, FS_Subset
  <1> QED BY <1>3, FS_CardinalityType

\* The charges do not grow while their lines do not.
LEMMA FewerCharges ==
    ASSUME NEW ls \in Seq(Line), NEW ms \in Seq(Line), NEW c, NEW d, Charged(ms, d) \subseteq Charged(ls, c)
    PROVE  Cardinality(Charged(ms, d)) <= Cardinality(Charged(ls, c))
  BY ChargedFinite, FS_Subset

LEMMA OneMoreCharge ==
    ASSUME NEW ls \in Seq(Line), NEW ms \in Seq(Line), NEW c, NEW d, NEW x, Charged(ms, d) \subseteq Charged(ls, c) \cup {x}
    PROVE  Cardinality(Charged(ms, d)) <= Cardinality(Charged(ls, c)) + 1
  <1> DEFINE C == Charged(ls, c)
             D == Charged(ms, d)
  <1>1. IsFiniteSet(C) /\ Cardinality(C) \in Nat /\ Cardinality(D) \in Nat
    BY ChargedFinite
  <1>2. IsFiniteSet(C \cup {x}) /\ Cardinality(C \cup {x}) = IF x \in C THEN Cardinality(C) ELSE Cardinality(C) + 1
    BY <1>1, FS_AddElement
  <1>3. Cardinality(D) <= Cardinality(C \cup {x})
    BY <1>2, FS_Subset
  <1> HIDE DEF C, D
  <1>4. Cardinality(D) <= Cardinality(C) + 1
    BY <1>1, <1>2, <1>3
  <1> QED BY <1>4 DEF C, D

\* A suffix of the journal has no charge that the journal has not.
LEMMA SuffixCharges ==
    ASSUME NEW ls \in Seq(Line), NEW n \in Nat, Len(ls) > n
    PROVE  LET ms == SubSeq(ls, Len(ls) - n + 1, Len(ls))
           IN  /\ ms \in Seq(Line) /\ Len(ms) = n /\ \A i \in 1..n : ms[i] = ls[Len(ls) - n + i]
               /\ Cardinality(Charged(ms, FALSE)) <= Cardinality(Charged(ls, FALSE))
  <1> DEFINE ms == SubSeq(ls, Len(ls) - n + 1, Len(ls))
             k == Len(ls) - n
  <1>1. k \in Nat /\ Len(ls) = k + n /\ Len(ls) \in Nat
    OBVIOUS
  <1>2. ms \in Seq(Line) /\ Len(ms) = n /\ \A i \in 1..n : ms[i] = ls[Len(ls) - n + i]
    OBVIOUS
  <1> HIDE DEF ms, k
  <1> DEFINE f == [i \in Charged(ms, FALSE) |-> k + i]
  <1>3. \A i \in Charged(ms, FALSE) : i \in Int /\ f[i] = k + i /\ f[i] \in Charged(ls, FALSE)
    BY <1>1, <1>2 DEF Charged, k
  <1> DEFINE C == Charged(ls, FALSE)
             D == Charged(ms, FALSE)
  <1>4. f \in [D -> C] /\ \A i, j \in D : f[i] = f[j] => i = j
    <2>1. f \in [D -> C]
      BY <1>3
    <2>2. ASSUME NEW i \in D, NEW j \in D, f[i] = f[j] PROVE i = j
      <3>1. i \in Int /\ j \in Int /\ k + i = k + j
        BY <1>3, <2>2
      <3> QED BY <1>1, <3>1
    <2> QED BY <2>1, <2>2
  <1>5. IsFiniteSet(D) /\ Cardinality(D) \in Nat /\ IsFiniteSet(C) /\ Cardinality(C) \in Nat
    BY <1>2, ChargedFinite
  <1> HIDE DEF f, C, D
  <1>6. ~(Cardinality(C) < Cardinality(D))
    <2> SUFFICES ASSUME Cardinality(C) < Cardinality(D) PROVE FALSE
      OBVIOUS
    <2>1. \E i, j \in D : i # j /\ f[i] = f[j]
      BY <1>4, <1>5, FS_PigeonHole
    <2> QED BY <1>4, <2>1
  <1>7. Cardinality(D) <= Cardinality(C)
    BY <1>5, <1>6
  <1> QED BY <1>2, <1>7 DEF ms, C, D

\* What the text of a run makes of the lines, when it is not on one of them yet.
LEMMA WrittenLines ==
    ASSUME NEW live, NEW r \in Runs, NEW w \in BOOLEAN, LinesOK(lines, live, ~ended), ended \in BOOLEAN,
           \A i \in 1..Len(lines) : r \notin lines[i].runs
    PROVE  LET new == Written(r, w)
           IN  /\ new \in Seq(Line) /\ Len(new) > 0 /\ r \in new[Len(new)].runs
               /\ \A i, j \in 1..Len(new) : i # j => new[i].runs \cap new[j].runs = {}
               /\ \A i \in 1..Len(new) : i # Len(new) => i \in 1..Len(lines) /\ new[i] = lines[i]
               /\ new[Len(new)].runs \cap live \subseteq {r}
               /\ w => Charged(new, FALSE) \subseteq Charged(lines, ~ended)
               /\ Charged(new, FALSE) \subseteq Charged(lines, ~ended) \cup {Len(new)}
  <1> DEFINE new == Written(r, w)
             n == Len(lines)
  <1>1. lines \in Seq(Line) /\ n \in Nat /\ \A i \in 1..n : lines[i] \in Line /\ lines[i].runs \subseteq Runs /\ lines[i].whole \in BOOLEAN
    <2>1. lines \in Seq(Line)
      BY DEF LinesOK
    <2>2. \A i \in 1..n : lines[i] \in Line
      BY <2>1
    <2>3. \A l \in Line : l.runs \subseteq Runs /\ l.whole \in BOOLEAN
      BY DEF Line
    <2> QED BY <2>1, <2>2, <2>3
  <1>2. CASE ended
    <2> DEFINE l == [runs |-> {r}, whole |-> w]
    <2>1. new = Append(lines, l) /\ l \in Line /\ l.runs = {r} /\ l.whole = w
      BY <1>2 DEF Written, Line
    <2> HIDE DEF l
    <2>2. new \in Seq(Line) /\ Len(new) = n + 1 /\ new[n + 1] = l /\ \A i \in 1..n : new[i] = lines[i]
      BY <1>1, <2>1
    <2> HIDE DEF new
    <2>3. \A i, j \in 1..(n + 1) : i # j => new[i].runs \cap new[j].runs = {}
      <3> SUFFICES ASSUME NEW i \in 1..(n + 1), NEW j \in 1..(n + 1), i # j PROVE new[i].runs \cap new[j].runs = {}
        OBVIOUS
      <3>1. CASE i \in 1..n /\ j \in 1..n
        BY <2>2, <3>1 DEF LinesOK
      <3>2. CASE i = n + 1 /\ j \in 1..n
        BY <2>1, <2>2, <3>2
      <3>3. CASE j = n + 1 /\ i \in 1..n
        BY <2>1, <2>2, <3>3
      <3> QED BY <1>1, <3>1, <3>2, <3>3
    <2>4. \A i \in Charged(new, FALSE) : i \in Charged(lines, ~ended) \/ (i = n + 1 /\ ~w)
      <3> SUFFICES ASSUME NEW i \in 1..(n + 1), ~new[i].whole
                   PROVE  i \in Charged(lines, ~ended) \/ (i = n + 1 /\ ~w)
        BY <2>2 DEF Charged
      <3>1. CASE i \in 1..n
        BY <2>2, <3>1 DEF Charged
      <3>2. CASE i = n + 1
        BY <2>1, <2>2, <3>2
      <3> QED BY <1>1, <3>1, <3>2
    <2>5. \A i \in 1..(n + 1) : i # n + 1 => i \in 1..n /\ new[i] = lines[i]
      BY <1>1, <2>2
    <2>6. Len(new) > 0 /\ r \in new[Len(new)].runs /\ new[Len(new)].runs \cap live \subseteq {r}
      BY <1>1, <2>1, <2>2
    <2>7. 1..Len(new) = 1..(n + 1) /\ Len(new) = n + 1
      BY <2>2
    <2>8. w => Charged(new, FALSE) \subseteq Charged(lines, ~ended)
      BY <2>4, Zenon
    <2>9. Charged(new, FALSE) \subseteq Charged(lines, ~ended) \cup {Len(new)}
      BY <2>4, <2>7, Zenon
    <2> QED BY <2>2, <2>3, <2>5, <2>6, <2>7, <2>8, <2>9, Zenon DEF new
  <1>3. CASE ~ended
    <2> DEFINE l == [runs |-> lines[n].runs \cup {r}, whole |-> FALSE]
    <2>1. n > 0 /\ n \in 1..n /\ lines[n].runs \cap live = {}
      BY <1>1, <1>3 DEF LinesOK
    <2>2. new = [lines EXCEPT ![n] = l] /\ l \in Line /\ l.runs = lines[n].runs \cup {r} /\ ~l.whole
      BY <1>1, <1>3, <2>1 DEF Written, Line
    <2> HIDE DEF l
    <2>3. new \in Seq(Line) /\ Len(new) = n /\ new[n] = l /\ \A i \in 1..n : i # n => new[i] = lines[i]
      BY <1>1, <2>1, <2>2
    <2> HIDE DEF new
    <2>4. \A i, j \in 1..n : i # j => new[i].runs \cap new[j].runs = {}
      <3> SUFFICES ASSUME NEW i \in 1..n, NEW j \in 1..n, i # j PROVE new[i].runs \cap new[j].runs = {}
        OBVIOUS
      <3>0. lines[i].runs \cap lines[j].runs = {} /\ r \notin lines[i].runs /\ r \notin lines[j].runs
        BY DEF LinesOK
      <3>1. CASE i # n /\ j # n
        BY <2>3, <3>0, <3>1
      <3>2. CASE i = n
        BY <2>2, <2>3, <3>0, <3>2
      <3>3. CASE j = n
        BY <2>2, <2>3, <3>0, <3>3
      <3> QED BY <3>1, <3>2, <3>3
    <2>5. Charged(new, FALSE) \subseteq Charged(lines, ~ended)
      <3> SUFFICES ASSUME NEW i \in 1..n, ~new[i].whole PROVE i \in Charged(lines, ~ended)
        BY <2>3 DEF Charged
      <3>1. CASE i # n
        BY <2>3, <3>1 DEF Charged
      <3>2. CASE i = n
        BY <1>3, <3>2 DEF Charged
      <3> QED BY <3>1, <3>2
    <2> QED BY <1>1, <2>1, <2>2, <2>3, <2>4, <2>5 DEF new
  <1> QED BY <1>2, <1>3

\* The lines, for other runs that are returned or on their way.
LEMMA LinesStayOK ==
    ASSUME NEW live, NEW cut, NEW more, NEW open,
           LinesOK(lines, live, cut), \A i \in 1..Len(lines) : lines[i].runs \cap more \subseteq live,
           open => cut \/ (Len(lines) > 0 /\ lines[Len(lines)].runs \cap more = {})
    PROVE  LinesOK(lines, more, open)
  <1>1. lines \in Seq(Line)
    BY DEF LinesOK
  <1>3. \A i \in 1..Len(lines) : lines[i].runs \cap more \subseteq lines[i].runs \cap live
    OBVIOUS
  <1>4. Len(lines) \in Nat /\ (Len(lines) > 0 => Len(lines) \in 1..Len(lines))
    BY <1>1
  <1>5. \A i \in 1..Len(lines) : \A q, r \in lines[i].runs \cap more : q = r
    BY <1>3 DEF LinesOK
  <1>6. open => Len(lines) > 0 /\ lines[Len(lines)].runs \cap more = {}
    BY <1>3, <1>4 DEF LinesOK
  <1> QED BY <1>1, <1>5, <1>6 DEF LinesOK

LEMMA JournalInitially ==
    ASSUME NEW s, Servers = {s}, JournalInit
    PROVE  JournalInv(s)
  <1>1. lines = <<>> /\ Len(lines) = 0 /\ 1..0 = {} /\ ended = TRUE /\ stops = 0 /\ returned = {}
    BY DEF JournalInit
  <1>2. append = [t \in Servers |-> Idle] /\ append[s] = Idle
    BY DEF JournalInit
  <1>3. Charged(lines, Cut(s)) = {}
    BY <1>1 DEF Charged
  <1>4. Cardinality(Charged(lines, Cut(s))) = 0
    BY <1>3, FS_EmptySet
  <1>5. LinesOK(lines, Live(s), Cut(s))
    BY <1>1 DEF LinesOK, Cut
  <1>6. AppendOK(append[s], lines, ended, returned)
    BY <1>1, <1>2 DEF AppendOK, Idle, Appending
  <1>7. append = [t \in Servers |-> append[t]]
    BY <1>2
  <1>8. ended \in BOOLEAN /\ stops \in Nat /\ returned \subseteq Runs /\ Cardinality(Charged(lines, Cut(s))) <= stops
    BY <1>1, <1>4
  <1> QED BY <1>5, <1>6, <1>7, <1>8, Zenon DEF JournalInv

LEMMA AppendingFields ==
    ASSUME NEW x, NEW r, NEW k, NEW v
    PROVE  LET a == Appending(x, r, k, v)
           IN  /\ a.at = x /\ a.run = r /\ a.kept = k /\ a.victims = v
               /\ \A y : [a EXCEPT !.at = y] = Appending(y, r, k, v)
               /\ \A y : [a EXCEPT !.run = y] = Appending(x, y, k, v)
               /\ \A y : [a EXCEPT !.kept = y] = Appending(x, r, y, v)
               /\ \A y : [a EXCEPT !.victims = y] = Appending(x, r, k, y)
  BY DEF Appending

LEMMA AppendThere ==
    ASSUME NEW s, JournalInv(s)
    PROVE  ended \in BOOLEAN /\ returned \subseteq Runs /\ AppendOK(append[s], lines, ended, returned)
  BY Zenon DEF JournalInv

\* What a step may make of the append of the server.
LEMMA AppendMoves ==
    ASSUME NEW s, JournalInv(s), NEW y, NEW z
    PROVE  /\ [append[s] EXCEPT !.at = y] = Appending(y, append[s].run, append[s].kept, append[s].victims)
           /\ [append[s] EXCEPT !.at = y, !.kept = z] = Appending(y, append[s].run, z, append[s].victims)
           /\ [append[s] EXCEPT !.victims = z] = Appending(append[s].at, append[s].run, append[s].kept, z)
           /\ [append[s] EXCEPT !.at = y, !.victims = z] = Appending(y, append[s].run, append[s].kept, z)
  <1> DEFINE a == append[s]
  <1>1. PICK x, r, k, v : a = Appending(x, r, k, v)
    BY AppendThere DEF AppendOK
  <1>2. a.at = x /\ a.run = r /\ a.kept = k /\ a.victims = v
    BY <1>1, AppendingFields
  <1> HIDE DEF a
  <1>3. [a EXCEPT !.at = y] = Appending(y, r, k, v) /\ [a EXCEPT !.victims = z] = Appending(x, r, k, z)
    BY <1>1, AppendingFields
  <1>4. [a EXCEPT !.at = y, !.kept = z] = [Appending(y, r, k, v) EXCEPT !.kept = z]
    BY <1>3, Zenon
  <1>5. [a EXCEPT !.at = y, !.victims = z] = [Appending(y, r, k, v) EXCEPT !.victims = z]
    BY <1>3, Zenon
  <1>6. /\ [a EXCEPT !.at = y, !.kept = z] = Appending(y, r, z, v)
        /\ [a EXCEPT !.at = y, !.victims = z] = Appending(y, r, k, z)
    BY <1>4, <1>5, AppendingFields
  <1> QED BY <1>2, <1>3, <1>6 DEF a

LEMMA IdleAppending == Idle = Appending("idle", NoRun, <<>>, <<>>)
  BY DEF Idle, Appending

\* A step of the server that leaves the lines alone and charges nothing.
LEMMA JournalGoesOn ==
    ASSUME NEW s, Servers = {s}, JournalInv(s), UNCHANGED <<lines, stops>>,
           NEW x, NEW r, NEW k, NEW v, append' = [append EXCEPT ![s] = Appending(x, r, k, v)],
           AppendOK(Appending(x, r, k, v), lines, ended', returned'),
           ended' \in BOOLEAN, returned' \subseteq Runs,
           \A i \in 1..Len(lines) : lines[i].runs \cap (returned' \cup {r}) \subseteq Live(s),
           ~ended' /\ x # "newline" => Cut(s)
    PROVE  JournalInv(s)'
  <1> DEFINE live == returned' \cup {r}
             cut == ~ended' /\ x # "newline"
  <1>1. /\ append' = [t \in Servers |-> append'[t]] /\ append'[s] = Appending(x, r, k, v)
        /\ Live(s)' = live /\ Cut(s)' = cut
    <2>1. append' = [t \in Servers |-> append'[t]] /\ append'[s] = Appending(x, r, k, v)
      BY DEF JournalInv
    <2> QED BY <2>1, AppendingFields DEF Live, Cut
  <1>2. LinesOK(lines, live, cut)
    BY LinesStayOK DEF JournalInv
  <1>3. Charged(lines, cut) \subseteq Charged(lines, Cut(s))
    BY DEF Charged
  <1>4. Cardinality(Charged(lines, cut)) <= Cardinality(Charged(lines, Cut(s)))
    BY <1>3, FewerCharges DEF JournalInv, LinesOK
  <1>5. Cardinality(Charged(lines, cut)) <= stops
    BY <1>4, ChargedFinite DEF JournalInv, LinesOK
  <1> HIDE DEF live, cut
  <1> QED BY <1>1, <1>2, <1>5 DEF JournalInv

\* One that only moves the append on.
LEMMA AppendGoesOn ==
    ASSUME NEW s, Servers = {s}, JournalInv(s), UNCHANGED <<lines, ended, returned, stops>>,
           NEW x, NEW r, NEW k, NEW v, append' = [append EXCEPT ![s] = Appending(x, r, k, v)],
           AppendOK(Appending(x, r, k, v), lines, ended, returned),
           \A i \in 1..Len(lines) : lines[i].runs \cap (returned \cup {r}) \subseteq Live(s),
           ~ended /\ x # "newline" => Cut(s)
    PROVE  JournalInv(s)'
  <1>1. ended' = ended /\ returned' = returned
    OBVIOUS
  <1>2. AppendOK(Appending(x, r, k, v), lines, ended', returned')
    BY <1>1, Zenon
  <1>3. \A i \in 1..Len(lines) : lines[i].runs \cap (returned' \cup {r}) \subseteq Live(s)
    BY <1>1, Zenon
  <1>4. ~ended' /\ x # "newline" => Cut(s)
    BY <1>1
  <1>5. ended' \in BOOLEAN /\ returned' \subseteq Runs
    BY <1>1, AppendThere, Zenon
  <1>6. UNCHANGED <<lines, stops>>
    OBVIOUS
  <1> QED BY <1>2, <1>3, <1>4, <1>5, <1>6, JournalGoesOn

LEMMA BeginStep ==
    ASSUME NEW s, Servers = {s}, JournalInv(s), NEW r \in Runs, Begin(s, r)
    PROVE  JournalInv(s)'
  <1> DEFINE x == IF ImageFiles[r] \in 1..MaxEntryBytes THEN "images" ELSE "line"
  <1>1. append' = [append EXCEPT ![s] = Appending(x, r, <<>>, <<>>)]
    <2>1. append' = [append EXCEPT ![s] = [[Idle EXCEPT !.run = r] EXCEPT !.at = x]]
      BY Zenon DEF Begin
    <2> HIDE DEF x
    <2>2. [[Idle EXCEPT !.run = r] EXCEPT !.at = x] = Appending(x, r, <<>>, <<>>)
      <3>1. [Idle EXCEPT !.run = r] = Appending("idle", r, <<>>, <<>>)
        BY IdleAppending, AppendingFields
      <3>2. [Appending("idle", r, <<>>, <<>>) EXCEPT !.at = x] = Appending(x, r, <<>>, <<>>)
        BY AppendingFields
      <3> QED BY <3>1, <3>2, Zenon
    <2> QED BY <2>1, <2>2, Zenon
  <1>2. x \in {"images", "line"}
    OBVIOUS
  <1> HIDE DEF x
  <1>4. \A i \in 1..Len(lines) : r \notin lines[i].runs
    <2>1. DOMAIN lines = 1..Len(lines)
      BY DEF JournalInv, LinesOK
    <2>2. r \notin UNION {lines[i].runs : i \in DOMAIN lines}
      BY DEF Begin, Used
    <2> QED BY <2>1, <2>2
  <1>5. r \notin returned /\ UNCHANGED <<lines, ended, returned, stops>>
    BY DEF Begin, Used
  <1>6. AppendOK(Appending(x, r, <<>>, <<>>), lines, ended, returned)
    BY <1>2, <1>4, <1>5, AppendingFields DEF AppendOK
  <1>7. \A i \in 1..Len(lines) : lines[i].runs \cap (returned \cup {r}) \subseteq Live(s)
    BY <1>4 DEF Live
  <1>8. ~ended => Cut(s)
    BY DEF Cut, Begin
  <1>9. ended' = ended /\ returned' = returned /\ lines' = lines /\ stops' = stops /\ x # "newline"
    BY <1>2, <1>5
  <1> QED BY <1>1, <1>5, <1>6, <1>7, <1>8, AppendGoesOn, Zenon

LEMMA ImageStep ==
    ASSUME NEW s, Servers = {s}, JournalInv(s), WriteImage(s)
    PROVE  JournalInv(s)'
  <1> DEFINE a == append[s]
             x == IF files[a.run] + 1 = ImageFiles[a.run] THEN "line" ELSE "images"
  <1>1. append' = [append EXCEPT ![s] = [append[s] EXCEPT !.at = x]] /\ a.at = "images" /\ UNCHANGED <<lines, ended, returned, stops>>
    BY Zenon DEF WriteImage, Goto
  <1>2. x \in {"images", "line"}
    OBVIOUS
  <1> HIDE DEF x
  <1>3. append' = [append EXCEPT ![s] = Appending(x, a.run, a.kept, a.victims)]
    BY <1>1, AppendMoves, Zenon
  <1>4. AppendOK(Appending(x, a.run, a.kept, a.victims), lines, ended, returned)
    BY <1>1, <1>2, AppendThere, AppendingFields DEF AppendOK
  <1>5. returned \cup {a.run} = Live(s) /\ (~ended => Cut(s))
    BY <1>1 DEF Live, Cut
  <1>6. ended' = ended /\ returned' = returned /\ lines' = lines /\ stops' = stops /\ x # "newline"
        /\ \A i \in 1..Len(lines) : lines[i].runs \cap (returned \cup {a.run}) \subseteq Live(s)
    BY <1>1, <1>2, <1>5
  <1> QED BY <1>1, <1>2, <1>3, <1>4, <1>5, <1>6, AppendGoesOn, Zenon

LEMMA EndLineStep ==
    ASSUME NEW s, Servers = {s}, JournalInv(s), EndLine(s)
    PROVE  JournalInv(s)'
  <1> DEFINE a == append[s]
  <1>1. append' = [append EXCEPT ![s] = [append[s] EXCEPT !.at = "compact"]] /\ a.at = "newline" /\ ended' = TRUE /\ UNCHANGED <<lines, returned, stops>>
    BY DEF EndLine, Goto
  <1>3. append' = [append EXCEPT ![s] = Appending("compact", a.run, a.kept, a.victims)]
    BY <1>1, AppendMoves, Zenon
  <1>4. AppendOK(Appending("compact", a.run, a.kept, a.victims), lines, TRUE, returned)
    BY <1>1, AppendThere, AppendingFields DEF AppendOK
  <1>5. returned \cup {a.run} = Live(s)
    BY DEF Live
  <1> QED BY <1>1, <1>3, <1>4, <1>5, AppendThere, JournalGoesOn, Zenon

LEMMA ReadLinesStep ==
    ASSUME NEW s, Servers = {s}, JournalInv(s), ReadLines(s)
    PROVE  JournalInv(s)'
  <1> DEFINE a == append[s]
             tail == SubSeq(lines, Len(lines) - MaxEntries + 1, Len(lines))
  <1>1. a.at = "compact" /\ UNCHANGED <<lines, ended, returned, stops>>
    BY DEF ReadLines
  <1> HIDE DEF tail
  <1>2. PICK x, k : /\ append' = [append EXCEPT ![s] = Appending(x, a.run, k, a.victims)]
                    /\ x = "measure" \/ (x = "rename" /\ k = tail /\ Len(lines) > MaxEntries)
    <2>1. Len(lines) \in Nat /\ MaxEntries \in Nat
      BY LimitsAssumption DEF JournalInv, LinesOK
    <2>2. CASE Len(lines) <= MaxEntries
      <3>1. append' = [append EXCEPT ![s] = [append[s] EXCEPT !.at = "measure"]]
        BY <2>2, Zenon DEF ReadLines
      <3>2. append' = [append EXCEPT ![s] = Appending("measure", a.run, a.kept, a.victims)]
        BY <3>1, AppendMoves, Zenon
      <3> QED BY <3>2
    <2>3. CASE ~(Len(lines) <= MaxEntries)
      <3>1. append' = [append EXCEPT ![s] = [append[s] EXCEPT !.at = "rename", !.kept = tail]]
        BY <2>3, Zenon DEF ReadLines, tail
      <3>2. append' = [append EXCEPT ![s] = Appending("rename", a.run, tail, a.victims)]
        BY <3>1, AppendMoves, Zenon
      <3>3. Len(lines) > MaxEntries
        BY <2>1, <2>3
      <3> QED BY <3>2, <3>3, Zenon
    <2> QED BY <2>2, <2>3
  <1>4. AppendOK(Appending(x, a.run, k, a.victims), lines, ended, returned)
    BY <1>1, <1>2, AppendThere, AppendingFields DEF AppendOK, tail
  <1>5. returned \cup {a.run} = Live(s) /\ ended
    BY <1>1, AppendThere DEF Live, AppendOK
  <1> QED BY <1>1, <1>2, <1>4, <1>5, AppendThere, JournalGoesOn, Zenon

\* No line is of the run that none is.
LEMMA LinesOfRuns ==
    ASSUME NEW s, JournalInv(s)
    PROVE  \A i \in 1..Len(lines) : NoRun \notin lines[i].runs
  <1>1. lines \in Seq(Line)
    BY DEF JournalInv, LinesOK
  <1>2. \A l \in Line : NoRun \notin l.runs
    BY RunsAssumption DEF Line
  <1> QED BY <1>1, <1>2

LEMMA MeasureStep ==
    ASSUME NEW s, Servers = {s}, JournalInv(s), Measure(s)
    PROVE  JournalInv(s)'
  <1> DEFINE a == append[s]
             w == Victims(WithImages(Entries(lines)))
  <1>1. a.at = "measure" /\ UNCHANGED <<lines, ended, returned, stops>>
    BY DEF Measure
  <1>2. append' = [append EXCEPT ![s] = [append[s] EXCEPT !.at = "evict", !.victims = w]]
    BY Zenon DEF Measure
  <1> HIDE DEF w
  <1>3. append' = [append EXCEPT ![s] = Appending("evict", a.run, a.kept, w)]
    <2>1. [append[s] EXCEPT !.at = "evict"] = Appending("evict", a.run, a.kept, a.victims)
      BY AppendMoves
    <2>2. [append[s] EXCEPT !.at = "evict", !.victims = w] = [Appending("evict", a.run, a.kept, a.victims) EXCEPT !.victims = w]
      BY <2>1, Zenon
    <2>3. [Appending("evict", a.run, a.kept, a.victims) EXCEPT !.victims = w] = Appending("evict", a.run, a.kept, w)
      BY AppendingFields
    <2> QED BY <1>2, <2>2, <2>3, Zenon
  <1>4. AppendOK(Appending("evict", a.run, a.kept, w), lines, ended, returned)
    BY <1>1, AppendThere, AppendingFields DEF AppendOK
  <1>5. returned \cup {a.run} = Live(s) /\ (~ended => Cut(s))
    BY <1>1 DEF Live, Cut
  <1>6. \A i \in 1..Len(lines) : lines[i].runs \cap (returned \cup {a.run}) \subseteq Live(s)
    BY <1>5
  <1> QED BY <1>1, <1>3, <1>4, <1>5, <1>6, AppendGoesOn, Zenon

\* A server that is done, for whatever reason, and has returned what it recorded or not.
LEMMA BackToIdle ==
    ASSUME NEW s, Servers = {s}, JournalInv(s), append[s].at = "evict",
           append' = [append EXCEPT ![s] = Idle], UNCHANGED <<lines, ended, stops>>,
           returned' \in {returned, returned \cup {append[s].run}}
    PROVE  JournalInv(s)'
  <1>1. append' = [append EXCEPT ![s] = Appending("idle", NoRun, <<>>, <<>>)]
    BY IdleAppending, Zenon
  <1>2. append[s].run \in Runs /\ returned \subseteq Runs /\ ended
    BY AppendThere DEF AppendOK
  <1>3. AppendOK(Appending("idle", NoRun, <<>>, <<>>), lines, ended', returned')
    BY AppendingFields DEF AppendOK
  <1>4. returned' \subseteq Runs /\ ended' \in BOOLEAN /\ ended'
    BY <1>2, AppendThere
  <1>5. \A i \in 1..Len(lines) : lines[i].runs \cap (returned' \cup {NoRun}) \subseteq Live(s)
    BY LinesOfRuns DEF Live
  <1>6. UNCHANGED <<lines, stops>>
    OBVIOUS
  <1> QED BY <1>1, <1>3, <1>4, <1>5, <1>6, JournalGoesOn

LEMMA EvictStep ==
    ASSUME NEW s, Servers = {s}, JournalInv(s), EvictFile(s)
    PROVE  JournalInv(s)'
  <1> DEFINE a == append[s]
             w == IF files[Head(a.victims)] = 1 THEN Tail(a.victims) ELSE a.victims
  <1>1. a.at = "evict" /\ UNCHANGED <<lines, ended, returned, stops>>
    BY DEF EvictFile
  <1>2. append' = [append EXCEPT ![s] = Idle] \/ append' = [append EXCEPT ![s].victims = w]
    BY Zenon DEF EvictFile
  <1> HIDE DEF w
  <1>3. CASE append' = [append EXCEPT ![s] = Idle]
    BY <1>1, <1>3, BackToIdle
  <1>4. CASE append' = [append EXCEPT ![s].victims = w]
    <2>1. append' = [append EXCEPT ![s] = [append[s] EXCEPT !.victims = w]]
      BY <1>4, Zenon
    <2>2. append' = [append EXCEPT ![s] = Appending("evict", a.run, a.kept, w)]
      <3>1. [append[s] EXCEPT !.victims = w] = Appending(a.at, a.run, a.kept, w)
        BY AppendMoves
      <3> QED BY <1>1, <2>1, <3>1, Zenon
    <2>3. AppendOK(Appending("evict", a.run, a.kept, w), lines, ended, returned)
      BY <1>1, AppendThere, AppendingFields DEF AppendOK
    <2>4. returned \cup {a.run} = Live(s) /\ (~ended => Cut(s))
      BY <1>1 DEF Live, Cut
    <2>5. \A i \in 1..Len(lines) : lines[i].runs \cap (returned \cup {a.run}) \subseteq Live(s)
      BY <2>4
    <2> QED BY <1>1, <2>2, <2>3, <2>4, <2>5, AppendGoesOn, Zenon
  <1> QED BY <1>2, <1>3, <1>4

LEMMA ReturnStep ==
    ASSUME NEW s, Servers = {s}, JournalInv(s), Return(s)
    PROVE  JournalInv(s)'
  BY BackToIdle DEF Return

LEMMA WriteLineStep ==
    ASSUME NEW s, Servers = {s}, JournalInv(s), WriteLine(s)
    PROVE  JournalInv(s)'
  <1> DEFINE a == append[s]
             r == a.run
             new == Written(r, TRUE)
             A == Appending("newline", r, a.kept, a.victims)
  <1>1. /\ a.at = "line" /\ lines' = new /\ ended' = FALSE /\ returned' = returned /\ stops' = stops
        /\ append' = [append EXCEPT ![s] = [append[s] EXCEPT !.at = "newline"]]
    BY Zenon DEF WriteLine, Goto
  <1>2. r \in Runs \ returned /\ \A i \in 1..Len(lines) : r \notin lines[i].runs
    BY <1>1, AppendThere DEF AppendOK
  <1>3. LinesOK(lines, Live(s), ~ended)
    <2>1. Cut(s) <=> ~ended
      BY <1>1 DEF Cut
    <2> QED BY <2>1 DEF JournalInv, LinesOK
  <1> HIDE DEF new
  <1>4. /\ new \in Seq(Line) /\ Len(new) > 0 /\ r \in new[Len(new)].runs
        /\ \A i, j \in 1..Len(new) : i # j => new[i].runs \cap new[j].runs = {}
        /\ \A i \in 1..Len(new) : i # Len(new) => i \in 1..Len(lines) /\ new[i] = lines[i]
        /\ new[Len(new)].runs \cap Live(s) \subseteq {r}
        /\ Charged(new, FALSE) \subseteq Charged(lines, ~ended)
    <2>2. ended \in BOOLEAN /\ r \in Runs
      BY <1>2, AppendThere
    <2> HIDE DEF r
    <2> QED BY <1>2, <1>3, <2>2, WrittenLines DEF new
  <1>5. \A i \in 1..Len(new) : \A p, q \in new[i].runs \cap Live(s) : p = q
    <2> TAKE i \in 1..Len(new)
    <2>1. CASE i = Len(new)
      BY <1>4, <2>1
    <2>2. CASE i # Len(new)
      BY <1>3, <1>4, <2>2 DEF LinesOK
    <2> QED BY <2>1, <2>2
  <1>6. append' = [append EXCEPT ![s] = A]
    <2>1. [append[s] EXCEPT !.at = "newline"] = A
      BY AppendMoves
    <2> QED BY <1>1, <2>1, Zenon
  <1>7. append' = [t \in Servers |-> append'[t]] /\ append'[s] = A
    BY <1>6 DEF JournalInv
  <1>8. A.at = "newline" /\ A.run = r /\ A.kept = a.kept /\ A.victims = a.victims
    BY AppendingFields
  <1> HIDE DEF A
  <1>9. Live(s)' = Live(s) /\ ~Cut(s)'
    BY <1>1, <1>7, <1>8 DEF Live, Cut
  <1>10. LinesOK(new, Live(s), FALSE)
    BY <1>4, <1>5 DEF LinesOK
  <1>11. AppendOK(A, new, FALSE, returned)
    BY <1>2, <1>4, <1>8 DEF AppendOK, A
  <1>12. Cardinality(Charged(new, FALSE)) <= stops
    <2>1. Cardinality(Charged(new, FALSE)) <= Cardinality(Charged(lines, ~ended))
      BY <1>3, <1>4, FewerCharges DEF LinesOK
    <2>2. Charged(lines, ~ended) = Charged(lines, Cut(s))
      BY <1>1 DEF Charged, Cut
    <2>3. /\ Cardinality(Charged(lines, Cut(s))) \in Nat /\ Cardinality(Charged(lines, Cut(s))) <= stops
          /\ Cardinality(Charged(new, FALSE)) \in Nat /\ stops \in Nat
      BY <1>3, <1>4, ChargedFinite DEF JournalInv, LinesOK
    <2>4. Cardinality(Charged(new, FALSE)) <= Cardinality(Charged(lines, Cut(s)))
      BY <2>1, <2>2, Zenon
    <2>5. \A x, y, z \in Nat : x <= y /\ y <= z => x <= z
      OBVIOUS
    <2> QED BY <2>3, <2>4, <2>5, Zenon
  <1>13. LinesOK(lines, Live(s), Cut(s))' /\ (Charged(lines, Cut(s)))' = Charged(new, FALSE)
    BY <1>1, <1>9, <1>10 DEF LinesOK, Charged
  <1> QED BY <1>1, <1>7, <1>11, <1>12, <1>13, AppendThere DEF JournalInv

LEMMA ReplaceLinesStep ==
    ASSUME NEW s, Servers = {s}, JournalInv(s), ReplaceLines(s)
    PROVE  JournalInv(s)'
  <1> DEFINE a == append[s]
             n == Len(lines) - MaxEntries
             new == SubSeq(lines, Len(lines) - MaxEntries + 1, Len(lines))
             A == Appending("measure", a.run, <<>>, a.victims)
  <1>1. /\ a.at = "rename" /\ ended' = TRUE /\ returned' = returned /\ stops' = stops /\ lines' = a.kept
        /\ append' = [append EXCEPT ![s] = [append[s] EXCEPT !.at = "measure", !.kept = <<>>]]
    BY Zenon DEF ReplaceLines
  <1>2. a.run \in Runs \ returned /\ ended /\ Len(lines) > MaxEntries /\ a.kept = new
    BY <1>1, AppendThere DEF AppendOK
  <1>3. LinesOK(lines, Live(s), FALSE) /\ ~Cut(s)
    BY <1>2 DEF JournalInv, LinesOK, Cut
  <1>4. n \in Nat /\ MaxEntries \in Nat /\ Len(lines) = n + MaxEntries
    <2>1. Len(lines) \in Nat /\ MaxEntries \in Nat
      BY <1>3, LimitsAssumption DEF LinesOK
    <2>2. Len(lines) > MaxEntries
      BY <1>2
    <2> QED BY <2>1, <2>2
  <1>5. /\ new \in Seq(Line) /\ Len(new) = MaxEntries /\ \A i \in 1..MaxEntries : new[i] = lines[n + i]
        /\ Cardinality(Charged(new, FALSE)) <= Cardinality(Charged(lines, FALSE))
    BY <1>2, <1>3, <1>4, SuffixCharges DEF LinesOK
  <1> HIDE DEF new
  <1>6. LinesOK(new, Live(s), FALSE)
    <2>1. \A i \in 1..MaxEntries : n + i \in 1..Len(lines)
      BY <1>4
    <2>2. \A i, j \in 1..MaxEntries : i # j => n + i # n + j
      BY <1>4
    <2>3. \A i, j \in 1..MaxEntries : i # j => new[i].runs \cap new[j].runs = {}
      <3> TAKE i, j \in 1..MaxEntries
      <3>1. new[i] = lines[n + i] /\ new[j] = lines[n + j] /\ n + i \in 1..Len(lines) /\ n + j \in 1..Len(lines)
        BY <1>5, <2>1
      <3>2. i # j => lines[n + i].runs \cap lines[n + j].runs = {}
        BY <1>3, <2>2, <3>1 DEF LinesOK
      <3> QED BY <3>1, <3>2
    <2>4. \A i \in 1..MaxEntries : \A q, r \in new[i].runs \cap Live(s) : q = r
      <3> TAKE i \in 1..MaxEntries
      <3>1. new[i] = lines[n + i] /\ n + i \in 1..Len(lines)
        BY <1>5, <2>1
      <3>2. \A q, r \in lines[n + i].runs \cap Live(s) : q = r
        BY <1>3, <3>1 DEF LinesOK
      <3> QED BY <3>1, <3>2
    <2> QED BY <1>5, <2>3, <2>4 DEF LinesOK
  <1>7. append' = [append EXCEPT ![s] = A]
    <2>1. [append[s] EXCEPT !.at = "measure", !.kept = <<>>] = A
      BY AppendMoves, Zenon
    <2> QED BY <1>1, <2>1, Zenon
  <1>8. append' = [t \in Servers |-> append'[t]] /\ append'[s] = A
    BY <1>7 DEF JournalInv
  <1>9. A.at = "measure" /\ A.run = a.run /\ A.kept = <<>> /\ A.victims = a.victims
    BY AppendingFields
  <1> HIDE DEF A
  <1>10. Live(s)' = Live(s) /\ ~Cut(s)'
    BY <1>1, <1>8, <1>9 DEF Live, Cut
  <1>11. AppendOK(A, new, TRUE, returned)
    BY <1>2, <1>9 DEF AppendOK, A
  <1>12. Cardinality(Charged(new, FALSE)) <= stops
    <2>1. Charged(lines, FALSE) = Charged(lines, Cut(s))
      BY <1>3 DEF Charged
    <2>2. /\ Cardinality(Charged(lines, Cut(s))) \in Nat /\ Cardinality(Charged(lines, Cut(s))) <= stops
          /\ Cardinality(Charged(new, FALSE)) \in Nat /\ stops \in Nat
      BY <1>3, <1>5, ChargedFinite DEF JournalInv, LinesOK
    <2>3. Cardinality(Charged(new, FALSE)) <= Cardinality(Charged(lines, Cut(s)))
      BY <1>5, <2>1, Zenon
    <2>4. \A x, y, z \in Nat : x <= y /\ y <= z => x <= z
      OBVIOUS
    <2> QED BY <2>2, <2>3, <2>4, Zenon
  <1>13. LinesOK(lines, Live(s), Cut(s))' /\ (Charged(lines, Cut(s)))' = Charged(new, FALSE)
    BY <1>1, <1>2, <1>6, <1>10 DEF LinesOK, Charged
  <1> QED BY <1>1, <1>2, <1>8, <1>11, <1>12, <1>13, AppendThere DEF JournalInv

\* An append is cut short: its line may end there, and the next one will join it.
LEMMA CutShortStep ==
    ASSUME NEW s, Servers = {s}, JournalInv(s), CutShort(s)
    PROVE  JournalInv(s)'
  <1> DEFINE a == append[s]
             r == a.run
             C == Charged(lines, Cut(s))
             D == Charged(lines', ~ended')
  <1>1. a.at # "idle" /\ stops' = stops + 1 /\ append' = [append EXCEPT ![s] = Idle] /\ returned' = returned
    BY DEF CutShort
  <1>2. append' = [t \in Servers |-> append'[t]] /\ append'[s] = Idle
    BY <1>1 DEF JournalInv
  <1>3. r \in Runs \ returned /\ returned \subseteq Runs /\ ended \in BOOLEAN
    BY <1>1, AppendThere DEF AppendOK
  <1>4. AppendOK(append[s], lines, ended, returned)'
    BY <1>2, IdleAppending, AppendingFields DEF AppendOK
  <1>5. Live(s)' = returned \cup {NoRun} /\ (Cut(s)' <=> ~ended')
    BY <1>1, <1>2 DEF Live, Cut, Idle
  <1>6. LinesOK(lines', returned \cup {NoRun}, ~ended') /\ D \subseteq C \cup {Len(lines')} /\ ended' \in BOOLEAN
    <2>1. CASE UNCHANGED <<lines, ended>>
      <3>1. \A i \in 1..Len(lines) : lines[i].runs \cap (returned \cup {NoRun}) \subseteq Live(s)
        BY LinesOfRuns DEF Live
      <3>2. ~ended => Cut(s) \/ (Len(lines) > 0 /\ lines[Len(lines)].runs \cap (returned \cup {NoRun}) = {})
        <4> SUFFICES ASSUME ~ended, a.at = "newline"
                     PROVE  Len(lines) > 0 /\ lines[Len(lines)].runs \cap (returned \cup {NoRun}) = {}
          BY DEF Cut
        <4>1. Len(lines) > 0 /\ r \in lines[Len(lines)].runs
          BY AppendThere DEF AppendOK
        <4>2. Len(lines) \in 1..Len(lines)
          BY <4>1 DEF JournalInv, LinesOK
        <4>3. \A p, q \in lines[Len(lines)].runs \cap Live(s) : p = q
          BY <4>2 DEF JournalInv, LinesOK
        <4>4. r \in Live(s) /\ returned \subseteq Live(s) /\ NoRun \notin lines[Len(lines)].runs
          BY <4>2, LinesOfRuns DEF Live
        <4> QED BY <1>3, <4>1, <4>3, <4>4
      <3>3. LinesOK(lines, returned \cup {NoRun}, ~ended)
        BY <3>1, <3>2, LinesStayOK DEF JournalInv
      <3>4. Charged(lines, ~ended) \subseteq C \cup {Len(lines)}
        BY DEF Charged
      <3> QED BY <1>3, <2>1, <3>3, <3>4
    <2>2. CASE a.at = "line" /\ lines' = Written(r, FALSE) /\ ended' = FALSE
      <3> DEFINE new == Written(r, FALSE)
      <3>1. LinesOK(lines, Live(s), ~ended) /\ C = Charged(lines, ~ended)
        BY <2>2 DEF JournalInv, LinesOK, Cut, Charged
      <3>2. \A i \in 1..Len(lines) : r \notin lines[i].runs
        BY <2>2, AppendThere DEF AppendOK
      <3>3. /\ new \in Seq(Line) /\ Len(new) > 0
            /\ \A i, j \in 1..Len(new) : i # j => new[i].runs \cap new[j].runs = {}
            /\ \A i \in 1..Len(new) : i # Len(new) => i \in 1..Len(lines) /\ new[i] = lines[i]
            /\ new[Len(new)].runs \cap Live(s) \subseteq {r}
            /\ Charged(new, FALSE) \subseteq Charged(lines, ~ended) \cup {Len(new)}
        <4> HIDE DEF r, new
        <4> QED BY <1>3, <3>1, <3>2, WrittenLines DEF new
      <3> HIDE DEF new
      <3>4. \A l \in Line : NoRun \notin l.runs
        BY RunsAssumption DEF Line
      <3>5. Len(new) \in 1..Len(new) /\ new[Len(new)].runs \cap (returned \cup {NoRun}) = {}
        <4>1. Len(new) \in 1..Len(new)
          BY <3>3
        <4>2. NoRun \notin new[Len(new)].runs
          BY <3>3, <3>4, <4>1
        <4> QED BY <1>3, <3>3, <4>1, <4>2 DEF Live
      <3>6. \A i \in 1..Len(new) : \A p, q \in new[i].runs \cap (returned \cup {NoRun}) : p = q
        <4> TAKE i \in 1..Len(new)
        <4>1. CASE i = Len(new)
          BY <3>5, <4>1
        <4>2. CASE i # Len(new)
          <5>1. i \in 1..Len(lines) /\ new[i] = lines[i] /\ NoRun \notin lines[i].runs
            BY <3>3, <4>2, LinesOfRuns
          <5>2. \A p, q \in lines[i].runs \cap Live(s) : p = q
            BY <3>1, <5>1 DEF LinesOK
          <5> QED BY <5>1, <5>2 DEF Live
        <4> QED BY <4>1, <4>2
      <3>7. LinesOK(new, returned \cup {NoRun}, TRUE)
        BY <3>3, <3>5, <3>6 DEF LinesOK
      <3>8. Charged(new, TRUE) \subseteq C \cup {Len(new)}
        <4>1. Charged(new, TRUE) \subseteq Charged(new, FALSE) \cup {Len(new)}
          BY DEF Charged
        <4> QED BY <3>1, <3>3, <4>1
      <3>9. lines' = new /\ ~ended' /\ ended' \in BOOLEAN
        BY <2>2 DEF new
      <3>10. D = Charged(new, TRUE) /\ (LinesOK(lines', returned \cup {NoRun}, ~ended') <=> LinesOK(new, returned \cup {NoRun}, TRUE))
        BY <3>9 DEF Charged, LinesOK
      <3> QED BY <3>7, <3>8, <3>9, <3>10
    <2> QED BY <2>1, <2>2 DEF CutShort
  <1>7. Cardinality(D) <= Cardinality(C) + 1
    <2>1. lines \in Seq(Line) /\ lines' \in Seq(Line)
      BY <1>6 DEF JournalInv, LinesOK
    <2> QED BY <1>6, <2>1, OneMoreCharge
  <1>8. Cardinality(D) \in Nat /\ Cardinality(C) \in Nat /\ Cardinality(C) <= stops /\ stops \in Nat
    BY <1>6, ChargedFinite DEF JournalInv, LinesOK
  <1>9. LinesOK(lines, Live(s), Cut(s))' /\ (Charged(lines, Cut(s)))' = D
    BY <1>5, <1>6 DEF LinesOK, Charged
  <1> HIDE DEF C, D
  <1>10. Cardinality(D) <= stops' /\ stops' \in Nat
    BY <1>1, <1>7, <1>8
  <1> QED BY <1>1, <1>2, <1>3, <1>4, <1>6, <1>9, <1>10 DEF JournalInv

LEMMA JournalInductive ==
    ASSUME NEW s, Servers = {s}, JournalInv(s), [JournalNext]_journalVars
    PROVE  JournalInv(s)'
  <1>1. CASE JournalStep(s)
    BY <1>1, BeginStep, ImageStep, WriteLineStep, EndLineStep, ReadLinesStep, ReplaceLinesStep,
       MeasureStep, EvictStep, ReturnStep, CutShortStep DEF JournalStep
  <1>2. CASE UNCHANGED journalVars
    BY <1>2 DEF journalVars, JournalInv, LinesOK, Live, Cut, AppendOK, Charged
  <1> QED BY <1>1, <1>2 DEF JournalNext

\* A lost entry stands on a charged line, on which it is alone.
LEMMA LostAreCharged ==
    ASSUME NEW s, JournalInv(s)
    PROVE  TornLinesCostOne
  <1> DEFINE C == Charged(lines, Cut(s))
             T == {i \in C : lines[i].runs \cap Lost # {}}
             f == [i \in T |-> CHOOSE r \in Lost : r \in lines[i].runs]
  <1>1. IsFiniteSet(C) /\ Cardinality(C) \in Nat /\ Cardinality(C) <= stops /\ stops \in Nat
    BY ChargedFinite DEF JournalInv, LinesOK
  <1>2. T \subseteq C /\ T \subseteq 1..Len(lines)
    BY DEF Charged
  <1>3. IsFiniteSet(T) /\ Cardinality(T) \in Nat /\ Cardinality(T) <= Cardinality(C)
    BY <1>1, <1>2, FS_Subset, FS_CardinalityType
  <1>4. ASSUME NEW r \in Lost PROVE \E i \in T : f[i] = r
    <2>1. r \in returned /\ ~Readable(r)
      BY DEF Lost
    <2>2. DOMAIN lines = 1..Len(lines)
      BY DEF JournalInv, LinesOK
    <2>3. PICK i \in 1..Len(lines) : r \in lines[i].runs
      BY <2>2 DEF Lost
    <2>4. ~lines[i].whole
      BY <2>1, <2>2, <2>3 DEF Readable
    <2>5. i \in T
      BY <2>3, <2>4 DEF Charged
    <2>6. \A p, q \in lines[i].runs \cap returned : p = q
      BY DEF JournalInv, LinesOK, Live
    <2>7. \A q \in Lost : q \in returned
      BY DEF Lost
    <2>8. f[i] \in Lost /\ f[i] \in lines[i].runs
      BY <2>3, <2>5
    <2> QED BY <2>1, <2>3, <2>5, <2>6, <2>7, <2>8
  <1>5. \A i \in T : f[i] \in Lost
    OBVIOUS
  <1>6. f \in Surjection(T, Lost)
    <2>1. f \in [T -> Lost]
      BY <1>5
    <2> HIDE DEF f, T
    <2> QED BY <1>4, <2>1 DEF Surjection
  <1> HIDE DEF f, T, C
  <1>7. IsFiniteSet(Lost) /\ Cardinality(Lost) <= Cardinality(T)
    BY <1>3, <1>6, FS_Surjection
  <1>8. Cardinality(Lost) \in Nat
    BY <1>7, FS_CardinalityType
  <1>9. Cardinality(Lost) <= stops
    BY <1>1, <1>3, <1>7, <1>8
  <1> QED BY <1>9 DEF TornLinesCostOne

\* However a server is interrupted, between or in its writes: an append cut short
\* costs one of the entries that were acknowledged, and compaction costs none.
THEOREM OneEntryForATornLine ==
    ASSUME NEW s, Servers = {s}
    PROVE  JournalSpec => []TornLinesCostOne
  <1>1. JournalInit => JournalInv(s)
    BY JournalInitially
  <1>2. JournalInv(s) /\ [JournalNext]_journalVars => JournalInv(s)'
    BY JournalInductive
  <1>3. JournalInv(s) => TornLinesCostOne
    BY LostAreCharged
  <1> QED BY <1>1, <1>2, <1>3, PTL DEF JournalSpec

-----------------------------------------------------------------------------
(* The journal, of any number of servers: its types.                         *)

\* A line that parses has its run.
Told(ls) == \A i \in 1..Len(ls) : ls[i].whole => ls[i].runs # {}

\* What a reader sees are runs.
LEMMA EntriesAreRuns ==
    ASSUME NEW ls \in Seq(Line), Told(ls)
    PROVE  /\ Entries(ls) \in Seq(Runs) /\ Len(Entries(ls)) = Cardinality({i \in DOMAIN ls : ls[i].whole})
           /\ \E p : /\ Enumerates(p, {i \in DOMAIN ls : ls[i].whole})
                     /\ \A m \in 1..Len(Entries(ls)) : p[m] \in 1..Len(ls) /\ Entries(ls)[m] \in ls[p[m]].runs
  <1> DEFINE at == {i \in DOMAIN ls : ls[i].whole}
             good == Sublist(ls, at)
             c == Cardinality(at)
             E == [i \in DOMAIN good |-> CHOOSE r \in good[i].runs : TRUE]
  <1>1. at \in SUBSET DOMAIN ls /\ (\A i \in at : ls[i].whole) /\ DOMAIN ls = 1..Len(ls)
    OBVIOUS
  <1>2. E = Entries(ls)
    BY DEF Entries
  <1> HIDE DEF at
  <1>3. c \in Nat /\ IsFiniteSet(at) /\ at \in SUBSET Nat /\ good \in Seq(Line) /\ Len(good) = c
    BY <1>1, SublistOfSeq
  <1>4. PICK p : Enumerates(p, at) /\ good = [m \in 1..c |-> ls[p[m]]]
    BY <1>3, SublistPositions
  <1>5. \A m \in 1..c : good[m] = ls[p[m]] /\ p[m] \in at /\ p[m] \in 1..Len(ls)
    BY <1>1, <1>4 DEF Enumerates
  <1>6. DOMAIN good = 1..c
    BY <1>4
  <1> HIDE DEF good, c
  <1>7. ASSUME NEW m \in 1..c PROVE E[m] \in good[m].runs /\ good[m].runs \subseteq Runs
    <2>1. good[m].whole /\ good[m].runs # {}
      BY <1>1, <1>5 DEF Told
    <2>2. good[m] \in Line
      BY <1>3, <1>6
    <2> QED BY <1>6, <2>1, <2>2 DEF Line
  <1>8. E = [m \in 1..c |-> E[m]] /\ \A m \in 1..c : E[m] \in Runs
    BY <1>6, <1>7
  <1> HIDE DEF E
  <1>9. E \in Seq(Runs) /\ Len(E) = c
    BY <1>3, <1>8
  <1>10. \A m \in 1..c : p[m] \in 1..Len(ls) /\ E[m] \in ls[p[m]].runs
    BY <1>5, <1>7
  <1> QED BY <1>2, <1>4, <1>9, <1>10 DEF at, c

\* The first n of these image sets go, and the rest is within both budgets.
LEMMA VictimsAre ==
    ASSUME NEW sets \in Seq(Runs), files \in [Runs -> Nat]
    PROVE  \E n \in 0..Len(sets) :
             /\ Victims(sets) = SubSeq(sets, 1, n)
             /\ Len(sets) - n <= MaxImageSets
             /\ Bytes(Len(sets), sets) - Bytes(n, sets) <= MaxImageBytes
  <1> DEFINE L == Len(sets)
             over(k) == L - k > MaxImageSets \/ Bytes(L, sets) - Bytes(k, sets) > MaxImageBytes
             ends(k) == (k = L \/ ~over(k)) /\ \A j \in 0..(k - 1) : over(j)
             T == {k \in 0..L : ~over(k)}
  <1>1. L \in Nat /\ MaxImageSets \in Nat /\ MaxImageBytes \in Nat
    BY LimitsAssumption
  <1>2. Bytes(L, sets) \in Nat
    <2> DEFINE z == [i \in DOMAIN sets |-> files[sets[i]]]
    <2>1. \A i \in 1..L : z[i] \in Nat
      OBVIOUS
    <2> HIDE DEF z
    <2>2. L \in 0..L
      BY <1>1
    <2>3. Total(z, L) \in Nat
      BY <1>1, <2>1, <2>2, TotalsTyped
    <2> QED BY <2>3 DEF Bytes, z
  <1> HIDE DEF L
  <1>3. ~over(L) /\ L \in T
    BY <1>1, <1>2
  <1>4. T \subseteq Nat /\ T # {}
    BY <1>1, <1>3
  <1>5. PICK k \in T : \A j \in T : k <= j
    <2> HIDE DEF T
    <2> QED BY <1>4, LeastNatural
  <1>6. k \in 0..L /\ ~over(k)
    BY <1>5
  <1>7. \A j \in 0..(k - 1) : j \in 0..L /\ ~(k <= j)
    BY <1>1, <1>6
  <1> HIDE DEF over
  <1>8. \A j \in 0..(k - 1) : over(j)
    BY <1>5, <1>7
  <1> DEFINE n == CHOOSE m \in 0..L : ends(m)
  <1>9. n \in 0..L /\ ends(n)
    BY <1>6, <1>8
  <1>10. Victims(sets) = SubSeq(sets, 1, n)
    BY DEF Victims, over, L
  <1> HIDE DEF n
  <1>11. ~over(n)
    BY <1>3, <1>9
  <1>12. L - n <= MaxImageSets
    BY <1>1, <1>9, <1>11 DEF over
  <1>13. Bytes(L, sets) - Bytes(n, sets) <= MaxImageBytes
    <2> DEFINE z == [i \in DOMAIN sets |-> files[sets[i]]]
    <2>1. \A i \in 1..L : z[i] \in Nat
      BY DEF L
    <2> HIDE DEF z
    <2>2. Total(z, n) \in Nat
      BY <1>1, <1>9, <2>1, TotalsTyped
    <2>3. Bytes(n, sets) \in Nat
      BY <2>2 DEF Bytes, z
    <2> QED BY <1>1, <1>2, <1>11, <2>3 DEF over
  <1> QED BY <1>9, <1>10, <1>12, <1>13 DEF L

LEMMA VictimsTyped ==
    ASSUME NEW runs \in Seq(Runs), files \in [Runs -> Nat]
    PROVE  WithImages(runs) \in Seq(Runs) /\ Victims(WithImages(runs)) \in Seq(Runs)
  <1> DEFINE at == {i \in DOMAIN runs : files[runs[i]] > 0}
             sets == Sublist(runs, at)
  <1>1. at \in SUBSET DOMAIN runs
    OBVIOUS
  <1> HIDE DEF at
  <1>2. sets \in Seq(Runs)
    BY <1>1, SublistOfSeq
  <1>3. sets = WithImages(runs)
    BY DEF WithImages, at
  <1> HIDE DEF sets
  <1>4. PICK n \in 0..Len(sets) : Victims(sets) = SubSeq(sets, 1, n)
    BY <1>2, VictimsAre
  <1>5. SubSeq(sets, 1, n) \in Seq(Runs)
    BY <1>2
  <1> QED BY <1>2, <1>3, <1>4, <1>5

JournalShape ==
    /\ JournalTypeOK /\ Told(lines)
    /\ \A s \in Servers : Told(append[s].kept) /\ (append[s].at # "idle" => append[s].run \in Runs)

\* A step that puts the append of server s at a, and leaves what it touches typed.
LEMMA ShapeGoesOn ==
    ASSUME JournalShape, NEW s \in Servers, NEW a \in AppendState, append' = [append EXCEPT ![s] = a],
           Told(a.kept), a.at # "idle" => a.run \in Runs,
           lines' \in Seq(Line), Told(lines'), ended' \in BOOLEAN, files' \in [Runs -> Nat],
           returned' \subseteq Runs, stops' \in Nat
    PROVE  JournalShape'
  <1>1. append \in [Servers -> AppendState]
    BY DEF JournalShape, JournalTypeOK
  <1>2. append' \in [Servers -> AppendState] /\ append'[s] = a /\ \A t \in Servers \ {s} : append'[t] = append[t]
    BY <1>1
  <1>3. \A t \in Servers : Told(append'[t].kept) /\ (append'[t].at # "idle" => append'[t].run \in Runs)
    <2> TAKE t \in Servers
    <2>1. CASE t = s
      BY <1>2, <2>1
    <2>2. CASE t # s
      BY <1>2, <2>2 DEF JournalShape
    <2> QED BY <2>1, <2>2
  <1>4. Told(lines)'
    BY DEF Told
  <1> QED BY <1>2, <1>3, <1>4 DEF JournalShape, JournalTypeOK, Told

LEMMA ShapeInitially == JournalInit => JournalShape
  <1> SUFFICES ASSUME JournalInit PROVE JournalShape
    OBVIOUS
  <1>1. lines = <<>> /\ lines \in Seq(Line) /\ Told(lines) /\ Told(<<>>)
    BY DEF JournalInit, Told
  <1>2. Idle \in AppendState /\ Idle.at = "idle" /\ Idle.kept = <<>>
    BY DEF Idle, AppendState
  <1>3. append = [s \in Servers |-> Idle]
    BY DEF JournalInit
  <1>4. files \in [Runs -> Nat] /\ ended \in BOOLEAN /\ returned \subseteq Runs /\ stops \in Nat
    BY DEF JournalInit
  <1> QED BY <1>1, <1>2, <1>3, <1>4 DEF JournalShape, JournalTypeOK

\* What is written behind the lines leaves them lines.
LEMMA WrittenTyped ==
    ASSUME JournalShape, NEW r \in Runs, NEW whole \in BOOLEAN
    PROVE  Written(r, whole) \in Seq(Line) /\ Told(Written(r, whole))
  <1>1. lines \in Seq(Line) /\ Len(lines) \in Nat /\ DOMAIN lines = 1..Len(lines) /\ Told(lines)
    BY DEF JournalShape, JournalTypeOK
  <1>2. CASE ended
    <2> DEFINE l == [runs |-> {r}, whole |-> whole]
               new == Append(lines, l)
    <2>1. l \in Line /\ l.runs # {}
      BY DEF Line
    <2> HIDE DEF l
    <2>2. new \in Seq(Line) /\ Len(new) = Len(lines) + 1 /\ new[Len(lines) + 1] = l
          /\ \A i \in 1..Len(lines) : new[i] = lines[i]
      BY <1>1, <2>1
    <2>3. \A i \in 1..Len(new) : i = Len(lines) + 1 \/ i \in 1..Len(lines)
      BY <1>1, <2>2
    <2>4. Written(r, whole) = new
      BY <1>2 DEF Written, l
    <2> HIDE DEF new
    <2> QED BY <1>1, <2>1, <2>2, <2>3, <2>4 DEF Told
  <1>3. CASE ~ended
    <2> DEFINE n == Len(lines)
               l == [runs |-> lines[n].runs \cup {r}, whole |-> FALSE]
               new == [lines EXCEPT ![n] = l]
    <2>1. Written(r, whole) = new
      BY <1>3 DEF Written
    <2>2. \A i \in 1..n : new[i] = IF i = n THEN l ELSE lines[i]
      BY <1>1
    <2>3. new = [i \in 1..n |-> new[i]]
      BY <1>1
    <2>4. n \in 1..n => l \in Line
      <3>1. n \in 1..n => lines[n] \in Line
        BY <1>1
      <3> QED BY <3>1 DEF Line
    <2>5. ~l.whole
      OBVIOUS
    <2>6. \A i \in 1..n : lines[i] \in Line
      BY <1>1
    <2> HIDE DEF new, l
    <2>7. \A i \in 1..n : new[i] \in Line
      BY <2>2, <2>4, <2>6
    <2>8. new \in Seq(Line) /\ Len(new) = n
      BY <1>1, <2>3, <2>7
    <2>9. Told(new)
      <3> SUFFICES ASSUME NEW i \in 1..n, new[i].whole PROVE new[i].runs # {}
        BY <2>8 DEF Told
      <3>1. \A j \in 1..n : lines[j].whole => lines[j].runs # {}
        BY <1>1 DEF Told
      <3> HIDE DEF n
      <3>2. i # n /\ new[i] = lines[i]
        BY <2>2, <2>5
      <3> QED BY <3>1, <3>2
    <2> QED BY <2>1, <2>8, <2>9
  <1> QED BY <1>2, <1>3

\* The last part of a list.
LEMMA PartIs ==
    ASSUME NEW S, NEW seq \in Seq(S), NEW d \in Nat, d <= Len(seq)
    PROVE  SubSeq(seq, d + 1, Len(seq)) = [i \in 1..(Len(seq) - d) |-> seq[d + i]]
  <1> DEFINE l == Len(seq)
  <1>1. l \in Nat /\ l \in Int /\ d \in Int
    OBVIOUS
  <1>2. SubSeq(seq, d + 1, l) = [i \in 1..(1 + l - (d + 1)) |-> seq[i + (d + 1) - 1]]
    OBVIOUS
  <1> HIDE DEF l
  <1>3. 1 + l - (d + 1) = l - d
    BY <1>1
  <1>4. \A i \in 1..(l - d) : i + (d + 1) - 1 = d + i
    BY <1>1
  <1> QED BY <1>2, <1>3, <1>4 DEF l

\* What an append holds at a step is typed when its parts are.
LEMMA AppendTyped ==
    ASSUME NEW x \in {"idle", "images", "line", "newline", "compact", "rename", "measure", "evict"},
           NEW r \in Runs \cup {NoRun}, NEW k \in Seq(Line), NEW v \in Seq(Runs)
    PROVE  [at |-> x, run |-> r, kept |-> k, victims |-> v] \in AppendState
  BY DEF AppendState

LEMMA Measured ==
    ASSUME NEW a \in AppendState, NEW k \in Seq(Line)
    PROVE  /\ [a EXCEPT !.at = "measure", !.kept = k] \in AppendState
           /\ [a EXCEPT !.at = "measure", !.kept = k].kept = k
           /\ [a EXCEPT !.at = "measure", !.kept = k].run = a.run
           /\ a.kept \in Seq(Line)
  BY DEF AppendState

\* A list of what a function lists.
LEMMA ListTyped ==
    ASSUME NEW S, NEW n \in Nat, NEW k, k = [i \in 1..n |-> k[i]], \A i \in 1..n : k[i] \in S
    PROVE  k \in Seq(S) /\ Len(k) = n
  OBVIOUS

LEMMA FirstIs ==
    ASSUME NEW S, NEW seq \in Seq(S), NEW n \in Nat, n <= Len(seq)
    PROVE  SubSeq(seq, 1, n) = [i \in 1..n |-> seq[i]]
  OBVIOUS

LEMMA ShapeStep ==
    ASSUME JournalShape, NEW s \in Servers, JournalStep(s)
    PROVE  JournalShape'
  <1> DEFINE a == append[s]
  <1>1. /\ lines \in Seq(Line) /\ Len(lines) \in Nat /\ Told(lines) /\ ended \in BOOLEAN /\ files \in [Runs -> Nat]
        /\ returned \subseteq Runs /\ stops \in Nat /\ append \in [Servers -> AppendState]
        /\ a \in AppendState /\ Told(a.kept) /\ (a.at # "idle" => a.run \in Runs)
    BY DEF JournalShape, JournalTypeOK
  <1>2. Told(<<>>) /\ Idle \in AppendState /\ Idle.at = "idle" /\ Idle.kept = <<>>
    BY DEF Told, Idle, AppendState
  <1>3. ASSUME NEW r \in Runs, Begin(s, r) PROVE JournalShape'
    <2> DEFINE b == [Idle EXCEPT !.run = r, !.at = IF ImageFiles[r] \in 1..MaxEntryBytes THEN "images" ELSE "line"]
    <2>1. b \in AppendState /\ b.kept = <<>> /\ b.run \in Runs
      <3> DEFINE x == IF ImageFiles[r] \in 1..MaxEntryBytes THEN "images" ELSE "line"
      <3>1. x \in {"images", "line"} /\ b = [Idle EXCEPT !.run = r, !.at = x]
        OBVIOUS
      <3> HIDE DEF b, x
      <3>2. b = [at |-> x, run |-> r, kept |-> <<>>, victims |-> <<>>]
        BY <3>1 DEF Idle
      <3>3. <<>> \in Seq(Line) /\ <<>> \in Seq(Runs) /\ r \in Runs \cup {NoRun}
        OBVIOUS
      <3>4. b \in AppendState
        <4>1. x \in {"idle", "images", "line", "newline", "compact", "rename", "measure", "evict"}
          BY <3>1
        <4>2. [at |-> x, run |-> r, kept |-> <<>>, victims |-> <<>>] \in AppendState
          BY <3>3, <4>1, AppendTyped
        <4> QED BY <3>2, <4>2
      <3>5. b.kept = <<>> /\ b.run = r
        BY <3>2
      <3> QED BY <3>4, <3>5
    <2>2. append' = [append EXCEPT ![s] = b] /\ UNCHANGED <<lines, ended, files, returned, stops>>
      BY <1>3 DEF Begin
    <2> HIDE DEF b
    <2> QED BY <1>1, <1>2, <2>1, <2>2, ShapeGoesOn
  <1>4. ASSUME NEW x \in {"images", "line", "newline", "compact", "rename", "measure", "evict"}
        PROVE  /\ [a EXCEPT !.at = x] \in AppendState
               /\ [a EXCEPT !.at = x].kept = a.kept /\ [a EXCEPT !.at = x].run = a.run
    BY <1>1 DEF AppendState
  <1>5. CASE WriteImage(s)
    <2>1. PICK x \in {"images", "line"} : append' = [append EXCEPT ![s] = [a EXCEPT !.at = x]]
      BY <1>5 DEF WriteImage, Goto
    <2>2. files' = [files EXCEPT ![a.run] = @ + 1] /\ UNCHANGED <<lines, ended, returned, stops>> /\ a.at = "images"
      BY <1>5 DEF WriteImage
    <2>3. files' \in [Runs -> Nat]
      BY <1>1, <2>2
    <2> QED BY <1>1, <1>4, <2>1, <2>2, <2>3, ShapeGoesOn
  <1>6. CASE WriteLine(s)
    <2>1. /\ append' = [append EXCEPT ![s] = [a EXCEPT !.at = "newline"]] /\ a.at = "line"
          /\ lines' = Written(a.run, TRUE) /\ ended' = FALSE /\ UNCHANGED <<files, returned, stops>>
      BY <1>6 DEF WriteLine, Goto
    <2>2. lines' \in Seq(Line) /\ Told(lines')
      BY <1>1, <2>1, WrittenTyped
    <2> QED BY <1>1, <1>4, <2>1, <2>2, ShapeGoesOn
  <1>7. CASE EndLine(s)
    <2>1. /\ append' = [append EXCEPT ![s] = [a EXCEPT !.at = "compact"]] /\ a.at = "newline"
          /\ ended' = TRUE /\ UNCHANGED <<lines, files, returned, stops>>
      BY <1>7 DEF EndLine, Goto
    <2> QED BY <1>1, <1>4, <2>1, ShapeGoesOn
  <1>8. CASE ReadLines(s)
    <2>1. UNCHANGED <<lines, ended, files, returned, stops>> /\ a.at = "compact"
      BY <1>8 DEF ReadLines
    <2>2. CASE Len(lines) <= MaxEntries
      <3>1. append' = [append EXCEPT ![s] = [a EXCEPT !.at = "measure"]]
        BY <1>8, <2>2 DEF ReadLines
      <3> QED BY <1>1, <1>4, <2>1, <3>1, ShapeGoesOn
    <2>3. CASE ~(Len(lines) <= MaxEntries)
      <3> DEFINE k == SubSeq(lines, Len(lines) - MaxEntries + 1, Len(lines))
                 b == [a EXCEPT !.at = "rename", !.kept = k]
      <3>1. append' = [append EXCEPT ![s] = b]
        BY <1>8, <2>3 DEF ReadLines
      <3>2. k \in Seq(Line) /\ \A i \in 1..Len(k) : \E j \in 1..Len(lines) : k[i] = lines[j]
        <4> DEFINE d == Len(lines) - MaxEntries
        <4>1. d \in Nat /\ d + 1 \in 1..Len(lines) + 1 /\ d <= Len(lines)
          BY <1>1, <2>3, LimitsAssumption
        <4>2. k = SubSeq(lines, d + 1, Len(lines))
          BY <4>1
        <4> HIDE DEF d
        <4>3. k = [i \in 1..(Len(lines) - d) |-> lines[d + i]]
          BY <1>1, <4>1, <4>2, PartIs
        <4>5. \A i \in 1..(Len(lines) - d) : d + i \in 1..Len(lines) /\ lines[d + i] \in Line
          BY <1>1, <4>1
        <4>6. Len(lines) - d \in Nat
          BY <1>1, <4>1
        <4>7. k \in Seq(Line) /\ Len(k) = Len(lines) - d
          <5> DEFINE m == Len(lines) - d
          <5>1. m \in Nat /\ k = [i \in 1..m |-> k[i]] /\ \A i \in 1..m : k[i] \in Line
            BY <4>3, <4>5, <4>6
          <5> HIDE DEF m, k
          <5>2. k \in Seq(Line) /\ Len(k) = m
            BY <5>1, ListTyped
          <5> QED BY <5>2 DEF m
        <4>4. \A i \in 1..Len(k) : d + i \in 1..Len(lines) /\ k[i] = lines[d + i]
          BY <4>3, <4>5, <4>7
        <4> HIDE DEF k
        <4> QED BY <4>4, <4>7
      <3> HIDE DEF k
      <3>3. Told(k)
        BY <1>1, <3>2 DEF Told
      <3>4. b \in AppendState /\ b.kept = k /\ b.run = a.run
        BY <1>1, <3>2 DEF AppendState
      <3> HIDE DEF b
      <3> QED BY <1>1, <2>1, <3>1, <3>3, <3>4, ShapeGoesOn
    <2> QED BY <2>2, <2>3
  <1>9. CASE ReplaceLines(s)
    <2> DEFINE b == [a EXCEPT !.at = "measure", !.kept = <<>>]
    <2>1. /\ append' = [append EXCEPT ![s] = b] /\ a.at = "rename"
          /\ lines' = a.kept /\ ended' = TRUE /\ UNCHANGED <<files, returned, stops>>
      BY <1>1, <1>9 DEF ReplaceLines
    <2>2. b \in AppendState /\ b.kept = <<>> /\ b.run = a.run /\ a.kept \in Seq(Line)
      <3>1. <<>> \in Seq(Line)
        OBVIOUS
      <3>2. a \in AppendState
        BY <1>1
      <3> HIDE DEF a
      <3>3. \A k \in Seq(Line) : /\ [a EXCEPT !.at = "measure", !.kept = k] \in AppendState
                                  /\ [a EXCEPT !.at = "measure", !.kept = k].kept = k
                                  /\ [a EXCEPT !.at = "measure", !.kept = k].run = a.run
        BY <3>2, Measured, Zenon
      <3>4. a.kept \in Seq(Line)
        BY <3>2 DEF AppendState
      <3> QED BY <3>1, <3>3, <3>4, Zenon
    <2> HIDE DEF b
    <2> QED BY <1>1, <1>2, <2>1, <2>2, ShapeGoesOn
  <1>10. CASE Measure(s)
    <2> DEFINE v == Victims(WithImages(Entries(lines)))
               b == [a EXCEPT !.at = "evict", !.victims = v]
    <2>1. /\ append' = [append EXCEPT ![s] = b] /\ a.at = "measure"
          /\ UNCHANGED <<lines, ended, files, returned, stops>>
      BY <1>1, <1>10 DEF Measure
    <2>2. v \in Seq(Runs)
      BY <1>1, EntriesAreRuns, VictimsTyped
    <2> HIDE DEF v
    <2>3. b \in AppendState /\ b.kept = a.kept /\ b.run = a.run
      BY <1>1, <2>2 DEF AppendState
    <2> HIDE DEF b
    <2> QED BY <1>1, <2>1, <2>3, ShapeGoesOn
  <1>11. CASE EvictFile(s)
    <2> DEFINE r == Head(a.victims)
    <2>1. a.at = "evict" /\ a.victims # <<>> /\ UNCHANGED <<lines, ended, returned, stops>>
      BY <1>11 DEF EvictFile
    <2>2. a.victims \in Seq(Runs) /\ r \in Runs /\ Tail(a.victims) \in Seq(Runs)
      <3>1. a.victims \in Seq(Runs)
        BY <1>1 DEF AppendState
      <3> QED BY <2>1, <3>1
    <2>3. CASE files[r] = 0
      <3>1. append' = [append EXCEPT ![s] = Idle] /\ files' = files
        BY <1>11, <2>3 DEF EvictFile
      <3> QED BY <1>1, <1>2, <2>1, <3>1, ShapeGoesOn
    <2>4. CASE files[r] # 0
      <3> DEFINE v == IF files[r] = 1 THEN Tail(a.victims) ELSE a.victims
                 b == [a EXCEPT !.victims = v]
      <3>1. append' = [append EXCEPT ![s] = b] /\ files' = [files EXCEPT ![r] = @ - 1]
        BY <1>1, <1>11, <2>4 DEF EvictFile
      <3>2. files' \in [Runs -> Nat]
        BY <1>1, <2>2, <2>4, <3>1
      <3>3. v \in Seq(Runs)
        BY <2>2
      <3> HIDE DEF v
      <3>4. b \in AppendState /\ b.kept = a.kept /\ b.run = a.run /\ b.at = "evict"
        BY <1>1, <2>1, <3>3 DEF AppendState
      <3> HIDE DEF b
      <3> QED BY <1>1, <2>1, <3>1, <3>2, <3>4, ShapeGoesOn
    <2> QED BY <2>3, <2>4
  <1>12. CASE Return(s)
    <2>1. /\ append' = [append EXCEPT ![s] = Idle] /\ returned' = returned \cup {a.run} /\ a.at = "evict"
          /\ UNCHANGED <<lines, ended, files, stops>>
      BY <1>12 DEF Return
    <2>2. returned' \subseteq Runs
      BY <1>1, <2>1
    <2> QED BY <1>1, <1>2, <2>1, <2>2, ShapeGoesOn
  <1>13. CASE CutShort(s)
    <2>1. /\ append' = [append EXCEPT ![s] = Idle] /\ stops' = stops + 1 /\ a.at # "idle" /\ UNCHANGED <<files, returned>>
          /\ (UNCHANGED <<lines, ended>> \/ (lines' = Written(a.run, FALSE) /\ ended' = FALSE))
      BY <1>13 DEF CutShort
    <2>2. lines' \in Seq(Line) /\ Told(lines') /\ ended' \in BOOLEAN /\ stops' \in Nat
      <3>1. Written(a.run, FALSE) \in Seq(Line) /\ Told(Written(a.run, FALSE))
        BY <1>1, <2>1, WrittenTyped
      <3>2. stops' \in Nat
        BY <1>1, <2>1
      <3>3. CASE UNCHANGED <<lines, ended>>
        BY <1>1, <3>2, <3>3
      <3>4. CASE lines' = Written(a.run, FALSE) /\ ended' = FALSE
        BY <3>1, <3>2, <3>4
      <3> QED BY <2>1, <3>3, <3>4
    <2> QED BY <1>1, <1>2, <2>1, <2>2, ShapeGoesOn
  <1> QED BY <1>3, <1>5, <1>6, <1>7, <1>8, <1>9, <1>10, <1>11, <1>12, <1>13 DEF JournalStep

LEMMA ShapeInductive == JournalShape /\ [JournalNext]_journalVars => JournalShape'
  <1> SUFFICES ASSUME JournalShape, [JournalNext]_journalVars PROVE JournalShape'
    OBVIOUS
  <1>1. CASE JournalNext
    BY <1>1, ShapeStep DEF JournalNext
  <1>2. CASE UNCHANGED journalVars
    BY <1>2 DEF journalVars, JournalShape, JournalTypeOK, Told
  <1> QED BY <1>1, <1>2

-----------------------------------------------------------------------------
(* The images that eviction leaves, of one server.                           *)

\* No run twice.
Distinct(runs) == \A i, j \in 1..Len(runs) : runs[i] = runs[j] => i = j

\* Which of these runs have images, and of what sizes, when the files are fs.
Places(fs, runs) == {i \in DOMAIN runs : fs[runs[i]] > 0}
Imaged(fs, runs) == Sublist(runs, Places(fs, runs))
SizesIn(fs, sets) == [i \in DOMAIN sets |-> fs[sets[i]]]

\* What eviction has yet to remove are the oldest sets, and the others are within
\* both budgets.
EnoughGo(fs, runs, v) ==
    LET sets == Imaged(fs, runs)
    IN  /\ Len(v) <= Len(sets) /\ v = SubSeq(sets, 1, Len(v))
        /\ Len(sets) - Len(v) <= MaxImageSets
        /\ Total(SizesIn(fs, sets), Len(sets)) - Total(SizesIn(fs, sets), Len(v)) <= MaxImageBytes

\* Without its first position a sublist is its tail.
TailAt(p, at, seq) ==
    /\ Cardinality(at \ {p[1]}) = Cardinality(at) - 1
    /\ Sublist(seq, at \ {p[1]}) = [m \in 1..(Cardinality(at) - 1) |-> seq[p[m + 1]]]

LEMMA SublistWithoutFirst ==
    ASSUME NEW at \in SUBSET Nat, IsFiniteSet(at), NEW seq, NEW p, Enumerates(p, at), Cardinality(at) # 0
    PROVE  TailAt(p, at, seq)
  <1> DEFINE c == Cardinality(at)
             x == p[1]
             rest == at \ {x}
  <1>1. c \in Nat /\ 1 \in 1..c /\ x \in at
    <2>1. c \in Nat /\ c # 0
      BY RanksGrow
    <2> QED BY <2>1 DEF Enumerates
  <1>2. IsFiniteSet(rest) /\ Cardinality(rest) = c - 1 /\ rest \in SUBSET Nat
    BY <1>1, FS_RemoveElement, FS_Subset
  <1> HIDE DEF rest
  <1>3. PICK q : Enumerates(q, rest) /\ Sublist(seq, rest) = [m \in 1..Cardinality(rest) |-> seq[q[m]]]
    <2>1. IsFiniteSet(rest) /\ rest \in SUBSET Nat
      BY <1>2
    <2> QED BY <2>1, SublistPositions
  <1>4. ASSUME NEW m \in 1..(c - 1) PROVE q[m] = p[m + 1]
    <2> DEFINE y == p[m + 1]
    <2>1. m + 1 \in 1..c /\ 1 < m + 1 /\ m \in Nat
      BY <1>1
    <2>2. y \in at /\ x < y /\ Rank(at, y) = m + 1
      BY <1>1, <2>1 DEF Enumerates
    <2> HIDE DEF x, y
    <2>3. x \in Nat /\ y \in Nat /\ y \in rest
      <3>1. \A k \in at : k \in Nat
        OBVIOUS
      <3>2. x \in Nat /\ y \in Nat
        BY <1>1, <2>2, <3>1, Zenon
      <3>3. x # y
        BY <2>2, <3>2
      <3> QED BY <2>2, <3>2, <3>3, Zenon DEF rest, x
    <2> DEFINE U == {j \in at : j <= y}
               V == {j \in rest : j <= y}
    <2>4. V = U \ {x} /\ x \in U /\ U \in SUBSET at
      BY <1>1, <2>2, <2>3 DEF rest
    <2>5. Cardinality(U) = m + 1 /\ Cardinality(V) = Rank(rest, y)
      BY <2>2 DEF Rank
    <2> HIDE DEF U, V
    <2>6. Cardinality(V) = Cardinality(U) - 1
      BY <2>4, FS_Subset, FS_RemoveElement
    <2>7. Rank(rest, y) = m
      BY <2>1, <2>5, <2>6
    <2>8. q[m] \in rest /\ Rank(rest, q[m]) = m
      BY <1>2, <1>3 DEF Enumerates
    <2>9. q[m] \in Int /\ y \in Int
      <3>1. \A k \in rest : k \in Int
        BY <1>2
      <3> QED BY <2>3, <2>8, <3>1, Zenon
    <2>10. ~(q[m] < y) /\ ~(y < q[m])
      <3>1. q[m] < y => Rank(rest, q[m]) < Rank(rest, y)
        BY <1>2, <2>3, <2>8, RanksGrow
      <3>2. y < q[m] => Rank(rest, y) < Rank(rest, q[m])
        BY <1>2, <2>3, <2>8, RanksGrow
      <3> QED BY <2>1, <2>7, <2>8, <3>1, <3>2
    <2>11. q[m] = y
      BY <2>9, <2>10
    <2> QED BY <2>11 DEF y
  <1>5. Sublist(seq, rest) = [m \in 1..(c - 1) |-> seq[q[m]]]
    BY <1>2, <1>3
  <1> HIDE DEF c
  <1>6. Sublist(seq, rest) = [m \in 1..(c - 1) |-> seq[p[m + 1]]]
    BY <1>4, <1>5
  <1> QED BY <1>2, <1>6 DEF TailAt, rest, x, c

\* The sets, in the order of their runs and each once.
LEMMA ImagedAre ==
    ASSUME NEW fs \in [Runs -> Nat], NEW runs \in Seq(Runs), Distinct(runs)
    PROVE  LET at == Places(fs, runs)
               sets == Imaged(fs, runs)
           IN  /\ at \in SUBSET Nat /\ IsFiniteSet(at) /\ at \subseteq 1..Len(runs)
               /\ sets \in Seq(Runs) /\ Len(sets) = Cardinality(at) /\ Distinct(sets)
               /\ \E p : /\ Enumerates(p, at) /\ sets = [m \in 1..Cardinality(at) |-> runs[p[m]]]
                         /\ \A m \in 1..Cardinality(at) : fs[runs[p[m]]] > 0 /\ p[m] \in 1..Len(runs)
  <1> DEFINE at == Places(fs, runs)
             sets == Imaged(fs, runs)
             c == Cardinality(at)
  <1>1. at \in SUBSET DOMAIN runs /\ DOMAIN runs = 1..Len(runs) /\ (\A i \in at : fs[runs[i]] > 0) /\ sets = Sublist(runs, at)
    BY DEF Places, Imaged
  <1> HIDE DEF at, sets
  <1>2. /\ at \in SUBSET Nat /\ IsFiniteSet(at) /\ at \subseteq 1..Len(runs) /\ c \in Nat
        /\ sets \in Seq(Runs) /\ Len(sets) = c
    BY <1>1, SublistOfSeq
  <1>3. PICK p : Enumerates(p, at) /\ Sublist(runs, at) = [m \in 1..Cardinality(at) |-> runs[p[m]]]
    BY <1>2, SublistPositions
  <1>4. \A m \in 1..c : p[m] \in at /\ p[m] \in 1..Len(runs) /\ fs[runs[p[m]]] > 0 /\ Rank(at, p[m]) = m
    BY <1>1, <1>2, <1>3 DEF Enumerates
  <1>5. Distinct(sets)
    <2> SUFFICES ASSUME NEW i \in 1..c, NEW j \in 1..c, sets[i] = sets[j] PROVE i = j
      BY <1>2 DEF Distinct
    <2> HIDE DEF c
    <2>1. runs[p[i]] = runs[p[j]]
      BY <1>1, <1>3 DEF c
    <2>2. p[i] = p[j]
      BY <1>4, <2>1 DEF Distinct
    <2> QED BY <1>4, <2>2
  <1> QED BY <1>1, <1>2, <1>3, <1>4, <1>5 DEF at, sets, c

\* The sizes behind the first one.
Behind(z, n) == [i \in 1..(n - 1) |-> z[1 + i]]

LEMMA TotalBehind ==
    ASSUME NEW z, NEW l \in Nat, NEW n \in 1..l, \A i \in 1..l : z[i] \in Nat
    PROVE  /\ Total(z, l) - Total(z, n) = Total(Behind(z, l), l - 1) - Total(Behind(z, l), n - 1)
           /\ Total(Behind(z, l), l - 1) \in Int /\ Total(Behind(z, l), n - 1) \in Int
  <1> DEFINE y == Behind(z, l)
  <1>1. l - 1 \in Nat /\ n - 1 \in Nat /\ 1 + (l - 1) = l /\ 1 + (n - 1) = n /\ n - 1 \in 0..(l - 1) /\ l - 1 \in 0..(l - 1) /\ 1 \in 0..l
    OBVIOUS
  <1>2. \A i \in 1..(l - 1) : y[i] = z[1 + i] /\ 1 + i \in 1..l
    BY DEF Behind
  <1> HIDE DEF y
  <1>3. Part(y, l - 1, z, 1) /\ Part(y, n - 1, z, 1)
    <2>1. \A i \in 1..(n - 1) : i \in 1..(l - 1)
      OBVIOUS
    <2> QED BY <1>2, <2>1 DEF Part
  <1>4. \A i \in 1..(l - 1) : y[i] \in Nat
    BY <1>2
  <1>5. Total(y, l - 1) \in Nat /\ Total(y, n - 1) \in Nat
    BY <1>1, <1>4, TotalsTyped
  <1>6. Total(z, 1) \in Nat
    BY <1>1, TotalsTyped
  <1>7. Total(z, 1 + (l - 1)) = Total(z, 1) + Total(y, l - 1)
    <2>1. \A i \in 1..(1 + (l - 1)) : z[i] \in Nat
      BY <1>1
    <2> QED BY <1>1, <1>3, <2>1, TotalsOfAPart
  <1>8. Total(z, 1 + (n - 1)) = Total(z, 1) + Total(y, n - 1)
    <2>1. \A i \in 1..(1 + (n - 1)) : z[i] \in Nat
      <3>1. \A i \in 1..(1 + (n - 1)) : i \in 1..l
        BY <1>1
      <3> QED BY <3>1
    <2> QED BY <1>1, <1>3, <2>1, TotalsOfAPart
  <1>9. Total(z, l) = Total(z, 1) + Total(y, l - 1) /\ Total(z, n) = Total(z, 1) + Total(y, n - 1)
    BY <1>1, <1>7, <1>8
  <1>10. Total(z, l) - Total(z, n) = Total(y, l - 1) - Total(y, n - 1)
    BY <1>5, <1>6, <1>9
  <1> QED BY <1>5, <1>10 DEF y

LEMMA TailIs ==
    ASSUME NEW S, NEW seq \in Seq(S), seq # <<>>
    PROVE  Len(Tail(seq)) = Len(seq) - 1 /\ Tail(seq) = [i \in 1..(Len(seq) - 1) |-> seq[i + 1]]
  <1> DEFINE t == Tail(seq)
  <1>1. t \in Seq(S) /\ Len(t) = Len(seq) - 1
    OBVIOUS
  <1>2. \A i \in 1..Len(t) : t[i] = seq[i + 1]
    OBVIOUS
  <1> HIDE DEF t
  <1>3. t = [i \in 1..Len(t) |-> t[i]]
    BY <1>1
  <1>4. t = [i \in 1..Len(t) |-> seq[i + 1]]
    BY <1>2, <1>3
  <1> QED BY <1>1, <1>4 DEF t

\* One file less of the oldest set that is to go: it was there, and what is left of
\* the others is what it was.
LEMMA OneFileLess ==
    ASSUME NEW fs \in [Runs -> Nat], NEW runs \in Seq(Runs), Distinct(runs),
           NEW v \in Seq(Runs), v # <<>>, EnoughGo(fs, runs, v), NEW r, r = Head(v)
    PROVE  /\ r \in Runs /\ fs[r] # 0
           /\ EnoughGo([fs EXCEPT ![r] = @ - 1], runs, IF fs[r] = 1 THEN Tail(v) ELSE v)
  <1> DEFINE at == Places(fs, runs)
             c == Cardinality(at)
             S == Imaged(fs, runs)
             n == Len(v)
             gs == [fs EXCEPT ![r] = @ - 1]
             z == SizesIn(fs, S)
  <1>1. /\ at \in SUBSET Nat /\ IsFiniteSet(at) /\ at \subseteq 1..Len(runs)
        /\ S \in Seq(Runs) /\ Len(S) = c /\ Distinct(S)
    BY ImagedAre
  <1>2. PICK p : /\ Enumerates(p, at) /\ S = [m \in 1..c |-> runs[p[m]]]
                 /\ \A m \in 1..c : fs[runs[p[m]]] > 0 /\ p[m] \in 1..Len(runs)
    BY ImagedAre
  <1>3. n <= c /\ v = SubSeq(S, 1, n) /\ c - n <= MaxImageSets /\ Total(z, c) - Total(z, n) <= MaxImageBytes
    BY <1>1 DEF EnoughGo
  <1>4. n \in 1..c /\ c \in Nat /\ c # 0 /\ 1 \in 1..c
    <2>1. n \in Nat /\ n # 0
      BY DEF n
    <2>2. c \in Nat
      BY <1>1
    <2> HIDE DEF n, c
    <2> QED BY <1>3, <2>1, <2>2
  <1>5. r = S[1] /\ r = runs[p[1]] /\ fs[r] > 0 /\ r \in Runs /\ p[1] \in 1..Len(runs)
    <2>1. r = v[1] /\ 1 \in 1..n
      BY <1>4
    <2>2. v[1] = S[1]
      BY <1>1, <1>3, <1>4
    <2>3. S[1] = runs[p[1]] /\ fs[runs[p[1]]] > 0 /\ p[1] \in 1..Len(runs)
      BY <1>2, <1>4
    <2> QED BY <2>1, <2>2, <2>3
  <1>6. fs[r] \in Nat /\ fs[r] # 0 /\ gs \in [Runs -> Nat] /\ gs[r] = fs[r] - 1 /\ \A q \in Runs : q # r => gs[q] = fs[q]
    <2>1. fs[r] \in Nat /\ fs[r] # 0
      BY <1>5
    <2>2. fs[r] - 1 \in Nat
      BY <2>1
    <2> QED BY <1>5, <2>1, <2>2
  <1>7. \A i \in 1..Len(runs) : runs[i] \in Runs /\ (runs[i] = r <=> i = p[1])
    BY <1>5 DEF Distinct
  <1>8. \A i \in 1..c : S[i] \in Runs /\ (S[i] = r <=> i = 1)
    <2> HIDE DEF S, c
    <2>1. \A i \in 1..c : S[i] \in Runs
      BY <1>1
    <2>2. \A i \in 1..c : S[i] = S[1] => i = 1
      BY <1>1, <1>4 DEF Distinct
    <2> QED BY <1>5, <2>1, <2>2
  <1>9. z = [i \in 1..c |-> fs[S[i]]] /\ \A i \in 1..c : z[i] = fs[S[i]] /\ z[i] \in Nat
    <2>1. DOMAIN S = 1..c
      BY <1>1
    <2>2. z = [i \in 1..c |-> fs[S[i]]]
      BY <2>1 DEF SizesIn
    <2> HIDE DEF z, c, S
    <2> QED BY <1>8, <2>2
  <1>10. /\ Total(z, c) - Total(z, n) = Total(Behind(z, c), c - 1) - Total(Behind(z, c), n - 1)
         /\ Total(Behind(z, c), c - 1) \in Int /\ Total(Behind(z, c), n - 1) \in Int
    <2> HIDE DEF z, c, n
    <2> QED BY <1>4, <1>9, TotalBehind
  <1>11. \A i \in 1..(c - 1) : Behind(z, c)[i] = fs[S[1 + i]] /\ 1 + i \in 1..c /\ S[1 + i] # r /\ S[1 + i] \in Runs
    <2> HIDE DEF z, c, S
    <2>1. \A i \in 1..(c - 1) : 1 + i \in 1..c /\ 1 + i # 1
      BY <1>4
    <2> QED BY <1>8, <1>9, <2>1 DEF Behind
  <1>12. CASE fs[r] = 1
    <2>1. Places(gs, runs) = at \ {p[1]}
      <3>1. \A i \in 1..Len(runs) : i # p[1] => gs[runs[i]] = fs[runs[i]]
        BY <1>6, <1>7
      <3>2. ~(gs[runs[p[1]]] > 0)
        BY <1>5, <1>6, <1>12
      <3>3. DOMAIN runs = 1..Len(runs)
        OBVIOUS
      <3> HIDE DEF gs
      <3> QED BY <1>5, <3>1, <3>2, <3>3 DEF Places
    <2>2. Cardinality(at \ {p[1]}) = c - 1 /\ Sublist(runs, at \ {p[1]}) = [m \in 1..(c - 1) |-> runs[p[m + 1]]]
      <3> HIDE DEF at
      <3>1. at \in SUBSET Nat /\ IsFiniteSet(at)
        BY <1>1
      <3>2. Enumerates(p, at)
        BY <1>2
      <3>3. Cardinality(at) # 0
        BY <1>4
      <3>4. TailAt(p, at, runs)
        BY <3>1, <3>2, <3>3, SublistWithoutFirst
      <3> QED BY <3>4 DEF TailAt
    <2> DEFINE S1 == Imaged(gs, runs)
               z1 == SizesIn(gs, S1)
    <2>3. S1 = [m \in 1..(c - 1) |-> S[m + 1]] /\ S1 \in Seq(Runs) /\ Len(S1) = c - 1 /\ DOMAIN S1 = 1..(c - 1)
      <3>1. S1 = [m \in 1..(c - 1) |-> runs[p[m + 1]]]
        BY <2>1, <2>2 DEF Imaged
      <3> HIDE DEF S1, S, c
      <3>2. \A m \in 1..(c - 1) : m + 1 \in 1..c
        BY <1>4
      <3>3. \A m \in 1..(c - 1) : S[m + 1] = runs[p[m + 1]] /\ S[m + 1] \in Runs
        BY <1>2, <1>8, <3>2
      <3>4. S1 = [m \in 1..(c - 1) |-> S[m + 1]]
        BY <3>1, <3>3
      <3>6. c - 1 \in Nat
        BY <1>4
      <3>5. \A m \in 1..(c - 1) : S1[m] \in Runs
        BY <3>3, <3>4
      <3>7. S1 = [m \in 1..(c - 1) |-> S1[m]] /\ DOMAIN S1 = 1..(c - 1)
        BY <3>4
      <3>8. S1 \in Seq(Runs) /\ Len(S1) = c - 1
        <4> DEFINE k == c - 1
        <4>1. k \in Nat /\ S1 = [m \in 1..k |-> S1[m]] /\ \A m \in 1..k : S1[m] \in Runs
          BY <3>5, <3>6, <3>7
        <4> HIDE DEF k
        <4>2. S1 \in Seq(Runs) /\ Len(S1) = k
          BY <4>1, ListTyped
        <4> QED BY <4>2 DEF k
      <3> QED BY <3>4, <3>7, <3>8
    <2> HIDE DEF S1
    <2>4. z1 = Behind(z, c)
      <3>1. z1 = [i \in 1..(c - 1) |-> gs[S1[i]]] /\ Behind(z, c) = [i \in 1..(c - 1) |-> Behind(z, c)[i]]
        BY <2>3 DEF SizesIn, Behind
      <3>2. \A i \in 1..(c - 1) : S1[i] = S[1 + i]
        <4>1. \A i \in 1..(c - 1) : i + 1 = 1 + i
          BY <1>4
        <4> HIDE DEF S
        <4> QED BY <2>3, <4>1
      <3>3. \A i \in 1..(c - 1) : gs[S1[i]] = Behind(z, c)[i]
        <4> HIDE DEF gs, S, z, c
        <4> QED BY <1>6, <1>11, <3>2
      <3> HIDE DEF z1, gs, z, c, S
      <3> QED BY <3>1, <3>3
    <2>5. Tail(v) = SubSeq(S1, 1, n - 1) /\ Len(Tail(v)) = n - 1
      <3>1. Len(Tail(v)) = n - 1 /\ Tail(v) = [i \in 1..(n - 1) |-> v[i + 1]]
        BY TailIs
      <3>2. \A i \in 1..n : v[i] = S[i]
        BY <1>1, <1>3, <1>4
      <3>3. SubSeq(S1, 1, n - 1) = [i \in 1..(n - 1) |-> S1[i]]
        <4> HIDE DEF n, c
        <4>1. n - 1 \in Nat /\ n - 1 <= Len(S1)
          BY <1>4, <2>3
        <4> QED BY <2>3, <4>1, FirstIs
      <3> HIDE DEF n, S, c
      <3>4. \A i \in 1..(n - 1) : i \in 1..(c - 1) /\ i + 1 \in 1..n
        BY <1>4
      <3>5. \A i \in 1..(n - 1) : v[i + 1] = S1[i]
        BY <2>3, <3>2, <3>4
      <3> QED BY <3>1, <3>3, <3>5
    <2>6. EnoughGo(gs, runs, Tail(v))
      <3> HIDE DEF z1, gs, z, c, S, n
      <3>1. n - 1 <= c - 1 /\ (c - 1) - (n - 1) = c - n
        BY <1>4
      <3>2. Total(z1, c - 1) - Total(z1, n - 1) <= MaxImageBytes
        BY <1>3, <1>10, <2>4
      <3> QED BY <1>3, <2>3, <2>5, <3>1, <3>2 DEF EnoughGo, S1, z1
    <2> QED BY <1>5, <1>6, <1>12, <2>6
  <1>13. CASE fs[r] # 1
    <2>1. Imaged(gs, runs) = S
      <3>1. \A i \in 1..Len(runs) : gs[runs[i]] > 0 <=> fs[runs[i]] > 0
        <4>1. gs[r] > 0
          BY <1>6, <1>13
        <4> HIDE DEF gs
        <4> QED BY <1>5, <1>6, <1>7, <4>1
      <3>2. DOMAIN runs = 1..Len(runs)
        OBVIOUS
      <3> HIDE DEF gs
      <3>3. Places(gs, runs) = at
        BY <3>1, <3>2 DEF Places
      <3> QED BY <3>3 DEF Imaged
    <2> DEFINE z1 == SizesIn(gs, S)
    <2>2. z1 = [i \in 1..c |-> gs[S[i]]] /\ \A i \in 1..c : z1[i] = gs[S[i]] /\ z1[i] \in Nat
      <3>1. DOMAIN S = 1..c
        BY <1>1
      <3>2. z1 = [i \in 1..c |-> gs[S[i]]]
        BY <3>1 DEF SizesIn
      <3> HIDE DEF z1, c, S, gs
      <3> QED BY <1>6, <1>8, <3>2
    <2>3. /\ Total(z1, c) - Total(z1, n) = Total(Behind(z1, c), c - 1) - Total(Behind(z1, c), n - 1)
      <3> HIDE DEF z1, c, n
      <3> QED BY <1>4, <2>2, TotalBehind
    <2>4. Behind(z1, c) = Behind(z, c)
      <3> HIDE DEF z1, c, gs, z, S
      <3>1. \A i \in 1..(c - 1) : z1[1 + i] = z[1 + i]
        BY <1>6, <1>9, <1>11, <2>2
      <3> QED BY <3>1 DEF Behind
    <2>5. EnoughGo(gs, runs, v)
      <3>1. Total(z1, c) - Total(z1, n) <= MaxImageBytes
        BY <1>3, <1>10, <2>3, <2>4
      <3> HIDE DEF z, c, S, gs
      <3> QED BY <1>1, <1>3, <2>1, <3>1 DEF EnoughGo, z1
    <2> QED BY <1>5, <1>6, <1>13, <2>5
  <1> QED BY <1>12, <1>13

\* Lines that share no run are of different runs.
LEMMA EntriesDiffer ==
    ASSUME NEW ls \in Seq(Line), Told(ls), \A i, j \in 1..Len(ls) : i # j => ls[i].runs \cap ls[j].runs = {}
    PROVE  Entries(ls) \in Seq(Runs) /\ Distinct(Entries(ls))
  <1> DEFINE E == Entries(ls)
             at == {i \in DOMAIN ls : ls[i].whole}
  <1>1. E \in Seq(Runs)
    BY EntriesAreRuns
  <1>2. PICK p : /\ Enumerates(p, at)
                 /\ \A m \in 1..Len(E) : p[m] \in 1..Len(ls) /\ E[m] \in ls[p[m]].runs
    BY EntriesAreRuns
  <1>3. Len(E) = Cardinality(at)
    BY EntriesAreRuns
  <1> HIDE DEF at, E
  <1>4. ASSUME NEW i \in 1..Len(E), NEW j \in 1..Len(E), E[i] = E[j] PROVE i = j
    <2>1. p[i] = p[j]
      BY <1>2, <1>4
    <2>2. Rank(at, p[i]) = i /\ Rank(at, p[j]) = j
      BY <1>2, <1>3 DEF Enumerates
    <2> QED BY <2>1, <2>2
  <1> QED BY <1>1, <1>4 DEF Distinct, E

\* The images of one server's journal: what eviction has measured still stands.
EvictInv(s) == append[s].at = "evict" => EnoughGo(files, Entries(lines), append[s].victims)

BudgetInv(s) == JournalInv(s) /\ JournalShape /\ EvictInv(s)

\* What a reader sees are different runs.
LEMMA ReadersSeeRuns ==
    ASSUME NEW s, BudgetInv(s)
    PROVE  Entries(lines) \in Seq(Runs) /\ Distinct(Entries(lines)) /\ files \in [Runs -> Nat]
  <1>1. lines \in Seq(Line) /\ Told(lines) /\ files \in [Runs -> Nat]
    BY DEF BudgetInv, JournalShape, JournalTypeOK
  <1>2. \A i, j \in 1..Len(lines) : i # j => lines[i].runs \cap lines[j].runs = {}
    BY DEF BudgetInv, JournalInv, LinesOK
  <1> QED BY <1>1, <1>2, EntriesDiffer

LEMMA MeasuresEnough ==
    ASSUME NEW s \in Servers, BudgetInv(s), Measure(s)
    PROVE  EvictInv(s)'
  <1> DEFINE runs == Entries(lines)
             sets == WithImages(runs)
             v == Victims(sets)
  <1>1. runs \in Seq(Runs) /\ Distinct(runs) /\ files \in [Runs -> Nat]
    BY ReadersSeeRuns
  <1>2. sets = Imaged(files, runs)
    BY DEF WithImages, Imaged, Places
  <1>3. sets \in Seq(Runs) /\ Len(sets) \in Nat
    BY <1>1, <1>2, ImagedAre
  <1> HIDE DEF sets, runs
  <1>4. PICK n \in 0..Len(sets) : /\ v = SubSeq(sets, 1, n) /\ Len(sets) - n <= MaxImageSets
                                  /\ Bytes(Len(sets), sets) - Bytes(n, sets) <= MaxImageBytes
    BY <1>1, <1>3, VictimsAre
  <1>5. Len(v) = n
    BY <1>3, <1>4
  <1>6. \A k : Bytes(k, sets) = Total(SizesIn(files, sets), k)
    BY DEF Bytes, SizesIn
  <1> HIDE DEF v
  <1>7. EnoughGo(files, runs, v)
    BY <1>2, <1>3, <1>4, <1>5, <1>6 DEF EnoughGo
  <1>8. append' = [append EXCEPT ![s] = [append[s] EXCEPT !.at = "evict", !.victims = v]] /\ files' = files /\ lines' = lines
    BY Zenon DEF Measure, v, sets, runs
  <1>9. append \in [Servers -> AppendState] /\ append[s] \in AppendState
    BY DEF BudgetInv, JournalShape, JournalTypeOK
  <1>10. append'[s] = [append[s] EXCEPT !.at = "evict", !.victims = v]
    BY <1>8, <1>9
  <1>11. append'[s].victims = v
    BY <1>9, <1>10 DEF AppendState
  <1>12. EnoughGo(files', Entries(lines'), append'[s].victims)
    BY <1>7, <1>8, <1>11 DEF runs
  <1> QED BY <1>12 DEF EvictInv

LEMMA EvictsEnough ==
    ASSUME NEW s \in Servers, BudgetInv(s), EvictFile(s)
    PROVE  EvictInv(s)'
  <1> DEFINE a == append[s]
             v == a.victims
             r == Head(v)
             w == IF files[r] = 1 THEN Tail(v) ELSE v
  <1>1. Entries(lines) \in Seq(Runs) /\ Distinct(Entries(lines)) /\ files \in [Runs -> Nat]
    BY ReadersSeeRuns
  <1>2. a.at = "evict" /\ v # <<>> /\ lines' = lines
    BY DEF EvictFile
  <1>3. append \in [Servers -> AppendState] /\ a \in AppendState /\ v \in Seq(Runs)
    BY DEF BudgetInv, JournalShape, JournalTypeOK, AppendState
  <1>4. EnoughGo(files, Entries(lines), v)
    BY <1>2 DEF BudgetInv, EvictInv
  <1>5. files[r] # 0 /\ EnoughGo([files EXCEPT ![r] = @ - 1], Entries(lines), w)
    <2> HIDE DEF v
    <2> QED BY <1>1, <1>2, <1>3, <1>4, OneFileLess
  <1>6. files' = [files EXCEPT ![r] = @ - 1] /\ append' = [append EXCEPT ![s] = [a EXCEPT !.victims = w]]
    BY <1>3, <1>5 DEF EvictFile
  <1> HIDE DEF w
  <1>7. append'[s] = [a EXCEPT !.victims = w]
    BY <1>3, <1>6
  <1>8. append'[s].victims = w
    BY <1>3, <1>7 DEF AppendState
  <1>9. EnoughGo(files', Entries(lines'), append'[s].victims)
    BY <1>2, <1>5, <1>6, <1>8
  <1> QED BY <1>9 DEF EvictInv

LEMMA BudgetInitially ==
    ASSUME NEW s \in Servers, Servers = {s}, JournalInit
    PROVE  BudgetInv(s)
  <1>1. append[s].at = "idle"
    BY DEF JournalInit, Idle
  <1> QED BY <1>1, JournalInitially, ShapeInitially DEF BudgetInv, EvictInv

LEMMA BudgetInductive ==
    ASSUME NEW s \in Servers, Servers = {s}, BudgetInv(s), [JournalNext]_journalVars
    PROVE  BudgetInv(s)'
  <1>1. JournalInv(s) /\ JournalShape /\ EvictInv(s) /\ append \in [Servers -> AppendState] /\ append[s] \in AppendState
    BY DEF BudgetInv, JournalShape, JournalTypeOK
  <1>2. JournalInv(s)' /\ JournalShape'
    BY <1>1, JournalInductive, ShapeInductive
  <1>3. EvictInv(s)'
    <2>1. CASE UNCHANGED journalVars
      <3>1. append' = append /\ files' = files /\ lines' = lines
        BY <2>1 DEF journalVars
      <3> QED BY <1>1, <3>1 DEF EvictInv
    <2>2. CASE Measure(s)
      BY <2>2, MeasuresEnough
    <2>3. CASE EvictFile(s)
      BY <2>3, EvictsEnough
    <2>4. ASSUME append'[s].at # "evict" PROVE EvictInv(s)'
      BY <2>4 DEF EvictInv
    <2>5. CASE Return(s) \/ CutShort(s)
      <3>1. append' = [append EXCEPT ![s] = Idle]
        BY <2>5 DEF Return, CutShort
      <3>2. append'[s].at = "idle"
        BY <1>1, <3>1 DEF Idle
      <3> QED BY <2>4, <3>2
    <2>6. CASE WriteImage(s) \/ WriteLine(s) \/ EndLine(s)
      <3>1. PICK x \in {"images", "line", "newline", "compact"} : append' = [append EXCEPT ![s] = [append[s] EXCEPT !.at = x]]
        BY <2>6 DEF WriteImage, WriteLine, EndLine, Goto
      <3>2. append'[s] = [append[s] EXCEPT !.at = x]
        BY <1>1, <3>1
      <3>3. append'[s].at = x
        BY <1>1, <3>2 DEF AppendState
      <3> QED BY <2>4, <3>3
    <2>7. ASSUME NEW r \in Runs, Begin(s, r) PROVE EvictInv(s)'
      <3>1. PICK x \in {"images", "line"} : append' = [append EXCEPT ![s] = [Idle EXCEPT !.run = r, !.at = x]]
        BY <2>7 DEF Begin
      <3>2. append'[s] = [Idle EXCEPT !.run = r, !.at = x]
        BY <1>1, <3>1
      <3>3. append'[s].at = x
        BY <3>2 DEF Idle
      <3> QED BY <2>4, <3>3
    <2>8. CASE ReadLines(s)
      <3>1. PICK x \in {"measure", "rename"} :
              \/ append' = [append EXCEPT ![s] = [append[s] EXCEPT !.at = x]]
              \/ \E k : append' = [append EXCEPT ![s] = [append[s] EXCEPT !.at = x, !.kept = k]]
        BY <2>8 DEF ReadLines
      <3>2. append'[s] = [append[s] EXCEPT !.at = x] \/ \E k : append'[s] = [append[s] EXCEPT !.at = x, !.kept = k]
        BY <1>1, <3>1
      <3>3. append'[s].at = x
        BY <1>1, <3>2 DEF AppendState
      <3> QED BY <2>4, <3>3
    <2>9. CASE ReplaceLines(s)
      <3>1. append' = [append EXCEPT ![s] = [append[s] EXCEPT !.at = "measure", !.kept = <<>>]]
        BY <2>9, Zenon DEF ReplaceLines
      <3>2. append'[s] = [append[s] EXCEPT !.at = "measure", !.kept = <<>>]
        BY <1>1, <3>1, Zenon
      <3>3. append'[s].at = "measure"
        BY <1>1, <3>2 DEF AppendState
      <3> QED BY <2>4, <3>3
    <2> QED BY <2>1, <2>2, <2>3, <2>5, <2>6, <2>7, <2>8, <2>9 DEF JournalNext, JournalStep
  <1> QED BY <1>2, <1>3 DEF BudgetInv

\* However often the server was interrupted before: when an append returns, what a
\* reader finds images of is within both budgets (evict_images).
THEOREM BudgetAlwaysHolds ==
    ASSUME NEW one, Servers = {one}
    PROVE  JournalSpec => BudgetHolds
  <1>0. one \in Servers
    OBVIOUS
  <1> DEFINE Within == \A s \in Servers : Return(s) =>
                         LET sets == WithImages(Entries(lines))
                         IN  Len(sets) <= MaxImageSets /\ Bytes(Len(sets), sets) <= MaxImageBytes
  <1>1. JournalInit => BudgetInv(one)
    BY <1>0, BudgetInitially
  <1>2. BudgetInv(one) /\ [JournalNext]_journalVars => BudgetInv(one)'
    BY <1>0, BudgetInductive
  <1>3. BudgetInv(one) => Within
    <2> SUFFICES ASSUME BudgetInv(one), Return(one) PROVE Within
      OBVIOUS
    <2> DEFINE sets == Imaged(files, Entries(lines))
    <2>1. sets = WithImages(Entries(lines))
      BY DEF WithImages, Imaged, Places
    <2>2. append[one].at = "evict" /\ append[one].victims = <<>>
      BY DEF Return
    <2>3. EnoughGo(files, Entries(lines), <<>>)
      BY <2>2 DEF BudgetInv, EvictInv
    <2>4. sets \in Seq(Runs) /\ Len(sets) \in Nat
      BY ReadersSeeRuns, ImagedAre
    <2> DEFINE z == SizesIn(files, sets)
    <2>5. Total(z, Len(sets)) \in Nat
      <3>1. files \in [Runs -> Nat]
        BY ReadersSeeRuns
      <3> HIDE DEF sets
      <3>2. \A i \in 1..Len(sets) : z[i] \in Nat
        BY <2>4, <3>1 DEF SizesIn
      <3>3. Len(sets) \in 0..Len(sets)
        BY <2>4
      <3> HIDE DEF z
      <3> QED BY <2>4, <3>2, <3>3, TotalsTyped
    <2>6. Len(sets) - 0 <= MaxImageSets /\ Total(z, Len(sets)) - Total(z, 0) <= MaxImageBytes
      <3>1. Len(<<>>) = 0
        OBVIOUS
      <3> QED BY <2>3, <3>1, Zenon DEF EnoughGo
    <2>7. Total(z, 0) = 0
      BY TotalSteps
    <2>8. Bytes(Len(sets), sets) = Total(z, Len(sets))
      BY DEF Bytes, SizesIn
    <2> HIDE DEF sets, z
    <2>9. Len(sets) <= MaxImageSets /\ Bytes(Len(sets), sets) <= MaxImageBytes
      BY <2>4, <2>5, <2>6, <2>7, <2>8
    <2> QED BY <2>1, <2>9
  <1> QED BY <1>1, <1>2, <1>3, PTL DEF JournalSpec, BudgetHolds

-----------------------------------------------------------------------------
(* The tasks.                                                                *)

Short == {list \in Seq(Constraints) : Len(list) <= MaxList}
Records == [constraints : Short, assumptions : Short, facts : Short]

\* The inductive form of TaskTypeOK and ConstraintsKept.
TaskInv ==
    /\ nextId \in 0..MaxTasks
    /\ held \in Seq(Nat) /\ Len(held) <= StoreCapacity /\ Len(held) <= nextId
    /\ \A k \in 1..Len(held) : held[k] = nextId - Len(held) + k
    /\ task \in [TaskIds -> Records]
    /\ accepted \in [TaskIds -> SUBSET Constraints]
    /\ \A id \in TaskIds : \A x \in accepted[id] : Contains(task[id].constraints, x)

LEMMA TaskInitially == TaskInit => TaskInv
  <1> SUFFICES ASSUME TaskInit PROVE TaskInv
    OBVIOUS
  <1>1. held = <<>> /\ held \in Seq(Nat) /\ Len(held) = 0 /\ nextId = 0 /\ 1..0 = {}
    BY DEF TaskInit
  <1>2. nextId \in 0..MaxTasks /\ Len(held) <= StoreCapacity
    BY <1>1, TasksAssumption
  <1>3. <<>> \in Short
    BY ListAssumption DEF Short
  <1>4. task \in [TaskIds -> Records]
    BY <1>3 DEF TaskInit, NewTask, Records
  <1>5. accepted = [id \in TaskIds |-> {}]
    BY DEF TaskInit
  <1> QED BY <1>1, <1>2, <1>4, <1>5 DEF TaskInv

\* The oldest task makes room.
LEMMA StartTaskStep ==
    ASSUME TaskInv, StartTask
    PROVE  TaskInv'
  <1> DEFINE more == Append(held, nextId + 1)
  <1>1. /\ nextId < MaxTasks /\ nextId' = nextId + 1 /\ UNCHANGED <<task, accepted>>
        /\ held' = IF Len(more) > StoreCapacity THEN Tail(more) ELSE more
    BY DEF StartTask
  <1>2. /\ MaxTasks \in Nat /\ StoreCapacity \in Nat \ {0} /\ nextId \in Nat /\ held \in Seq(Nat)
        /\ Len(held) \in Nat /\ Len(held) <= StoreCapacity /\ Len(held) <= nextId
        /\ \A k \in 1..Len(held) : held[k] = nextId - Len(held) + k
    BY TasksAssumption DEF TaskInv
  <1>3. nextId' \in 0..MaxTasks
    BY <1>1, <1>2
  <1>4. more \in Seq(Nat) /\ Len(more) = Len(held) + 1
        /\ \A k \in 1..Len(held) : more[k] = held[k]
    BY <1>2
  <1>5. more[Len(held) + 1] = nextId + 1
    BY <1>2
  <1> HIDE DEF more
  <1>6. ASSUME NEW k \in 1..Len(more) PROVE more[k] = (nextId + 1) - Len(more) + k
    <2>1. CASE k \in 1..Len(held)
      BY <1>2, <1>4, <2>1
    <2>2. CASE k = Len(held) + 1
      BY <1>2, <1>4, <1>5, <2>2
    <2> QED BY <1>2, <1>4, <2>1, <2>2
  <1>7. held' \in Seq(Nat) /\ Len(held') <= StoreCapacity /\ Len(held') <= nextId'
        /\ \A k \in 1..Len(held') : held'[k] = nextId' - Len(held') + k
    <2>1. CASE Len(more) > StoreCapacity
      <3> DEFINE t == Tail(more)
      <3>1. t \in Seq(Nat) /\ Len(t) = Len(held) /\ held' = t
        BY <1>1, <1>2, <1>4, <2>1
      <3>2. \A k \in 1..Len(held) : t[k] = more[k + 1] /\ k + 1 \in 1..Len(more)
        BY <1>2, <1>4
      <3> HIDE DEF t
      <3>3. \A k \in 1..Len(held) : t[k] = (nextId + 1) - Len(held) + k
        <4> TAKE k \in 1..Len(held)
        <4>1. t[k] = (nextId + 1) - Len(more) + (k + 1)
          BY <1>6, <3>2
        <4> QED BY <1>2, <1>4, <4>1
      <3>4. Len(held') = Len(held) /\ Len(held) <= nextId + 1
        BY <1>2, <3>1
      <3> QED BY <1>1, <1>2, <3>1, <3>3, <3>4
    <2>2. CASE ~(Len(more) > StoreCapacity)
      <3>1. held' = more
        BY <1>1, <2>2
      <3>2. Len(more) <= StoreCapacity /\ Len(more) <= nextId + 1
        BY <1>2, <1>4, <2>2
      <3> QED BY <1>1, <1>4, <1>6, <3>1, <3>2
    <2> QED BY <2>1, <2>2
  <1> QED BY <1>1, <1>3, <1>7 DEF TaskInv

\* A list that rolls over stays short.
LEMMA RollingIsShort ==
    ASSUME NEW list \in Short, NEW x \in Constraints
    PROVE  Rolling(list, x) \in Short
  <1>1. list \in Seq(Constraints) /\ Len(list) \in Nat /\ Len(list) <= MaxList /\ MaxList \in Nat \ {0}
    BY ListAssumption DEF Short
  <1>2. CASE Contains(list, x)
    BY <1>2 DEF Rolling
  <1>3. CASE ~Contains(list, x) /\ Len(list) >= MaxList
    <2>1. list # <<>>
      BY <1>1, <1>3
    <2>2. Tail(list) \in Seq(Constraints) /\ Len(Tail(list)) = Len(list) - 1
      BY <1>1, <2>1
    <2>3. Append(Tail(list), x) \in Seq(Constraints) /\ Len(Append(Tail(list), x)) = Len(list)
      BY <1>1, <2>2
    <2> QED BY <1>1, <1>3, <2>3 DEF Rolling, Short
  <1>4. CASE ~Contains(list, x) /\ ~(Len(list) >= MaxList)
    BY <1>1, <1>4 DEF Rolling, Short
  <1> QED BY <1>2, <1>3, <1>4

\* What was accepted is on the list, whether it was there before or has just come.
LEMMA AddConstraintStep ==
    ASSUME TaskInv, NEW id \in TaskIds, NEW x \in Constraints, AddConstraint(id, x)
    PROVE  TaskInv'
  <1> DEFINE list == task[id].constraints
             more == IF Contains(list, x) THEN list ELSE Append(list, x)
  <1>1. /\ task' = [task EXCEPT ![id].constraints = more]
        /\ accepted' = [accepted EXCEPT ![id] = @ \cup {x}]
        /\ held' = held /\ nextId' = nextId /\ Strict(list, x)
    BY DEF AddConstraint
  <1>2. /\ task \in [TaskIds -> Records] /\ accepted \in [TaskIds -> SUBSET Constraints]
        /\ list \in Short /\ list \in Seq(Constraints) /\ Len(list) \in Nat /\ Len(list) <= MaxList
        /\ MaxList \in Nat
    BY ListAssumption DEF TaskInv, Records, Short
  <1>3. more \in Short
    <2>1. CASE Contains(list, x)
      BY <1>2, <2>1
    <2>2. CASE ~Contains(list, x)
      <3>1. Len(list) < MaxList
        BY <1>1, <2>2 DEF Strict
      <3> QED BY <1>2, <2>2, <3>1 DEF Short
    <2> QED BY <2>1, <2>2
  <1>4. Contains(more, x) /\ \A y : Contains(list, y) => Contains(more, y)
    <2>1. CASE Contains(list, x)
      BY <2>1
    <2>2. CASE ~Contains(list, x)
      <3>1. Len(more) = Len(list) + 1 /\ more[Len(list) + 1] = x /\ \A i \in 1..Len(list) : more[i] = list[i]
        BY <1>2, <2>2
      <3>2. Len(list) + 1 \in 1..Len(more) /\ \A i \in 1..Len(list) : i \in 1..Len(more)
        BY <1>2, <3>1
      <3> HIDE DEF more
      <3> QED BY <3>1, <3>2 DEF Contains
    <2> QED BY <2>1, <2>2
  <1> HIDE DEF more
  <1>5. task' \in [TaskIds -> Records] /\ accepted' \in [TaskIds -> SUBSET Constraints]
    BY <1>1, <1>2, <1>3 DEF Records
  <1>6. ASSUME NEW jd \in TaskIds, NEW y \in accepted'[jd] PROVE Contains(task'[jd].constraints, y)
    <2>1. CASE jd = id
      <3>1. task'[id].constraints = more /\ (y \in accepted[id] \/ y = x)
        BY <1>1, <1>2, <2>1 DEF Records
      <3>2. y \in accepted[id] => Contains(list, y)
        BY DEF TaskInv
      <3> QED BY <1>4, <2>1, <3>1, <3>2
    <2>2. CASE jd # id
      BY <1>1, <1>2, <2>2 DEF TaskInv
    <2> QED BY <2>1, <2>2
  <1> QED BY <1>1, <1>5, <1>6 DEF TaskInv

\* The other lists do not touch what was accepted.
LEMMA AddOtherStep ==
    ASSUME TaskInv, NEW id \in TaskIds, NEW x \in Constraints, AddAssumption(id, x) \/ AddVerifiedFact(id, x)
    PROVE  TaskInv'
  <1>1. task \in [TaskIds -> Records] /\ task[id].assumptions \in Short /\ task[id].facts \in Short
    BY DEF TaskInv, Records
  <1> DEFINE With(a, f) == [constraints |-> task[id].constraints, assumptions |-> a, facts |-> f]
  <1>2. \E a \in Short : \E f \in Short : task' = [task EXCEPT ![id] = With(a, f)]
    <2>1. ASSUME NEW y
          PROVE  /\ [task[id] EXCEPT !.assumptions = y] = With(y, task[id].facts)
                 /\ [task[id] EXCEPT !.facts = y] = With(task[id].assumptions, y)
      <3>1. task[id] \in Records
        BY <1>1
      <3> QED BY <3>1 DEF Records
    <2>2. CASE AddAssumption(id, x)
      <3>1. Rolling(task[id].assumptions, x) \in Short
        BY <1>1, RollingIsShort
      <3>2. task' = [task EXCEPT ![id] = [task[id] EXCEPT !.assumptions = Rolling(task[id].assumptions, x)]]
        BY <1>1, <2>2 DEF AddAssumption
      <3>3. task' = [task EXCEPT ![id] = With(Rolling(task[id].assumptions, x), task[id].facts)]
        BY <2>1, <3>2, Zenon
      <3> HIDE DEF With
      <3> QED BY <1>1, <3>1, <3>3
    <2>3. CASE AddVerifiedFact(id, x)
      <3>1. Rolling(task[id].facts, x) \in Short
        BY <1>1, RollingIsShort
      <3>2. task' = [task EXCEPT ![id] = [task[id] EXCEPT !.facts = Rolling(task[id].facts, x)]]
        BY <1>1, <2>3 DEF AddVerifiedFact
      <3>3. task' = [task EXCEPT ![id] = With(task[id].assumptions, Rolling(task[id].facts, x))]
        BY <2>1, <3>2, Zenon
      <3> HIDE DEF With
      <3> QED BY <1>1, <3>1, <3>3
    <2> QED BY <2>2, <2>3
  <1>3. task' \in [TaskIds -> Records] /\ \A jd \in TaskIds : task'[jd].constraints = task[jd].constraints
    BY <1>1, <1>2 DEF Records
  <1>4. held' = held /\ nextId' = nextId /\ accepted' = accepted
    BY DEF AddAssumption, AddVerifiedFact
  <1> QED BY <1>3, <1>4 DEF TaskInv

LEMMA TaskInductive == TaskInv /\ [TaskNext]_taskVars => TaskInv'
  <1> SUFFICES ASSUME TaskInv, [TaskNext]_taskVars PROVE TaskInv'
    OBVIOUS
  <1>1. CASE TaskNext
    BY <1>1, StartTaskStep, AddConstraintStep, AddOtherStep DEF TaskNext
  <1>2. CASE UNCHANGED taskVars
    BY <1>2 DEF taskVars, TaskInv
  <1> QED BY <1>1, <1>2

LEMMA TasksAreKept == TaskInv => TaskTypeOK /\ ConstraintsKept
  <1> SUFFICES ASSUME TaskInv PROVE TaskTypeOK /\ ConstraintsKept
    OBVIOUS
  <1>1. DOMAIN held = 1..Len(held) /\ Len(held) \in Nat /\ nextId \in Nat /\ Len(held) <= nextId
    BY DEF TaskInv
  <1>2. \A k \in DOMAIN held : held[k] = nextId - Len(held) + k /\ held[k] \in 1..nextId
    BY <1>1 DEF TaskInv
  <1>3. \A id \in TaskIds : \A list \in {"constraints", "assumptions", "facts"} : Len(task[id][list]) <= MaxList
    <2> SUFFICES ASSUME NEW id \in TaskIds
                 PROVE  \A list \in {"constraints", "assumptions", "facts"} : Len(task[id][list]) <= MaxList
      OBVIOUS
    <2>1. task[id] \in Records
      BY DEF TaskInv
    <2> QED BY <2>1 DEF Records, Short
  <1> QED BY <1>1, <1>2, <1>3 DEF TaskInv, TaskTypeOK, ConstraintsKept

-----------------------------------------------------------------------------
(* The evidence store.                                                       *)

\* A sum of natural numbers does not shrink.
LEMMA TotalsGrow ==
    ASSUME NEW s, NEW n \in Nat, \A i \in 1..n : s[i] \in Nat, NEW j \in 0..n, NEW k \in 0..j
    PROVE  Total(s, k) <= Total(s, j)
  <1> DEFINE t == [i \in 1..(j - k) |-> s[k + i]]
  <1>1. j - k \in Nat /\ k \in Nat /\ j \in Nat /\ k + (j - k) = j /\ k \in 0..n
    OBVIOUS
  <1>2. \A i \in 1..j : s[i] \in Nat
    OBVIOUS
  <1>3. \A i \in 1..(j - k) : t[i] = s[k + i] /\ t[i] \in Nat
    <2> TAKE i \in 1..(j - k)
    <2>1. k + i \in 1..n
      BY <1>1
    <2> QED BY <2>1
  <1> HIDE DEF t
  <1>4. Total(s, k + (j - k)) = Total(s, k) + Total(t, j - k)
    <2>1. \A i \in 1..(k + (j - k)) : s[i] \in Nat
      BY <1>1, <1>2
    <2>2. Part(t, j - k, s, k)
      BY <1>3 DEF Part
    <2> QED BY <1>1, <2>1, <2>2, TotalsOfAPart
  <1>5. Total(t, j - k) \in Nat
    <2>1. j - k \in 0..(j - k)
      BY <1>1
    <2> QED BY <1>1, <1>3, <2>1, TotalsTyped
  <1>6. Total(s, k) \in Nat /\ Total(s, j) \in Nat
    BY <1>1, TotalsTyped
  <1> QED BY <1>1, <1>4, <1>5, <1>6

\* The bytes of the last n of these.
LastOf(ps, n) == Total(SizesOf(ps), Len(ps)) - Total(SizesOf(ps), Len(ps) - n)

LEMMA SizesAreNumbers ==
    ASSUME NEW ps \in Seq(Artefact)
    PROVE  /\ Len(ps) \in Nat /\ \A i \in 1..Len(ps) : SizesOf(ps)[i] = ps[i].size /\ SizesOf(ps)[i] \in Nat
           /\ \A n \in 0..Len(ps) : Total(SizesOf(ps), n) \in Nat
  <1>1. Len(ps) \in Nat /\ DOMAIN ps = 1..Len(ps)
    OBVIOUS
  <1>2. ASSUME NEW i \in 1..Len(ps) PROVE SizesOf(ps)[i] = ps[i].size /\ SizesOf(ps)[i] \in Nat
    <2>1. ps[i] \in Artefact
      BY <1>1
    <2> QED BY <1>1, <2>1, SizesAssumption DEF SizesOf, Artefact
  <1>3. \A n \in 0..Len(ps) : Total(SizesOf(ps), n) \in Nat
    BY <1>1, <1>2, TotalsTyped
  <1> QED BY <1>1, <1>2, <1>3

LEMMA LastGrows ==
    ASSUME NEW ps \in Seq(Artefact)
    PROVE  /\ LastOf(ps, 0) = 0
           /\ \A n \in 0..Len(ps) : LastOf(ps, n) \in Nat
           /\ \A n \in 0..Len(ps) : \A m \in 0..n : LastOf(ps, m) <= LastOf(ps, n)
  <1> DEFINE s == SizesOf(ps)
             L == Len(ps)
  <1>1. L \in Nat /\ (\A i \in 1..L : s[i] \in Nat) /\ \A n \in 0..L : Total(s, n) \in Nat
    BY SizesAreNumbers
  <1> HIDE DEF s, L
  <1>2. ASSUME NEW j \in 0..L, NEW k \in 0..j PROVE Total(s, k) <= Total(s, j)
    BY <1>1, TotalsGrow
  <1>3. ASSUME NEW n \in 0..L, NEW m \in 0..n
        PROVE  Total(s, L) - Total(s, L - m) <= Total(s, L) - Total(s, L - n)
    <2>1. L - m \in 0..L /\ L - n \in 0..(L - m) /\ L - n \in 0..L /\ L \in 0..L
      BY <1>1
    <2>2. Total(s, L - n) <= Total(s, L - m)
      BY <1>2, <2>1
    <2>3. Total(s, L) \in Nat /\ Total(s, L - m) \in Nat /\ Total(s, L - n) \in Nat
      BY <1>1, <2>1
    <2> QED BY <2>2, <2>3
  <1>4. ASSUME NEW n \in 0..L PROVE Total(s, L) - Total(s, L - n) \in Nat
    <2>1. L - n \in 0..L /\ L \in 0..L
      BY <1>1
    <2>2. Total(s, L - n) <= Total(s, L)
      BY <1>2, <2>1
    <2>3. Total(s, L) \in Nat /\ Total(s, L - n) \in Nat
      BY <1>1, <2>1
    <2> QED BY <2>2, <2>3
  <1>5. Total(s, L) - Total(s, L - 0) = 0
    <2>1. L - 0 = L /\ Total(s, L) \in Nat
      BY <1>1
    <2> QED BY <2>1
  <1> QED BY <1>3, <1>4, <1>5 DEF LastOf, s, L

\* One more artefact adds its size to all of them.
LEMMA LastOfMore ==
    ASSUME NEW ps \in Seq(Artefact), NEW a \in Artefact, NEW n \in 0..Len(ps)
    PROVE  LastOf(Append(ps, a), n + 1) = LastOf(ps, n) + a.size
  <1> DEFINE qs == Append(ps, a)
             L == Len(ps)
             s == SizesOf(ps)
             t == SizesOf(qs)
  <1>1. qs \in Seq(Artefact) /\ Len(qs) = L + 1 /\ L \in Nat /\ qs[L + 1] = a /\ \A i \in 1..L : qs[i] = ps[i]
    OBVIOUS
  <1>2. /\ \A i \in 1..L : s[i] = ps[i].size /\ s[i] \in Nat
        /\ \A i \in 1..(L + 1) : t[i] = qs[i].size /\ t[i] \in Nat
        /\ \A k \in 0..L : Total(s, k) \in Nat
        /\ \A k \in 0..(L + 1) : Total(t, k) \in Nat
    <2> HIDE DEF qs
    <2> QED BY <1>1, SizesAreNumbers
  <1>3. (\A i \in 1..L : t[i] = s[i]) /\ t[L + 1] = a.size
    <2> HIDE DEF s, t
    <2>1. \A i \in 1..L : i \in 1..(L + 1)
      BY <1>1
    <2>2. L + 1 \in 1..(L + 1)
      BY <1>1
    <2> QED BY <1>1, <1>2, <2>1, <2>2
  <1>4. LastOf(ps, n) = Total(s, L) - Total(s, L - n) /\ LastOf(qs, n + 1) = Total(t, L + 1) - Total(t, (L + 1) - (n + 1))
    <2> HIDE DEF qs
    <2> QED BY <1>1 DEF LastOf
  <1> HIDE DEF s, t, qs, L
  <1>5. n \in 0..L
    BY DEF L
  <1>6. L - n \in Nat /\ (L + 1) - (n + 1) = L - n /\ L - n \in 0..L /\ L \in 0..L /\ L + 1 \in Nat /\ (L + 1) - 1 = L
    BY <1>1, <1>5
  <1>7. Total(t, L - n) = Total(s, L - n)
    <2>1. \A i \in 1..(L - n) : t[i] = s[i]
      BY <1>1, <1>3, <1>5
    <2> QED BY <1>6, <2>1, TotalsAgree
  <1>8. Total(t, L) = Total(s, L)
    BY <1>1, <1>3, TotalsAgree
  <1>9. Total(t, L + 1) = Total(t, L) + t[L + 1]
    <2>1. L + 1 # 0
      BY <1>1
    <2> QED BY <1>6, <2>1, TotalSteps
  <1>10. Total(s, L) \in Nat /\ Total(s, L - n) \in Nat /\ t[L + 1] \in Nat
    <2>1. L + 1 \in 1..(L + 1)
      BY <1>1
    <2> QED BY <1>2, <1>6, <2>1
  <1>11. \A x, y, z \in Nat : (x + y) - z = (x - z) + y
    OBVIOUS
  <1>12. LastOf(qs, n + 1) = (Total(s, L) + a.size) - Total(s, L - n)
    BY <1>3, <1>4, <1>6, <1>7, <1>8, <1>9
  <1>13. LastOf(qs, n + 1) = LastOf(ps, n) + a.size
    BY <1>3, <1>4, <1>10, <1>11, <1>12
  <1> QED BY <1>13 DEF qs

Filed(id, a) == [id |-> id, kind |-> a.kind, size |-> a.size]

\* These entries are the last of the artefacts, each under the number it has there.
Stand(ks, ps) ==
    /\ ks \in Seq(Entry) /\ Len(ks) <= Len(ps)
    /\ \A i \in 1..Len(ks) : ks[i] = Filed(Len(ps) - Len(ks) + i, ps[Len(ps) - Len(ks) + i])

\* The last k artefacts fit both bounds, and one more would not.
Longest(k, ps) ==
    /\ k \in 0..Len(ps) /\ k <= EntryCapacity /\ LastOf(ps, k) <= MaxBytes
    /\ k < Len(ps) => k + 1 > EntryCapacity \/ LastOf(ps, k + 1) > MaxBytes

\* What is left of the running total when the entries before the i-th are gone.
LEMMA RemainingIsLast ==
    ASSUME NEW ps \in Seq(Artefact), NEW ks, Stand(ks, ps), NEW i \in 1..(Len(ks) + 1)
    PROVE  Remaining(ks, LastOf(ps, Len(ks)), i) = LastOf(ps, Len(ks) + 1 - i)
  <1> DEFINE L == Len(ps)
             K == Len(ks)
             s == SizesOf(ps)
             t == SizesOf(ks)
             d == L - K
  <1>1. L \in Nat /\ K \in Nat /\ K <= L /\ d \in Nat /\ DOMAIN ks = 1..K /\ d + K = L
    BY DEF Stand
  <1>2. (\A j \in 1..L : s[j] = ps[j].size /\ s[j] \in Nat) /\ \A j \in 0..L : Total(s, j) \in Nat
    BY SizesAreNumbers
  <1>3. \A j \in 1..K : t[j] = s[d + j]
    <2> TAKE j \in 1..K
    <2>1. d + j \in 1..L
      BY <1>1
    <2>2. t[j] = ks[j].size
      BY <1>1 DEF SizesOf
    <2>3. ks[j] = Filed(d + j, ps[d + j])
      BY DEF Stand
    <2> HIDE DEF s, t, d
    <2> QED BY <1>2, <2>1, <2>2, <2>3 DEF Filed
  <1>4. Remaining(ks, LastOf(ps, K), i) = LastOf(ps, K) - Total(t, i - 1)
    BY DEF Remaining
  <1>5. LastOf(ps, K) = Total(s, L) - Total(s, L - K) /\ LastOf(ps, K + 1 - i) = Total(s, L) - Total(s, L - (K + 1 - i))
    BY DEF LastOf
  <1>6. i \in 1..(K + 1)
    OBVIOUS
  <1> HIDE DEF s, t, K, L
  <1>7. i - 1 \in 0..K /\ L - K = d /\ L - (K + 1 - i) = d + (i - 1) /\ d + (i - 1) \in 0..L /\ d \in 0..L
    BY <1>1, <1>6
  <1> HIDE DEF d
  <1>8. Total(s, d + (i - 1)) = Total(s, d) + Total(t, i - 1)
    <2> DEFINE n == i - 1
    <2>1. n \in Nat /\ d \in Nat /\ Part(t, n, s, d)
      BY <1>1, <1>3, <1>7 DEF Part
    <2>2. \A j \in 1..(d + n) : s[j] \in Nat
      BY <1>1, <1>2, <1>7
    <2> HIDE DEF n
    <2>3. Total(s, d + n) = Total(s, d) + Total(t, n)
      BY <2>1, <2>2, TotalsOfAPart
    <2> QED BY <2>3 DEF n
  <1>9. Total(t, i - 1) \in Nat
    <2>1. \A j \in 1..K : t[j] \in Nat
      <3>1. \A j \in 1..K : d + j \in 1..L
        BY <1>1
      <3> QED BY <1>2, <1>3, <3>1
    <2> QED BY <1>1, <1>7, <2>1, TotalsTyped
  <1>10. Total(s, L) \in Nat /\ Total(s, d) \in Nat
    BY <1>1, <1>2, <1>7
  <1>11. \A x, y, z \in Nat : (x - y) - z = x - (y + z)
    OBVIOUS
  <1> QED BY <1>4, <1>5, <1>7, <1>8, <1>9, <1>10, <1>11 DEF K

\* The loop stops, at the first entry from which the rest fits.
LEMMA FirstKeptIs ==
    ASSUME NEW ps \in Seq(Artefact), NEW ks, Stand(ks, ps), NEW first,
           first = FirstKept(ks, LastOf(ps, Len(ks)))
    PROVE  /\ first \in 1..(Len(ks) + 1)
           /\ Len(ks) + 1 - first <= EntryCapacity /\ LastOf(ps, Len(ks) + 1 - first) <= MaxBytes
           /\ \A j \in 1..(first - 1) : Len(ks) + 1 - j > EntryCapacity \/ LastOf(ps, Len(ks) + 1 - j) > MaxBytes
  <1> DEFINE K == Len(ks)
             Fits(i) == K - i + 1 <= EntryCapacity /\ Remaining(ks, LastOf(ps, K), i) <= MaxBytes
             T == {i \in 1..(K + 1) : Fits(i)}
  <1>1. K \in Nat /\ Len(ps) \in Nat /\ K <= Len(ps) /\ EntryCapacity \in Nat /\ MaxBytes \in Nat
    BY EvidenceLimitsAssumption DEF Stand
  <1>2. \A i \in 1..(K + 1) : Remaining(ks, LastOf(ps, K), i) = LastOf(ps, K + 1 - i)
    BY RemainingIsLast
  <1>3. K + 1 \in T
    <2>1. K + 1 \in 1..(K + 1) /\ K - (K + 1) + 1 = 0 /\ K + 1 - (K + 1) = 0
      BY <1>1
    <2> QED BY <1>1, <1>2, <2>1, LastGrows
  <1>4. T \subseteq Nat /\ T # {}
    BY <1>1, <1>3
  <1>5. PICK i \in T : \A j \in T : i <= j
    <2> HIDE DEF T
    <2> QED BY <1>4, LeastNatural
  <1>6. i \in 1..(K + 1) /\ Fits(i)
    BY <1>5
  <1>7. \A j \in 1..(i - 1) : j \in 1..(K + 1) /\ ~(i <= j)
    BY <1>1, <1>6
  <1>8. \A j \in 1..(i - 1) : ~Fits(j)
    BY <1>5, <1>7
  <1>9. \A j \in 1..(i - 1) : K - j + 1 > EntryCapacity \/ Remaining(ks, LastOf(ps, K), j) > MaxBytes
    <2> TAKE j \in 1..(i - 1)
    <2>1. K - j + 1 \in Int /\ j \in 1..(K + 1) /\ K + 1 - j \in 0..Len(ps)
      BY <1>1, <1>6, <1>7
    <2>2. Remaining(ks, LastOf(ps, K), j) \in Nat
      BY <1>2, <2>1, LastGrows
    <2> QED BY <1>1, <1>8, <2>1, <2>2
  <1>10. /\ first \in 1..(K + 1) /\ K - first + 1 <= EntryCapacity /\ Remaining(ks, LastOf(ps, K), first) <= MaxBytes
         /\ \A j \in 1..(first - 1) : K - j + 1 > EntryCapacity \/ Remaining(ks, LastOf(ps, K), j) > MaxBytes
    <2> HIDE DEF T
    <2> QED BY <1>6, <1>9 DEF FirstKept
  <1> HIDE DEF Fits, T
  <1>11. K - first + 1 = K + 1 - first /\ \A j \in 1..(first - 1) : j \in 1..(K + 1) /\ K - j + 1 = K + 1 - j
    <2>1. K - first + 1 = K + 1 - first
      BY <1>1, <1>10
    <2>2. ASSUME NEW j \in 1..(first - 1) PROVE j \in 1..(K + 1) /\ K - j + 1 = K + 1 - j
      <3>1. first \in 1..(K + 1)
        BY <1>10
      <3> QED BY <1>1, <3>1
    <2> QED BY <2>1, <2>2
  <1> HIDE DEF K
  <1>12. LastOf(ps, K + 1 - first) <= MaxBytes /\ K + 1 - first <= EntryCapacity
    BY <1>2, <1>10, <1>11
  <1>13. \A j \in 1..(first - 1) : K + 1 - j > EntryCapacity \/ LastOf(ps, K + 1 - j) > MaxBytes
    BY <1>2, <1>10, <1>11
  <1> QED BY <1>10, <1>12, <1>13 DEF K

\* The inductive form of EvidenceTypeOK and KeepsTheNewest.
EvidenceInv ==
    /\ highWater \in 0..MaxPuts /\ put \in Seq(Artefact) /\ Len(put) = highWater
    /\ Stand(kept, put)
    /\ bytes = LastOf(put, Len(kept))
    /\ Longest(Len(kept), put)

LEMMA EvidenceInitially == EvidenceInit => EvidenceInv
  <1> SUFFICES ASSUME EvidenceInit PROVE EvidenceInv
    OBVIOUS
  <1>1. /\ kept = <<>> /\ put = <<>> /\ bytes = 0 /\ highWater = 0 /\ Len(kept) = 0 /\ Len(put) = 0
        /\ kept \in Seq(Entry) /\ put \in Seq(Artefact) /\ 1..0 = {}
    BY DEF EvidenceInit
  <1>2. highWater \in 0..MaxPuts /\ 0 <= EntryCapacity /\ 0 <= MaxBytes
    BY <1>1, EvidenceLimitsAssumption
  <1>3. LastOf(put, 0) = 0
    BY <1>1, LastGrows
  <1> QED BY <1>1, <1>2, <1>3 DEF EvidenceInv, Stand, Longest

\* The entries with the new one stand for the artefacts with the new one,
LEMMA GrownStands ==
    ASSUME NEW ps \in Seq(Artefact), NEW ks, Stand(ks, ps), NEW a \in Artefact
    PROVE  /\ Stand(Append(ks, Filed(Len(ps) + 1, a)), Append(ps, a))
           /\ Len(Append(ks, Filed(Len(ps) + 1, a))) = Len(ks) + 1
  <1> DEFINE e == Filed(Len(ps) + 1, a)
             L == Len(ps)
             K == Len(ks)
             g == Append(ks, e)
             qs == Append(ps, a)
  <1>1. L \in Nat /\ K \in Nat /\ K <= L /\ ks \in Seq(Entry)
        /\ \A i \in 1..K : ks[i] = Filed(L - K + i, ps[L - K + i])
    BY DEF Stand
  <1>2. e \in Entry
    <2>1. L + 1 \in Nat
      BY <1>1
    <2>2. a.kind \in Kinds /\ a.size \in Nat
      BY SizesAssumption DEF Artefact
    <2> HIDE DEF L
    <2> QED BY <2>1, <2>2 DEF e, Filed, Entry, L
  <1>3. g \in Seq(Entry) /\ Len(g) = K + 1 /\ g[K + 1] = e /\ \A i \in 1..K : g[i] = ks[i]
    <2> HIDE DEF e
    <2> QED BY <1>1, <1>2
  <1>4. Len(qs) = L + 1 /\ qs[L + 1] = a /\ \A i \in 1..L : qs[i] = ps[i]
    BY <1>1
  <1>5. ASSUME NEW i \in 1..(K + 1) PROVE g[i] = Filed((L + 1) - (K + 1) + i, qs[(L + 1) - (K + 1) + i])
    <2>1. CASE i \in 1..K
      <3>1. (L + 1) - (K + 1) + i = L - K + i /\ L - K + i \in 1..L
        BY <1>1, <2>1
      <3> HIDE DEF g, qs, L, K
      <3> QED BY <1>1, <1>3, <1>4, <2>1, <3>1
    <2>2. CASE i = K + 1
      <3>1. (L + 1) - (K + 1) + i = L + 1
        BY <1>1, <2>2
      <3> HIDE DEF g, qs, K
      <3> QED BY <1>3, <1>4, <2>2, <3>1
    <2>3. i \in 1..K \/ i = K + 1
      BY <1>1
    <2> QED BY <2>1, <2>2, <2>3
  <1> HIDE DEF g, qs
  <1>6. Len(g) <= Len(qs)
    BY <1>1, <1>3, <1>4
  <1>7. Stand(g, qs)
    BY <1>3, <1>4, <1>5, <1>6 DEF Stand
  <1> QED BY <1>3, <1>7 DEF g, qs

\* and so does what is left of them.
LEMMA FromStands ==
    ASSUME NEW ps \in Seq(Artefact), NEW ks, Stand(ks, ps), NEW first \in 1..(Len(ks) + 1)
    PROVE  Stand(From(ks, first), ps) /\ Len(From(ks, first)) = Len(ks) + 1 - first
  <1> DEFINE L == Len(ps)
             K == Len(ks)
             f == SubSeq(ks, first, K)
             n == K + 1 - first
  <1>1. L \in Nat /\ K \in Nat /\ K <= L /\ ks \in Seq(Entry) /\ first \in 1..(K + 1)
        /\ \A i \in 1..K : ks[i] = Filed(L - K + i, ps[L - K + i])
    BY DEF Stand
  <1>2. f \in Seq(Entry) /\ Len(f) = n /\ \A i \in 1..n : f[i] = ks[first + i - 1]
    <2>1. CASE first <= K
      BY <1>1, <2>1
    <2>2. CASE first = K + 1
      <3>1. f = <<>> /\ n = 0
        BY <1>1, <2>2
      <3> QED BY <3>1
    <2> QED BY <1>1, <2>1, <2>2
  <1>3. n \in Nat /\ n <= L
    BY <1>1
  <1>4. ASSUME NEW i \in 1..n PROVE f[i] = Filed(L - n + i, ps[L - n + i])
    <2>1. first + i - 1 \in 1..K /\ L - K + (first + i - 1) = L - n + i
      BY <1>1
    <2> HIDE DEF f, n, K, L
    <2> QED BY <1>1, <1>2, <2>1
  <1> HIDE DEF f, n
  <1>5. Stand(f, ps)
    BY <1>2, <1>3, <1>4 DEF Stand
  <1> QED BY <1>2, <1>5 DEF f, n, From

\* put keeps the longest run of newest artefacts that fits.
LEMMA LongestGrows ==
    ASSUME NEW ps \in Seq(Artefact), NEW a \in Artefact, NEW k, Longest(k, ps),
           NEW first \in 1..(k + 2), k + 2 - first <= EntryCapacity,
           LastOf(Append(ps, a), k + 2 - first) <= MaxBytes,
           \A j \in 1..(first - 1) : k + 2 - j > EntryCapacity \/ LastOf(Append(ps, a), k + 2 - j) > MaxBytes
    PROVE  Longest(k + 2 - first, Append(ps, a))
  <1> DEFINE qs == Append(ps, a)
             L == Len(ps)
             n == k + 2 - first
  <1>1. L \in Nat /\ k \in 0..L /\ k \in Nat /\ first \in 1..(k + 2) /\ qs \in Seq(Artefact) /\ Len(qs) = L + 1
    BY DEF Longest
  <1>2. n \in 0..(L + 1)
    BY <1>1
  <1>3. ASSUME n < L + 1 PROVE n + 1 > EntryCapacity \/ LastOf(qs, n + 1) > MaxBytes
    <2>1. CASE first # 1
      <3>1. first - 1 \in 1..(first - 1) /\ k + 2 - (first - 1) = n + 1
        BY <1>1, <2>1
      <3> HIDE DEF n, qs
      <3> QED BY <3>1 DEF qs
    <2>2. CASE first = 1
      <3>1. n = k + 1 /\ k < L /\ n \in 0..L /\ k + 1 \in 0..L
        BY <1>1, <1>3, <2>2
      <3>2. k + 1 <= EntryCapacity
        BY <2>2, <3>1
      <3>3. LastOf(ps, k + 1) > MaxBytes
        BY <1>1, <3>1, <3>2, EvidenceLimitsAssumption DEF Longest
      <3>4. LastOf(qs, n + 1) = LastOf(ps, n) + a.size /\ a.size \in Nat /\ LastOf(ps, n) \in Nat
        BY <3>1, LastOfMore, LastGrows, SizesAssumption DEF Artefact
      <3>5. MaxBytes \in Nat /\ LastOf(ps, n) > MaxBytes
        BY <3>1, <3>3, EvidenceLimitsAssumption
      <3> HIDE DEF n, qs
      <3> QED BY <3>4, <3>5
    <2> QED BY <2>1, <2>2
  <1> HIDE DEF qs, n
  <1>4. n <= EntryCapacity /\ LastOf(qs, n) <= MaxBytes
    BY DEF n, qs
  <1>5. Longest(n, qs)
    BY <1>1, <1>2, <1>3, <1>4 DEF Longest
  <1> QED BY <1>5 DEF n, qs

LEMMA PutStep ==
    ASSUME EvidenceInv, NEW a \in Artefact, Put(a)
    PROVE  EvidenceInv'
  <1> DEFINE qs == Append(put, a)
             g == Append(kept, Filed(Len(put) + 1, a))
             K == Len(kept)
             first == FirstKept(g, bytes + a.size)
  <1>1. /\ put \in Seq(Artefact) /\ Len(put) = highWater /\ highWater \in 0..MaxPuts /\ MaxPuts \in Nat
        /\ Stand(kept, put) /\ bytes = LastOf(put, K) /\ Longest(K, put) /\ K \in 0..Len(put)
    BY EvidenceLimitsAssumption DEF EvidenceInv, Longest
  <1>2. /\ highWater < MaxPuts /\ highWater' = highWater + 1 /\ put' = qs
        /\ kept' = From(g, first) /\ bytes' = Remaining(g, bytes + a.size, first)
    BY <1>1 DEF Put, Filed
  <1>3. qs \in Seq(Artefact) /\ Len(qs) = highWater + 1
    BY <1>1
  <1>4. Stand(g, qs) /\ Len(g) = K + 1
    BY <1>1, GrownStands
  <1>5. bytes + a.size = LastOf(qs, K + 1)
    BY <1>1, LastOfMore
  <1> HIDE DEF g, qs
  <1>6. first = FirstKept(g, LastOf(qs, Len(g))) /\ bytes + a.size = LastOf(qs, Len(g))
    BY <1>4, <1>5
  <1> HIDE DEF first
  <1>7. /\ first \in 1..(Len(g) + 1)
        /\ Len(g) + 1 - first <= EntryCapacity /\ LastOf(qs, Len(g) + 1 - first) <= MaxBytes
        /\ \A j \in 1..(first - 1) : Len(g) + 1 - j > EntryCapacity \/ LastOf(qs, Len(g) + 1 - j) > MaxBytes
    BY <1>3, <1>4, <1>6, FirstKeptIs
  <1>8. Stand(kept', qs) /\ Len(kept') = Len(g) + 1 - first
    BY <1>2, <1>3, <1>4, <1>7, FromStands
  <1>9. bytes' = LastOf(qs, Len(kept'))
    BY <1>2, <1>3, <1>4, <1>6, <1>7, <1>8, RemainingIsLast
  <1>10. Longest(Len(kept'), qs)
    <2>1. Len(g) + 1 = K + 2
      BY <1>1, <1>4
    <2>2. /\ first \in 1..(K + 2)
          /\ K + 2 - first <= EntryCapacity /\ LastOf(qs, K + 2 - first) <= MaxBytes
          /\ \A j \in 1..(first - 1) : K + 2 - j > EntryCapacity \/ LastOf(qs, K + 2 - j) > MaxBytes
      BY <1>7, <2>1
    <2> HIDE DEF K
    <2>3. Longest(K + 2 - first, qs)
      BY <1>1, <2>2, LongestGrows DEF qs
    <2>4. Len(kept') = K + 2 - first
      <3> DEFINE m == Len(g)
      <3>1. m + 1 = K + 2 /\ Len(kept') = m + 1 - first
        BY <1>8, <2>1
      <3>2. m \in Int /\ first \in Int /\ K \in Int
        BY <1>1, <1>4, <2>2 DEF K
      <3> HIDE DEF m
      <3> QED BY <3>1, <3>2
    <2> QED BY <2>3, <2>4
  <1>11. highWater' \in 0..MaxPuts
    BY <1>1, <1>2
  <1> QED BY <1>2, <1>3, <1>8, <1>9, <1>10, <1>11 DEF EvidenceInv

LEMMA EvidenceInductive == EvidenceInv /\ [EvidenceNext]_evidenceVars => EvidenceInv'
  <1> SUFFICES ASSUME EvidenceInv, [EvidenceNext]_evidenceVars PROVE EvidenceInv'
    OBVIOUS
  <1>1. CASE EvidenceNext
    BY <1>1, PutStep DEF EvidenceNext
  <1>2. CASE UNCHANGED evidenceVars
    <2>1. UNCHANGED <<kept, bytes, highWater, put>>
      BY <1>2 DEF evidenceVars
    <2> QED BY <2>1 DEF EvidenceInv
  <1> QED BY <1>1, <1>2

\* What the store holds is what KeepsTheNewest says.
LEMMA TheNewestAreKept == EvidenceInv => EvidenceTypeOK /\ KeepsTheNewest
  <1> SUFFICES ASSUME EvidenceInv PROVE EvidenceTypeOK /\ KeepsTheNewest
    OBVIOUS
  <1> DEFINE L == Len(put)
             K == Len(kept)
             fits(n) == n <= EntryCapacity /\ LastBytes(n) <= MaxBytes
             longest == CHOOSE n \in 0..L : fits(n) /\ \A m \in 0..L : fits(m) => m <= n
  <1>1. /\ L \in Nat /\ K \in 0..L /\ put \in Seq(Artefact) /\ kept \in Seq(Entry) /\ L = highWater
        /\ DOMAIN kept = 1..K /\ EntryCapacity \in Nat /\ MaxBytes \in Nat
        /\ \A i \in 1..K : kept[i] = Filed(L - K + i, put[L - K + i])
    BY EvidenceLimitsAssumption DEF EvidenceInv, Stand, Longest
  <1>2. EvidenceTypeOK
    <2>1. bytes \in Nat
      BY <1>1, LastGrows DEF EvidenceInv
    <2> QED BY <1>1, <2>1 DEF EvidenceInv, EvidenceTypeOK
  <1>3. \A n : LastBytes(n) = LastOf(put, n)
    BY DEF LastBytes, LastOf
  <1>4. fits(K)
    BY <1>3 DEF EvidenceInv, Longest
  <1>5. ASSUME NEW m \in 0..L, fits(m) PROVE m <= K
    <2> SUFFICES ASSUME ~(m <= K) PROVE FALSE
      OBVIOUS
    <2>1. K < L /\ K + 1 \in 0..m /\ K + 1 \in 0..L /\ K + 1 <= m
      BY <1>1
    <2>2. LastOf(put, K + 1) <= LastOf(put, m) /\ LastOf(put, K + 1) \in Nat /\ LastOf(put, m) \in Nat
      BY <1>1, <2>1, LastGrows
    <2>3. LastOf(put, m) <= MaxBytes /\ m <= EntryCapacity
      BY <1>3, <1>5
    <2>4. K + 1 > EntryCapacity \/ LastOf(put, K + 1) > MaxBytes
      BY <2>1 DEF EvidenceInv, Longest
    <2> HIDE DEF K, L
    <2> QED BY <1>1, <2>1, <2>2, <2>3, <2>4
  <1> HIDE DEF fits
  <1>6. longest = K
    <2>1. \A n \in 0..L : (fits(n) /\ \A m \in 0..L : fits(m) => m <= n) => n = K
      <3> SUFFICES ASSUME NEW n \in 0..L, fits(n), \A m \in 0..L : fits(m) => m <= n PROVE n = K
        OBVIOUS
      <3>1. K <= n
        BY <1>1, <1>4
      <3>2. n <= K
        BY <1>5
      <3>3. n \in Int /\ K \in Int
        BY <1>1
      <3> HIDE DEF K, L
      <3> QED BY <3>1, <3>2, <3>3
    <2> HIDE DEF K, L
    <2> QED BY <1>1, <1>4, <1>5, <2>1
  <1>7. ASSUME NEW id \in 1..L
        PROVE  /\ Get(put[id].kind, id) = IF id > L - K THEN "found" ELSE "expired"
               /\ Get(put[id].kind, id) = "found" =>
                    \E i \in DOMAIN kept : kept[i] = [id |-> id, kind |-> put[id].kind, size |-> put[id].size]
    <2> DEFINE with == {i \in DOMAIN kept : kept[i].id = id}
    <2>1. CASE id > L - K
      <3> DEFINE i == id - (L - K)
      <3>1. i \in 1..K /\ L - K + i = id
        BY <1>1, <2>1
      <3>2. kept[i] = Filed(id, put[id])
        BY <1>1, <3>1
      <3> HIDE DEF i, K, L
      <3>3. i \in with /\ kept[i].kind = put[id].kind
        BY <1>1, <3>1, <3>2 DEF Filed
      <3>4. Get(put[id].kind, id) = "found"
        BY <3>3 DEF Get
      <3> QED BY <1>1, <2>1, <3>1, <3>2, <3>4 DEF Filed
    <2>2. CASE ~(id > L - K)
      <3>1. \A i \in 1..K : kept[i].id = L - K + i
        BY <1>1 DEF Filed
      <3>2. \A i \in 1..K : L - K + i # id
        BY <1>1, <2>2
      <3>3. with = {}
        BY <1>1, <3>1, <3>2
      <3>4. id <= highWater
        BY <1>1
      <3>5. Get(put[id].kind, id) = "expired"
        BY <3>3, <3>4 DEF Get
      <3> HIDE DEF K, L
      <3> QED BY <2>2, <3>5
    <2> QED BY <2>1, <2>2
  <1>8. KeepsTheNewest
    <2>1. KeepsTheNewest <=> \A id \in 1..L :
            /\ Get(put[id].kind, id) = IF id > L - longest THEN "found" ELSE "expired"
            /\ Get(put[id].kind, id) = "found" =>
                 \E i \in DOMAIN kept : kept[i] = [id |-> id, kind |-> put[id].kind, size |-> put[id].size]
      BY DEF KeepsTheNewest, fits
    <2> HIDE DEF longest, L, K
    <2> QED BY <1>6, <1>7, <2>1
  <1> QED BY <1>2, <1>8

\* Whatever was put since, in whatever sizes: the store holds as many of the newest
\* artefacts as fit, and says of every other one it ever had that it expired.
THEOREM NewestAlwaysKept == EvidenceSpec => []KeepsTheNewest
  BY EvidenceInitially, EvidenceInductive, TheNewestAreKept, PTL DEF EvidenceSpec

\* What was accepted as a constraint stays with its task, and the tasks that are
\* kept are the newest.
THEOREM ConstraintsStay == TaskInit /\ [][TaskNext]_taskVars => []ConstraintsKept
  BY TaskInitially, TaskInductive, TasksAreKept, PTL

-----------------------------------------------------------------------------
(* The catalogue of tools and the clients' view of it.                       *)

\* Only a request on its way to notify has changed the catalogue.
ChangesAreAnnounced == \A c \in Clients : call[c].changed => call[c].at \in {"names", "notify"}

SessionInv == SessionOK /\ ChangesAreAnnounced

\* What a request may ask, and where its record stands.
LEMMA RequestsTyped ==
    ASSUME NEW r \in Requests
    PROVE  /\ r.kind \in {"load_toolset", "load_tools", "unload_toolset", "call"}
           /\ r.names \in Seq(STRING)
  BY RequestsAssumption

\* Loading and unloading a toolset keep the catalogue whole: no two toolsets
\* share a tool.
LEMMA RouterSteps ==
    ASSUME SessionTypeOK, ActiveAreLoaded, NEW ts \in Toolsets, Load(ts) \/ Unload(ts)
    PROVE  active' \subseteq Toolsets /\ loaded' \subseteq Tools /\ ActiveAreLoaded'
  <1>1. CASE Load(ts)
    BY <1>1, ToolsetsAssumption DEF Load, SessionTypeOK, ActiveAreLoaded
  <1>2. CASE Unload(ts)
    BY <1>2, ToolsetsAssumption DEF Unload, SessionTypeOK, ActiveAreLoaded
  <1> QED BY <1>1, <1>2

\* A client at rest, and what one step makes of a request.
LEMMA RestTyped == Rest \in Calls /\ ~Rest.changed /\ Rest.at = "idle"
  <1>1. <<>> \in Seq(STRING)
    OBVIOUS
  <1> QED BY <1>1 DEF Rest, Calls

LEMMA SessionInitially == SessionInit => SessionInv
  <1> SUFFICES ASSUME SessionInit PROVE SessionInv
    OBVIOUS
  <1>1. SessionTypeOK
    <2>1. \A ts \in Toolsets : ToolsOf[ts] \subseteq Tools
      BY ToolsetsAssumption
    <2>2. loaded \subseteq Tools
      <3> DEFINE all == UNION {ToolsOf[ts] : ts \in Toolsets}
                 first == UNION {ToolsOf[ts] : ts \in Starter}
      <3>1. all \subseteq Tools
        BY <2>1
      <3>2. first \subseteq all /\ StarterTools \subseteq all
        BY ToolsetsAssumption
      <3>3. loaded = first \cup StarterTools
        BY DEF SessionInit
      <3> HIDE DEF all, first
      <3> QED BY <3>1, <3>2, <3>3
    <2>3. call \in [Clients -> Calls]
      BY RestTyped DEF SessionInit
    <2>4. 0 \in 0..Buffer /\ 0 \in 0..MaxRequests /\ 0 \in 0..MaxDrops
      BY SessionBoundsAssumption
    <2> QED BY <2>2, <2>3, <2>4, ToolsetsAssumption DEF SessionInit, SessionTypeOK
  <1>2. ActiveAreLoaded /\ ChangesAreAnnounced
    BY RestTyped DEF SessionInit, ActiveAreLoaded, ChangesAreAnnounced
  <1> QED BY <1>1, <1>2 DEF SessionInv, SessionOK

\* A step that leaves the catalogue and the clients alone and moves one request
\* on to k keeps the invariant, if k is a request that tells what it changed.
LEMMA RequestMoves ==
    ASSUME SessionInv, NEW c \in Clients, NEW k \in Calls,
           call' = [call EXCEPT ![c] = k], k.changed => k.at \in {"names", "notify"},
           active' \subseteq Toolsets, loaded' \subseteq Tools, ActiveAreLoaded',
           UNCHANGED clientVars, asked' \in 0..MaxRequests, drops' \in 0..MaxDrops, unannounced' \in BOOLEAN
    PROVE  SessionInv'
  <1>1. call' \in [Clients -> Calls]
    BY DEF SessionInv, SessionOK, SessionTypeOK
  <1>2. SessionTypeOK'
    BY <1>1 DEF SessionInv, SessionOK, SessionTypeOK, clientVars
  <1>3. ChangesAreAnnounced'
    BY DEF ChangesAreAnnounced, SessionInv, SessionOK, SessionTypeOK
  <1> QED BY <1>2, <1>3 DEF SessionInv, SessionOK

LEMMA SessionAsk ==
    ASSUME SessionInv, NEW c \in Clients, NEW r \in Requests, Ask(c, r)
    PROVE  SessionInv'
  <1> DEFINE k == [Rest EXCEPT !.req = r, !.rest = r.names, !.at = IF r.kind = "call" THEN "lookup" ELSE "names"]
  <1>1. k \in Calls /\ ~k.changed
    BY RequestsTyped, RestTyped DEF Calls, Rest
  <1>2. asked' \in 0..MaxRequests
    BY SessionBoundsAssumption DEF Ask, SessionInv, SessionOK, SessionTypeOK
  <1>3. call' = [call EXCEPT ![c] = k]
    BY DEF Ask
  <1> HIDE DEF k
  <1> QED BY <1>1, <1>2, <1>3, RequestMoves DEF Ask, SessionInv, SessionOK, SessionTypeOK, ActiveAreLoaded, routerVars

LEMMA TailTyped ==
    ASSUME NEW S, NEW q \in Seq(S), q # <<>>
    PROVE  Tail(q) \in Seq(S)
  OBVIOUS

LEMMA SessionName ==
    ASSUME SessionInv, NEW c \in Clients, Name(c)
    PROVE  SessionInv'
  <1> DEFINE n == Head(call[c].rest)
             moved(ch) == [[call[c] EXCEPT !.rest = Tail(@)] EXCEPT !.changed = @ \/ ch]
  <1>1. call[c] \in Calls /\ call[c].at = "names" /\ call[c].rest # <<>>
    BY DEF Name, SessionInv, SessionOK, SessionTypeOK
  <1>2. Tail(call[c].rest) \in Seq(STRING)
    <2>1. call[c].rest \in Seq(STRING)
      BY <1>1 DEF Calls
    <2> QED BY <1>1, <2>1, TailTyped
  <1>3. ASSUME NEW ch \in BOOLEAN, NextName(c, ch)
        PROVE  /\ moved(ch) \in Calls /\ moved(ch).at = "names"
               /\ call' = [call EXCEPT ![c] = moved(ch)]
    BY <1>1, <1>2, <1>3 DEF NextName, Calls, SessionInv, SessionOK, SessionTypeOK
  <1>4. \E ch \in BOOLEAN : NextName(c, ch)
    BY DEF Name
  <1>5. PICK ch \in BOOLEAN : NextName(c, ch)
    BY <1>4
  <1>6. active' \subseteq Toolsets /\ loaded' \subseteq Tools /\ ActiveAreLoaded'
    <2>1. CASE n \in Toolsets /\ (Load(n) \/ Unload(n))
      BY <2>1, RouterSteps DEF SessionInv, SessionOK
    <2>2. CASE Owners(n) # {} /\ loaded' = loaded \cup {n} /\ UNCHANGED active
      BY <2>2, ToolsetsAssumption DEF Owners, SessionInv, SessionOK, SessionTypeOK, ActiveAreLoaded
    <2>3. CASE UNCHANGED routerVars
      BY <2>3 DEF routerVars, SessionInv, SessionOK, SessionTypeOK, ActiveAreLoaded
    <2> QED BY <2>1, <2>2, <2>3 DEF Name
  <1>7. UNCHANGED <<clientVars, asked, drops, unannounced>>
    BY DEF Name
  <1>8. moved(ch) \in Calls /\ moved(ch).at = "names" /\ call' = [call EXCEPT ![c] = moved(ch)]
    BY <1>3, <1>5
  <1> HIDE DEF moved
  <1> QED BY <1>6, <1>7, <1>8, RequestMoves DEF SessionInv, SessionOK, SessionTypeOK

\* The steps that go on with a request and leave the catalogue alone.
LEMMA SessionGoesOn ==
    ASSUME SessionInv, NEW c \in Clients, NamesDone(c) \/ Lookup(c) \/ Gate(c) \/ Run(c)
    PROVE  SessionInv'
  <1>1. call[c] \in Calls /\ (call[c].changed => call[c].at \in {"names", "notify"})
    BY DEF SessionInv, SessionOK, SessionTypeOK, ChangesAreAnnounced
  <1>2. PICK at \in {"names", "notify", "lookup", "autoload", "gate", "run"} :
           /\ at # "notify" => ~call[c].changed
           /\ \/ call' = [call EXCEPT ![c] = [call[c] EXCEPT !.at = at]]
              \/ call' = [call EXCEPT ![c] = Rest]
    <2>1. CASE NamesDone(c)
      BY <2>1, <1>1 DEF NamesDone, MustNotify, SessionInv, SessionOK, SessionTypeOK
    <2>2. CASE Lookup(c)
      BY <2>2, <1>1 DEF Lookup, SessionInv, SessionOK, SessionTypeOK
    <2>3. CASE Gate(c)
      BY <2>3, <1>1 DEF Gate, SessionInv, SessionOK, SessionTypeOK
    <2>4. CASE Run(c)
      BY <2>4, <1>1 DEF Run, SessionInv, SessionOK, SessionTypeOK
    <2> QED BY <2>1, <2>2, <2>3, <2>4
  <1>3. [call[c] EXCEPT !.at = at] \in Calls /\ [call[c] EXCEPT !.at = at].at = at
    BY <1>1 DEF Calls
  <1>4. [call[c] EXCEPT !.at = at].changed = call[c].changed
    BY <1>1 DEF Calls
  <1>5. UNCHANGED <<routerVars, clientVars, asked, drops, unannounced>>
    BY DEF NamesDone, Lookup, Gate, Run
  <1>6. active' \subseteq Toolsets /\ loaded' \subseteq Tools /\ ActiveAreLoaded'
    BY <1>5 DEF routerVars, SessionInv, SessionOK, SessionTypeOK, ActiveAreLoaded
  <1>7. asked' \in 0..MaxRequests /\ drops' \in 0..MaxDrops /\ unannounced' \in BOOLEAN
    BY <1>5 DEF SessionInv, SessionOK, SessionTypeOK
  <1>8. CASE call' = [call EXCEPT ![c] = [call[c] EXCEPT !.at = at]]
    BY <1>2, <1>3, <1>4, <1>5, <1>6, <1>7, <1>8, RequestMoves
  <1>9. CASE call' = [call EXCEPT ![c] = Rest]
    BY <1>5, <1>6, <1>7, <1>9, RestTyped, RequestMoves
  <1> QED BY <1>2, <1>8, <1>9

LEMMA SessionLoadForCall ==
    ASSUME SessionInv, NEW c \in Clients, LoadForCall(c)
    PROVE  SessionInv'
  <1> DEFINE k == [[[call[c] EXCEPT !.at = "notify"] EXCEPT !.changed = TRUE] EXCEPT !.again = TRUE]
  <1>1. call[c] \in Calls
    BY DEF SessionInv, SessionOK, SessionTypeOK
  <1>2. k \in Calls /\ k.at = "notify"
    BY <1>1 DEF Calls
  <1>3. call' = [call EXCEPT ![c] = k]
    BY <1>1 DEF LoadForCall, SessionInv, SessionOK, SessionTypeOK
  <1>4. PICK ts \in Toolsets : Load(ts)
    BY DEF LoadForCall, Owners
  <1>5. active' \subseteq Toolsets /\ loaded' \subseteq Tools /\ ActiveAreLoaded'
    BY <1>4, RouterSteps DEF SessionInv, SessionOK
  <1> HIDE DEF k
  <1> QED BY <1>2, <1>3, <1>5, RequestMoves DEF LoadForCall, SessionInv, SessionOK, SessionTypeOK

LEMMA SessionDrop ==
    ASSUME SessionInv, NEW c \in Clients, Drop(c)
    PROVE  SessionInv'
  <1>1. drops' \in 0..MaxDrops
    BY SessionBoundsAssumption DEF Drop, SessionInv, SessionOK, SessionTypeOK
  <1>2. call[c].changed \in BOOLEAN
    BY DEF SessionInv, SessionOK, SessionTypeOK, Calls
  <1>3. active' \subseteq Toolsets /\ loaded' \subseteq Tools /\ ActiveAreLoaded'
    BY DEF Drop, routerVars, SessionInv, SessionOK, SessionTypeOK, ActiveAreLoaded
  <1> QED BY <1>1, <1>2, <1>3, RestTyped, RequestMoves DEF Drop, SessionInv, SessionOK, SessionTypeOK

LEMMA SessionNotify ==
    ASSUME SessionInv, NEW c \in Clients, Notify(c)
    PROVE  SessionInv'
  <1>1. call[c] \in Calls
    BY DEF SessionInv, SessionOK, SessionTypeOK
  <1> DEFINE k == [[call[c] EXCEPT !.at = "lookup"] EXCEPT !.changed = FALSE]
  <1>2. k \in Calls /\ ~k.changed
    BY <1>1 DEF Calls
  <1>3. call' = [call EXCEPT ![c] = k] \/ call' = [call EXCEPT ![c] = Rest]
    BY <1>1 DEF Notify, SessionInv, SessionOK, SessionTypeOK
  <1> HIDE DEF k
  <1>4. call' \in [Clients -> Calls] /\ ChangesAreAnnounced'
    BY <1>2, <1>3, RestTyped DEF SessionInv, SessionOK, SessionTypeOK, ChangesAreAnnounced
  <1>5. queue' \in [Clients -> 0..Buffer] /\ stream' \in [Clients -> BOOLEAN]
    BY SessionBoundsAssumption DEF Notify, SessionInv, SessionOK, SessionTypeOK
  <1>6. SessionTypeOK' /\ ActiveAreLoaded'
    BY <1>4, <1>5 DEF Notify, routerVars, SessionInv, SessionOK, SessionTypeOK, ActiveAreLoaded
  <1> QED BY <1>4, <1>6 DEF SessionInv, SessionOK

LEMMA SessionClients ==
    ASSUME SessionInv, NEW c \in Clients, Hear(c) \/ List(c) \/ Reopen(c)
    PROVE  SessionInv'
  <1>1. queue' \in [Clients -> 0..Buffer] /\ stream' \in [Clients -> BOOLEAN]
    <2>1. queue[c] \in 0..Buffer
      BY DEF SessionInv, SessionOK, SessionTypeOK
    <2>2. CASE Hear(c)
      <3>1. queue[c] - 1 \in 0..Buffer
        BY <2>1, <2>2, SessionBoundsAssumption DEF Hear
      <3> QED BY <2>2, <3>1 DEF Hear, SessionInv, SessionOK, SessionTypeOK
    <2>3. CASE List(c) \/ Reopen(c)
      BY <2>3 DEF List, Reopen, SessionInv, SessionOK, SessionTypeOK
    <2> QED BY <2>2, <2>3
  <1>2. relist' \in [Clients -> BOOLEAN] /\ shown' \in [Clients -> SUBSET Tools]
    BY DEF Hear, List, Reopen, SessionInv, SessionOK, SessionTypeOK
  <1>3. UNCHANGED <<routerVars, call, asked, drops, unannounced>>
    BY DEF Hear, List, Reopen
  <1>4. SessionTypeOK' /\ ActiveAreLoaded' /\ ChangesAreAnnounced'
    BY <1>1, <1>2, <1>3 DEF routerVars, SessionInv, SessionOK, SessionTypeOK, ActiveAreLoaded, ChangesAreAnnounced
  <1> QED BY <1>4 DEF SessionInv, SessionOK

LEMMA SessionInductive == SessionInv /\ [SessionNext]_sessionVars => SessionInv'
  <1> SUFFICES ASSUME SessionInv, [SessionNext]_sessionVars PROVE SessionInv'
    OBVIOUS
  <1>1. ASSUME NEW c \in Clients, NEW r \in Requests, Ask(c, r) PROVE SessionInv'
    BY <1>1, SessionAsk
  <1>2. ASSUME NEW c \in Clients, Serve(c) PROVE SessionInv'
    BY <1>2, SessionName, SessionGoesOn, SessionNotify, SessionLoadForCall DEF Serve
  <1>3. ASSUME NEW c \in Clients, Drop(c) PROVE SessionInv'
    BY <1>3, SessionDrop
  <1>4. ASSUME NEW c \in Clients, Hear(c) \/ List(c) \/ Reopen(c) PROVE SessionInv'
    BY <1>4, SessionClients
  <1>5. CASE UNCHANGED sessionVars
    BY <1>5 DEF sessionVars, SessionInv, SessionOK, SessionTypeOK, ActiveAreLoaded, ChangesAreAnnounced
  <1> QED BY <1>1, <1>2, <1>3, <1>4, <1>5 DEF SessionNext

\* Whatever the clients ask and in whatever order: the tools of an active
\* toolset are in the catalogue (load, unload and load_tool of router/mod.rs).
THEOREM ActiveToolsetsAreLoaded == SessionSpec => []SessionOK
  <1>1. SessionInv => SessionOK
    BY DEF SessionInv
  <1> QED BY <1>1, SessionInitially, SessionInductive, PTL DEF SessionSpec

\* A change of the catalogue is a request's, which now owes a notification; a
\* notification reaches every client or ends its stream.
LEMMA StaleClientsStep ==
    ASSUME SessionInv, StaleClientsHear, [SessionNext]_sessionVars
    PROVE  StaleClientsHear'
  <1> USE DEF SessionInv, SessionOK, SessionTypeOK
  <1>1. ASSUME NEW c \in Clients, NEW r \in Requests, Ask(c, r) PROVE StaleClientsHear'
    <2>1. ~call[c].changed
      BY <1>1 DEF Ask, ChangesAreAnnounced
    <2> QED BY <1>1, <2>1 DEF Ask, routerVars, clientVars, StaleClientsHear
  <1>2. ASSUME NEW c \in Clients, Name(c) PROVE StaleClientsHear'
    <2>1. call[c] \in Calls
      OBVIOUS
    <2>2. PICK ch \in BOOLEAN : NextName(c, ch) /\ (~ch => UNCHANGED routerVars)
      BY <1>2 DEF Name
    <2>3. call'[c].changed = (call[c].changed \/ ch) /\ \A d \in Clients \ {c} : call'[d] = call[d]
      BY <2>1, <2>2 DEF NextName, Calls
    <2> QED BY <1>2, <2>2, <2>3 DEF Name, routerVars, clientVars, StaleClientsHear
  <1>3. ASSUME NEW c \in Clients, NamesDone(c) PROVE StaleClientsHear'
    <2>1. call[c] \in Calls
      OBVIOUS
    <2>2. call'[c].changed = call[c].changed \/ ~call[c].changed
      BY <1>3, <2>1 DEF NamesDone, MustNotify, Calls
    <2>3. call[c].changed => call'[c].changed
      BY <1>3, <2>1 DEF NamesDone, MustNotify, Calls
    <2> QED BY <1>3, <2>3 DEF NamesDone, routerVars, clientVars, StaleClientsHear
  <1>4. ASSUME NEW c \in Clients, Notify(c) PROVE StaleClientsHear'
    <2> SUFFICES ASSUME NEW d \in Clients PROVE queue'[d] > 0 \/ ~stream'[d]
      BY DEF StaleClientsHear
    <2>1. queue[d] \in 0..Buffer
      OBVIOUS
    <2>2. CASE stream[d] /\ queue[d] < Buffer
      BY <1>4, <2>1, <2>2, SessionBoundsAssumption DEF Notify
    <2>3. CASE ~(stream[d] /\ queue[d] < Buffer)
      BY <1>4, <2>3 DEF Notify
    <2> QED BY <2>2, <2>3
  <1>5. ASSUME NEW c \in Clients, Lookup(c) \/ Gate(c) \/ Run(c) PROVE StaleClientsHear'
    <2>1. ~call[c].changed
      BY <1>5 DEF Lookup, Gate, Run, ChangesAreAnnounced
    <2> QED BY <1>5, <2>1 DEF Lookup, Gate, Run, routerVars, clientVars, StaleClientsHear
  <1>6. ASSUME NEW c \in Clients, LoadForCall(c) PROVE StaleClientsHear'
    <2>1. call[c] \in Calls
      OBVIOUS
    <2>2. call'[c].changed
      BY <1>6, <2>1 DEF LoadForCall, Calls
    <2> QED BY <2>2 DEF StaleClientsHear
  <1>7. ASSUME NEW c \in Clients, Drop(c) PROVE StaleClientsHear'
    BY <1>7 DEF Drop, routerVars, clientVars, StaleClientsHear
  <1>8. ASSUME NEW c \in Clients, Hear(c) \/ List(c) \/ Reopen(c) PROVE StaleClientsHear'
    BY <1>8 DEF Hear, List, Reopen, routerVars, StaleClientsHear
  <1>9. CASE UNCHANGED sessionVars
    BY <1>9 DEF sessionVars, StaleClientsHear
  <1> QED BY <1>1, <1>2, <1>3, <1>4, <1>5, <1>6, <1>7, <1>8, <1>9 DEF SessionNext, Serve

\* A full channel never makes a client miss the last change: whoever does not
\* see the catalogue as it is has a cue left (notify_tools_list_changed).
THEOREM StaleClientsAlwaysHear == SessionSpec => []StaleClientsHear
  <1>1. SessionInit => StaleClientsHear
    BY DEF SessionInit, StaleClientsHear
  <1> QED BY <1>1, SessionInitially, SessionInductive, StaleClientsStep, PTL DEF SessionSpec

-----------------------------------------------------------------------------
(* What the server remembers, all of it.                                     *)

StoresInv == LedgerInv /\ JournalShape /\ EvidenceInv /\ ModeInv /\ TaskInv

LEMMA StoresInitially == StoresInit => StoresInv
  BY LedgerInitially, ShapeInitially, EvidenceInitially, ModeInitially, TaskInitially DEF StoresInit, StoresInv

\* A step is of one store, and the others stay as they are.
LEMMA StoresInductive ==
    ASSUME StoresInv, [StoresNext]_<<storeVars, sessionVars, view>>
    PROVE  StoresInv'
  <1>1. LedgerInv /\ JournalShape /\ EvidenceInv /\ ModeInv /\ TaskInv
    BY DEF StoresInv
  <1>2. [LedgerNext]_ledgerVars /\ [JournalNext]_journalVars /\ [EvidenceNext]_evidenceVars
        /\ [ModeNext]_modeVars /\ [TaskNext]_taskVars
    <2>1. CASE StoresNext
      BY <2>1, Zenon DEF StoresNext, storeVars
    <2>2. CASE UNCHANGED <<storeVars, sessionVars, view>>
      BY <2>2, Zenon DEF storeVars
    <2> QED BY <2>1, <2>2
  <1>3. LedgerInv'
    BY <1>1, <1>2, LedgerInductive
  <1>4. JournalShape'
    BY <1>1, <1>2, ShapeInductive
  <1>5. EvidenceInv'
    BY <1>1, <1>2, EvidenceInductive
  <1>6. ModeInv'
    BY <1>1, <1>2, ModeInductive
  <1>7. TaskInv'
    BY <1>1, <1>2, TaskInductive
  <1> QED BY <1>3, <1>4, <1>5, <1>6, <1>7 DEF StoresInv

\* Whatever is claimed, recorded, put, restricted or asked of it, and however many
\* do: the ledger's map and queue agree, the evidence store holds the newest
\* artefacts that fit, and a task keeps its constraints (StoresOK).
THEOREM StoresAlwaysOK == StoresSpec => []StoresOK
  <1>1. StoresInv => StoresOK
    <2> SUFFICES ASSUME StoresInv PROVE StoresOK
      OBVIOUS
    <2>1. LedgerOK
      BY LedgerInvIsEnough DEF StoresInv
    <2>2. JournalTypeOK
      BY DEF StoresInv, JournalShape
    <2>3. EvidenceTypeOK /\ KeepsTheNewest
      BY TheNewestAreKept DEF StoresInv
    <2>4. ModeTypeOK
      BY DEF StoresInv, ModeInv
    <2>5. TaskTypeOK /\ ConstraintsKept
      BY TasksAreKept DEF StoresInv
    <2> QED BY <2>1, <2>2, <2>3, <2>4, <2>5 DEF StoresOK
  <1>2. StoresInv /\ [StoresNext]_<<storeVars, sessionVars, view>> => StoresInv'
    BY StoresInductive
  <1> QED BY <1>1, <1>2, StoresInitially, PTL DEF StoresSpec
=============================================================================
