----------------------------- MODULE BundleProofs -----------------------------
(***************************************************************************)
(* Proofs about what goes into a bundle.  proposer.rs: for any snapshot of *)
(* the pool, any answers of the node and any gas, make_bundle returns a    *)
(* partition of what it picked, that was simulated as it is, and gas that  *)
(* covers it.  conflict.rs: for any senders, slots and number of           *)
(* operations, the detector names no operation without reason, and as long *)
(* as what it names is kept out it names every rival.                      *)
(***************************************************************************)
EXTENDS BundleProposer, ConflictDetector, FiniteSetTheorems, FunctionTheorems,
        NaturalsInduction, WellFoundedInduction, SequenceTheorems, TLAPS

-----------------------------------------------------------------------------
(* The index of the pool                                                   *)

\* What OrderEntry::cmp compares are numbers.
LEMMA EntryFields ==
  ASSUME NEW e \in Entry
  PROVE  /\ e.submit_gas_price \in Nat /\ e.sequence \in Nat
         /\ e.total_gas_limit \in Nat
BY ProposerConstants

\* OrderEntry::cmp is a strict order, and total: no two entries have the
\* same sequence.
LEMMA BeforeIsOrder ==
  ASSUME NEW e \in Entry, NEW f \in Entry
  PROVE  /\ ~Before(e, e)
         /\ Before(e, f) => ~Before(f, e)
         /\ e # f => Before(e, f) \/ Before(f, e)
         /\ \A g \in Entry : Before(e, f) /\ Before(f, g) => Before(e, g)
<1>1. \A g \in Entry : /\ g.submit_gas_price \in Nat /\ g.sequence \in Nat
                       /\ g.sequence = e.sequence => g = e
  BY ProposerConstants, EntryFields
<1> QED
  BY <1>1 DEF Before

\* The place of an entry is below the number of entries, and later entries
\* have higher places.
LEMMA RankIsMonotone ==
  ASSUME NEW S \in SUBSET Entry
  PROVE  /\ IsFiniteSet(S) /\ Cardinality(S) \in Nat
         /\ \A e \in S : Rank(e, S) \in 0..Cardinality(S) - 1
         /\ \A e, f \in S : Before(e, f) => Rank(e, S) < Rank(f, S)
<1> DEFINE below(e) == {g \in S : Before(g, e)}
<1>1. IsFiniteSet(S) /\ Cardinality(S) \in Nat
  BY ProposerConstants, FS_Subset, FS_CardinalityType
<1>2. ASSUME NEW e \in S
      PROVE  /\ IsFiniteSet(below(e))
             /\ Rank(e, S) = Cardinality(below(e)) /\ Rank(e, S) \in Nat
  BY <1>1, FS_Subset, FS_CardinalityType DEF Rank
<1>3. ASSUME NEW e \in S PROVE Rank(e, S) \in 0..Cardinality(S) - 1
  <2>1. below(e) \subseteq S \ {e}
    BY BeforeIsOrder
  <2>2. /\ IsFiniteSet(S \ {e})
        /\ Cardinality(S \ {e}) = Cardinality(S) - 1
    BY <1>1, FS_RemoveElement
  <2>3. Cardinality(below(e)) <= Cardinality(S \ {e})
    BY <2>1, <2>2, FS_Subset
  <2> QED
    BY <1>1, <1>2, <2>2, <2>3
<1>4. ASSUME NEW e \in S, NEW f \in S, Before(e, f)
      PROVE  Rank(e, S) < Rank(f, S)
  <2>1. below(e) \subseteq below(f) /\ e \in below(f) /\ e \notin below(e)
    BY <1>4, BeforeIsOrder
  <2> HIDE DEF below
  <2>2. /\ Cardinality(below(e)) <= Cardinality(below(f))
        /\ Cardinality(below(e)) # Cardinality(below(f))
    BY <1>2, <2>1, FS_Subset
  <2> QED
    BY <1>2, <2>2
<1> QED
  BY <1>1, <1>3, <1>4

Sorted(s) == \A i, j \in DOMAIN s : i < j => Before(s[i], s[j])

\* InOrder lists the entries of a set, each once, in the order of the index.
LEMMA InOrderIsSorted ==
  ASSUME NEW S \in SUBSET Entry
  PROVE  /\ InOrder(S) \in Seq(Entry) /\ ToSet(InOrder(S)) = S
         /\ Sorted(InOrder(S))
<1> DEFINE n == Cardinality(S)
           place == [e \in S |-> Rank(e, S) + 1]
<1>1. /\ n \in Nat /\ IsFiniteSet(S)
      /\ \A e \in S : Rank(e, S) \in Nat /\ place[e] \in 1..n
      /\ \A e, f \in S : Before(e, f) => Rank(e, S) < Rank(f, S)
  BY RankIsMonotone
<1>2. \A e, f \in S : Rank(e, S) = Rank(f, S) => e = f
  <2> SUFFICES ASSUME NEW e \in S, NEW f \in S, Rank(e, S) = Rank(f, S), e # f
               PROVE  FALSE
    OBVIOUS
  <2>1. Before(e, f) \/ Before(f, e)
    BY BeforeIsOrder
  <2>2. Rank(e, S) \in Nat /\ Rank(f, S) \in Nat
    BY <1>1
  <2> QED
    BY <1>1, <2>1, <2>2
<1>3. place \in Injection(S, 1..n)
  <2>1. place \in [S -> 1..n]
    BY <1>1
  <2>2. ASSUME NEW e \in S, NEW f \in S, place[e] = place[f] PROVE e = f
    <3>1. Rank(e, S) = Rank(f, S)
      BY <1>1, <2>2
    <3> QED
      BY <1>2, <3>1
  <2> HIDE DEF place
  <2> QED
    BY <2>1, <2>2 DEF Injection, IsInjective
<1>4. place \in Surjection(S, 1..n)
  <2>1. IsFiniteSet(1..n) /\ Cardinality(1..n) = n
    BY <1>1, FS_Interval
  <2> HIDE DEF place
  <2> QED
    BY <1>3, <2>1, FS_Injection
<1>5. \A i \in 1..n : \E e \in S : Rank(e, S) = i - 1
  <2> SUFFICES ASSUME NEW i \in 1..n PROVE \E e \in S : Rank(e, S) = i - 1
    OBVIOUS
  <2>1. PICK e \in S : place[e] = i
    <3> HIDE DEF place
    <3> QED
      BY <1>4 DEF Surjection
  <2>2. Rank(e, S) \in Nat /\ Rank(e, S) + 1 = i
    BY <1>1, <2>1
  <2> QED
    BY <2>2
<1> DEFINE s == InOrder(S)
<1>6. /\ DOMAIN s = 1..n
      /\ \A i \in 1..n : s[i] \in S /\ Rank(s[i], S) = i - 1
  BY <1>5 DEF InOrder
<1>7. s \in Seq(S)
  BY <1>1, <1>6 DEF InOrder
<1> HIDE DEF s
<1>8. ToSet(s) = S
  <2>1. ASSUME NEW e \in S PROVE \E i \in 1..n : s[i] = e
    <3> DEFINE i == Rank(e, S) + 1
    <3>1. i \in 1..n /\ Rank(e, S) = i - 1
      BY <1>1
    <3>2. s[i] \in S /\ Rank(s[i], S) = Rank(e, S)
      BY <1>6, <3>1
    <3> QED
      BY <1>2, <3>1, <3>2
  <2> QED
    BY <1>6, <2>1 DEF ToSet
<1>9. Sorted(s)
  <2> SUFFICES ASSUME NEW i \in 1..n, NEW j \in 1..n, i < j
               PROVE  Before(s[i], s[j])
    BY <1>6 DEF Sorted
  <2>1. /\ s[i] \in S /\ s[j] \in S
        /\ Rank(s[i], S) = i - 1 /\ Rank(s[j], S) = j - 1
    BY <1>6
  <2>2. s[i] # s[j] /\ ~(Rank(s[j], S) < Rank(s[i], S))
    BY <1>1, <2>1
  <2> QED
    BY <1>1, <2>1, <2>2, BeforeIsOrder
<1> QED
  BY <1>7, <1>8, <1>9 DEF s

-----------------------------------------------------------------------------
(* The gas of a bundle                                                     *)

\* Every nonempty set of naturals has a least element.
LEMMA LeastNat ==
  ASSUME NEW S, S \subseteq Nat, S # {}
  PROVE  \E i \in S : \A j \in S : i <= j
<1>1. PICK i \in S : \A j \in S : ~ (<<j, i>> \in OpToRel(<, Nat))
  BY NatLessThanWellFounded, WFMin
<1>2. \A j \in S : ~ (j < i)
  BY <1>1 DEF OpToRel
<1> QED
  BY <1>2

\* f has the sums of the first n gas limits of s, for every n up to m.
Sums(f, s, more, m) ==
  /\ f \in [0..m -> Nat] /\ f[0] = 0
  /\ \A n \in 1..m : f[n] = f[n - 1] + s[n].total_gas_limit + more

\* These sums exist: a shortest prefix without them would have them.
LEMMA SumsExist ==
  ASSUME NEW s \in Seq(Entry), NEW more \in Nat
  PROVE  \E f : Sums(f, s, more, Len(s))
<1> DEFINE bad == {m \in 0..Len(s) : ~\E f : Sums(f, s, more, m)}
<1>1. Len(s) \in Nat /\ \A n \in 1..Len(s) : s[n].total_gas_limit \in Nat
  BY EntryFields
<1>2. SUFFICES ASSUME bad # {} PROVE FALSE
  BY <1>1
<1>3. PICK m \in bad : \A l \in bad : m <= l
  <2>1. bad \subseteq Nat
    BY <1>1
  <2> HIDE DEF bad
  <2> QED
    BY <1>2, <2>1, LeastNat
<1>4. CASE m = 0
  <2> DEFINE f == [n \in 0..0 |-> 0]
  <2>1. Sums(f, s, more, 0)
    BY DEF Sums
  <2> QED
    BY <1>4, <2>1
<1>5. CASE m # 0
  <2>1. m - 1 \in 0..Len(s) /\ m \in 1..Len(s) /\ m - 1 \notin bad
    BY <1>1, <1>3, <1>5
  <2>2. PICK f : Sums(f, s, more, m - 1)
    BY <2>1
  <2> DEFINE g == [n \in 0..m |-> IF n = m
                                   THEN f[m - 1] + s[m].total_gas_limit + more
                                   ELSE f[n]]
  <2>3. g \in [0..m -> Nat] /\ g[0] = 0
    BY <1>1, <2>1, <2>2 DEF Sums
  <2>4. ASSUME NEW n \in 1..m
        PROVE  g[n] = g[n - 1] + s[n].total_gas_limit + more
    <3>1. CASE n = m
      BY <2>1, <3>1
    <3>2. CASE n # m
      <4>1. n \in 1..(m - 1) /\ n \in 0..m /\ n - 1 \in 0..m /\ n - 1 # m
        BY <2>1, <3>2
      <4> QED
        BY <2>2, <3>2, <4>1 DEF Sums
    <3> QED
      BY <3>1, <3>2
  <2>5. Sums(g, s, more, m)
    <3> HIDE DEF g
    <3> QED
      BY <2>3, <2>4 DEF Sums
  <2> QED
    BY <2>5
<1> QED
  BY <1>4, <1>5

\* GasLimits is the last of the sums.
LEMMA GasLimitsIsSum ==
  ASSUME NEW s \in Seq(Entry), NEW more \in Nat
  PROVE  \E f : Sums(f, s, more, Len(s)) /\ GasLimits(s, more) = f[Len(s)]
<1> DEFINE Step(f) == [n \in 0..Len(s) |->
                         IF n = 0 THEN 0
                         ELSE f[n - 1] + s[n].total_gas_limit + more]
<1>1. Len(s) \in Nat /\ \A n \in 1..Len(s) : s[n].total_gas_limit \in Nat
  BY EntryFields
<1>2. \E f : f = Step(f)
  <2>1. PICK f : Sums(f, s, more, Len(s))
    BY SumsExist
  <2>2. \A n \in 0..Len(s) : f[n] = Step(f)[n]
    BY <1>1, <2>1 DEF Sums
  <2>3. f = [n \in 0..Len(s) |-> f[n]]
    BY <2>1 DEF Sums
  <2>4. Step(f) = [n \in 0..Len(s) |-> Step(f)[n]]
    OBVIOUS
  <2> HIDE DEF Step
  <2> QED
    BY <2>2, <2>3, <2>4
<1>3. PICK f : f = Step(f) /\ GasLimits(s, more) = f[Len(s)]
  BY <1>2, Zenon DEF GasLimits
<1>4. DOMAIN f = 0..Len(s) /\ f = [n \in 0..Len(s) |-> f[n]]
  BY <1>3
<1>5. f[0] = 0 /\ \A n \in 1..Len(s) : f[n] = f[n - 1] + s[n].total_gas_limit + more
  <2>1. \A n \in 0..Len(s) : Step(f)[n] = IF n = 0 THEN 0
                             ELSE f[n - 1] + s[n].total_gas_limit + more
    OBVIOUS
  <2> HIDE DEF Step
  <2>2. \A n \in 0..Len(s) : f[n] = Step(f)[n]
    BY <1>3, Zenon
  <2>3. /\ 0 \in 0..Len(s)
        /\ \A n \in 1..Len(s) : n \in 0..Len(s) /\ n # 0
    BY <1>1
  <2>4. f[0] = 0
    BY <2>1, <2>2, <2>3, Zenon
  <2>5. ASSUME NEW n \in 1..Len(s)
        PROVE  f[n] = f[n - 1] + s[n].total_gas_limit + more
    BY <2>1, <2>2, <2>3, Zenon
  <2> QED
    BY <2>4, <2>5, Zenon
<1>6. \A n \in 0..Len(s) : f[n] \in Nat
  <2> DEFINE bad == {m \in 0..Len(s) : f[m] \notin Nat}
  <2>1. SUFFICES ASSUME bad # {} PROVE FALSE
    OBVIOUS
  <2>2. PICK m \in bad : \A l \in bad : m <= l
    <3>1. bad \subseteq Nat
      BY <1>1
    <3> HIDE DEF bad
    <3> QED
      BY <2>1, <3>1, LeastNat
  <2>3. m # 0 /\ m \in 1..Len(s)
    BY <1>1, <1>5
  <2>4. m - 1 \in 0..Len(s) /\ m - 1 \notin bad
    BY <1>1, <2>2, <2>3
  <2>5. f[m - 1] \in Nat
    BY <2>4
  <2>6. f[m] = f[m - 1] + s[m].total_gas_limit + more /\ s[m].total_gas_limit \in Nat
    BY <1>1, <1>5, <2>3, Zenon
  <2>7. f[m] \in Nat
    BY <2>5, <2>6
  <2> QED
    BY <2>2, <2>7
<1>7. Sums(f, s, more, Len(s))
  BY <1>4, <1>5, <1>6 DEF Sums
<1> QED
  BY <1>3, <1>7

\* An overhead for each operation is so much per operation in all.
LEMMA OverheadAddsUp ==
  ASSUME NEW s \in Seq(Entry), NEW more \in Nat
  PROVE  /\ GasLimits(s, 0) \in Nat
         /\ GasLimits(s, more) = GasLimits(s, 0) + more * Len(s)
<1>1. PICK f : Sums(f, s, more, Len(s)) /\ GasLimits(s, more) = f[Len(s)]
  BY GasLimitsIsSum
<1>2. PICK g : Sums(g, s, 0, Len(s)) /\ GasLimits(s, 0) = g[Len(s)]
  BY GasLimitsIsSum
<1>3. Len(s) \in Nat /\ \A n \in 1..Len(s) : s[n].total_gas_limit \in Nat
  BY EntryFields
<1> DEFINE bad == {m \in 0..Len(s) : f[m] # g[m] + more * m}
<1>4. ASSUME bad # {} PROVE FALSE
  <2>1. PICK m \in bad : \A l \in bad : m <= l
    <3>1. bad \subseteq Nat
      BY <1>3
    <3> HIDE DEF bad
    <3> QED
      BY <1>4, <3>1, LeastNat
  <2>2. m # 0
    <3>1. f[0] = 0 /\ g[0] = 0 /\ more * 0 = 0
      BY <1>1, <1>2 DEF Sums
    <3> QED
      BY <2>1, <3>1
  <2>3. m \in 1..Len(s) /\ m - 1 \in 0..Len(s) /\ m - 1 \notin bad
    BY <1>3, <2>1, <2>2
  <2>4. f[m - 1] = g[m - 1] + more * (m - 1)
    BY <2>3
  <2>5. /\ f[m] = f[m - 1] + s[m].total_gas_limit + more
        /\ g[m] = g[m - 1] + s[m].total_gas_limit + 0
        /\ g[m - 1] \in Nat /\ s[m].total_gas_limit \in Nat
    BY <1>1, <1>2, <1>3, <2>3 DEF Sums
  <2>6. more * (m - 1) + more = more * m
    BY <2>3
  <2>7. more * (m - 1) \in Nat
    BY <2>3
  <2>8. f[m] = g[m] + more * m
    BY <2>4, <2>5, <2>6, <2>7
  <2> QED
    BY <2>1, <2>8
<1>5. Len(s) \notin bad
  BY <1>4
<1> QED
  BY <1>1, <1>2, <1>3, <1>5 DEF Sums

\* A bundle is of its type, and its gas is what its operations need.
LEMMA BundleCovers ==
  ASSUME NEW s \in Seq(Entry), rejected \in Seq(Entry)
  PROVE  /\ Bundle(s) \in Results /\ Bundle(s).ok
         /\ Bundle(s).ops = s /\ Bundle(s).rejected = rejected
         /\ GasNeeded(s) + GasNeeded(s) \div 20 < GasModulus =>
              Bundle(s).gas_estimate = GasNeeded(s) + GasNeeded(s) \div 20
<1> DEFINE need == GasNeeded(s)  gas == EstimateGas(s)
<1>1. /\ IntrinsicGas \in Nat /\ PerOpGas \in Nat /\ GasModulus \in Nat \ {0}
      /\ Len(s) \in Nat
  BY ProposerConstants
<1>2. /\ GasLimits(s, 0) \in Nat
      /\ GasLimits(s, PerOpGas) = GasLimits(s, 0) + PerOpGas * Len(s)
      /\ PerOpGas * Len(s) \in Nat
  <2>1. /\ GasLimits(s, 0) \in Nat
        /\ GasLimits(s, PerOpGas) = GasLimits(s, 0) + PerOpGas * Len(s)
    BY <1>1, OverheadAddsUp
  <2>2. PerOpGas * Len(s) \in Nat
    BY <1>1
  <2> QED
    BY <2>1, <2>2
<1>3. need \in Nat /\ gas = need % GasModulus
  BY <1>1, <1>2 DEF GasNeeded, EstimateGas
<1> HIDE DEF need, gas
<1>4. gas \in Nat /\ gas \div 20 \in Nat /\ need \div 20 \in Nat
  BY <1>1, <1>3
<1>5. (gas + gas \div 20) % GasModulus \in 0..GasModulus - 1
  BY <1>1, <1>4
<1>6. ASSUME need + need \div 20 < GasModulus
      PROVE  (gas + gas \div 20) % GasModulus = need + need \div 20
  <2>1. need < GasModulus /\ need + need \div 20 \in Nat
    BY <1>1, <1>3, <1>4, <1>6
  <2>2. gas = need
    BY <1>1, <1>3, <2>1
  <2> QED
    BY <1>1, <1>6, <2>1, <2>2
<1> QED
  BY <1>5, <1>6 DEF Bundle, Results, need, gas

-----------------------------------------------------------------------------
(* The loop of make_bundle                                                 *)

\* An operation taken out leaves the others, in their order.
LEMMA RemovedOne ==
  ASSUME NEW s \in Seq(Entry), NEW i \in 1..Len(s), Sorted(s)
  PROVE  /\ RemoveAt(s, i) \in Seq(Entry) /\ s[i] \in Entry
         /\ Len(RemoveAt(s, i)) = Len(s) - 1
         /\ Sorted(RemoveAt(s, i))
         /\ ToSet(RemoveAt(s, i)) = ToSet(s) \ {s[i]}
<1> DEFINE r == RemoveAt(s, i)
<1>1. Len(s) \in Nat /\ i \in Nat /\ \A n \in 1..Len(s) : s[n] \in Entry
  OBVIOUS
<1>2. /\ r \in Seq(Entry) /\ Len(r) = Len(s) - 1
      /\ \A n \in 1..Len(s) - 1 : r[n] = s[IF n < i THEN n ELSE n + 1]
  <2> DEFINE a == SubSeq(s, 1, i - 1)  b == SubSeq(s, i + 1, Len(s))
  <2>1. /\ a \in Seq(Entry) /\ Len(a) = i - 1
        /\ \A n \in 1..i - 1 : a[n] = s[n]
    BY <1>1
  <2>2. /\ b \in Seq(Entry) /\ Len(b) = Len(s) - i
        /\ \A n \in 1..Len(s) - i : b[n] = s[n + i]
    BY <1>1
  <2>3. r = a \o b
    BY DEF RemoveAt
  <2> HIDE DEF r, a, b
  <2>4. r \in Seq(Entry) /\ Len(r) = Len(s) - 1
    <3>1. r \in Seq(Entry) /\ Len(r) = Len(a) + Len(b)
      BY <2>1, <2>2, <2>3, ConcatProperties
    <3>2. Len(a) + Len(b) = Len(s) - 1
      BY <1>1, <2>1, <2>2
    <3> QED
      BY <3>1, <3>2
  <2>5. ASSUME NEW n \in 1..Len(s) - 1
        PROVE  r[n] = s[IF n < i THEN n ELSE n + 1]
    <3>1. CASE n < i
      BY <1>1, <2>1, <2>2, <2>3, <3>1
    <3>2. CASE ~(n < i)
      <4>1. n - (i - 1) \in 1..Len(s) - i /\ n - (i - 1) + i = n + 1
        BY <1>1, <3>2
      <4>2. r[n] = b[n - (i - 1)]
        BY <1>1, <2>1, <2>2, <2>3, <3>2
      <4> QED
        BY <2>2, <3>2, <4>1, <4>2
    <3> QED
      BY <3>1, <3>2
  <2> QED
    BY <2>4, <2>5
<1> HIDE DEF r
<1>3. DOMAIN r = 1..Len(s) - 1 /\ DOMAIN s = 1..Len(s)
  BY <1>1, <1>2
<1>4. Sorted(r)
  <2> SUFFICES ASSUME NEW m \in 1..Len(s) - 1, NEW n \in 1..Len(s) - 1, m < n
               PROVE  Before(r[m], r[n])
    BY <1>3 DEF Sorted
  <2> DEFINE p == IF m < i THEN m ELSE m + 1
             q == IF n < i THEN n ELSE n + 1
  <2>1. p \in 1..Len(s) /\ q \in 1..Len(s) /\ p < q
    BY <1>1
  <2>2. r[m] = s[p] /\ r[n] = s[q]
    BY <1>2, Zenon
  <2> HIDE DEF p, q
  <2> QED
    BY <1>3, <2>1, <2>2, Zenon DEF Sorted
<1>5. \A n \in 1..Len(s) : s[n] = s[i] => n = i
  BY <1>1, <1>3, BeforeIsOrder DEF Sorted
<1>6. ToSet(r) \subseteq ToSet(s) \ {s[i]}
  BY <1>1, <1>2, <1>3, <1>5 DEF ToSet
<1>7. ASSUME NEW n \in 1..Len(s), n # i PROVE \E m \in 1..Len(s) - 1 : r[m] = s[n]
  <2>1. CASE n < i
    BY <1>1, <1>2, <2>1
  <2>2. CASE n > i
    <3>1. /\ n - 1 \in 1..Len(s) - 1 /\ ~(n - 1 < i) /\ n - 1 + 1 = n
      BY <1>1, <2>2
    <3> QED
      BY <1>2, <3>1
  <2> QED
    BY <1>1, <1>7, <2>1, <2>2
<1>8. ToSet(s) \ {s[i]} \subseteq ToSet(r)
  BY <1>3, <1>7 DEF ToSet
<1> QED
  BY <1>1, <1>2, <1>4, <1>6, <1>8 DEF r

\* The list and what was taken out of it divide the selection.
Division(list, out) ==
  /\ ToSet(list) = ToSet(picked) \ ToSet(out)
  /\ Len(list) + Len(out) = Len(picked)

\* Invariant: while the loop runs, the list is in the order of the index,
\* with the rejected operations it makes up the selection, and one of them
\* was named by each attempt so far.
LoopInv ==
  pc = "simulate" =>
    /\ Sorted(ops) /\ Division(ops, rejected)
    /\ blamed = rejected /\ attempt = Len(rejected)

\* Before the selection the call has rejected nothing.
Fresh ==
  pc \in {"current_fees", "base_fee"} =>
    ops = <<>> /\ rejected = <<>> /\ blamed = <<>> /\ attempt = 0

ProposerInv ==
  /\ TypeOK /\ LoopInv /\ Fresh
  /\ BundlePartition /\ OkPassedSimulation /\ GasCoversOps

LEMMA ErrIsResult == Err \in Results /\ ~Err.ok
  BY ProposerConstants DEF Err, Results

LEMMA InitProposerInv == Init => ProposerInv
<1> SUFFICES ASSUME Init PROVE ProposerInv
  OBVIOUS
<1>1. TypeOK
  BY ErrIsResult, ProposerConstants DEF Init, TypeOK, NotSimulated
<1>2. LoopInv /\ Fresh
  BY DEF Init, LoopInv, Fresh
<1>3. BundlePartition /\ OkPassedSimulation /\ GasCoversOps
  BY ErrIsResult DEF Init, BundlePartition, OkPassedSimulation, GasCoversOps
<1> QED
  BY <1>1, <1>2, <1>3 DEF ProposerInv

\* What a step other than one that returns a bundle has to show.
LEMMA NoBundle ==
  ASSUME ProposerInv, TypeOK', LoopInv', Fresh',
         \/ result' = result /\ pc' # "idle"
         \/ result' = Err
  PROVE  ProposerInv'
<1>1. CASE result' = result /\ pc' # "idle"
  BY <1>1 DEF ProposerInv, BundlePartition, OkPassedSimulation, GasCoversOps
<1>2. CASE result' = Err
  BY <1>2, ErrIsResult DEF ProposerInv, BundlePartition, OkPassedSimulation,
    GasCoversOps
<1> QED
  BY <1>1, <1>2

\* A bundle that is returned is the list at hand, as the last simulation saw
\* it, whether that accepted it or not.
LEMMA ReturnPreserves ==
  ASSUME ProposerInv, pc = "simulate", Return(Bundle(ops)),
         UNCHANGED <<locals, picked>>,
         NEW answer \in {"success", "failed", "stray"},
         verdict' = Verdict(answer),
         answer = "failed" => attempt >= MaxRetries,
         \/ blamed' = blamed
         \/ \E e \in Entry : blamed' = Append(blamed, e)
  PROVE  ProposerInv'
<1>1. /\ ops \in Seq(Entry) /\ rejected \in Seq(Entry) /\ blamed \in Seq(Entry)
      /\ Sorted(ops) /\ Division(ops, rejected)
      /\ blamed = rejected /\ attempt = Len(rejected)
      /\ attempt \in 0..MaxRetries /\ MaxRetries \in Nat
  BY ProposerConstants DEF ProposerInv, TypeOK, LoopInv
<1>2. /\ pc' = "idle" /\ result' = Bundle(ops)
      /\ ops' = ops /\ rejected' = rejected /\ attempt' = attempt /\ picked' = picked
  BY DEF Return, locals
<1>3. /\ Bundle(ops) \in Results /\ Bundle(ops).ops = ops
      /\ Bundle(ops).rejected = rejected
      /\ GasNeeded(ops) + GasNeeded(ops) \div 20 < GasModulus =>
           Bundle(ops).gas_estimate = GasNeeded(ops) + GasNeeded(ops) \div 20
  BY <1>1, BundleCovers
<1>4. blamed' \in Seq(Entry) /\ rejected = SubSeq(blamed', 1, Len(rejected))
  <2>1. CASE blamed' = blamed
    BY <1>1, <2>1
  <2>2. ASSUME NEW e \in Entry, blamed' = Append(blamed, e)
        PROVE  blamed' \in Seq(Entry) /\ rejected = SubSeq(blamed', 1, Len(rejected))
    BY <1>1, <2>2
  <2> QED
    BY <2>1, <2>2
<1>5. TypeOK'
  BY <1>2, <1>3, <1>4 DEF ProposerInv, TypeOK, Verdict
<1>6. LoopInv' /\ Fresh'
  BY <1>2 DEF LoopInv, Fresh
<1>7. BundlePartition'
  <2>1. \A i, j \in DOMAIN ops : i < j => Before(ops[i], ops[j])
    BY <1>1 DEF Sorted
  <2> HIDE DEF Before
  <2> QED
    BY <1>1, <1>2, <1>3, <1>4, <2>1 DEF BundlePartition, Division
<1>8. OkPassedSimulation'
  BY <1>1, <1>2, <1>3 DEF OkPassedSimulation, Verdict
<1>9. GasCoversOps'
  BY <1>2, <1>3 DEF GasCoversOps
<1> QED
  BY <1>5, <1>6, <1>7, <1>8, <1>9 DEF ProposerInv

\* The operation a simulation names moves from the list to the rejected.
LEMMA FailedOpPreserves ==
  ASSUME ProposerInv, NEW idx \in Nat, FailedOp(idx)
  PROVE  ProposerInv'
<1>1. /\ ops \in Seq(Entry) /\ rejected \in Seq(Entry) /\ picked \in Seq(Entry)
      /\ Sorted(ops) /\ Division(ops, rejected)
      /\ blamed = rejected /\ attempt = Len(rejected)
      /\ attempt \in 0..MaxRetries /\ MaxRetries \in Nat
  BY ProposerConstants DEF ProposerInv, TypeOK, LoopInv, FailedOp
<1> DEFINE i == idx + 1
<1>2. i \in 1..Len(ops) /\ attempt < MaxRetries /\ pc = "simulate"
  BY <1>1 DEF FailedOp
<1>3. /\ ops' = RemoveAt(ops, i) /\ rejected' = Append(rejected, ops[i])
      /\ blamed' = Append(blamed, ops[i]) /\ attempt' = attempt + 1
      /\ picked' = picked /\ verdict' = Verdict("failed")
      /\ \/ ops' = <<>> /\ pc' = "idle" /\ result' = Err
         \/ ops' # <<>> /\ pc' = "simulate" /\ result' = result
  BY DEF FailedOp, Return
<1> HIDE DEF i
<1>4. /\ ops' \in Seq(Entry) /\ ops[i] \in Entry /\ Len(ops') = Len(ops) - 1
      /\ Sorted(ops') /\ ToSet(ops') = ToSet(ops) \ {ops[i]}
  BY <1>1, <1>2, <1>3, RemovedOne
<1>5. /\ rejected' \in Seq(Entry) /\ Len(rejected') = Len(rejected) + 1
      /\ ToSet(rejected') = ToSet(rejected) \cup {ops[i]}
  <2>1. /\ rejected' \in Seq(Entry) /\ Len(rejected') = Len(rejected) + 1
        /\ DOMAIN rejected' = 1..Len(rejected) + 1
        /\ \A n \in 1..Len(rejected) : rejected'[n] = rejected[n]
        /\ rejected'[Len(rejected) + 1] = ops[i]
        /\ Len(rejected) \in Nat /\ DOMAIN rejected = 1..Len(rejected)
    BY <1>1, <1>3, <1>4
  <2> QED
    BY <2>1 DEF ToSet
<1>6. TypeOK'
  BY <1>1, <1>2, <1>3, <1>4, <1>5, ErrIsResult DEF ProposerInv, TypeOK, Verdict
<1>7. LoopInv'
  <2>1. Division(ops, rejected)'
    <3>1. Len(ops) \in Nat /\ Len(rejected) \in Nat
      BY <1>1
    <3>2. ToSet(ops') = ToSet(picked') \ ToSet(rejected')
      BY <1>1, <1>3, <1>4, <1>5 DEF Division
    <3>3. Len(ops') + Len(rejected') = Len(ops) + Len(rejected)
      BY <1>4, <1>5, <3>1
    <3> QED
      BY <1>1, <1>3, <3>2, <3>3 DEF Division
  <2>2. blamed' = rejected' /\ attempt' = Len(rejected')
    BY <1>1, <1>3, <1>5
  <2>3. Sorted(ops)'
    BY <1>4 DEF Sorted
  <2> QED
    BY <2>1, <2>2, <2>3 DEF LoopInv
<1>8. Fresh'
  BY <1>3 DEF Fresh
<1> QED
  BY <1>3, <1>6, <1>7, <1>8, NoBundle

\* The candidates that pay the fees are in the order of the index.
LEMMA SelectPreserves ==
  ASSUME ProposerInv, Select
  PROVE  ProposerInv'
<1>1. PICK pool \in SUBSET Entry, base_fee \in BaseFee : ops' = Selection(pool, base_fee)
  BY DEF Select
<1>2. /\ picked' = ops' /\ pc = "base_fee"
      /\ UNCHANGED <<rejected, attempt, blamed, verdict>>
      /\ \/ ops' = <<>> /\ pc' = "idle" /\ result' = Err
         \/ ops' # <<>> /\ pc' = "simulate" /\ result' = result
  BY DEF Select, Return
<1>3. rejected = <<>> /\ blamed = <<>> /\ attempt = 0
  BY <1>2 DEF ProposerInv, Fresh
<1>4. ops' \in Seq(Entry) /\ Sorted(ops')
  <2> DEFINE S == {e \in BestOperations(pool, MaxBundleSize) : Covers(e, base_fee)}
  <2>1. S \subseteq Entry
    BY DEF BestOperations
  <2>2. ops' = InOrder(S)
    BY <1>1 DEF Selection
  <2> HIDE DEF S
  <2> QED
    BY <2>1, <2>2, InOrderIsSorted
<1>5. TypeOK'
  BY <1>2, <1>4, ErrIsResult DEF ProposerInv, TypeOK
<1>6. LoopInv'
  <2>1. ToSet(<<>>) = {} /\ Len(<<>>) = 0 /\ Len(ops') \in Nat
    BY <1>4 DEF ToSet
  <2>2. Division(ops, rejected)'
    BY <1>2, <1>3, <2>1 DEF Division
  <2>3. Sorted(ops)'
    BY <1>4 DEF Sorted
  <2> QED
    BY <1>2, <1>3, <2>1, <2>2, <2>3 DEF LoopInv
<1>7. Fresh'
  BY <1>2 DEF Fresh
<1> QED
  BY <1>2, <1>5, <1>6, <1>7, NoBundle

LEMMA NextProposerInv == ProposerInv /\ [Next]_vars => ProposerInv'
<1> SUFFICES ASSUME ProposerInv, [Next]_vars PROVE ProposerInv'
  OBVIOUS
<1>1. CASE UNCHANGED vars
  <2>1. /\ pc' = pc /\ ops' = ops /\ rejected' = rejected /\ attempt' = attempt
        /\ result' = result /\ picked' = picked /\ blamed' = blamed
        /\ verdict' = verdict
    BY <1>1 DEF vars
  <2>2. TypeOK'
    BY <2>1, Zenon DEF ProposerInv, TypeOK
  <2>3. LoopInv'
    BY <2>1, Zenon DEF ProposerInv, LoopInv, Sorted, Division
  <2>4. Fresh'
    BY <2>1, Zenon DEF ProposerInv, Fresh
  <2>5. BundlePartition'
    BY <2>1, Zenon DEF ProposerInv, BundlePartition
  <2>6. OkPassedSimulation'
    BY <2>1, Zenon DEF ProposerInv, OkPassedSimulation
  <2>7. GasCoversOps'
    <3>1. result' = result /\ GasCoversOps
      BY <2>1 DEF ProposerInv
    <3> QED
      BY <3>1 DEF GasCoversOps
  <2> QED
    BY <2>2, <2>3, <2>4, <2>5, <2>6, <2>7 DEF ProposerInv
<1>2. CASE MakeBundle
  <2>1. /\ pc' = "current_fees" /\ result' = result /\ verdict' = NotSimulated
        /\ ops' = <<>> /\ rejected' = <<>> /\ attempt' = 0
        /\ picked' = <<>> /\ blamed' = <<>>
    BY <1>2 DEF MakeBundle
  <2>2. result \in Results /\ 0 \in 0..MaxRetries /\ <<>> \in Seq(Entry)
    BY ProposerConstants DEF ProposerInv, TypeOK
  <2>3. NotSimulated \in [list : Seq(Entry),
                         answer : {"none", "success", "failed", "stray"}]
    BY <2>2 DEF NotSimulated
  <2>4. TypeOK'
    BY <2>1, <2>2, <2>3 DEF TypeOK
  <2>5. LoopInv' /\ Fresh'
    BY <2>1 DEF LoopInv, Fresh
  <2> QED
    BY <1>2, <2>4, <2>5, NoBundle DEF MakeBundle
<1>3. CASE FeesFetched
  <2>1. TypeOK' /\ LoopInv' /\ Fresh'
    BY <1>3 DEF FeesFetched, ProposerInv, TypeOK, LoopInv, Fresh, locals, trace
  <2> QED
    BY <1>3, <2>1, NoBundle DEF FeesFetched
<1>4. CASE Select
  BY <1>4, SelectPreserves
<1>5. CASE ProviderFails \/ SimulationReverts
  <2>1. TypeOK' /\ LoopInv' /\ Fresh'
    BY <1>5, ErrIsResult DEF ProviderFails, SimulationReverts, Return,
      ProposerInv, TypeOK, LoopInv, Fresh, locals, trace
  <2> QED
    BY <1>5, <2>1, NoBundle DEF ProviderFails, SimulationReverts, Return
<1>6. CASE SimulationSucceeds
  BY <1>6, ReturnPreserves DEF SimulationSucceeds
<1>7. ASSUME NEW idx \in Nat, FailedOp(idx) PROVE ProposerInv'
  BY <1>7, FailedOpPreserves
<1>8. ASSUME NEW idx \in Nat, GiveUp(idx) PROVE ProposerInv'
  <2>1. ops \in Seq(Entry) /\ pc = "simulate" /\ Return(Bundle(ops))
    BY <1>8 DEF GiveUp, ProposerInv, TypeOK
  <2>2. CASE idx < Len(ops)
    <3>1. ops[idx + 1] \in Entry
      BY <2>1, <2>2
    <3> QED
      BY <1>8, <2>1, <2>2, <3>1, ReturnPreserves DEF GiveUp
  <2>3. CASE ~(idx < Len(ops))
    BY <1>8, <2>1, <2>3, ReturnPreserves DEF GiveUp
  <2> QED
    BY <2>2, <2>3
<1>9. \A reply \in Reply : HandleOpsOut(reply).index \in Nat
  BY ProposerConstants
<1> QED
  BY <1>1, <1>2, <1>3, <1>4, <1>5, <1>6, <1>7, <1>8, <1>9
  DEF Next, SimulationAnswers

LEMMA ProposerInvariant == Spec => []ProposerInv
BY InitProposerInv, NextProposerInv, PTL DEF Spec

\* The locals of make_bundle keep their types, its loop ends after
\* max_retries operations were removed, and it never simulates an empty list.
THEOREM ProposerTypeCorrect == Spec => []TypeOK
<1>1. ProposerInv => TypeOK
  BY DEF ProposerInv
<1> QED
  BY <1>1, ProposerInvariant, PTL

\* A bundle and its rejected operations divide the selection: no operation is
\* lost or rejected that no simulation named, and the order of the index is
\* kept, for every pool, bundle size and number of retries.
THEOREM BundleIsPartition == Spec => []BundlePartition
<1>1. ProposerInv => BundlePartition
  BY DEF ProposerInv
<1> QED
  BY <1>1, ProposerInvariant, PTL

\* A bundle is the list the last simulation saw, and passed it but for the
\* two ways out of the loop.
THEOREM BundleWasSimulated == Spec => []OkPassedSimulation
<1>1. ProposerInv => OkPassedSimulation
  BY DEF ProposerInv
<1> QED
  BY <1>1, ProposerInvariant, PTL

\* The gas estimate of a bundle is that of the operations left in it, with a
\* twentieth to spare, as long as that fits a u64.
THEOREM GasIsCovered == Spec => []GasCoversOps
<1>1. ProposerInv => GasCoversOps
  BY DEF ProposerInv
<1> QED
  BY <1>1, ProposerInvariant, PTL

-----------------------------------------------------------------------------
(***************************************************************************)
(* The conflict detector                                                   *)
(***************************************************************************)

Writes(i, slot) == slot \in DOMAIN footprints[i] /\ footprints[i][slot] = "write"

\* Invariant: the accesses of the operation at hand are its footprint, so a
\* write is never forgotten for a read.
SlotsAreFootprint ==
  /\ wrote \subseteq DOMAIN slots
  /\ \A slot \in DOMAIN slots : slots[slot] = "write" <=> slot \in wrote

\* Invariant: accessed holds the operations that touched a slot.
AccessedIsTouched ==
  \A slot \in Slot :
    Range(accessed[slot]) = {i \in 1..Len(senders) : slot \in DOMAIN footprints[i]}

\* Invariant: written holds the last operation that wrote a slot.
WrittenIsLast ==
  \A slot \in Slot :
    /\ written[slot] # NoWriter => Writes(written[slot], slot)
    /\ \A i \in 1..Len(senders) : Writes(i, slot) => i <= written[slot]

ConflictInv ==
  ConflictTypeOK /\ SlotsAreFootprint /\ AccessedIsTouched /\ WrittenIsLast

-----------------------------------------------------------------------------
(* Facts about the operators                                               *)

\* Append adds one element to the range of a sequence.
LEMMA RangeAppend ==
  ASSUME NEW S, NEW s \in Seq(S), NEW e
  PROVE  Range(Append(s, e)) = Range(s) \cup {e}
<1>1. /\ DOMAIN Append(s, e) = 1..Len(s)+1
      /\ DOMAIN s = 1..Len(s) /\ Len(s) \in Nat
      /\ \A n \in 1..Len(s) : Append(s, e)[n] = s[n]
      /\ Append(s, e)[Len(s)+1] = e
  OBVIOUS
<1>2. DOMAIN Append(s, e) = DOMAIN s \cup {Len(s) + 1}
  BY <1>1
<1> QED
  BY <1>1, <1>2 DEF Range

\* The accesses the next operation is checked with are its footprint.
LEMMA FootprintIsSlots ==
  ASSUME ConflictTypeOK, SlotsAreFootprint
  PROVE  Footprint = slots
<1>1. PICK touched \in SUBSET Slot : slots \in [touched -> {"read", "write"}]
  BY DEF ConflictTypeOK, Accesses
<1>2. \A slot \in DOMAIN slots :
        slots[slot] = IF slot \in wrote THEN "write" ELSE "read"
  BY <1>1 DEF SlotsAreFootprint
<1> QED
  BY <1>1, <1>2 DEF Footprint

\* What check_conflicts compares with, in terms of footprints: an operation
\* it names did touch a slot that one of the two writes.
LEMMA ReportsReal ==
  ASSUME ConflictInv, NEW sender \in Sender
  PROVE  CheckConflicts(sender, slots) \subseteq RealConflicts(sender)
<1>1. Footprint = slots
  BY FootprintIsSlots DEF ConflictInv
<1>2. PICK touched \in SUBSET Slot : slots \in [touched -> {"read", "write"}]
  BY DEF ConflictInv, ConflictTypeOK, Accesses
<1>3. DOMAIN senders = 1..Len(senders)
  BY DEF ConflictInv, ConflictTypeOK
<1> SUFFICES ASSUME NEW i \in CheckConflicts(sender, slots)
             PROVE  i \in RealConflicts(sender)
  OBVIOUS
<1>4. senders[i] # sender
  BY DEF CheckConflicts
<1>5. PICK slot \in DOMAIN slots :
        \/ slots[slot] = "write" /\ i \in Range(accessed[slot])
        \/ slots[slot] # "write" /\ i = written[slot] /\ i # NoWriter
  BY DEF CheckConflicts, Range
<1>6. slot \in Slot
  BY <1>2, <1>5
<1>7. CASE slots[slot] = "write" /\ i \in Range(accessed[slot])
  <2>1. i \in 1..Len(senders) /\ slot \in DOMAIN footprints[i]
    BY <1>6, <1>7 DEF ConflictInv, AccessedIsTouched
  <2> QED
    BY <1>1, <1>3, <1>4, <1>5, <1>7, <2>1 DEF RealConflicts, Clashes
<1>8. CASE slots[slot] # "write" /\ i = written[slot] /\ i # NoWriter
  <2>1. i \in 1..Len(senders)
    BY <1>6, <1>8 DEF ConflictInv, ConflictTypeOK, NoWriter
  <2>2. Writes(i, slot)
    BY <1>6, <1>8 DEF ConflictInv, WrittenIsLast
  <2> QED
    BY <1>1, <1>3, <1>4, <1>5, <2>1, <2>2 DEF RealConflicts, Clashes, Writes
<1> QED
  BY <1>5, <1>7, <1>8

\* A rival is named, or the last writer of the slot is, which is then of the
\* same sender: two writers of one slot do not commute.
LEMMA RivalIsNamed ==
  ASSUME ConflictInv, AddedCommute, clean,
         NEW sender \in Sender, NEW i \in RealConflicts(sender)
  PROVE  \E j \in CheckConflicts(sender, slots) : senders[j] = senders[i]
<1>1. Footprint = slots
  BY FootprintIsSlots DEF ConflictInv
<1>2. PICK touched \in SUBSET Slot : slots \in [touched -> {"read", "write"}]
  BY DEF ConflictInv, ConflictTypeOK, Accesses
<1>3. DOMAIN senders = 1..Len(senders) /\ Len(senders) \in Nat
  BY DEF ConflictInv, ConflictTypeOK
<1>4. i \in 1..Len(senders) /\ senders[i] # sender
  BY <1>3 DEF RealConflicts
<1>5. PICK slot \in DOMAIN footprints[i] \cap DOMAIN slots :
        "write" \in {footprints[i][slot], slots[slot]}
  BY <1>1 DEF RealConflicts, Clashes
<1>6. slot \in Slot
  BY <1>2, <1>5
<1>7. CASE slots[slot] = "write"
  <2>1. i \in Range(accessed[slot])
    BY <1>4, <1>5, <1>6 DEF ConflictInv, AccessedIsTouched
  <2>2. i \in CheckConflicts(sender, slots)
    BY <1>4, <1>5, <1>7, <2>1 DEF CheckConflicts, Range
  <2> QED
    BY <2>2
<1>8. CASE slots[slot] # "write"
  <2> DEFINE j == written[slot]
  <2>1. Writes(i, slot)
    BY <1>5, <1>8 DEF Writes
  <2>2. j \in 0..Len(senders) /\ i <= j
    BY <1>4, <1>6, <2>1 DEF ConflictInv, ConflictTypeOK, WrittenIsLast
  <2>3. j \in 1..Len(senders) /\ j # NoWriter
    BY <1>3, <1>4, <2>2 DEF NoWriter
  <2>4. Writes(j, slot)
    BY <1>6, <2>3 DEF ConflictInv, WrittenIsLast
  <2>5. senders[j] = senders[i]
    BY <1>3, <1>4, <2>1, <2>3, <2>4 DEF AddedCommute, Clashes, Writes
  <2>6. j \in CheckConflicts(sender, slots)
    BY <1>4, <1>5, <1>8, <2>3, <2>5 DEF CheckConflicts
  <2> QED
    BY <2>5, <2>6
<1> QED
  BY <1>7, <1>8

\* So each sender in conflict is named: FindsEveryRival follows from the
\* invariant and AddedCommute.
LEMMA RivalsAreFound ==
  ASSUME ConflictInv, AddedCommute
  PROVE  FindsEveryRival
<1> SUFFICES ASSUME clean, NEW sender \in Sender
             PROVE  {senders[i] : i \in RealConflicts(sender)}
                      = {senders[i] : i \in CheckConflicts(sender, slots)}
  BY DEF FindsEveryRival
<1>1. CheckConflicts(sender, slots) \subseteq RealConflicts(sender)
  BY ReportsReal
<1>2. \A i \in RealConflicts(sender) :
        \E j \in CheckConflicts(sender, slots) : senders[j] = senders[i]
  BY RivalIsNamed
<1> QED
  BY <1>1, <1>2

-----------------------------------------------------------------------------
(* The invariant                                                           *)

\* An empty detector satisfies it.
LEMMA InitConflictInv == ConflictInit => ConflictInv /\ AddedCommute
<1> SUFFICES ASSUME ConflictInit PROVE ConflictInv /\ AddedCommute
  OBVIOUS
<1> USE DEF ConflictInit, NoAccess, NoWriter
<1>1. [slot \in {} |-> "read"] \in [{} -> {"read", "write"}]
  OBVIOUS
<1>2. slots \in Accesses
  BY <1>1 DEF Accesses
<1>3. Len(senders) = 0 /\ DOMAIN senders = {}
  OBVIOUS
<1>4. ConflictTypeOK
  BY <1>2, <1>3, ConflictConstants DEF ConflictTypeOK
<1>5. AccessedIsTouched
  BY <1>3 DEF AccessedIsTouched, Range
<1>6. SlotsAreFootprint /\ WrittenIsLast /\ AddedCommute
  BY <1>3 DEF SlotsAreFootprint, WrittenIsLast, AddedCommute
<1> QED
  BY <1>4, <1>5, <1>6 DEF ConflictInv

\* A recorded access keeps the invariant: it changes slots and wrote only.
LEMMA TouchPreserves ==
  ASSUME ConflictInv, NEW slot \in Slot, NEW kind \in {"read", "write"},
         Touch(slot, kind),
         kind = "write" => wrote' = wrote \cup {slot},
         kind = "read" => UNCHANGED wrote /\ slot \notin wrote,
         UNCHANGED detector
  PROVE  ConflictInv'
<1>1. PICK touched \in SUBSET Slot : slots \in [touched -> {"read", "write"}]
  BY DEF ConflictInv, ConflictTypeOK, Accesses
<1>2. slots' \in [touched \cup {slot} -> {"read", "write"}]
  BY <1>1 DEF Touch
<1>a. touched \cup {slot} \in SUBSET Slot
  OBVIOUS
<1>b. slots' \in Accesses
  BY <1>2, <1>a DEF Accesses
<1>3. slots' \in Accesses /\ wrote' \subseteq Slot
  BY <1>b DEF ConflictInv, ConflictTypeOK
<1>4. SlotsAreFootprint'
  BY <1>1 DEF ConflictInv, SlotsAreFootprint, Touch
<1>5. ConflictTypeOK' /\ AccessedIsTouched' /\ WrittenIsLast'
  BY <1>3 DEF ConflictInv, ConflictTypeOK, AccessedIsTouched, WrittenIsLast,
    Writes, detector
<1> QED
  BY <1>4, <1>5 DEF ConflictInv

\* A sequence over a set is one over any larger set.
LEMMA SeqOverLarger ==
  ASSUME NEW S, NEW T, S \subseteq T, NEW s \in Seq(S)
  PROVE  s \in Seq(T)
<1>1. s \in [1..Len(s) -> S] /\ Len(s) \in Nat
  OBVIOUS
<1>2. s \in [1..Len(s) -> T]
  BY <1>1
<1> QED
  BY <1>1, <1>2

\* add_operation: the new index is the largest, in both maps.
LEMMA AddPreserves ==
  ASSUME ConflictInv, NEW sender \in Sender, AddOperation(sender)
  PROVE  ConflictInv'
<1> DEFINE idx == Len(senders) + 1
<1>1. Footprint = slots
  BY FootprintIsSlots DEF ConflictInv
<1>2. PICK touched \in SUBSET Slot : slots \in [touched -> {"read", "write"}]
  BY DEF ConflictInv, ConflictTypeOK, Accesses
<1>3. /\ Len(senders) \in Nat /\ Len(footprints) = Len(senders)
      /\ senders \in Seq(Sender) /\ footprints \in Seq(Accesses)
      /\ accessed \in [Slot -> Seq(1..Len(senders))]
      /\ written \in [Slot -> 0..Len(senders)]
  BY DEF ConflictInv, ConflictTypeOK
<1>4. /\ idx <= MaxAdded
      /\ senders' = Append(senders, sender)
      /\ accessed' = [slot \in Slot |->
           IF slot \in DOMAIN slots THEN Append(accessed[slot], idx) ELSE accessed[slot]]
      /\ written' = [slot \in Slot |->
           IF slot \in DOMAIN slots /\ slots[slot] = "write" THEN idx ELSE written[slot]]
      /\ footprints' = Append(footprints, slots)
      /\ slots' = NoAccess /\ wrote' = {}
      /\ clean' = (clean /\ CheckConflicts(sender, slots) = {})
  BY <1>1 DEF AddOperation
<1>5. /\ senders' \in Seq(Sender) /\ Len(senders') = idx
      /\ footprints' \in Seq(Accesses) /\ Len(footprints') = idx
      /\ footprints'[idx] = slots
      /\ \A i \in 1..Len(senders) : footprints'[i] = footprints[i]
  BY <1>3, <1>4 DEF ConflictInv, ConflictTypeOK
<1>6. ConflictTypeOK'
  <2>1. slots' \in Accesses
    <3>1. NoAccess \in [{} -> {"read", "write"}]
      BY DEF NoAccess
    <3> QED
      BY <1>4, <3>1 DEF Accesses
  <2>2. accessed' \in [Slot -> Seq(1..idx)]
    <3> SUFFICES ASSUME NEW slot \in Slot PROVE accessed'[slot] \in Seq(1..idx)
      BY <1>4
    <3>1. accessed[slot] \in Seq(1..idx) /\ idx \in 1..idx
      BY <1>3, SeqOverLarger, 1..Len(senders) \subseteq 1..idx
    <3>2. Append(accessed[slot], idx) \in Seq(1..idx)
      BY <3>1
    <3> QED
      BY <1>4, <3>1, <3>2
  <2>3. written' \in [Slot -> 0..idx]
    BY <1>3, <1>4
  <2>4. clean' \in BOOLEAN /\ wrote' \subseteq Slot
    BY <1>4
  <2> QED
    BY <1>4, <1>5, <2>1, <2>2, <2>3, <2>4 DEF ConflictTypeOK
<1>7. SlotsAreFootprint'
  BY <1>4 DEF SlotsAreFootprint, NoAccess
<1>8. AccessedIsTouched'
  <2> SUFFICES ASSUME NEW slot \in Slot
               PROVE  Range(accessed'[slot])
                        = {i \in 1..idx : slot \in DOMAIN footprints'[i]}
    BY <1>5 DEF AccessedIsTouched
  <2>1. Range(accessed[slot]) = {i \in 1..Len(senders) : slot \in DOMAIN footprints[i]}
    BY DEF ConflictInv, AccessedIsTouched
  <2>2. 1..idx = 1..Len(senders) \cup {idx}
    BY <1>3
  <2>3. {i \in 1..Len(senders) : slot \in DOMAIN footprints'[i]}
          = {i \in 1..Len(senders) : slot \in DOMAIN footprints[i]}
    BY <1>5
  <2>4. CASE slot \in DOMAIN slots
    <3>1. Range(accessed'[slot]) = Range(accessed[slot]) \cup {idx}
      BY <1>3, <1>4, <2>4, RangeAppend
    <3> QED
      BY <1>5, <2>1, <2>2, <2>3, <2>4, <3>1
  <2>5. CASE slot \notin DOMAIN slots
    BY <1>4, <1>5, <2>1, <2>2, <2>3, <2>5
  <2> QED
    BY <2>4, <2>5
<1>9. WrittenIsLast'
  <2> SUFFICES ASSUME NEW slot \in Slot
               PROVE  /\ written'[slot] # NoWriter => Writes(written[slot], slot)'
                      /\ \A i \in 1..idx : Writes(i, slot)' => i <= written'[slot]
    BY <1>5 DEF WrittenIsLast
  <2>1. \A i \in 1..Len(senders) : Writes(i, slot)' <=> Writes(i, slot)
    BY <1>5 DEF Writes
  <2>2. \A i \in 1..idx : i = idx =>
          (Writes(i, slot)' <=> slot \in DOMAIN slots /\ slots[slot] = "write")
    BY <1>3, <1>5 DEF Writes
  <2>3. /\ written[slot] \in 0..Len(senders)
        /\ written[slot] # NoWriter => Writes(written[slot], slot)
        /\ \A i \in 1..Len(senders) : Writes(i, slot) => i <= written[slot]
    BY <1>3 DEF ConflictInv, WrittenIsLast
  <2>4. CASE slot \in DOMAIN slots /\ slots[slot] = "write"
    <3>1. written'[slot] = idx
      BY <1>4, <2>4
    <3> QED
      BY <1>3, <1>5, <2>4, <3>1 DEF Writes
  <2>5. CASE ~(slot \in DOMAIN slots /\ slots[slot] = "write")
    <3>1. written'[slot] = written[slot]
      BY <1>4, <2>5
    <3>2. \A i \in 1..idx : Writes(i, slot)' => i \in 1..Len(senders) /\ Writes(i, slot)
      BY <1>3, <2>1, <2>2, <2>5
    <3>3. written[slot] # NoWriter => Writes(written[slot], slot)'
      BY <1>3, <1>5, <2>1, <2>3, <3>1 DEF Writes, NoWriter
    <3> QED
      BY <2>3, <3>1, <3>2, <3>3
  <2> QED
    BY <2>4, <2>5
<1> QED
  BY <1>6, <1>7, <1>8, <1>9 DEF ConflictInv

\* An operation added without conflict commutes with every one before.
LEMMA AddKeepsCommuting ==
  ASSUME ConflictInv, AddedCommute, NEW sender \in Sender, AddOperation(sender)
  PROVE  AddedCommute'
<1> DEFINE idx == Len(senders) + 1
<1> SUFFICES ASSUME clean'
             PROVE  \A i, j \in DOMAIN senders' :
               senders'[i] # senders'[j] => ~ Clashes(footprints'[i], footprints'[j])
  BY DEF AddedCommute
<1>1. /\ Len(senders) \in Nat /\ Len(footprints) = Len(senders)
      /\ senders \in Seq(Sender) /\ footprints \in Seq(Accesses)
  BY DEF ConflictInv, ConflictTypeOK
<1>2. /\ senders' = Append(senders, sender)
      /\ footprints' = Append(footprints, Footprint)
      /\ clean /\ CheckConflicts(sender, slots) = {}
  BY DEF AddOperation
<1>3. /\ DOMAIN senders = 1..Len(senders)
      /\ DOMAIN senders' = 1..idx
      /\ senders'[idx] = sender /\ footprints'[idx] = Footprint
      /\ \A i \in 1..Len(senders) : /\ senders'[i] = senders[i]
                                    /\ footprints'[i] = footprints[i]
  BY <1>1, <1>2
<1>4. RealConflicts(sender) = {}
  BY <1>2, RivalIsNamed
<1>5. \A i \in 1..Len(senders) :
        senders[i] # sender => /\ ~ Clashes(footprints[i], Footprint)
                               /\ ~ Clashes(Footprint, footprints[i])
  BY <1>3, <1>4 DEF RealConflicts, Clashes
<1>6. \A i, j \in 1..Len(senders) :
        senders[i] # senders[j] => ~ Clashes(footprints[i], footprints[j])
  BY <1>2, <1>3 DEF AddedCommute
<1>7. \A i \in 1..idx : i \in 1..Len(senders) \/ i = idx
  BY <1>1
<1> QED
  BY <1>3, <1>5, <1>6, <1>7

\* One step per operation of the detector
LEMMA NextConflictInv ==
  ConflictInv /\ AddedCommute /\ [ConflictNext]_conflict_vars
    => ConflictInv' /\ AddedCommute'
<1> SUFFICES ASSUME ConflictInv, AddedCommute, [ConflictNext]_conflict_vars
             PROVE  ConflictInv' /\ AddedCommute'
  OBVIOUS
<1>1. ASSUME NEW slot \in Slot, RecordRead(slot)
      PROVE  ConflictInv' /\ AddedCommute'
  <2> DEFINE kind == IF slot \in DOMAIN slots THEN slots[slot] ELSE "read"
  <2>1. kind \in {"read", "write"}
    BY DEF ConflictInv, ConflictTypeOK, Accesses
  <2>2. /\ kind = "write" => wrote' = wrote \cup {slot}
        /\ kind = "read" => UNCHANGED wrote /\ slot \notin wrote
    BY <1>1 DEF RecordRead, ConflictInv, SlotsAreFootprint
  <2>3. Touch(slot, kind) /\ UNCHANGED detector
    BY <1>1 DEF RecordRead
  <2>4. ConflictInv'
    BY <2>1, <2>2, <2>3, TouchPreserves
  <2> QED
    BY <2>3, <2>4 DEF AddedCommute, detector
<1>2. ASSUME NEW slot \in Slot, RecordWrite(slot)
      PROVE  ConflictInv' /\ AddedCommute'
  <2>1. ConflictInv'
    BY <1>2, TouchPreserves DEF RecordWrite
  <2> QED
    BY <1>2, <2>1 DEF AddedCommute, detector, RecordWrite
<1>3. ASSUME NEW sender \in Sender, AddOperation(sender)
      PROVE  ConflictInv' /\ AddedCommute'
  BY <1>3, AddPreserves, AddKeepsCommuting
<1>4. ASSUME ResetDetector
      PROVE  ConflictInv' /\ AddedCommute'
  <2>1. Len(senders') = 0 /\ DOMAIN senders' = {} /\ Len(footprints') = 0
    BY <1>4 DEF ResetDetector
  <2>2. ConflictTypeOK'
    BY <1>4, <2>1, ConflictConstants
    DEF ResetDetector, ConflictInv, ConflictTypeOK, NoWriter
  <2>3. SlotsAreFootprint'
    BY <1>4 DEF ResetDetector, ConflictInv, SlotsAreFootprint
  <2>4. AccessedIsTouched'
    BY <1>4, <2>1 DEF ResetDetector, AccessedIsTouched, Range
  <2>5. WrittenIsLast' /\ AddedCommute'
    BY <1>4, <2>1 DEF ResetDetector, WrittenIsLast, AddedCommute, NoWriter
  <2> QED
    BY <2>2, <2>3, <2>4, <2>5 DEF ConflictInv
<1>5. CASE UNCHANGED conflict_vars
  BY <1>5 DEF conflict_vars, ConflictInv, ConflictTypeOK, SlotsAreFootprint,
     AccessedIsTouched, WrittenIsLast, Writes, AddedCommute
<1> QED
  BY <1>1, <1>2, <1>3, <1>4, <1>5 DEF ConflictNext

-----------------------------------------------------------------------------
(* Theorems                                                                *)

\* The maps of the detector keep their types, for any number of operations
\* added between two resets.
THEOREM DetectorTypeCorrect == ConflictSpec => []ConflictTypeOK
<1>1. ConflictInv => ConflictTypeOK
  BY DEF ConflictInv
<1> QED
  BY <1>1, InitConflictInv, NextConflictInv, PTL DEF ConflictSpec

\* check_conflicts never keeps an operation out of a bundle without reason.
THEOREM NamesOnlyConflicts == ConflictSpec => []ReportsOnlyConflicts
<1>1. ConflictInv => ReportsOnlyConflicts
  BY ReportsReal DEF ReportsOnlyConflicts
<1> QED
  BY <1>1, InitConflictInv, NextConflictInv, PTL DEF ConflictSpec

\* The last writer of a slot stands for all of them.
THEOREM NamesEveryRival == ConflictSpec => []FindsEveryRival
<1> QED
  BY RivalsAreFound, InitConflictInv, NextConflictInv, PTL DEF ConflictSpec

\* check_conflicts is exact.
THEOREM NamesExactlyRivals == ConflictSpec => []DetectorIsExact
<1>1. ReportsOnlyConflicts /\ FindsEveryRival => DetectorIsExact
  BY DEF DetectorIsExact
<1> QED
  BY <1>1, NamesOnlyConflicts, NamesEveryRival, PTL

\* What was added without conflict may be executed in any order.
THEOREM BundlesCommute == ConflictSpec => []AddedCommute
<1> QED
  BY InitConflictInv, NextConflictInv, PTL DEF ConflictSpec

===============================================================================
