-------------------------- MODULE AdmissionProofs --------------------------
(***************************************************************************)
(* Theorems about Admission, for any number of RPC threads and operations. *)
(***************************************************************************)
EXTENDS Admission, FiniteSetTheorems, FunctionTheorems, TLAPS

(***************************************************************************)
(* Counting.  Everything the properties count is a family of finite sets,  *)
(* one for each thread or operation.                                       *)
(***************************************************************************)

\* The disjoint union of the sets A[x].
Pairs(X, A) == UNION {{x} \X A[x] : x \in X}

LEMMA PairsFinite ==
  ASSUME NEW X, IsFiniteSet(X), NEW A, \A x \in X : IsFiniteSet(A[x])
  PROVE  IsFiniteSet(Pairs(X, A)) /\ Cardinality(Pairs(X, A)) \in Nat
<1> DEFINE Part == {{x} \X A[x] : x \in X}
           f == [x \in X |-> {x} \X A[x]]
<1>1. f \in Surjection(X, Part)
  BY DEF Surjection
<1>2. \A P \in Part : IsFiniteSet(P)
  <2>1. \A x \in X : IsFiniteSet({x} \X A[x])
    BY FS_Singleton, FS_Product
  <2> QED
    BY <2>1
<1> HIDE DEF f, Part
<1>3. IsFiniteSet(Part)
  BY <1>1, FS_Surjection
<1>4. IsFiniteSet(UNION Part)
  BY <1>2, <1>3, FS_UNION
<1> QED
  BY <1>4, FS_CardinalityType DEF Pairs, Part

LEMMA PairsSplit ==
  ASSUME NEW X, IsFiniteSet(X), NEW A, \A x \in X : IsFiniteSet(A[x]),
         NEW w \in X
  PROVE  /\ Cardinality(Pairs(X, A)) =
              Cardinality(Pairs(X \ {w}, A)) + Cardinality(A[w])
         /\ Cardinality(Pairs(X \ {w}, A)) \in Nat
         /\ Cardinality(A[w]) \in Nat
<1> DEFINE P == Pairs(X \ {w}, A)
           Q == {w} \X A[w]
<1>1. Pairs(X, A) = P \cup Q
  BY DEF Pairs
<1>2. P \cap Q = {}
  BY DEF Pairs
<1>3. IsFiniteSet(P) /\ Cardinality(P) \in Nat
  BY PairsFinite, FS_RemoveElement
<1>4. /\ IsFiniteSet(Q) /\ Cardinality(Q) = Cardinality({w}) * Cardinality(A[w])
      /\ Cardinality({w}) = 1 /\ Cardinality(A[w]) \in Nat
  BY FS_Singleton, FS_Product, FS_CardinalityType
<1> HIDE DEF P, Q
<1>5. Cardinality(P \cup Q) = Cardinality(P) + Cardinality(Q) - Cardinality(P \cap Q)
  BY <1>3, <1>4, FS_Union
<1>6. Cardinality(P \cap Q) = 0
  BY <1>2, FS_EmptySet
<1> QED
  BY <1>1, <1>3, <1>4, <1>5, <1>6 DEF P

\* Two families that differ in one set differ in size by that set.
LEMMA PairsUpdate ==
  ASSUME NEW X, IsFiniteSet(X), NEW A, NEW B,
         \A x \in X : IsFiniteSet(A[x]) /\ IsFiniteSet(B[x]),
         NEW w \in X, \A x \in X \ {w} : B[x] = A[x]
  PROVE  /\ Cardinality(Pairs(X, B)) + Cardinality(A[w])
              = Cardinality(Pairs(X, A)) + Cardinality(B[w])
         /\ Cardinality(Pairs(X, A)) \in Nat /\ Cardinality(Pairs(X, B)) \in Nat
         /\ Cardinality(A[w]) \in Nat /\ Cardinality(B[w]) \in Nat
<1>1. Pairs(X \ {w}, A) = Pairs(X \ {w}, B)
  BY DEF Pairs
<1>2. /\ Cardinality(Pairs(X, A)) =
           Cardinality(Pairs(X \ {w}, A)) + Cardinality(A[w])
      /\ Cardinality(Pairs(X \ {w}, A)) \in Nat
      /\ Cardinality(A[w]) \in Nat
  BY PairsSplit
<1>3. /\ Cardinality(Pairs(X, B)) =
           Cardinality(Pairs(X \ {w}, B)) + Cardinality(B[w])
      /\ Cardinality(B[w]) \in Nat
  BY PairsSplit
<1> QED
  BY <1>1, <1>2, <1>3

\* A smaller family has no more elements.
LEMMA PairsSubset ==
  ASSUME NEW X, IsFiniteSet(X), NEW A, NEW B,
         \A x \in X : IsFiniteSet(A[x]) /\ B[x] \subseteq A[x]
  PROVE  /\ Cardinality(Pairs(X, B)) <= Cardinality(Pairs(X, A))
         /\ Cardinality(Pairs(X, A)) \in Nat /\ Cardinality(Pairs(X, B)) \in Nat
<1>1. IsFiniteSet(Pairs(X, A))
  BY PairsFinite
<1>2. Pairs(X, B) \in SUBSET Pairs(X, A)
  BY DEF Pairs
<1> QED
  BY <1>1, <1>2, FS_Subset, FS_CardinalityType

\* Equal families are of equal size, and a family of empty sets is empty.
LEMMA PairsEqual ==
  ASSUME NEW X, NEW A, NEW B, \A x \in X : B[x] = A[x]
  PROVE  Pairs(X, B) = Pairs(X, A)
BY DEF Pairs

LEMMA PairsEmpty ==
  ASSUME NEW X, NEW A, \A x \in X : A[x] = {}
  PROVE  Cardinality(Pairs(X, A)) = 0
<1>1. Pairs(X, A) = {}
  BY DEF Pairs
<1> QED
  BY <1>1, FS_EmptySet

\* Families of sets of at most n elements.
LEMMA PairsBound ==
  ASSUME NEW X, IsFiniteSet(X), NEW n \in Nat, NEW A,
         \A x \in X : IsFiniteSet(A[x]) /\ Cardinality(A[x]) <= n
  PROVE  Cardinality(Pairs(X, A)) <= Cardinality(X) * n
<1>1. \A x \in X : \E g : g \in Injection(A[x], 1..n)
  <2> SUFFICES ASSUME NEW x \in X PROVE \E g : g \in Injection(A[x], 1..n)
    OBVIOUS
  <2> DEFINE k == Cardinality(A[x])
  <2>1. k \in Nat /\ ExistsBijection(1..k, A[x]) /\ k <= n
    BY FS_CardinalityType
  <2> HIDE DEF k
  <2>2. PICK g : g \in Bijection(A[x], 1..k)
    BY <2>1, Fun_ExistsBijSymmetric DEF ExistsBijection
  <2>3. g \in Injection(A[x], 1..n)
    BY <2>1, <2>2 DEF Bijection, Injection, IsInjective
  <2> QED
    BY <2>3
<1> DEFINE G == [x \in X |-> CHOOSE g : g \in Injection(A[x], 1..n)]
<1>2. \A x \in X : G[x] \in Injection(A[x], 1..n)
  BY <1>1
<1> HIDE DEF G
<1> DEFINE P == Pairs(X, A)
           f == [p \in P |-> <<p[1], G[p[1]][p[2]]>>]
<1>3. \A p \in P : p[1] \in X /\ p[2] \in A[p[1]] /\ p = <<p[1], p[2]>>
  BY DEF Pairs
<1> HIDE DEF P
<1>4. \A x \in X : /\ \A y \in A[x] : G[x][y] \in 1..n
                   /\ \A y, z \in A[x] : G[x][y] = G[x][z] => y = z
  BY <1>2 DEF Injection, IsInjective
<1>5. f \in [P -> X \X (1..n)]
  BY <1>3, <1>4
<1>6. \A p, q \in P : f[p] = f[q] => p = q
  BY <1>3, <1>4
<1>7. f \in Injection(P, X \X (1..n))
  BY <1>5, <1>6 DEF Injection, IsInjective
<1>8. /\ IsFiniteSet(1..n) /\ Cardinality(1..n) = n
  BY FS_Interval
<1>9. /\ IsFiniteSet(X \X (1..n))
      /\ Cardinality(X \X (1..n)) = Cardinality(X) * n
  BY <1>8, FS_Product
<1> HIDE DEF f
<1> QED
  BY <1>7, <1>9, FS_Injection DEF P

-----------------------------------------------------------------------------
(* Types                                                                   *)

\* TypeOK with the types of the loop index and of the history, and with the
\* loop index at its start wherever no loop is running.
TypeInv ==
  /\ TypeOK
  /\ step \in [Thread -> Nat]
  /\ \A t \in Thread :
       pc[t] \in {"idle", "known_id", "max_sequence", "add"} => step[t] = 1
  /\ decays \in Nat

\* What a step moves between two of the counts, as plain arithmetic.
LEMMA MovesOne ==
  ASSUME NEW x \in Nat, NEW x1 \in Nat, NEW u \in Nat, NEW u1 \in Nat,
         x1 + u = x + u1
  PROVE  (u1 = u + 1 => x1 = x + 1) /\ (u1 = u - 1 => x1 = x - 1)
OBVIOUS

LEMMA AddsNone == \A x, y \in Nat : x + 0 = x /\ (x + 0 = y + 0 => x = y)
OBVIOUS

\* entities() of an operation is a sequence that is not empty, and a mention
\* is a position of it.
LEMMA Entities ==
  ASSUME NEW u \in UserOp
  PROVE  /\ u # None
         /\ u.entities \in Seq(Entity) /\ Len(u.entities) \in Nat \ {0}
         /\ DOMAIN u.entities = 1..Len(u.entities)
         /\ \A i \in DOMAIN u.entities : u.entities[i] \in Entity
         /\ 1 \in DOMAIN u.entities
<1>1. u # None /\ u.entities \in Seq(Entity) /\ u.entities # <<>>
  BY AdmissionConstants
<1> HIDE DEF Entity
<1> DEFINE s == u.entities
<1>2. s \in Seq(Entity) /\ s # <<>>
  BY <1>1
<1> HIDE DEF s
<1>3. /\ Len(s) \in Nat \ {0} /\ DOMAIN s = 1..Len(s)
      /\ \A i \in DOMAIN s : s[i] \in Entity
  BY <1>2
<1> QED
  BY <1>1, <1>3 DEF s

LEMMA InitTypeInv == Init => TypeInv
<1> SUFFICES ASSUME Init PROVE TypeInv
  OBVIOUS
<1>1. pool = {}
  BY DEF Init, Mempool!Init
<1> QED
  BY <1>1 DEF Init, TypeInv, TypeOK

\* An iteration of the second loop moves one thread, to its next entity or out
\* of the loop at its last one.
LEMMA RecordSeenMoves ==
  ASSUME TypeInv, NEW t \in Thread, RecordSeen(t)
  PROVE  /\ included' = included /\ pc[t] = "seen" /\ uo' = uo /\ pool' = pool
         /\ crediting' = crediting /\ validated' = validated
         /\ \A r \in Thread \ {t} : /\ pc'[r] = pc[r] /\ uo'[r] = uo[r]
                                    /\ step'[r] = step[r]
         /\ uo[t] \in UserOp /\ uo[t] # None /\ step[t] \in 1..Len(uo[t].entities)
         /\ \/ pc'[t] = "add" /\ AtLast(t)
            \/ pc'[t] = "seen" /\ step'[t] = step[t] + 1
<1>1. /\ included' = included /\ pc[t] = "seen" /\ pool' = pool
      /\ crediting' = crediting /\ validated' = validated
      /\ (AtLast(t) /\ Loop(t, "add")) \/ NextEntity(t)
  BY DEF RecordSeen, history
<1>2. uo[t] \in UserOp /\ uo[t] # None /\ step[t] \in DOMAIN uo[t].entities
  BY <1>1 DEF TypeInv, TypeOK
<1>3. step[t] \in 1..Len(uo[t].entities)
  BY <1>2, Entities
<1>4. DOMAIN pc = Thread /\ DOMAIN step = Thread
  BY DEF TypeInv, TypeOK
<1>5. CASE AtLast(t) /\ Loop(t, "add")
  BY <1>1, <1>2, <1>3, <1>4, <1>5 DEF Loop
<1>6. CASE NextEntity(t)
  BY <1>1, <1>2, <1>3, <1>4, <1>6 DEF NextEntity
<1> QED
  BY <1>1, <1>5, <1>6

\* Every step keeps the types; a thread leaves a loop at its last entity.
LEMMA StepTypeInv ==
  ASSUME TypeInv, [Next]_vars
  PROVE  TypeInv'
<1> USE DEF TypeInv, TypeOK, request, bounds, history
<1> HIDE DEF Entity
<1>1. CASE UNCHANGED vars
  BY <1>1 DEF vars
<1>2. ASSUME NEW t \in Thread, NEW u \in UserOp, SendUserOperation(t, u)
      PROVE  TypeInv'
  <2>1. /\ pc[t] = "idle" /\ step[t] = 1 /\ 1 \in DOMAIN u.entities /\ u # None
        /\ UNCHANGED <<pool, seen, included, step, crediting, decays, validated>>
    BY <1>2, Entities DEF SendUserOperation
  <2>2. CASE UNCHANGED <<pc, uo>>
    BY <2>1, <2>2
  <2>3. CASE pc' = [pc EXCEPT ![t] = "known_id"] /\ uo' = [uo EXCEPT ![t] = u]
    <3>1. /\ pc' \in [Thread -> {"idle", "known_id", "max_sequence", "check", "seen",
                               "add"}]
          /\ uo' \in [Thread -> UserOp \cup {None}]
      BY <2>3
    <3>2. pc'[t] = "known_id" /\ uo'[t] = u
      BY <2>3
    <3>3. \A r \in Thread \ {t} : pc'[r] = pc[r] /\ uo'[r] = uo[r]
      BY <2>3
    <3> QED
      BY <2>1, <3>1, <3>2, <3>3
  <2> QED
    BY <1>2, <2>2, <2>3 DEF SendUserOperation
<1>3. ASSUME NEW t \in Thread, LookUpId(t) PROVE TypeInv'
  <2>1. /\ pc[t] = "known_id" /\ step[t] = 1 /\ 1 \in DOMAIN uo[t].entities
        /\ uo[t] # None
    BY <1>3, Entities DEF LookUpId
  <2>2. UNCHANGED <<pool, seen, included, crediting, decays, validated, uo>>
    BY <1>3 DEF LookUpId, Loop, Goto
  <2>3. \/ pc' = [pc EXCEPT ![t] = "check"] /\ step' = [step EXCEPT ![t] = 1]
        \/ pc' = [pc EXCEPT ![t] = "max_sequence"] /\ step' = step
    BY <1>3 DEF LookUpId, Loop, Goto
  <2>4. CASE pc' = [pc EXCEPT ![t] = "check"] /\ step' = [step EXCEPT ![t] = 1]
    BY <2>1, <2>2, <2>4
  <2>5. CASE pc' = [pc EXCEPT ![t] = "max_sequence"] /\ step' = step
    BY <2>1, <2>2, <2>5
  <2> QED
    BY <2>3, <2>4, <2>5
<1>4. ASSUME NEW t \in Thread, CheckSequence(t) PROVE TypeInv'
  BY <1>4, Entities DEF CheckSequence, Loop, Respond
<1>5. ASSUME NEW t \in Thread, CheckEntity(t) PROVE TypeInv'
  <2>1. /\ pc[t] = "check" /\ uo[t] \in UserOp /\ uo[t] # None
        /\ step[t] \in 1..Len(uo[t].entities)
    BY <1>5, Entities DEF CheckEntity
  <2>2. CASE Respond(t) /\ UNCHANGED validated
    BY <1>5, <2>2 DEF CheckEntity, Respond
  <2>3. CASE ~AtLast(t) /\ NextEntity(t) /\ UNCHANGED validated
    <3>1. step[t] + 1 \in DOMAIN uo[t].entities /\ step[t] + 1 \in Nat
      BY <2>1, <2>3, Entities DEF AtLast
    <3> QED
      BY <1>5, <2>1, <2>3, <3>1 DEF CheckEntity, NextEntity
  <2>4. CASE Loop(t, "seen") /\ validated' = [validated EXCEPT ![uo[t]] = @ + 1]
    BY <1>5, <2>1, <2>4, Entities DEF CheckEntity, Loop
  <2> QED
    BY <1>5, <2>2, <2>3, <2>4 DEF CheckEntity
<1>6. ASSUME NEW t \in Thread, RecordSeen(t) PROVE TypeInv'
  <2>1. /\ pc[t] = "seen" /\ uo[t] \in UserOp /\ uo[t] # None
        /\ step[t] \in 1..Len(uo[t].entities) /\ Current(t) \in Entity
    BY <1>6, Entities DEF RecordSeen, Current
  <2>2. seen' \in [Entity -> Nat]
    BY <1>6, <2>1 DEF RecordSeen
  <2>3. CASE AtLast(t)
    <3>1. 1 \in DOMAIN uo[t].entities
      BY <2>1, Entities
    <3>2. /\ step' = [step EXCEPT ![t] = 1] /\ uo' = uo
          /\ pc' = [pc EXCEPT ![t] = "add"]
      BY <1>6, <2>3 DEF RecordSeen, Loop
    <3>3. UNCHANGED <<pool, included, crediting, decays, validated>>
      BY <1>6 DEF RecordSeen
    <3>4. /\ pc' \in [Thread -> {"idle", "known_id", "max_sequence", "check", "seen",
                               "add"}]
          /\ step' \in [Thread -> Nat]
      BY <3>2
    <3>5. pc'[t] = "add" /\ uo'[t] # None /\ step'[t] = 1
      BY <2>1, <3>2
    <3>6. \A r \in Thread \ {t} : pc'[r] = pc[r] /\ step'[r] = step[r]
      BY <3>2
    <3> QED
      BY <2>2, <3>1, <3>2, <3>3, <3>4, <3>5, <3>6
  <2>4. CASE ~AtLast(t)
    <3>1. step[t] + 1 \in DOMAIN uo[t].entities /\ step[t] + 1 \in Nat
      BY <2>1, <2>4, Entities DEF AtLast
    <3>2. step' = [step EXCEPT ![t] = step[t] + 1] /\ pc' = pc /\ uo' = uo
      BY <1>6, <2>4 DEF RecordSeen, NextEntity
    <3>3. UNCHANGED <<pool, included, crediting, decays, validated>>
      BY <1>6 DEF RecordSeen
    <3>4. step' \in [Thread -> Nat] /\ step'[t] = step[t] + 1
      BY <3>1, <3>2
    <3>5. \A r \in Thread \ {t} : step'[r] = step[r]
      BY <3>2
    <3> QED
      BY <2>1, <2>2, <3>1, <3>2, <3>3, <3>4, <3>5
  <2> QED
    BY <2>3, <2>4
<1>7. ASSUME NEW t \in Thread, AddToPool(t) PROVE TypeInv'
  <2>1. uo[t] \in UserOp
    BY <1>7 DEF AddToPool
  <2>2. pool' \subseteq UserOp
    BY <1>7, <2>1 DEF AddToPool, Mempool!Insert, Mempool!Replace
  <2> QED
    BY <1>7, <2>2 DEF AddToPool, Respond
<1>8. ASSUME NEW u \in UserOp, BundlerRemoves(u) PROVE TypeInv'
  BY <1>8 DEF BundlerRemoves, Mempool!Remove
<1>9. ASSUME NEW u \in UserOp, WatcherRemoves(u) PROVE TypeInv'
  BY <1>9, Entities DEF WatcherRemoves, Mempool!Remove
<1>10. ASSUME RecordIncluded PROVE TypeInv'
  <2>1. crediting \in Seq(Entity) /\ crediting # <<>>
    BY <1>10 DEF RecordIncluded
  <2>2. Head(crediting) \in Entity /\ Tail(crediting) \in Seq(Entity)
    BY <2>1
  <2> QED
    BY <1>10, <2>2 DEF RecordIncluded
<1>11. ASSUME HourlyDecay PROVE TypeInv'
  <2>1. \A e \in Entity : (seen[e] * 23) \div 24 \in Nat
                          /\ (included[e] * 23) \div 24 \in Nat
    OBVIOUS
  <2> QED
    BY <1>11, <2>1 DEF HourlyDecay
<1> QED
  BY <1>1, <1>2, <1>3, <1>4, <1>5, <1>6, <1>7, <1>8, <1>9, <1>10, <1>11
  DEF Next, Request

\* Every variable keeps its type, and validate_reputation never reads past
\* the entities of its operation.
THEOREM TypeCorrect == Spec => []TypeOK
<1>1. Init => TypeInv
  BY InitTypeInv
<1>2. TypeInv /\ [Next]_vars => TypeInv'
  BY StepTypeInv
<1>3. TypeInv => TypeOK
  BY DEF TypeInv
<1> QED
  BY <1>1, <1>2, <1>3, PTL DEF Spec

-----------------------------------------------------------------------------
(* Nonces                                                                  *)

\* A finite set of numbers that is not empty has a maximum: of the subsets
\* that have none, a minimal one would have one.
LEMMA MaxProperties ==
  ASSUME NEW S \in SUBSET Nat, IsFiniteSet(S), S # {}
  PROVE  Max(S) \in S /\ \A y \in S : Max(S) >= y
<1> DEFINE HasMax(T) == \E x \in T : \A y \in T : x >= y
           NoMax == {T \in SUBSET S : T # {} /\ ~HasMax(T)}
<1>1. SUFFICES ASSUME S \in NoMax PROVE FALSE
  BY DEF Max
<1>2. NoMax \subseteq FiniteSubsetsOf(S)
  BY FS_Subset DEF FiniteSubsetsOf
<1>3. PICK T \in NoMax : \A U \in NoMax : <<U, T>> \notin StrictSubsetOrdering(S)
  <2> HIDE DEF NoMax
  <2> QED
    BY <1>1, <1>2, FS_StrictSubsetOrderingWellFounded, WFMin
<1>4. PICK x \in T : TRUE
  OBVIOUS
<1>5. <<T \ {x}, T>> \in StrictSubsetOrdering(S)
  BY <1>4 DEF StrictSubsetOrdering
<1>6. T \ {x} \notin NoMax
  BY <1>3, <1>5
<1>7. CASE T \ {x} = {}
  BY <1>4, <1>7
<1>8. CASE HasMax(T \ {x})
  <2>1. PICK m \in T \ {x} : \A y \in T \ {x} : m >= y
    BY <1>8
  <2>2. m \in Nat /\ x \in Nat /\ T \subseteq Nat
    BY <1>4, <2>1
  <2>3. HasMax(T)
    <3>1. CASE m >= x
      BY <2>1, <2>2, <3>1
    <3>2. CASE x >= m
      BY <1>4, <2>1, <2>2, <3>2
    <3> QED
      BY <2>2, <3>1, <3>2
  <2> QED
    BY <2>3
<1> QED
  BY <1>6, <1>7, <1>8

\* A thread past the nonce checks whose operation would start a run: it
\* found its key empty, and nothing it could follow has come in since.
Known(u)   == \E v \in pool : Mempool!SameId(v, u)
Follows(u) == \E v \in pool : /\ Key(v) = Key(u)
                              /\ u.nonce_sequence
                                   = (v.nonce_sequence + 1) % SequenceModulus

Newcomers(k) ==
  {t \in Thread : /\ pc[t] \in {"check", "seen", "add"}
                  /\ Key(uo[t]) = k
                  /\ ~Known(uo[t]) /\ ~Follows(uo[t])}

\* Starts of runs and threads that may yet add one: no more than threads.
RunBound(k) ==
  Cardinality(RunStarts(k)) + Cardinality(Newcomers(k)) <= Cardinality(Thread)

RunInv == \A u \in UserOp : Key(u) \notin removed => RunBound(Key(u))

LEMMA RunSets ==
  ASSUME TypeInv, NEW k
  PROVE  /\ IsFiniteSet(RunStarts(k)) /\ IsFiniteSet(Newcomers(k))
         /\ Cardinality(RunStarts(k)) \in Nat /\ Cardinality(Newcomers(k)) \in Nat
         /\ IsFiniteSet(pool) /\ Cardinality(Thread) \in Nat
         /\ Cardinality(Newcomers(k)) <= Cardinality(Thread)
<1>1. RunStarts(k) \in SUBSET pool /\ pool \in SUBSET UserOp
      /\ Newcomers(k) \in SUBSET Thread
  BY DEF RunStarts, Newcomers, TypeInv, TypeOK
<1>2. IsFiniteSet(UserOp) /\ IsFiniteSet(Thread)
  BY AdmissionConstants
<1>3. IsFiniteSet(pool)
  BY <1>1, <1>2, FS_Subset
<1> QED
  BY <1>1, <1>2, <1>3, FS_Subset, FS_CardinalityType

\* What keeps the bound: both sets shrink, or a thread of the second gives
\* way to one operation of the first.
LEMMA RunBoundKept ==
  ASSUME NEW S, NEW N, NEW T, NEW M, IsFiniteSet(S), IsFiniteSet(N),
         NEW c \in Nat, Cardinality(S) + Cardinality(N) <= c,
         \/ T \subseteq S /\ M \subseteq N
         \/ \E x, t : t \in N /\ T \subseteq S \cup {x} /\ M \subseteq N \ {t}
         \/ \E x, y : y \in S /\ T \subseteq (S \ {y}) \cup {x} /\ M \subseteq N
  PROVE  Cardinality(T) + Cardinality(M) <= c
<1> DEFINE CS == Cardinality(S)  CN == Cardinality(N)
<1>1. CS \in Nat /\ CN \in Nat
  BY FS_CardinalityType
<1>2. \A A, B : IsFiniteSet(A) /\ B \subseteq A =>
         /\ Cardinality(B) \in Nat /\ Cardinality(A) \in Nat
         /\ Cardinality(B) <= Cardinality(A)
  BY FS_Subset, FS_CardinalityType
<1>3. CASE T \subseteq S /\ M \subseteq N
  <2>1. /\ Cardinality(T) \in Nat /\ Cardinality(T) <= CS
        /\ Cardinality(M) \in Nat /\ Cardinality(M) <= CN
    BY <1>2, <1>3
  <2> QED
    BY <1>1, <2>1
<1>4. ASSUME NEW x, NEW t, t \in N, T \subseteq S \cup {x}, M \subseteq N \ {t}
      PROVE  Cardinality(T) + Cardinality(M) <= c
  <2>1. IsFiniteSet(S \cup {x}) /\ Cardinality(S \cup {x}) <= CS + 1
    <3>1. /\ IsFiniteSet(S \cup {x})
          /\ Cardinality(S \cup {x}) = IF x \in S THEN CS ELSE CS + 1
      BY FS_AddElement
    <3> HIDE DEF CS
    <3> QED
      BY <1>1, <3>1
  <2>2. IsFiniteSet(N \ {t}) /\ Cardinality(N \ {t}) = CN - 1
    BY <1>4, FS_RemoveElement
  <2> QED
    BY <1>1, <1>2, <1>4, <2>1, <2>2
<1>5. ASSUME NEW x, NEW y, y \in S, T \subseteq (S \ {y}) \cup {x}, M \subseteq N
      PROVE  Cardinality(T) + Cardinality(M) <= c
  <2>1. IsFiniteSet(S \ {y}) /\ Cardinality(S \ {y}) = CS - 1
    BY <1>5, FS_RemoveElement
  <2> DEFINE R == S \ {y}
  <2>2. /\ IsFiniteSet((S \ {y}) \cup {x})
        /\ Cardinality((S \ {y}) \cup {x}) <= CS
    <3>1. /\ IsFiniteSet(R \cup {x})
          /\ Cardinality(R \cup {x}) =
               IF x \in R THEN Cardinality(R) ELSE Cardinality(R) + 1
      BY <2>1, FS_AddElement
    <3> HIDE DEF R
    <3>2. IsFiniteSet(R) /\ Cardinality(R) = CS - 1
      BY <2>1 DEF R
    <3>3. IsFiniteSet(R \cup {x}) /\ Cardinality(R \cup {x}) <= CS
      BY <1>1, <3>1, <3>2
    <3> QED
      BY <3>3 DEF R
  <2> QED
    BY <1>1, <1>2, <1>5, <2>1, <2>2
<1> QED
  BY <1>3, <1>4, <1>5

LEMMA InitRunInv == Init => RunInv
<1> SUFFICES ASSUME Init, NEW k PROVE RunBound(k)
  BY DEF RunInv
<1>1. RunStarts(k) = {} /\ Newcomers(k) = {}
  BY DEF Init, Mempool!Init, RunStarts, Newcomers
<1>2. Cardinality(Thread) \in Nat
  BY AdmissionConstants, FS_CardinalityType
<1> QED
  BY <1>1, <1>2, FS_EmptySet DEF RunBound

\* A thread joins the newcomers only while its key is empty, so that no run
\* has started; and one run less may start when it has added its operation.
LEMMA StepRunBound ==
  ASSUME TypeInv, TypeInv', [Next]_vars,
         NEW k, k \notin removed', RunBound(k)
  PROVE  RunBound(k)'
<1> DEFINE S == RunStarts(k)  N == Newcomers(k)
<1>0. /\ IsFiniteSet(S) /\ IsFiniteSet(N) /\ Cardinality(Thread) \in Nat
      /\ Cardinality(S) + Cardinality(N) <= Cardinality(Thread)
  BY RunSets DEF RunBound
<1>a. SUFFICES \/ S' \subseteq S /\ N' \subseteq N
               \/ \E x, t : t \in N /\ S' \subseteq S \cup {x} /\ N' \subseteq N \ {t}
               \/ \E x, y : y \in S /\ S' \subseteq (S \ {y}) \cup {x} /\ N' \subseteq N
               \/ S' = {}
  <2> DEFINE T == S'  M == N'
  <2>1. CASE T = {}
    <3>1. IsFiniteSet(Thread) /\ M \subseteq Thread
      BY AdmissionConstants DEF Newcomers
    <3> HIDE DEF T, M
    <3>2. Cardinality(M) <= Cardinality(Thread) /\ Cardinality(M) \in Nat
      BY <3>1, FS_Subset, FS_CardinalityType
    <3>3. Cardinality(T) + Cardinality(M) <= Cardinality(Thread)
      BY <1>0, <2>1, <3>2, FS_EmptySet
    <3> QED
      BY <3>3 DEF T, M, RunBound
  <2>2. CASE T # {}
    <3>1. \/ T \subseteq S /\ M \subseteq N
          \/ \E x, t : t \in N /\ T \subseteq S \cup {x} /\ M \subseteq N \ {t}
          \/ \E x, y : y \in S /\ T \subseteq (S \ {y}) \cup {x} /\ M \subseteq N
      BY <1>a, <2>2
    <3> HIDE DEF S, N, T, M
    <3>2. Cardinality(T) + Cardinality(M) <= Cardinality(Thread)
      BY <1>0, <3>1, RunBoundKept
    <3> QED
      BY <3>2 DEF S, N, T, M, RunBound
  <2> QED
    BY <2>1, <2>2
<1>b. ASSUME pool' = pool,
             \A r \in Thread :
               \/ pc'[r] \notin {"check", "seen", "add"}
               \/ pc[r] \in {"check", "seen", "add"} /\ uo'[r] = uo[r]
               \/ uo'[r] = uo[r] /\ (Known(uo[r]) \/ Follows(uo[r]) \/ Key(uo[r]) # k)
      PROVE  S' \subseteq S /\ N' \subseteq N
  <2>1. \A r : uo'[r] = uo[r] => /\ Known(uo[r])' <=> Known(uo[r])
                                 /\ Follows(uo[r])' <=> Follows(uo[r])
                                 /\ Key(uo[r])' = Key(uo[r])
    BY <1>b DEF Known, Follows, Mempool!SameId, Key
  <2>2. S' \subseteq S
    BY <1>b DEF RunStarts
  <2>3. N' \subseteq N
    BY <1>b, <2>1 DEF Newcomers
  <2> QED
    BY <2>2, <2>3
<1> USE DEF request, bounds, history
<1>1. CASE UNCHANGED vars
  BY <1>1, <1>b DEF vars
<1>2. ASSUME NEW t \in Thread, NEW u \in UserOp, SendUserOperation(t, u)
      PROVE  S' \subseteq S /\ N' \subseteq N
  BY <1>2, <1>b DEF SendUserOperation, TypeInv, TypeOK
<1>3. ASSUME NEW t \in Thread, LookUpId(t)
      PROVE  S' \subseteq S /\ N' \subseteq N
  <2>1. Known(uo[t]) \/ pc' = [pc EXCEPT ![t] = "max_sequence"]
    BY <1>3 DEF LookUpId, Known, Goto
  <2>2. \A r \in Thread \ {t} : pc'[r] = pc[r]
    BY <1>3 DEF LookUpId, Loop, Goto, TypeInv, TypeOK
  <2>3. uo' = uo /\ pool' = pool
    BY <1>3 DEF LookUpId, Loop, Goto
  <2>4. pc'[t] = "max_sequence" \/ Known(uo[t])
    BY <2>1 DEF TypeInv, TypeOK
  <2> QED
    BY <1>3, <1>b, <2>2, <2>3, <2>4
<1>4. ASSUME NEW t \in Thread, CheckSequence(t)
      PROVE  (S' \subseteq S /\ N' \subseteq N) \/ S' = {}
  <2>0. pool' = pool /\ uo[t] \in UserOp /\ Key(uo[t]) = <<uo[t].sender, uo[t].nonce_key>>
    BY <1>4 DEF CheckSequence, TypeInv, TypeOK, Key
  <2>1. CASE Sequences(uo[t]) = {} /\ Key(uo[t]) = k
    <3>1. \A v \in pool : Key(v) # k
      BY <2>1 DEF Sequences
    <3> QED
      BY <2>0, <3>1 DEF RunStarts
  <2>2. CASE Sequences(uo[t]) # {} /\ InSequence(uo[t])
    <3> DEFINE Q == Sequences(uo[t])
               f == [v \in {w \in pool : Key(w) = Key(uo[t])} |-> v.nonce_sequence]
    <3>1. Q \in SUBSET Nat
      <4>1. \A v \in UserOp : v.nonce_sequence \in Nat
        BY AdmissionConstants
      <4>2. \A v \in pool : v.nonce_sequence \in Nat
        BY <4>1 DEF TypeInv, TypeOK
      <4> QED
        BY <4>2 DEF Sequences
    <3>2. IsFiniteSet(Q)
      <4>1. IsFiniteSet({w \in pool : Key(w) = Key(uo[t])})
        BY RunSets, FS_Subset
      <4>2. f \in Surjection({w \in pool : Key(w) = Key(uo[t])}, Q)
        BY DEF Surjection, Sequences
      <4> HIDE DEF f, Q
      <4> QED
        BY <4>1, <4>2, FS_Surjection
    <3>3. Max(Q) \in Q
      <4>1. Q # {}
        BY <2>2
      <4> HIDE DEF Q
      <4> QED
        BY <3>1, <3>2, <4>1, MaxProperties, Zenon
    <3>4. Follows(uo[t])
      BY <2>2, <3>3 DEF InSequence, Sequences, Follows
    <3>5. uo' = uo /\ \A r \in Thread \ {t} : pc'[r] = pc[r]
      BY <1>4, <2>2 DEF CheckSequence, Loop, TypeInv, TypeOK
    <3> QED
      BY <1>b, <2>0, <3>4, <3>5
  <2>3. CASE ~InSequence(uo[t])
    <3>1. /\ \A r \in Thread \ {t} : pc'[r] = pc[r] /\ uo'[r] = uo[r]
          /\ pc'[t] = "idle"
      BY <1>4, <2>3 DEF CheckSequence, Respond, TypeInv, TypeOK
    <3> QED
      BY <1>b, <2>0, <3>1
  <2>4. CASE InSequence(uo[t]) /\ Key(uo[t]) # k
    <3>1. uo' = uo /\ \A r \in Thread \ {t} : pc'[r] = pc[r]
      BY <1>4, <2>4 DEF CheckSequence, Loop, TypeInv, TypeOK
    <3> QED
      BY <1>b, <2>0, <2>4, <3>1
  <2> QED
    BY <2>1, <2>2, <2>3, <2>4
<1>5. ASSUME NEW t \in Thread, CheckEntity(t) \/ RecordSeen(t)
      PROVE  S' \subseteq S /\ N' \subseteq N
  <2>1. /\ pc[t] \in {"check", "seen"} /\ pool' = pool
        /\ \A r \in Thread \ {t} : pc'[r] = pc[r] /\ uo'[r] = uo[r]
        /\ uo'[t] = uo[t] \/ pc'[t] = "idle"
    BY <1>5 DEF CheckEntity, RecordSeen, Loop, NextEntity, Respond, TypeInv,
      TypeOK
  <2> QED
    BY <1>b, <2>1
<1>6. ASSUME NEW t \in Thread, AddToPool(t)
      PROVE  \/ S' \subseteq S /\ N' \subseteq N
             \/ \E x, r : r \in N /\ S' \subseteq S \cup {x} /\ N' \subseteq N \ {r}
             \/ \E x, y : y \in S /\ S' \subseteq (S \ {y}) \cup {x} /\ N' \subseteq N
  <2> DEFINE u == uo[t]
  <2>1. /\ u \in UserOp /\ pc[t] = "add" /\ pc'[t] = "idle"
        /\ \A r \in Thread \ {t} : pc'[r] = pc[r] /\ uo'[r] = uo[r]
    BY <1>6 DEF AddToPool, Respond, TypeInv, TypeOK
  <2> HIDE DEF u
  <2>2. CASE Mempool!Insert(u)
    <3>1. pool' = pool \cup {u} /\ \A v \in pool : ~Mempool!SameId(u, v)
      BY <2>2 DEF Mempool!Insert
    <3>2. N' \subseteq N \ {t}
      BY <2>1, <3>1 DEF Newcomers, Known, Follows
    <3>3. S' \subseteq S \cup {u}
      BY <3>1 DEF RunStarts
    <3>4. CASE t \in N
      BY <3>2, <3>3, <3>4
    <3>5. CASE t \notin N
      <4>1. ~Known(u)
        BY <3>1 DEF Known, Mempool!SameId
      <4>2. Key(u) # k \/ Follows(u)
        BY <2>1, <3>5, <4>1 DEF Newcomers, u
      <4>3. u \notin S'
        BY <3>1, <4>2 DEF RunStarts, Follows
      <4> QED
        BY <3>2, <3>3, <4>3
    <3> QED
      BY <3>4, <3>5
  <2>3. ASSUME NEW old \in pool, Mempool!Replace(old, u)
        PROVE  \/ S' \subseteq S /\ N' \subseteq N
               \/ \E x, y : y \in S /\ S' \subseteq (S \ {y}) \cup {x} /\ N' \subseteq N
    <3>1. /\ pool' = (pool \ {old}) \cup {u} /\ Key(old) = Key(u)
          /\ old.nonce_sequence = u.nonce_sequence
          /\ \A v : Mempool!SameId(old, v) <=> Mempool!SameId(u, v)
      BY <2>3 DEF Mempool!Replace, Mempool!SameId, Key
    <3>2. \A v : Known(v) => Known(v)'
      BY <3>1 DEF Known
    <3>3. \A v : Follows(v) <=> Follows(v)'
      BY <3>1 DEF Follows
    <3>4. N' \subseteq N
      BY <2>1, <3>2, <3>3 DEF Newcomers
    <3>5. /\ S = {v \in pool : Key(v) = k /\ ~Follows(v)}
          /\ S' = {v \in pool' : Key(v) = k /\ ~Follows(v)'}
      BY DEF RunStarts, Follows
    <3>6. Follows(old) <=> Follows(u)
      BY <3>1 DEF Follows
    <3> HIDE DEF S, N
    <3>7. CASE old \in S
      BY <3>1, <3>3, <3>4, <3>5, <3>7
    <3>8. CASE old \notin S
      BY <3>1, <3>3, <3>4, <3>5, <3>6, <3>8
    <3> QED
      BY <3>7, <3>8
  <2>4. CASE UNCHANGED pool
    BY <1>b, <2>1, <2>4
  <2> QED
    BY <1>6, <2>2, <2>3, <2>4 DEF AddToPool, u
<1>7. ASSUME NEW u \in UserOp, BundlerRemoves(u) \/ WatcherRemoves(u)
      PROVE  S' \subseteq S /\ N' \subseteq N
  <2>1. Key(u) # k /\ pool' = pool \ {u} /\ pc' = pc /\ uo' = uo
    BY <1>7 DEF BundlerRemoves, WatcherRemoves, Mempool!Remove
  <2>2. \A v : Key(v) = k => (Known(v)' <=> Known(v)) /\ (Follows(v)' <=> Follows(v))
    BY <2>1 DEF Known, Follows, Mempool!SameId, Key
  <2>3. N' \subseteq N
    BY <2>1, <2>2 DEF Newcomers
  <2>4. S' \subseteq S
    BY <2>1 DEF RunStarts
  <2> QED
    BY <2>3, <2>4
<1>8. ASSUME RecordIncluded \/ HourlyDecay
      PROVE  S' \subseteq S /\ N' \subseteq N
  BY <1>8, <1>b DEF RecordIncluded, HourlyDecay, TypeInv, TypeOK
<1> HIDE DEF S, N
<1> QED
  BY <1>1, <1>2, <1>3, <1>4, <1>5, <1>6, <1>7, <1>8 DEF Next, Request

\* validate_nonce reads the pool and gives it up before the operation is
\* added: overlapping threads can leave gaps in the nonces of a key, but
\* never more runs of consecutive nonces than there are threads.
THEOREM RunsBounded == Spec => []NonceRunsBounded
<1>1. Init => TypeInv /\ RunInv
  BY InitTypeInv, InitRunInv
<1>2. TypeInv /\ RunInv /\ [Next]_vars => TypeInv' /\ RunInv'
  <2> SUFFICES ASSUME TypeInv, RunInv, [Next]_vars,
                      NEW u \in UserOp, Key(u) \notin removed'
               PROVE  TypeInv' /\ RunBound(Key(u))'
    BY StepTypeInv DEF RunInv
  <2>1. removed \subseteq removed'
    BY DEF Next, Request, vars, SendUserOperation, LookUpId, CheckSequence,
       CheckEntity, RecordSeen, AddToPool, BundlerRemoves, WatcherRemoves,
       RecordIncluded, HourlyDecay, history
  <2>2. RunBound(Key(u))
    BY <2>1 DEF RunInv
  <2>3. TypeInv'
    BY StepTypeInv
  <2> QED
    BY <2>2, <2>3, StepRunBound
<1>3. TypeInv /\ RunInv => NonceRunsBounded
  BY RunSets DEF RunInv, RunBound, NonceRunsBounded
<1> QED
  BY <1>1, <1>2, <1>3, PTL DEF Spec

-----------------------------------------------------------------------------
(* Reputations                                                             *)

\* An operation mentions an entity finitely often.
LEMMA MentionsFinite ==
  ASSUME NEW u \in UserOp, NEW e
  PROVE  /\ IsFiniteSet(MentionsOf(u, e)) /\ Mentions(u, e) \in Nat
         /\ MentionsOf(u, e) \subseteq 1..Len(u.entities)
<1>1. IsFiniteSet(1..Len(u.entities)) /\ DOMAIN u.entities = 1..Len(u.entities)
  BY Entities, FS_Interval
<1>2. MentionsOf(u, e) \in SUBSET (1..Len(u.entities))
  BY <1>1 DEF MentionsOf
<1>3. IsFiniteSet(MentionsOf(u, e))
  BY <1>1, <1>2, FS_Subset
<1> QED
  BY <1>2, <1>3, FS_CardinalityType DEF Mentions

\* The most mentions an operation makes of e.
Most(e) == Max({Mentions(u, e) : u \in UserOp})

LEMMA MostProperties ==
  ASSUME NEW e \in Entity
  PROVE  Most(e) \in Nat /\ \A u \in UserOp : Mentions(u, e) <= Most(e)
<1> DEFINE S == {Mentions(u, e) : u \in UserOp}
           f == [u \in UserOp |-> Mentions(u, e)]
<1>1. S # {}
  BY DEF Entity
<1>2. S \in SUBSET Nat
  BY MentionsFinite
<1>3. IsFiniteSet(S)
  <2>1. f \in Surjection(UserOp, S)
    BY DEF Surjection
  <2> HIDE DEF f, S
  <2> QED
    BY <2>1, AdmissionConstants, FS_Surjection
<1>4. Max(S) \in S /\ \A y \in S : Max(S) >= y
  <2> HIDE DEF S
  <2> QED
    BY <1>1, <1>2, <1>3, MaxProperties
<1>5. \A u \in UserOp : Mentions(u, e) \in S
  OBVIOUS
<1>6. Max(S) \in Nat /\ \A u \in UserOp : Mentions(u, e) <= Max(S)
  <2> HIDE DEF S
  <2> QED
    BY <1>2, <1>4, <1>5, MentionsFinite
<1> QED
  BY <1>6 DEF Most

\* The mentions of e a thread may still record: all of its operation once e
\* has passed the check, and then those its second loop has not reached.
Pending(t, e) ==
  CASE pc[t] = "check" -> IF \E j \in MentionsOf(uo[t], e) : j < step[t]
                            THEN MentionsOf(uo[t], e) ELSE {}
    [] pc[t] = "seen"  -> {i \in MentionsOf(uo[t], e) : i >= step[t]}
    [] OTHER -> {}

PendingOf(e) == [t \in Thread |-> Pending(t, e)]

Overshoot(e) ==
  /\ included[e] = 0
  /\ seen[e] + Cardinality(Pairs(Thread, PendingOf(e)))
       <= MinOpsForThrottle + Cardinality(Thread) * Most(e)

\* What is recorded and what is pending together stay within the overshoot.
OvershootInv == \A e \in Entity \ credited : Overshoot(e)

LEMMA PendingFinite ==
  ASSUME TypeInv, NEW e \in Entity, NEW t \in Thread
  PROVE  /\ Pending(t, e) \subseteq (IF pc[t] \in {"check", "seen"}
                                       THEN MentionsOf(uo[t], e) ELSE {})
         /\ IsFiniteSet(Pending(t, e)) /\ Cardinality(Pending(t, e)) <= Most(e)
         /\ Cardinality(Pending(t, e)) \in Nat
<1>1. Pending(t, e) \subseteq (IF pc[t] \in {"check", "seen"}
                                 THEN MentionsOf(uo[t], e) ELSE {})
  BY DEF Pending
<1>2. CASE pc[t] \in {"check", "seen"}
  <2>1. uo[t] \in UserOp
    BY <1>2 DEF TypeInv, TypeOK
  <2>2. /\ IsFiniteSet(MentionsOf(uo[t], e)) /\ Mentions(uo[t], e) \in Nat
        /\ Mentions(uo[t], e) <= Most(e) /\ Most(e) \in Nat
    BY <2>1, MentionsFinite, MostProperties
  <2>3. Pending(t, e) \in SUBSET MentionsOf(uo[t], e)
    BY <1>1, <1>2
  <2>4. /\ IsFiniteSet(Pending(t, e)) /\ Cardinality(Pending(t, e)) \in Nat
        /\ Cardinality(Pending(t, e)) <= Mentions(uo[t], e)
    BY <2>2, <2>3, FS_Subset, FS_CardinalityType DEF Mentions
  <2> QED
    BY <1>1, <2>2, <2>4
<1>3. CASE pc[t] \notin {"check", "seen"}
  <2>1. Pending(t, e) = {}
    BY <1>1, <1>3
  <2> QED
    BY <2>1, FS_EmptySet, MostProperties
<1> QED
  BY <1>2, <1>3

LEMMA PendingBound ==
  ASSUME TypeInv, NEW e \in Entity
  PROVE  /\ Cardinality(Pairs(Thread, PendingOf(e))) <= Cardinality(Thread) * Most(e)
         /\ Cardinality(Pairs(Thread, PendingOf(e))) \in Nat
         /\ Cardinality(Thread) \in Nat /\ Most(e) \in Nat
<1>1. IsFiniteSet(Thread) /\ Most(e) \in Nat
  BY AdmissionConstants, MostProperties
<1> DEFINE A == PendingOf(e)
<1>2. \A t \in Thread : IsFiniteSet(A[t]) /\ Cardinality(A[t]) <= Most(e)
  BY PendingFinite DEF PendingOf
<1> HIDE DEF A
<1>3. /\ Cardinality(Pairs(Thread, A)) <= Cardinality(Thread) * Most(e)
      /\ Cardinality(Pairs(Thread, A)) \in Nat
  BY <1>1, <1>2, PairsBound, PairsFinite
<1> QED
  BY <1>1, <1>3, FS_CardinalityType DEF A

PendingType ==
  \A e \in Entity :
    /\ Cardinality(Pairs(Thread, PendingOf(e))) <= Cardinality(Thread) * Most(e)
    /\ Cardinality(Pairs(Thread, PendingOf(e))) \in Nat
    /\ \A t \in Thread : IsFiniteSet(Pending(t, e))

LEMMA PendingTypesNext == TypeInv' => PendingType'
<1>1. TypeInv => PendingType
  BY PendingBound, PendingFinite DEF PendingType
<1> QED
  BY <1>1, PTL

LEMMA InitOvershootInv == Init => OvershootInv
<1> SUFFICES ASSUME Init, NEW e \in Entity PROVE Overshoot(e)
  BY DEF OvershootInv
<1>1. TypeInv /\ included[e] = 0 /\ seen[e] = 0
  BY InitTypeInv DEF Init
<1>2. /\ Cardinality(Pairs(Thread, PendingOf(e))) <= Cardinality(Thread) * Most(e)
      /\ Cardinality(Pairs(Thread, PendingOf(e))) \in Nat
      /\ Cardinality(Thread) * Most(e) \in Nat
  BY <1>1, PendingBound
<1>3. MinOpsForThrottle \in Nat
  BY AdmissionConstants
<1> QED
  BY <1>1, <1>2, <1>3 DEF Overshoot

\* A thread adds to what is pending only while e is not over the threshold;
\* recording moves one mention from pending to seen.
LEMMA StepOvershoot ==
  ASSUME TypeInv, TypeInv', [Next]_vars,
         NEW e \in Entity, e \notin credited', Overshoot(e)
  PROVE  Overshoot(e)'
<1> DEFINE A == PendingOf(e)  B == PendingOf(e)'
           a == Cardinality(Pairs(Thread, A))  b == Cardinality(Pairs(Thread, B))
           bound == MinOpsForThrottle + Cardinality(Thread) * Most(e)
<1>p. PendingType'
  BY PendingTypesNext
<1>0. /\ a \in Nat /\ b \in Nat /\ b <= Cardinality(Thread) * Most(e)
      /\ seen[e] \in Nat /\ seen'[e] \in Nat /\ MinOpsForThrottle \in Nat
      /\ Cardinality(Thread) * Most(e) \in Nat
      /\ included[e] = 0 /\ seen[e] + a <= bound
  <2>1. a \in Nat /\ Cardinality(Thread) * Most(e) \in Nat
    BY PendingBound
  <2>2. b \in Nat /\ b <= Cardinality(Thread) * Most(e)
    BY <1>p DEF PendingType
  <2>3. MinOpsForThrottle \in Nat
    BY AdmissionConstants
  <2>4. seen[e] \in Nat /\ seen'[e] \in Nat
    BY DEF TypeInv, TypeOK
  <2> QED
    BY <2>1, <2>2, <2>3, <2>4 DEF Overshoot
<1>t. /\ a \in Nat /\ b \in Nat /\ seen[e] \in Nat /\ bound \in Nat
      /\ seen[e] + a <= bound
  BY <1>0
<1>00. /\ IsFiniteSet(Thread)
       /\ \A t \in Thread : /\ A[t] = Pending(t, e) /\ B[t] = Pending(t, e)'
                            /\ IsFiniteSet(A[t]) /\ IsFiniteSet(B[t])
  BY <1>p, AdmissionConstants, PendingFinite DEF PendingOf, PendingType
<1>a. SUFFICES included'[e] = 0 /\ seen'[e] + b <= bound
  BY DEF Overshoot
<1>b. ASSUME \A t \in Thread : Pending(t, e)' \subseteq Pending(t, e),
             seen'[e] <= seen[e], included'[e] = 0
      PROVE  included'[e] = 0 /\ seen'[e] + b <= bound
  <2>1. \A t \in Thread : IsFiniteSet(A[t]) /\ B[t] \subseteq A[t]
    BY <1>00, <1>b
  <2> HIDE DEF A, B
  <2>2. b <= a
    BY <1>00, <2>1, PairsSubset
  <2> QED
    BY <1>0, <1>b, <2>2
<1> HIDE DEF A, B, a, b, bound
<1> USE DEF request, bounds, history
<1>1. CASE UNCHANGED vars
  <2>1. \A t \in Thread : Pending(t, e)' = Pending(t, e)
    BY <1>1 DEF vars, Pending
  <2>2. seen' = seen /\ included' = included
    BY <1>1 DEF vars
  <2> QED
    BY <1>0, <1>b, <2>1, <2>2
<1>2. ASSUME NEW t \in Thread,
             \/ \E u \in UserOp : SendUserOperation(t, u)
             \/ LookUpId(t) \/ CheckSequence(t) \/ AddToPool(t)
      PROVE  included'[e] = 0 /\ seen'[e] + b <= bound
  <2>1. /\ seen' = seen /\ included' = included
        /\ \A r \in Thread \ {t} : /\ pc'[r] = pc[r] /\ uo'[r] = uo[r]
                                   /\ step'[r] = step[r]
        /\ pc'[t] \notin {"check", "seen"} \/ (pc'[t] = "check" /\ step'[t] = 1)
        /\ uo'[t] = uo[t] \/ pc'[t] \notin {"check", "seen"}
    BY <1>2 DEF SendUserOperation, LookUpId, CheckSequence, AddToPool, Loop,
      Goto, Respond, TypeInv, TypeOK
  <2>2. \A r \in Thread \ {t} : Pending(r, e)' = Pending(r, e)
    BY <2>1 DEF Pending
  <2>3. Pending(t, e)' = {}
    <3>1. CASE pc'[t] \notin {"check", "seen"}
      BY <3>1 DEF Pending
    <3>2. CASE pc'[t] = "check" /\ step'[t] = 1
      <4>1. uo'[t] \in UserOp
        BY <3>2 DEF TypeInv, TypeOK
      <4>2. MentionsOf(uo'[t], e) \subseteq 1..Len(uo'[t].entities)
        BY <4>1, MentionsFinite
      <4>3. ~ \E j \in MentionsOf(uo'[t], e) : j < step'[t]
        BY <3>2, <4>2
      <4> QED
        BY <3>2, <4>3 DEF Pending
    <3> QED
      BY <2>1, <3>1, <3>2
  <2>4. \A r \in Thread : Pending(r, e)' \subseteq Pending(r, e)
    BY <2>2, <2>3
  <2> QED
    BY <1>0, <1>b, <2>1, <2>4
<1>3. ASSUME NEW t \in Thread, CheckEntity(t)
      PROVE  included'[e] = 0 /\ seen'[e] + b <= bound
  <2>1. /\ seen' = seen /\ included' = included /\ pc[t] = "check"
        /\ \A r \in Thread \ {t} : /\ pc'[r] = pc[r] /\ uo'[r] = uo[r]
                                   /\ step'[r] = step[r]
        /\ uo[t] \in UserOp /\ uo[t] # None /\ step[t] \in 1..Len(uo[t].entities)
        /\ \/ pc'[t] = "idle"
           \/ /\ pc'[t] = "check" /\ uo'[t] = uo[t] /\ step'[t] = step[t] + 1
              /\ Status(Current(t)) = "Ok"
           \/ /\ pc'[t] = "seen" /\ uo'[t] = uo[t] /\ step'[t] = 1
              /\ Status(Current(t)) = "Ok" /\ AtLast(t)
    <3>1. /\ seen' = seen /\ included' = included /\ pc[t] = "check"
          /\ \/ Respond(t)
             \/ Status(Current(t)) = "Ok" /\ NextEntity(t)
             \/ Status(Current(t)) = "Ok" /\ AtLast(t) /\ Loop(t, "seen")
      BY <1>3 DEF CheckEntity
    <3>2. /\ uo[t] \in UserOp /\ uo[t] # None
          /\ step[t] \in DOMAIN uo[t].entities
      BY <3>1 DEF TypeInv, TypeOK
    <3>3. step[t] \in 1..Len(uo[t].entities)
      BY <3>2, Entities
    <3>4. /\ t \in DOMAIN pc /\ t \in DOMAIN uo /\ t \in DOMAIN step
          /\ DOMAIN pc = Thread /\ DOMAIN uo = Thread /\ DOMAIN step = Thread
      BY DEF TypeInv, TypeOK
    <3>5. CASE Respond(t)
      BY <3>1, <3>2, <3>3, <3>4, <3>5 DEF Respond
    <3>6. CASE Status(Current(t)) = "Ok" /\ NextEntity(t)
      BY <3>1, <3>2, <3>3, <3>4, <3>6 DEF NextEntity
    <3>7. CASE Status(Current(t)) = "Ok" /\ AtLast(t) /\ Loop(t, "seen")
      BY <3>1, <3>2, <3>3, <3>4, <3>7 DEF Loop
    <3> QED
      BY <3>1, <3>5, <3>6, <3>7
  <2>2. \A r \in Thread \ {t} : Pending(r, e)' = Pending(r, e)
    BY <2>1 DEF Pending
  <2>3. CASE Current(t) = e /\ Status(e) = "Ok"
    <3>1. seen[e] <= MinOpsForThrottle
      <4>1. BanDenominator \in Nat /\ included[e] * BanDenominator = 0
        BY <1>0, AdmissionConstants
      <4> QED
        BY <1>0, <2>3, <4>1 DEF Status
    <3> QED
      BY <1>0, <2>1, <3>1 DEF bound
  <2>4. CASE Current(t) # e \/ pc'[t] = "idle"
    <3> DEFINE M == MentionsOf(uo[t], e)
    <3>1. M \subseteq 1..Len(uo[t].entities)
      BY <2>1, MentionsFinite
    <3>2. Current(t) # e => step[t] \notin M
      BY DEF MentionsOf, Current
    <3>3. Pending(t, e) = IF \E j \in M : j < step[t] THEN M ELSE {}
      BY <2>1 DEF Pending
    <3>4. CASE pc'[t] = "idle"
      <4>1. Pending(t, e)' = {}
        BY <3>4 DEF Pending
      <4> QED
        BY <1>0, <1>b, <2>1, <2>2, <4>1
    <3>5. CASE Current(t) # e /\ pc'[t] = "check"
      <4>1. Pending(t, e)' = IF \E j \in M : j < step[t] + 1 THEN M ELSE {}
        BY <2>1, <3>5 DEF Pending
      <4> HIDE DEF M
      <4>2. Pending(t, e)' = Pending(t, e)
        BY <2>1, <3>1, <3>2, <3>3, <3>5, <4>1
      <4> QED
        BY <1>0, <1>b, <2>1, <2>2, <4>2
    <3>6. CASE Current(t) # e /\ pc'[t] = "seen"
      <4>1. Pending(t, e)' \subseteq M
        BY <2>1, <3>6 DEF Pending
      <4>2. step[t] = Len(uo[t].entities)
        BY <2>1, <3>6 DEF AtLast
      <4> HIDE DEF M
      <4>3. Pending(t, e)' \subseteq Pending(t, e)
        BY <2>1, <3>1, <3>2, <3>3, <3>6, <4>1, <4>2
      <4> QED
        BY <1>0, <1>b, <2>1, <2>2, <4>3
    <3> QED
      BY <2>1, <2>4, <3>4, <3>5, <3>6
  <2> QED
    BY <2>1, <2>3, <2>4
<1>4. ASSUME NEW t \in Thread, RecordSeen(t)
      PROVE  included'[e] = 0 /\ seen'[e] + b <= bound
  <2>1. /\ included' = included /\ pc[t] = "seen" /\ uo' = uo
        /\ \A r \in Thread \ {t} : pc'[r] = pc[r] /\ step'[r] = step[r]
        /\ uo[t] \in UserOp /\ uo[t] # None /\ step[t] \in 1..Len(uo[t].entities)
        /\ \/ pc'[t] = "add" /\ AtLast(t)
           \/ pc'[t] = "seen" /\ step'[t] = step[t] + 1
    BY <1>0, <1>4, RecordSeenMoves, Zenon
  <2>2. \A r \in Thread \ {t} : Pending(r, e)' = Pending(r, e)
    BY <2>1 DEF Pending
  <2> DEFINE M == MentionsOf(uo[t], e)
  <2>3. M \subseteq 1..Len(uo[t].entities) /\ (step[t] \in M <=> Current(t) = e)
    BY <2>1, MentionsFinite, Entities DEF MentionsOf, Current
  <2>4. Pending(t, e) = {i \in M : i >= step[t]}
    BY <2>1 DEF Pending
  <2>5. Pending(t, e)' = IF pc'[t] = "seen" THEN {i \in M : i >= step[t] + 1} ELSE {}
    BY <2>1 DEF Pending
  <2>6. Pending(t, e)' = Pending(t, e) \ {step[t]}
    <3>1. /\ Len(uo[t].entities) \in Nat /\ step[t] \in Nat
          /\ \A i \in M : i \in Nat /\ i <= Len(uo[t].entities)
      BY <2>1, <2>3, Entities
    <3> HIDE DEF M
    <3>2. CASE pc'[t] = "seen"
      <4>1. Pending(t, e)' = {i \in M : i >= step[t] + 1}
        BY <2>5, <3>2
      <4> QED
        BY <2>4, <3>1, <4>1
    <3>3. CASE pc'[t] = "add"
      <4>1. Pending(t, e)' = {} /\ step[t] = Len(uo[t].entities)
        BY <2>1, <2>5, <3>3 DEF AtLast
      <4> QED
        BY <2>4, <3>1, <4>1
    <3> QED
      BY <2>1, <3>2, <3>3
  <2>7. CASE Current(t) # e
    <3>1. seen'[e] = seen[e]
      BY <1>4, <2>7 DEF RecordSeen, TypeInv, TypeOK
    <3> QED
      BY <1>0, <1>b, <2>1, <2>2, <2>6, <3>1
  <2>8. CASE Current(t) = e
    <3>1. seen'[e] = seen[e] + 1
      BY <1>4, <2>8 DEF RecordSeen, TypeInv, TypeOK
    <3>2. step[t] \in Pending(t, e)
      BY <2>1, <2>3, <2>4, <2>8
    <3>3. Cardinality(B[t]) = Cardinality(A[t]) - 1 /\ Cardinality(A[t]) \in Nat
      BY <1>00, <2>6, <3>2, FS_RemoveElement, FS_CardinalityType
    <3>4. \A r \in Thread \ {t} : B[r] = A[r]
      BY <1>00, <2>2
    <3>5. b + Cardinality(A[t]) = a + Cardinality(B[t])
      BY <1>00, <3>4, PairsUpdate DEF a, b
    <3>6. Cardinality(B[t]) \in Nat
      BY <1>00, FS_CardinalityType
    <3>7. b = a - 1
      BY <1>t, <3>3, <3>5, <3>6, MovesOne
    <3>8. included'[e] = 0
      BY <1>0, <2>1
    <3> QED
      BY <1>t, <3>1, <3>7, <3>8
  <2> QED
    BY <2>7, <2>8
<1>5. ASSUME NEW u \in UserOp, BundlerRemoves(u) \/ WatcherRemoves(u)
      PROVE  included'[e] = 0 /\ seen'[e] + b <= bound
  <2>1. /\ seen' = seen /\ included' = included
        /\ \A r \in Thread : Pending(r, e)' = Pending(r, e)
    BY <1>5 DEF BundlerRemoves, WatcherRemoves, Pending
  <2> QED
    BY <1>0, <1>b, <2>1
<1>6. ASSUME RecordIncluded
      PROVE  included'[e] = 0 /\ seen'[e] + b <= bound
  <2>1. seen' = seen /\ \A r \in Thread : Pending(r, e)' = Pending(r, e)
    BY <1>6 DEF RecordIncluded, Pending
  <2>2. e # Head(crediting)
    BY <1>6 DEF RecordIncluded
  <2>3. included'[e] = included[e]
    BY <1>6, <2>2 DEF RecordIncluded, TypeInv, TypeOK
  <2> QED
    BY <1>0, <1>b, <2>1, <2>3
<1>7. ASSUME HourlyDecay
      PROVE  included'[e] = 0 /\ seen'[e] + b <= bound
  <2>1. \A r \in Thread : Pending(r, e)' = Pending(r, e)
    BY <1>7 DEF HourlyDecay, Pending
  <2>2. seen'[e] = (seen[e] * 23) \div 24 /\ included'[e] = (included[e] * 23) \div 24
    BY <1>7 DEF HourlyDecay
  <2>3. seen'[e] <= seen[e] /\ included'[e] = 0
    BY <1>0, <2>2
  <2> QED
    BY <1>b, <2>1, <2>3
<1> QED
  BY <1>1, <1>2, <1>3, <1>4, <1>5, <1>6, <1>7 DEF Next, Request

\* History only grows.
LEMMA CreditedGrows == [Next]_vars => credited \subseteq credited'
BY DEF Next, Request, vars, SendUserOperation, LookUpId, CheckSequence,
   CheckEntity, RecordSeen, AddToPool, BundlerRemoves, WatcherRemoves,
   RecordIncluded, HourlyDecay, history

\* validate_reputation checks in one loop and records in another, so threads
\* that overlap may take an entity that was never included past the
\* threshold: by what each of them records once, and no further.
THEOREM SeenBounded == Spec => []SeenWithinOvershoot
<1>1. Init => TypeInv /\ OvershootInv
  BY InitTypeInv, InitOvershootInv
<1>2. TypeInv /\ OvershootInv /\ [Next]_vars => TypeInv' /\ OvershootInv'
  <2> SUFFICES ASSUME TypeInv, OvershootInv, [Next]_vars
               PROVE  TypeInv' /\ OvershootInv'
    OBVIOUS
  <2>1. TypeInv'
    BY StepTypeInv
  <2>2. ASSUME NEW e \in Entity \ credited' PROVE Overshoot(e)'
    BY <2>1, <2>2, CreditedGrows, StepOvershoot DEF OvershootInv
  <2> QED
    BY <2>1, <2>2 DEF OvershootInv
<1>3. TypeInv /\ OvershootInv => SeenWithinOvershoot
  <2> SUFFICES ASSUME TypeInv, NEW e \in Entity, Overshoot(e)
               PROVE  seen[e] <= MinOpsForThrottle + Cardinality(Thread) * Most(e)
    BY DEF OvershootInv, SeenWithinOvershoot, Most
  <2>1. /\ Cardinality(Pairs(Thread, PendingOf(e))) \in Nat
        /\ Cardinality(Thread) * Most(e) \in Nat
    BY PendingBound
  <2>2. seen[e] \in Nat /\ MinOpsForThrottle \in Nat
    BY AdmissionConstants DEF TypeInv, TypeOK
  <2> QED
    BY <2>1, <2>2 DEF Overshoot
<1> QED
  BY <1>1, <1>2, <1>3, PTL DEF Spec

-----------------------------------------------------------------------------
(* The accounts of the reputations                                         *)

\* Mentions of e by operations that passed the validator, counted each time;
\* those among them a thread has still to record.
Recorded(u, e)   == MentionsOf(u, e) \X (1..validated[u])
Unrecorded(t, e) == IF pc[t] = "seen"
                      THEN {i \in MentionsOf(uo[t], e) : i >= step[t]} ELSE {}

\* Mentions of e that may yet be credited, and were recorded before: by
\* operations on their way into the pool or in it, and what is left of the
\* operation the watcher credits.
Adding(t, e)  == CASE pc[t] = "add"  -> MentionsOf(uo[t], e)
                   [] pc[t] = "seen" -> {i \in MentionsOf(uo[t], e) : i < step[t]}
                   [] OTHER -> {}
Held(u, e)    == IF u \in pool THEN MentionsOf(u, e) ELSE {}
Uncredited(e) == {i \in DOMAIN crediting : crediting[i] = e}

RecordedOf(e)   == [u \in UserOp |-> Recorded(u, e)]
UnrecordedOf(e) == [t \in Thread |-> Unrecorded(t, e)]
AddingOf(e)     == [t \in Thread |-> Adding(t, e)]
HeldOf(e)       == [u \in UserOp |-> Held(u, e)]

SeenAdds(e) ==
  Cardinality(Pairs(UserOp, RecordedOf(e)))
    = seen[e] + Cardinality(Pairs(Thread, UnrecordedOf(e)))

CreditsAdd(e) ==
  included[e] + Cardinality(Uncredited(e)) + Cardinality(Pairs(UserOp, HeldOf(e)))
    + Cardinality(Pairs(Thread, AddingOf(e))) <= seen[e]

\* Until the first decay, every mention is accounted for.
AccountInv == decays = 0 => \A e \in Entity : SeenAdds(e) /\ CreditsAdd(e)

\* All that is counted is finite.
CountType ==
  /\ IsFiniteSet(Thread) /\ IsFiniteSet(UserOp)
  /\ \A e \in Entity :
       /\ \A t \in Thread : IsFiniteSet(Unrecorded(t, e)) /\ IsFiniteSet(Adding(t, e))
       /\ \A u \in UserOp : IsFiniteSet(Recorded(u, e)) /\ IsFiniteSet(Held(u, e))
       /\ Cardinality(Pairs(UserOp, RecordedOf(e))) \in Nat
       /\ Cardinality(Pairs(Thread, UnrecordedOf(e))) \in Nat
       /\ Cardinality(Pairs(Thread, AddingOf(e))) \in Nat
       /\ Cardinality(Pairs(UserOp, HeldOf(e))) \in Nat
       /\ IsFiniteSet(Uncredited(e)) /\ Cardinality(Uncredited(e)) \in Nat
       /\ seen[e] \in Nat /\ included[e] \in Nat

LEMMA CountTypes == TypeInv => CountType
<1> SUFFICES ASSUME TypeInv PROVE CountType
  OBVIOUS
<1>1. IsFiniteSet(Thread) /\ IsFiniteSet(UserOp)
  BY AdmissionConstants
<1>2. ASSUME NEW e \in Entity, NEW t \in Thread
      PROVE  IsFiniteSet(Unrecorded(t, e)) /\ IsFiniteSet(Adding(t, e))
  <2>1. CASE pc[t] \in {"seen", "add"}
    <3>1. uo[t] \in UserOp
      BY <2>1 DEF TypeInv, TypeOK
    <3>2. IsFiniteSet(MentionsOf(uo[t], e))
      BY <3>1, MentionsFinite
    <3>3. /\ Unrecorded(t, e) \in SUBSET MentionsOf(uo[t], e)
          /\ Adding(t, e) \in SUBSET MentionsOf(uo[t], e)
      BY <2>1 DEF Unrecorded, Adding
    <3> QED
      BY <3>2, <3>3, FS_Subset
  <2>2. CASE pc[t] \notin {"seen", "add"}
    BY <2>2, FS_EmptySet DEF Unrecorded, Adding
  <2> QED
    BY <2>1, <2>2
<1>3. ASSUME NEW e \in Entity, NEW u \in UserOp
      PROVE  IsFiniteSet(Recorded(u, e)) /\ IsFiniteSet(Held(u, e))
  <2>1. IsFiniteSet(MentionsOf(u, e)) /\ IsFiniteSet(1..validated[u])
    BY MentionsFinite, FS_Interval DEF TypeInv, TypeOK
  <2> QED
    BY <2>1, FS_Product, FS_EmptySet DEF Recorded, Held
<1>4. ASSUME NEW e \in Entity
      PROVE  IsFiniteSet(Uncredited(e)) /\ Cardinality(Uncredited(e)) \in Nat
  <2>1. crediting \in Seq(Entity)
    BY DEF TypeInv, TypeOK
  <2>2. Len(crediting) \in Nat /\ DOMAIN crediting = 1..Len(crediting)
    <3> HIDE DEF Entity
    <3> QED
      BY <2>1
  <2>3. IsFiniteSet(DOMAIN crediting) /\ Uncredited(e) \in SUBSET DOMAIN crediting
    BY <2>2, FS_Interval DEF Uncredited
  <2> QED
    BY <2>3, FS_Subset, FS_CardinalityType
<1>5. ASSUME NEW e \in Entity
      PROVE  /\ Cardinality(Pairs(UserOp, RecordedOf(e))) \in Nat
             /\ Cardinality(Pairs(UserOp, HeldOf(e))) \in Nat
             /\ Cardinality(Pairs(Thread, UnrecordedOf(e))) \in Nat
             /\ Cardinality(Pairs(Thread, AddingOf(e))) \in Nat
  <2>1. /\ \A u \in UserOp : IsFiniteSet(RecordedOf(e)[u]) /\ IsFiniteSet(HeldOf(e)[u])
        /\ \A t \in Thread : IsFiniteSet(UnrecordedOf(e)[t]) /\ IsFiniteSet(AddingOf(e)[t])
    BY <1>2, <1>3 DEF RecordedOf, HeldOf, UnrecordedOf, AddingOf
  <2> QED
    BY <1>1, <2>1, PairsFinite
<1>6. \A e \in Entity : seen[e] \in Nat /\ included[e] \in Nat
  BY DEF TypeInv, TypeOK
<1> QED
  BY <1>1, <1>2, <1>3, <1>4, <1>5, <1>6 DEF CountType

LEMMA CountTypesNext == TypeInv' => CountType'
BY CountTypes, PTL

LEMMA InitAccountInv == Init => AccountInv
<1> SUFFICES ASSUME Init, NEW e \in Entity PROVE SeenAdds(e) /\ CreditsAdd(e)
  BY DEF AccountInv
<1>1. /\ pool = {} /\ crediting = <<>> /\ included[e] = 0 /\ seen[e] = 0
      /\ \A t \in Thread : pc[t] = "idle"
      /\ \A u \in UserOp : validated[u] = 0
  BY DEF Init, Mempool!Init
<1>2. Uncredited(e) = {}
  BY <1>1 DEF Uncredited
<1>3. \A t \in Thread : UnrecordedOf(e)[t] = {} /\ AddingOf(e)[t] = {}
  BY <1>1 DEF UnrecordedOf, AddingOf, Unrecorded, Adding
<1>4. \A u \in UserOp : HeldOf(e)[u] = {} /\ RecordedOf(e)[u] = {}
  <2>1. 1..0 = {}
    OBVIOUS
  <2> QED
    BY <1>1, <2>1 DEF HeldOf, RecordedOf, Held, Recorded
<1>5. /\ Cardinality(Pairs(UserOp, RecordedOf(e))) = 0
      /\ Cardinality(Pairs(UserOp, HeldOf(e))) = 0
      /\ Cardinality(Pairs(Thread, UnrecordedOf(e))) = 0
      /\ Cardinality(Pairs(Thread, AddingOf(e))) = 0
      /\ Cardinality(Uncredited(e)) = 0
  BY <1>2, <1>3, <1>4, PairsEmpty, FS_EmptySet
<1> QED
  BY <1>1, <1>5 DEF SeenAdds, CreditsAdd

\* Passing the validator is one more recording to make of every mention.
LEMMA RecordedStep ==
  ASSUME NEW e \in Entity, NEW w \in UserOp, validated \in [UserOp -> Nat],
         CountType, CountType',
         validated' = [validated EXCEPT ![w] = @ + 1]
  PROVE  Cardinality(Pairs(UserOp, RecordedOf(e))') =
           Cardinality(Pairs(UserOp, RecordedOf(e))) + Mentions(w, e)
<1> DEFINE A == RecordedOf(e)  B == RecordedOf(e)'
           M == MentionsOf(w, e)  n == validated[w]
<1>1. /\ \A u \in UserOp : A[u] = Recorded(u, e) /\ B[u] = Recorded(u, e)'
      /\ n \in Nat /\ validated'[w] = n + 1
      /\ \A u \in UserOp \ {w} : validated'[u] = validated[u]
  BY DEF RecordedOf
<1>2. /\ \A u \in UserOp : IsFiniteSet(A[u]) /\ IsFiniteSet(B[u])
      /\ IsFiniteSet(UserOp)
  BY <1>1 DEF CountType
<1>3. \A u \in UserOp \ {w} : B[u] = A[u]
  BY <1>1 DEF Recorded
<1>4. A[w] = M \X (1..n) /\ B[w] = M \X (1..(n + 1))
  BY <1>1 DEF Recorded
<1>5. IsFiniteSet(M) /\ Cardinality(M) = Mentions(w, e) /\ Mentions(w, e) \in Nat
  BY MentionsFinite DEF Mentions
<1> HIDE DEF A, B, M, n
<1>6. /\ Cardinality(Pairs(UserOp, B)) + Cardinality(A[w])
           = Cardinality(Pairs(UserOp, A)) + Cardinality(B[w])
      /\ Cardinality(Pairs(UserOp, A)) \in Nat /\ Cardinality(Pairs(UserOp, B)) \in Nat
  BY <1>2, <1>3, PairsUpdate
<1>7. ASSUME NEW m \in Nat
      PROVE  Cardinality(M \X (1..m)) = Mentions(w, e) * m
  <2>1. IsFiniteSet(1..m) /\ Cardinality(1..m) = IF 1 > m THEN 0 ELSE m - 1 + 1
    BY FS_Interval
  <2>2. IsFiniteSet(1..m) /\ Cardinality(1..m) = m
    BY <2>1
  <2>3. Cardinality(M \X (1..m)) = Cardinality(M) * Cardinality(1..m)
    BY <1>5, <2>2, FS_Product
  <2> QED
    BY <1>5, <2>2, <2>3
<1>8. /\ Cardinality(A[w]) = Mentions(w, e) * n
      /\ Cardinality(B[w]) = Mentions(w, e) * (n + 1)
  <2>1. n \in Nat /\ n + 1 \in Nat
    BY <1>1
  <2> QED
    BY <1>4, <1>7, <2>1
<1>9. Mentions(w, e) * (n + 1) = Mentions(w, e) * n + Mentions(w, e)
      /\ Mentions(w, e) * n \in Nat
  BY <1>1, <1>5
<1> QED
  BY <1>5, <1>6, <1>8, <1>9 DEF A, B

\* A step of thread t changes the counts by what it changes of t.
LEMMA ThreadStep ==
  ASSUME NEW e \in Entity, NEW t \in Thread, CountType, CountType',
         \A r \in Thread \ {t} : /\ pc'[r] = pc[r] /\ uo'[r] = uo[r]
                                 /\ step'[r] = step[r]
  PROVE  /\ Cardinality(Pairs(Thread, UnrecordedOf(e))') + Cardinality(Unrecorded(t, e))
              = Cardinality(Pairs(Thread, UnrecordedOf(e)))
                  + Cardinality(Unrecorded(t, e)')
         /\ Cardinality(Pairs(Thread, AddingOf(e))') + Cardinality(Adding(t, e))
              = Cardinality(Pairs(Thread, AddingOf(e))) + Cardinality(Adding(t, e)')
         /\ Cardinality(Unrecorded(t, e)) \in Nat /\ Cardinality(Unrecorded(t, e)') \in Nat
         /\ Cardinality(Adding(t, e)) \in Nat /\ Cardinality(Adding(t, e)') \in Nat
<1> DEFINE A == UnrecordedOf(e)  B == UnrecordedOf(e)'
           C == AddingOf(e)      D == AddingOf(e)'
<1>1. \A r \in Thread : /\ A[r] = Unrecorded(r, e) /\ B[r] = Unrecorded(r, e)'
                        /\ C[r] = Adding(r, e) /\ D[r] = Adding(r, e)'
  BY DEF UnrecordedOf, AddingOf
<1>2. /\ IsFiniteSet(Thread)
      /\ \A r \in Thread : /\ IsFiniteSet(A[r]) /\ IsFiniteSet(B[r])
                           /\ IsFiniteSet(C[r]) /\ IsFiniteSet(D[r])
  BY <1>1 DEF CountType
<1>3. \A r \in Thread \ {t} : /\ Unrecorded(r, e)' = Unrecorded(r, e)
                              /\ Adding(r, e)' = Adding(r, e)
  BY DEF Unrecorded, Adding
<1>4. \A r \in Thread \ {t} : B[r] = A[r] /\ D[r] = C[r]
  BY <1>1, <1>3
<1> HIDE DEF A, B, C, D
<1>5. /\ Cardinality(Pairs(Thread, B)) + Cardinality(A[t])
           = Cardinality(Pairs(Thread, A)) + Cardinality(B[t])
      /\ Cardinality(A[t]) \in Nat /\ Cardinality(B[t]) \in Nat
  BY <1>2, <1>4, PairsUpdate
<1>6. /\ Cardinality(Pairs(Thread, D)) + Cardinality(C[t])
           = Cardinality(Pairs(Thread, C)) + Cardinality(D[t])
      /\ Cardinality(C[t]) \in Nat /\ Cardinality(D[t]) \in Nat
  BY <1>2, <1>4, PairsUpdate
<1>7. Pairs(Thread, B) = Pairs(Thread, UnrecordedOf(e))'
      /\ Pairs(Thread, D) = Pairs(Thread, AddingOf(e))'
  BY DEF B, D
<1> QED
  BY <1>1, <1>5, <1>6, <1>7 DEF A, C

\* ... and a change of the pool by u changes what it holds by u's mentions.
LEMMA PoolStep ==
  ASSUME NEW e \in Entity, NEW u \in UserOp, CountType, CountType'
  PROVE  /\ pool' \subseteq pool \cup {u}
              => Cardinality(Pairs(UserOp, HeldOf(e))')
                   <= Cardinality(Pairs(UserOp, HeldOf(e))) + Mentions(u, e)
         /\ u \in pool /\ pool' = pool \ {u}
              => Cardinality(Pairs(UserOp, HeldOf(e))') + Mentions(u, e)
                   = Cardinality(Pairs(UserOp, HeldOf(e)))
<1> DEFINE A == HeldOf(e)  B == HeldOf(e)'
           C == [v \in UserOp |-> IF v = u THEN MentionsOf(u, e) ELSE A[v]]
<1>1. \A v \in UserOp : A[v] = Held(v, e) /\ B[v] = Held(v, e)'
  BY DEF HeldOf
<1>2. IsFiniteSet(MentionsOf(u, e)) /\ Mentions(u, e) \in Nat
  BY MentionsFinite
<1>3. /\ IsFiniteSet(UserOp)
      /\ \A v \in UserOp : IsFiniteSet(A[v]) /\ IsFiniteSet(B[v])
  BY <1>1 DEF CountType
<1>4. ASSUME pool' \subseteq pool \cup {u}
      PROVE  Cardinality(Pairs(UserOp, B)) <= Cardinality(Pairs(UserOp,
      A)) + Mentions(u, e)
  <2>1. \A v \in UserOp : B[v] \subseteq C[v]
    BY <1>1, <1>4 DEF Held
  <2>2. /\ \A v \in UserOp : IsFiniteSet(C[v])
        /\ \A v \in UserOp \ {u} : C[v] = A[v]
        /\ C[u] = MentionsOf(u, e)
    BY <1>2, <1>3
  <2> HIDE DEF A, B, C
  <2>3. /\ Cardinality(Pairs(UserOp, B)) <= Cardinality(Pairs(UserOp, C))
        /\ Cardinality(Pairs(UserOp, B)) \in Nat
    BY <1>3, <2>1, <2>2, PairsSubset
  <2>4. /\ Cardinality(Pairs(UserOp, C)) + Cardinality(A[u])
             = Cardinality(Pairs(UserOp, A)) + Cardinality(C[u])
        /\ Cardinality(Pairs(UserOp, A)) \in Nat /\ Cardinality(Pairs(UserOp, C)) \in Nat
        /\ Cardinality(A[u]) \in Nat
    BY <1>3, <2>2, PairsUpdate
  <2> QED
    BY <1>2, <2>2, <2>3, <2>4 DEF Mentions
<1>5. ASSUME u \in pool, pool' = pool \ {u}
      PROVE  Cardinality(Pairs(UserOp, B)) + Mentions(u,
      e) = Cardinality(Pairs(UserOp, A))
  <2>1. /\ \A v \in UserOp \ {u} : B[v] = A[v]
        /\ A[u] = MentionsOf(u, e) /\ B[u] = {}
    BY <1>1, <1>5 DEF Held
  <2>a. \A v \in UserOp \ {u} : B[v] = A[v]
    BY <2>1
  <2> HIDE DEF A, B
  <2>2. /\ Cardinality(Pairs(UserOp, B)) + Cardinality(A[u])
             = Cardinality(Pairs(UserOp, A)) + Cardinality(B[u])
        /\ Cardinality(Pairs(UserOp, A)) \in Nat /\ Cardinality(Pairs(UserOp, B)) \in Nat
    BY <1>3, <2>a, PairsUpdate
  <2> QED
    BY <1>2, <2>1, <2>2, FS_EmptySet DEF Mentions
<1>6. Pairs(UserOp, B) = Pairs(UserOp, HeldOf(e))'
  BY DEF B
<1> HIDE DEF B
<1> QED
  BY <1>4, <1>5, <1>6

\* An entity that is credited moves from the ones awaiting it to the included.
LEMMA CreditsOne ==
  ASSUME NEW n \in Nat, NEW n1 \in Nat, NEW c \in Nat, NEW c1 \in Nat,
         NEW h \in Nat, NEW a \in Nat, NEW s \in Nat,
         n + c + h + a <= s, n1 = n + 1, c1 <= c - 1
  PROVE  n1 + c1 + h + a <= s
OBVIOUS

\* Every step keeps the accounts: a mention moves from unrecorded to seen,
\* from a thread to the pool, from there to the watcher, and is then credited.
LEMMA StepAccount ==
  ASSUME TypeInv, TypeInv', [Next]_vars, decays' = 0,
         NEW e \in Entity, SeenAdds(e), CreditsAdd(e)
  PROVE  SeenAdds(e)' /\ CreditsAdd(e)'
<1>0. CountType /\ CountType'
  BY CountTypes, CountTypesNext
<1> DEFINE rec == Cardinality(Pairs(UserOp, RecordedOf(e)))
           unr == Cardinality(Pairs(Thread, UnrecordedOf(e)))
           add == Cardinality(Pairs(Thread, AddingOf(e)))
           hel == Cardinality(Pairs(UserOp, HeldOf(e)))
           unc == Cardinality(Uncredited(e))
<1>00. /\ rec \in Nat /\ unr \in Nat /\ add \in Nat /\ hel \in Nat /\ unc \in Nat
       /\ rec' \in Nat /\ unr' \in Nat /\ add' \in Nat /\ hel' \in Nat /\ unc' \in Nat
       /\ seen[e] \in Nat /\ included[e] \in Nat
       /\ seen'[e] \in Nat /\ included'[e] \in Nat
       /\ rec = seen[e] + unr
       /\ included[e] + unc + hel + add <= seen[e]
  BY <1>0 DEF CountType, SeenAdds, CreditsAdd
<1>n. /\ unr \in Nat /\ unr' \in Nat /\ add \in Nat /\ add' \in Nat
  BY <1>00
<1>a. SUFFICES rec' = seen'[e] + unr' /\ included'[e] + unc' + hel' + add' <= seen'[e]
  BY DEF SeenAdds, CreditsAdd
<1>b. validated' = validated => rec' = rec
  BY DEF RecordedOf, Recorded
<1>c. pc' = pc /\ uo' = uo /\ step' = step => unr' = unr /\ add' = add
  BY DEF UnrecordedOf, Unrecorded, AddingOf, Adding
<1>d. pool' = pool => hel' = hel
  BY DEF HeldOf, Held
<1>e. crediting' = crediting => unc' = unc
  BY DEF Uncredited
<1> HIDE DEF rec, unr, add, hel, unc
<1>f. ASSUME NEW t \in Thread,
             \A r \in Thread \ {t} : /\ pc'[r] = pc[r] /\ uo'[r] = uo[r]
                                     /\ step'[r] = step[r]
      PROVE  /\ unr' + Cardinality(Unrecorded(t, e)) = unr + Cardinality(Unrecorded(t, e)')
             /\ add' + Cardinality(Adding(t, e)) = add + Cardinality(Adding(t, e)')
             /\ Cardinality(Unrecorded(t, e)) \in Nat
             /\ Cardinality(Unrecorded(t, e)') \in Nat
             /\ Cardinality(Adding(t, e)) \in Nat /\ Cardinality(Adding(t, e)') \in Nat
  BY <1>0, <1>f, ThreadStep DEF unr, add
<1>g. ASSUME NEW u \in UserOp
      PROVE  /\ pool' \subseteq pool \cup {u} => hel' <= hel + Mentions(u, e)
             /\ u \in pool /\ pool' = pool \ {u} => hel' + Mentions(u, e) = hel
             /\ Mentions(u, e) \in Nat
  BY <1>0, PoolStep, MentionsFinite DEF hel
<1> USE DEF request, bounds, history
<1>1. CASE UNCHANGED vars
  BY <1>00, <1>b, <1>c, <1>d, <1>e, <1>1 DEF vars
<1>2. ASSUME NEW t \in Thread,
             \/ \E u \in UserOp : SendUserOperation(t, u)
             \/ LookUpId(t) \/ CheckSequence(t)
             \/ CheckEntity(t) /\ pc'[t] # "seen"
      PROVE  rec' = seen'[e] + unr' /\ included'[e] + unc' + hel' + add' <= seen'[e]
  <2>1. /\ seen' = seen /\ included' = included /\ pool' = pool
        /\ crediting' = crediting /\ validated' = validated
        /\ \A r \in Thread \ {t} : /\ pc'[r] = pc[r] /\ uo'[r] = uo[r]
                                   /\ step'[r] = step[r]
        /\ pc[t] \notin {"seen", "add"} /\ pc'[t] \notin {"seen", "add"}
    BY <1>2 DEF SendUserOperation, LookUpId, CheckSequence, CheckEntity, Loop,
      Goto, NextEntity, Respond, TypeInv, TypeOK
  <2>2. /\ Unrecorded(t, e) = {} /\ Unrecorded(t, e)' = {}
        /\ Adding(t, e) = {} /\ Adding(t, e)' = {}
    BY <2>1 DEF Unrecorded, Adding
  <2>f. /\ unr' + Cardinality(Unrecorded(t, e)) = unr + Cardinality(Unrecorded(t, e)')
        /\ add' + Cardinality(Adding(t, e)) = add + Cardinality(Adding(t, e)')
        /\ Cardinality(Unrecorded(t, e)) \in Nat
        /\ Cardinality(Unrecorded(t, e)') \in Nat
        /\ Cardinality(Adding(t, e)) \in Nat /\ Cardinality(Adding(t, e)') \in Nat
    BY <1>f, <2>1
  <2>3. unr' = unr /\ add' = add
    BY <1>00, <2>2, <2>f
  <2> QED
    BY <1>00, <1>b, <1>d, <1>e, <2>1, <2>3
<1>3. ASSUME NEW t \in Thread, CheckEntity(t), pc'[t] = "seen"
      PROVE  rec' = seen'[e] + unr' /\ included'[e] + unc' + hel' + add' <= seen'[e]
  <2>1. /\ seen' = seen /\ included' = included /\ pool' = pool
        /\ crediting' = crediting /\ uo' = uo
        /\ validated' = [validated EXCEPT ![uo[t]] = @ + 1]
        /\ \A r \in Thread \ {t} : /\ pc'[r] = pc[r] /\ uo'[r] = uo[r]
                                   /\ step'[r] = step[r]
        /\ pc[t] = "check" /\ step'[t] = 1 /\ uo[t] \in UserOp
        /\ validated \in [UserOp -> Nat]
    BY <1>3 DEF CheckEntity, Loop, NextEntity, Respond, TypeInv, TypeOK
  <2>2. MentionsOf(uo[t], e) \subseteq 1..Len(uo[t].entities)
    BY <2>1, MentionsFinite
  <2>3. /\ Unrecorded(t, e) = {} /\ Adding(t, e) = {}
        /\ Unrecorded(t, e)' = MentionsOf(uo[t], e) /\ Adding(t, e)' = {}
    <3>1. Unrecorded(t, e) = {} /\ Adding(t, e) = {}
      BY <2>1 DEF Unrecorded, Adding
    <3>2. /\ Unrecorded(t, e)' = {i \in MentionsOf(uo[t], e) : i >= 1}
          /\ Adding(t, e)' = {i \in MentionsOf(uo[t], e) : i < 1}
      BY <1>3, <2>1 DEF Unrecorded, Adding
    <3> QED
      BY <2>2, <3>1, <3>2
  <2>f. /\ unr' + Cardinality(Unrecorded(t, e)) = unr + Cardinality(Unrecorded(t, e)')
        /\ add' + Cardinality(Adding(t, e)) = add + Cardinality(Adding(t, e)')
        /\ Cardinality(Unrecorded(t, e)) \in Nat
        /\ Cardinality(Unrecorded(t, e)') \in Nat
        /\ Cardinality(Adding(t, e)) \in Nat /\ Cardinality(Adding(t, e)') \in Nat
    BY <1>f, <2>1
  <2>4. unr' = unr + Mentions(uo[t], e) /\ add' = add /\ Mentions(uo[t], e) \in Nat
    <3>1. /\ Cardinality(Unrecorded(t, e)') = Mentions(uo[t], e)
          /\ Cardinality(Unrecorded(t, e)) = 0 /\ Cardinality(Adding(t, e)) = 0
          /\ Cardinality(Adding(t, e)') = 0
      BY <2>3, FS_EmptySet DEF Mentions
    <3> QED
      BY <1>00, <2>1, <2>f, <3>1, MentionsFinite
  <2>5. rec' = rec + Mentions(uo[t], e)
    BY <1>0, <2>1, RecordedStep DEF rec
  <2> QED
    BY <1>00, <1>d, <1>e, <2>1, <2>4, <2>5
<1>4. ASSUME NEW t \in Thread, RecordSeen(t)
      PROVE  rec' = seen'[e] + unr' /\ included'[e] + unc' + hel' + add' <= seen'[e]
  <2>1. /\ included' = included /\ pc[t] = "seen" /\ uo' = uo /\ pool' = pool
        /\ crediting' = crediting /\ validated' = validated
        /\ \A r \in Thread \ {t} : /\ pc'[r] = pc[r] /\ uo'[r] = uo[r]
                                   /\ step'[r] = step[r]
        /\ uo[t] \in UserOp /\ uo[t] # None /\ step[t] \in 1..Len(uo[t].entities)
        /\ \/ pc'[t] = "add" /\ AtLast(t)
           \/ pc'[t] = "seen" /\ step'[t] = step[t] + 1
    BY <1>0, <1>4, RecordSeenMoves, Zenon
  <2> DEFINE M == MentionsOf(uo[t], e)
  <2>2. /\ M \subseteq 1..Len(uo[t].entities) /\ (step[t] \in M <=> Current(t) = e)
        /\ Len(uo[t].entities) \in Nat
    BY <2>1, MentionsFinite, Entities DEF MentionsOf, Current
  <2>3. /\ Unrecorded(t, e) = {i \in M : i >= step[t]}
        /\ Adding(t, e) = {i \in M : i < step[t]}
        /\ pc'[t] = "seen" => /\ Unrecorded(t, e)' = {i \in M : i >= step'[t]}
                              /\ Adding(t, e)' = {i \in M : i < step'[t]}
        /\ pc'[t] = "add" => Unrecorded(t, e)' = {} /\ Adding(t, e)' = M
    BY <2>1 DEF Unrecorded, Adding
  <2>4. /\ Unrecorded(t, e)' = Unrecorded(t, e) \ {step[t]}
        /\ Adding(t, e)' = Adding(t, e) \cup (M \cap {step[t]})
    <3> HIDE DEF M
    <3>1. \A i \in M : i \in Nat /\ i <= Len(uo[t].entities)
      BY <2>2
    <3>2. CASE pc'[t] = "seen" /\ step'[t] = step[t] + 1
      <4>1. step[t] \in Nat
        BY <2>1
      <4>2. /\ Unrecorded(t, e)' = {i \in M : i >= step[t] + 1}
            /\ Adding(t, e)' = {i \in M : i < step[t] + 1}
        BY <2>3, <3>2
      <4> QED
        BY <2>3, <3>1, <4>1, <4>2
    <3>3. CASE pc'[t] = "add" /\ AtLast(t)
      <4>1. Unrecorded(t, e)' = {} /\ Adding(t, e)' = M
            /\ step[t] = Len(uo[t].entities)
        BY <2>3, <3>3 DEF AtLast
      <4> QED
        BY <2>2, <2>3, <3>1, <4>1
    <3> QED
      BY <2>1, <3>2, <3>3
  <2>5. IsFiniteSet(Unrecorded(t, e)) /\ IsFiniteSet(Adding(t, e))
    BY <1>0 DEF CountType
  <2>f. /\ unr' + Cardinality(Unrecorded(t, e)) = unr + Cardinality(Unrecorded(t, e)')
        /\ add' + Cardinality(Adding(t, e)) = add + Cardinality(Adding(t, e)')
        /\ Cardinality(Unrecorded(t, e)) \in Nat
        /\ Cardinality(Unrecorded(t, e)') \in Nat
        /\ Cardinality(Adding(t, e)) \in Nat /\ Cardinality(Adding(t, e)') \in Nat
    BY <1>f, <2>1
  <2>6. CASE Current(t) # e
    <3>1. seen'[e] = seen[e]
      BY <1>4, <2>6 DEF RecordSeen, TypeInv, TypeOK
    <3>2. step[t] \notin M
      BY <2>2, <2>6
    <3>3. Unrecorded(t, e)' = Unrecorded(t, e) /\ Adding(t, e)' = Adding(t, e)
      <4> HIDE DEF M
      <4> QED
        BY <2>3, <2>4, <3>2
    <3>4. unr' = unr /\ add' = add
      BY <1>00, <2>f, <3>3
    <3> QED
      BY <1>00, <1>b, <1>d, <1>e, <2>1, <3>1, <3>4
  <2>7. CASE Current(t) = e
    <3>1. seen'[e] = seen[e] + 1
      BY <1>4, <2>7 DEF RecordSeen, TypeInv, TypeOK
    <3>2. step[t] \in M /\ step[t] \in Nat
      BY <2>1, <2>2, <2>7
    <3>3. /\ step[t] \in Unrecorded(t, e) /\ step[t] \notin Adding(t, e)
          /\ Adding(t, e)' = Adding(t, e) \cup {step[t]}
      <4> HIDE DEF M
      <4> QED
        BY <2>3, <2>4, <3>2
    <3>4. Cardinality(Unrecorded(t, e)') = Cardinality(Unrecorded(t, e)) - 1
      BY <2>4, <2>5, <3>3, FS_RemoveElement
    <3>5. Cardinality(Adding(t, e)') = Cardinality(Adding(t, e)) + 1
      BY <2>5, <3>3, FS_AddElement
    <3>6. unr' = unr - 1 /\ add' = add + 1
      BY <1>n, <2>f, <3>4, <3>5, MovesOne
    <3>7. /\ rec' = rec /\ hel' = hel /\ unc' = unc
          /\ included'[e] = included[e]
      BY <1>b, <1>d, <1>e, <2>1
    <3>8. rec' = seen'[e] + unr'
      BY <1>00, <3>1, <3>6, <3>7
    <3>9. included'[e] + unc' + hel' + add' <= seen'[e]
      BY <1>00, <3>1, <3>6, <3>7
    <3> QED
      BY <3>8, <3>9
  <2> QED
    BY <2>6, <2>7
<1>5. ASSUME NEW t \in Thread, AddToPool(t)
      PROVE  rec' = seen'[e] + unr' /\ included'[e] + unc' + hel' + add' <= seen'[e]
  <2>1. /\ seen' = seen /\ included' = included
        /\ crediting' = crediting /\ validated' = validated
        /\ \A r \in Thread \ {t} : /\ pc'[r] = pc[r] /\ uo'[r] = uo[r]
                                   /\ step'[r] = step[r]
        /\ uo[t] \in UserOp /\ pc[t] = "add" /\ pc'[t] = "idle"
    BY <1>5 DEF AddToPool, Respond, TypeInv, TypeOK
  <2>2. pool' \subseteq pool \cup {uo[t]}
    BY <1>5 DEF AddToPool, Mempool!Insert, Mempool!Replace
  <2>3. /\ Unrecorded(t, e) = {} /\ Unrecorded(t, e)' = {}
        /\ Adding(t, e) = MentionsOf(uo[t], e) /\ Adding(t, e)' = {}
    BY <2>1 DEF Unrecorded, Adding
  <2>f. /\ unr' + Cardinality(Unrecorded(t, e)) = unr + Cardinality(Unrecorded(t, e)')
        /\ add' + Cardinality(Adding(t, e)) = add + Cardinality(Adding(t, e)')
        /\ Cardinality(Unrecorded(t, e)) \in Nat
        /\ Cardinality(Unrecorded(t, e)') \in Nat
        /\ Cardinality(Adding(t, e)) \in Nat /\ Cardinality(Adding(t, e)') \in Nat
    BY <1>f, <2>1
  <2>4. unr' = unr /\ add' + Mentions(uo[t], e) = add
    <3>0. Cardinality({}) = 0
      BY FS_EmptySet
    <3>1. /\ Cardinality(Adding(t, e)) = Mentions(uo[t], e)
          /\ Cardinality(Unrecorded(t, e)) = 0 /\ Cardinality(Unrecorded(t, e)') = 0
          /\ Cardinality(Adding(t, e)') = 0
      BY <2>3, <3>0, Zenon DEF Mentions
    <3>2. unr' + 0 = unr + 0
      BY <2>f, <3>1, Zenon
    <3>3. add' + Mentions(uo[t], e) = add + 0
      BY <2>f, <3>1, Zenon
    <3>4. unr' = unr
      BY <1>n, <3>2, AddsNone, Zenon
    <3>5. add' + Mentions(uo[t], e) = add
      BY <1>n, <3>3, AddsNone, Zenon
    <3> QED
      BY <3>4, <3>5
  <2>5. hel' <= hel + Mentions(uo[t], e) /\ Mentions(uo[t], e) \in Nat
    BY <1>g, <2>1, <2>2
  <2> QED
    BY <1>00, <1>b, <1>e, <2>1, <2>4, <2>5
<1>6. ASSUME NEW u \in UserOp, BundlerRemoves(u)
      PROVE  rec' = seen'[e] + unr' /\ included'[e] + unc' + hel' + add' <= seen'[e]
  <2>1. /\ UNCHANGED <<seen, included, pc, uo, step, crediting, validated>>
        /\ u \in pool /\ pool' = pool \ {u}
    BY <1>6 DEF BundlerRemoves, Mempool!Remove
  <2>2. hel' + Mentions(u, e) = hel /\ Mentions(u, e) \in Nat
    BY <1>g, <2>1
  <2> QED
    BY <1>00, <1>b, <1>c, <1>e, <2>1, <2>2
<1>7. ASSUME NEW u \in UserOp, WatcherRemoves(u)
      PROVE  rec' = seen'[e] + unr' /\ included'[e] + unc' + hel' + add' <= seen'[e]
  <2>1. /\ UNCHANGED <<seen, included, pc, uo, step, validated>>
        /\ u \in pool /\ pool' = pool \ {u}
        /\ crediting' = u.entities
    BY <1>7 DEF WatcherRemoves, Mempool!Remove
  <2>2. hel' + Mentions(u, e) = hel /\ Mentions(u, e) \in Nat
    BY <1>g, <2>1
  <2>3. unc' = Mentions(u, e)
    BY <2>1 DEF unc, Uncredited, Mentions, MentionsOf
  <2> QED
    BY <1>00, <1>b, <1>c, <2>1, <2>2, <2>3
<1>8. ASSUME RecordIncluded
      PROVE  rec' = seen'[e] + unr' /\ included'[e] + unc' + hel' + add' <= seen'[e]
  <2>1. /\ UNCHANGED <<seen, pool, pc, uo, step, validated>>
        /\ crediting \in Seq(Entity) /\ crediting # <<>>
        /\ crediting' = Tail(crediting)
        /\ included'[e] = included[e] + (IF crediting[1] = e THEN 1 ELSE 0)
    BY <1>8 DEF RecordIncluded, TypeInv, TypeOK
  <2> DEFINE f == [i \in Uncredited(e)' |-> i + 1]
  <2>2. /\ \A i \in Uncredited(e)' : i \in Nat /\ i + 1 \in Uncredited(e) \ {1}
        /\ 1 \in Uncredited(e) <=> crediting[1] = e
    <3>1. /\ Len(crediting) \in Nat \ {0} /\ DOMAIN crediting = 1..Len(crediting)
          /\ DOMAIN crediting' = 1..(Len(crediting) - 1)
          /\ \A i \in 1..(Len(crediting) - 1) : crediting'[i] = crediting[i + 1]
      <4> HIDE DEF Entity
      <4> QED
        BY <2>1
    <3> QED
      BY <3>1 DEF Uncredited
  <2>3. f \in Injection(Uncredited(e)', Uncredited(e) \ {1})
    BY <2>2 DEF Injection, IsInjective
  <2>4. /\ IsFiniteSet(Uncredited(e) \ {1})
        /\ Cardinality(Uncredited(e) \ {1}) =
             IF 1 \in Uncredited(e) THEN unc - 1 ELSE unc
    BY <1>0, FS_RemoveElement DEF CountType, unc
  <2> HIDE DEF f
  <2>5. unc' <= Cardinality(Uncredited(e) \ {1})
    BY <2>3, <2>4, FS_Injection DEF unc
  <2>6. unc' <= IF crediting[1] = e THEN unc - 1 ELSE unc
    BY <2>2, <2>4, <2>5
  <2>7. rec' = rec /\ unr' = unr /\ add' = add /\ hel' = hel /\ seen' = seen
    BY <1>b, <1>c, <1>d, <2>1
  <2>8. CASE crediting[1] = e
    <3>1. included'[e] = included[e] + 1 /\ unc' <= unc - 1
      BY <2>1, <2>6, <2>8
    <3>2. included'[e] + unc' + hel + add <= seen[e]
      BY <1>00, <3>1, CreditsOne
    <3> QED
      BY <1>00, <2>7, <3>2
  <2>9. CASE crediting[1] # e
    <3>1. included'[e] = included[e] /\ unc' <= unc
      BY <1>00, <2>1, <2>6, <2>9
    <3>2. included'[e] + unc' + hel + add <= seen[e]
      BY <1>00, <3>1
    <3> QED
      BY <1>00, <2>7, <3>2
  <2> QED
    BY <2>8, <2>9
<1>9. ~HourlyDecay
  BY DEF HourlyDecay, TypeInv
<1> QED
  BY <1>1, <1>2, <1>3, <1>4, <1>5, <1>6, <1>7, <1>8, <1>9 DEF Next, Request

\* The reputations' books balance: ops_seen is the number of mentions in the
\* operations that passed the validator, no less and no more, whatever
\* threads overlapped; and no mention is credited that was not seen.
THEOREM CountersBalance == Spec => []CountersAddUp
<1>1. Init => TypeInv /\ AccountInv
  BY InitTypeInv, InitAccountInv
<1>2. TypeInv /\ AccountInv /\ [Next]_vars => TypeInv' /\ AccountInv'
  <2> SUFFICES ASSUME TypeInv, AccountInv, [Next]_vars
               PROVE  TypeInv' /\ AccountInv'
    OBVIOUS
  <2>1. TypeInv'
    BY StepTypeInv
  <2>2. ASSUME decays' = 0, NEW e \in Entity PROVE SeenAdds(e)' /\ CreditsAdd(e)'
    <3>1. decays = 0
      BY <2>2 DEF Next, Request, vars, SendUserOperation, LookUpId,
        CheckSequence, CheckEntity, RecordSeen, AddToPool, BundlerRemoves,
        WatcherRemoves,
         RecordIncluded, HourlyDecay, bounds, TypeInv
    <3>2. SeenAdds(e) /\ CreditsAdd(e)
      BY <3>1 DEF AccountInv
    <3> QED
      BY <2>1, <2>2, <3>2, StepAccount
  <2> QED
    BY <2>1, <2>2 DEF AccountInv
<1>3. TypeInv /\ AccountInv => CountersAddUp
  <2> SUFFICES ASSUME TypeInv, AccountInv, decays = 0, NEW e \in Entity
               PROVE  /\ included[e] <= seen[e]
                      /\ (\A t \in Thread : pc[t] # "seen")
                           => seen[e] = Cardinality(Recordings(e))
    BY DEF CountersAddUp
  <2>1. SeenAdds(e) /\ CreditsAdd(e) /\ CountType
    BY CountTypes DEF AccountInv
  <2>2. included[e] <= seen[e]
    BY <2>1 DEF CreditsAdd, CountType
  <2>3. ASSUME \A t \in Thread : pc[t] # "seen"
        PROVE  seen[e] = Cardinality(Recordings(e))
    <3>1. \A t \in Thread : UnrecordedOf(e)[t] = {}
      BY <2>3 DEF UnrecordedOf, Unrecorded
    <3>2. Cardinality(Pairs(Thread, UnrecordedOf(e))) = 0
      BY <3>1, PairsEmpty
    <3>3. Pairs(UserOp, RecordedOf(e)) = Recordings(e)
      BY DEF Pairs, RecordedOf, Recorded, Recordings
    <3> QED
      BY <2>1, <3>2, <3>3 DEF SeenAdds, CountType
  <2> QED
    BY <2>2, <2>3
<1> QED
  BY <1>1, <1>2, <1>3, PTL DEF Spec

-----------------------------------------------------------------------------
(* The decay                                                               *)

\* Rounding down loses less than one.
LEMMA DecayOf ==
  ASSUME NEW n \in Nat
  PROVE  LET m == (n * 23) \div 24
         IN  m \in Nat /\ m <= n /\ 24 * m <= 23 * n /\ 23 * n <= 24 * m + 23
OBVIOUS

\* If i of s is at least one in d, the decayed counters miss one in d by
\* less than a whole inclusion.
LEMMA DecayedRatio ==
  ASSUME NEW s \in Nat, NEW i \in Nat, NEW s1 \in Nat, NEW i1 \in Nat,
         NEW d \in Nat \ {0}, s <= i * d,
         24 * s1 <= 23 * s, 23 * i <= 24 * i1 + 23
  PROVE  s1 < (i1 + 1) * d
<1> DEFINE x == i * d
           y == i1 * d
<1>1. x \in Nat /\ y \in Nat /\ (i1 + 1) * d = y + d
  OBVIOUS
<1>2. 23 * x <= 24 * y + 23 * d
  <2>1. (23 * i) * d <= (24 * i1 + 23) * d
    <3> DEFINE a == 23 * i  b == 24 * i1 + 23
    <3>1. a \in Nat /\ b \in Nat /\ a <= b
      OBVIOUS
    <3> HIDE DEF a, b
    <3>2. a * d <= b * d
      <4>1. PICK c \in Nat : b = a + c
        <5>1. b - a \in Nat /\ b = a + (b - a)
          BY <3>1
        <5> QED
          BY <5>1
      <4>2. b * d = a * d + c * d /\ c * d \in Nat /\ a * d \in Nat
        BY <3>1, <4>1
      <4> QED
        BY <4>2
    <3> QED
      BY <3>2 DEF a, b
  <2>2. (23 * i) * d = 23 * x /\ (24 * i1 + 23) * d = 24 * y + 23 * d
    OBVIOUS
  <2> QED
    BY <2>1, <2>2
<1>3. s <= x
  OBVIOUS
<1> HIDE DEF x, y
<1>4. s1 < y + d
  BY <1>1, <1>2, <1>3
<1> QED
  BY <1>1, <1>4

\* With the thresholds of ReputationConfig::default, or any of which the ban
\* asks for half the ratio of the throttle at most and the throttle is silent
\* up to the one operation in n it asks for: the decay bans nobody it found in
\* good standing.
THEOREM DecaySparesTheGood ==
  ASSUME ThrottleDenominator <= MinOpsForThrottle + 1,
         2 * ThrottleDenominator <= BanDenominator
  PROVE  Spec => DecayBansNobody
<1> DEFINE Spares == HourlyDecay =>
                       \A e \in Entity : Status(e) = "Ok" => Status(e)' # "Banned"
<1>1. TypeInv /\ [Next]_vars => [Spares]_vars
  <2> SUFFICES ASSUME TypeInv, HourlyDecay, NEW e \in Entity, Status(e) = "Ok"
               PROVE  Status(e)' # "Banned"
    OBVIOUS
  <2> DEFINE s == seen[e]  i == included[e]
             d == ThrottleDenominator  b == BanDenominator
             s1 == (s * 23) \div 24  i1 == (i * 23) \div 24
  <2>1. s \in Nat /\ i \in Nat
    BY DEF TypeInv, TypeOK
  <2>2. seen'[e] = s1 /\ included'[e] = i1
    BY DEF HourlyDecay
  <2>3. d \in Nat \ {0} /\ b \in Nat \ {0} /\ MinOpsForThrottle \in Nat
    BY AdmissionConstants
  <2>4. /\ s1 \in Nat /\ s1 <= s /\ 24 * s1 <= 23 * s
        /\ i1 \in Nat /\ 23 * i <= 24 * i1 + 23
    BY <2>1, DecayOf
  <2>5. s <= MinOpsForThrottle \/ ~(i * d < s)
    BY DEF Status
  <2>6. s1 <= MinOpsForThrottle \/ ~(i1 * b < s1) => Status(e)' # "Banned"
    BY <2>2 DEF Status
  <2> HIDE DEF s, i, s1, i1, d, b
  <2>7. CASE s <= MinOpsForThrottle
    BY <2>1, <2>3, <2>4, <2>6, <2>7
  <2>8. CASE ~(i * d < s)
    <3>1. s <= i * d
      BY <2>1, <2>3, <2>8
    <3>2. s1 < (i1 + 1) * d
      BY <2>1, <2>3, <2>4, <3>1, DecayedRatio
    <3>3. CASE i1 = 0
      <4>1. s1 < d
        BY <2>3, <3>2, <3>3
      <4>2. s1 <= MinOpsForThrottle
        BY <2>3, <2>4, <4>1 DEF d
      <4> QED
        BY <2>6, <4>2
    <3>4. CASE i1 >= 1
      <4> DEFINE y == i1 * d
      <4>1. y \in Nat /\ (i1 + 1) * d = y + d
        BY <2>3, <2>4
      <4>2. d <= y
        <5>1. PICK c \in Nat : i1 = c + 1
          <6>1. i1 - 1 \in Nat /\ i1 = (i1 - 1) + 1
            BY <2>4, <3>4
          <6> QED
            BY <6>1
        <5>2. y = c * d + d /\ c * d \in Nat
          BY <2>3, <5>1
        <5> QED
          BY <2>3, <5>2
      <4>3. 2 * y <= i1 * b
        <5>1. PICK c \in Nat : b = 2 * d + c
          <6>1. b - 2 * d \in Nat /\ b = 2 * d + (b - 2 * d)
            BY <2>3 DEF b, d
          <6> QED
            BY <6>1
        <5>2. i1 * b = 2 * y + i1 * c /\ i1 * c \in Nat
          BY <2>3, <2>4, <5>1
        <5> QED
          BY <4>1, <5>2
      <4>4. i1 * b \in Nat
        BY <2>3, <2>4
      <4> HIDE DEF y
      <4>5. ~(i1 * b < s1)
        BY <2>3, <2>4, <3>2, <4>1, <4>2, <4>3, <4>4
      <4> QED
        BY <2>6, <4>5
    <3> QED
      BY <2>4, <3>3, <3>4
  <2> QED
    BY <2>5, <2>7, <2>8
<1>2. Init => TypeInv
  BY InitTypeInv
<1>3. TypeInv /\ [Next]_vars => TypeInv'
  BY StepTypeInv
<1> QED
  BY <1>1, <1>2, <1>3, PTL DEF Spec, DecayBansNobody

-----------------------------------------------------------------------------
(* What the pool promises is kept on the way into it                       *)

\* Everything that happens to the pool is a step of MempoolSpec: the requests
\* add to it, the task and the watcher take out of it, and nothing else.
THEOREM AdmissionUsesMempool == Spec => Mempool!Spec
<1>1. Init => Mempool!Init
  BY DEF Init
<1>2. TypeInv /\ [Next]_vars => [Mempool!Next]_pool
  <2> SUFFICES ASSUME TypeInv, [Next]_vars PROVE Mempool!Next \/ pool' = pool
    OBVIOUS
  <2>1. ASSUME NEW t \in Thread, AddToPool(t) PROVE Mempool!Next \/ pool' = pool
    <3>1. uo[t] \in UserOp
      BY <2>1 DEF AddToPool, TypeInv, TypeOK
    <3>2. CASE Mempool!Insert(uo[t])
      BY <3>1, <3>2 DEF Mempool!Next
    <3>3. ASSUME NEW old \in pool, Mempool!Replace(old, uo[t]) PROVE Mempool!Next
      BY <3>1, <3>3 DEF Mempool!Next
    <3> QED
      BY <2>1, <3>2, <3>3 DEF AddToPool
  <2>2. ASSUME NEW u \in UserOp, BundlerRemoves(u) \/ WatcherRemoves(u)
        PROVE  Mempool!Next
    BY <2>2 DEF BundlerRemoves, WatcherRemoves, Mempool!Next
  <2>3. ASSUME NEW t \in Thread, NEW u \in UserOp, SendUserOperation(t, u)
        PROVE  pool' = pool
    BY <2>3 DEF SendUserOperation
  <2>4. ASSUME NEW t \in Thread,
               LookUpId(t) \/ CheckSequence(t) \/ CheckEntity(t) \/ RecordSeen(t)
        PROVE  pool' = pool
    BY <2>4 DEF LookUpId, CheckSequence, CheckEntity, RecordSeen
  <2>5. CASE RecordIncluded \/ HourlyDecay
    BY <2>5 DEF RecordIncluded, HourlyDecay
  <2>6. CASE UNCHANGED vars
    BY <2>6 DEF vars
  <2> QED
    BY <2>1, <2>2, <2>3, <2>4, <2>5, <2>6 DEF Next, Request
<1>3. Init => TypeInv
  BY InitTypeInv
<1>4. TypeInv /\ [Next]_vars => TypeInv'
  BY StepTypeInv
<1> QED
  BY <1>1, <1>2, <1>3, <1>4, PTL DEF Spec, Mempool!Spec

=============================================================================
