------------------------ MODULE OperationPoolProofs ------------------------
(* Theorems about OperationPool, for any number of callers, operations and *)
(* limits, with proofs for TLAPS.                                          *)
EXTENDS OperationPool, FiniteSetTheorems, TLAPS

\* What a caller reads out of the indexes or makes of its operation is an
\* entry, and the fields of an entry key the indexes.
LEMMA EntryFields ==
  ASSUME NEW e \in Entry
  PROVE  /\ e # None
         /\ e.uo \in UserOp
         /\ e.uo.hash \in Hash
         /\ IdOf(e.uo) \in Id
         /\ e.uo.sender \in Sender
         /\ e.submit_gas_price \in Nat
         /\ e.sequence \in 0..MaxSequence
<1>1. e # None
  BY PoolConstants
<1> QED
  BY <1>1 DEF Entry, Hash, Id, Sender

\* The parts of a submitted operation are in the sets the indexes range over.
LEMMA OpFields ==
  ASSUME NEW u \in UserOp
  PROVE  /\ u # None
         /\ u.hash \in Hash
         /\ IdOf(u) \in Id
         /\ u.sender \in Sender
BY PoolConstants DEF Hash, Id, Sender

\* PoolEntry::new makes an entry whatever the fees: the price wraps but stays
\* a price.
LEMMA NewEntryType ==
  ASSUME NEW u \in UserOp, NEW base_fee \in BaseFee, NEW s \in 0..MaxSequence
  PROVE  /\ NewPoolEntry(u, base_fee, s) \in Entry
         /\ NewPoolEntry(u, base_fee, s).uo = u
<1>1. /\ u.max_fee_per_gas \in Nat /\ u.max_priority_fee_per_gas \in Nat
      /\ base_fee \in Nat /\ FeeModulus \in Nat \ {0}
  BY PoolConstants
<1>2. EffectiveGasPrice(u, base_fee) \in Nat
  BY <1>1 DEF EffectiveGasPrice
<1> QED
  BY <1>2 DEF NewPoolEntry, Entry

\* OperationPool::new gives every index its type.
LEMMA InitTypeOK == Init => TypeOK
<1> SUFFICES ASSUME Init PROVE TypeOK
  OBVIOUS
<1>1. next_sequence \in 0..MaxSequence
  BY PoolConstants DEF Init
<1> QED
  BY <1>1 DEF Init, TypeOK, Label, AddLabel, RemoveLabel, ClearLabel

\* One step of any caller keeps the types, action by action.
LEMMA StepTypeOK == TypeOK /\ [Next]_vars => TypeOK'
<1> SUFFICES ASSUME TypeOK, [Next]_vars PROVE TypeOK'
  OBVIOUS
<1> USE DEF TypeOK, Label, AddLabel, RemoveLabel, ClearLabel, indexes, locals,
            Goto
<1>1. CASE UNCHANGED vars
  BY <1>1 DEF vars
<1>2. ASSUME NEW t \in Thread, NEW u \in UserOp, Add(t, u) PROVE TypeOK'
  BY <1>2, OpFields DEF Add
<1>3. ASSUME NEW t \in Thread, NoExisting(t) PROVE TypeOK'
  BY <1>3 DEF NoExisting
<1>4. ASSUME NEW t \in Thread, ReplaceExisting(t) PROVE TypeOK'
  <2>1. uo[t] \in UserOp /\ IdOf(uo[t]) \in Id
    BY <1>4, OpFields DEF ReplaceExisting
  <2> QED
    BY <1>4, <2>1 DEF ReplaceExisting
<1>5. ASSUME NEW t \in Thread, ReplacementUnderpriced(t) PROVE TypeOK'
  BY <1>5 DEF ReplacementUnderpriced, Return
<1>6. ASSUME NEW t \in Thread, SenderLimitReached(t) PROVE TypeOK'
  BY <1>6 DEF SenderLimitReached, Return
<1>7. ASSUME NEW t \in Thread, SenderCheck(t) PROVE TypeOK'
  BY <1>7 DEF SenderCheck
<1>8. ASSUME NEW t \in Thread, PoolFull(t) PROVE TypeOK'
  BY <1>8 DEF PoolFull, Return
<1>9. ASSUME NEW t \in Thread, SizeCheck(t) PROVE TypeOK'
  BY <1>9 DEF SizeCheck
<1>10. ASSUME NEW t \in Thread, TakeSequence(t) PROVE TypeOK'
  <2>1. uo[t] \in UserOp
    BY <1>10 DEF TakeSequence
  <2>2. PICK base_fee \in BaseFee :
          fresh' = [fresh EXCEPT
                      ![t] = NewPoolEntry(uo[t], base_fee, next_sequence)]
    BY <1>10 DEF TakeSequence
  <2>3. /\ fresh'[t] \in Entry
        /\ fresh'[t].uo = uo[t]
        /\ fresh'[t] # None
    BY <2>1, <2>2, NewEntryType, EntryFields
  <2>4. next_sequence' \in 0..MaxSequence
    BY <1>10, PoolConstants DEF TakeSequence
  <2> QED
    BY <1>10, <2>2, <2>3, <2>4 DEF TakeSequence
<1>11. ASSUME NEW t \in Thread, InsertHash(t) PROVE TypeOK'
  BY <1>11 DEF InsertHash
<1>12. ASSUME NEW t \in Thread, InsertId(t) PROVE TypeOK'
  BY <1>12 DEF InsertId
<1>13. ASSUME NEW t \in Thread, InsertOrdered(t) PROVE TypeOK'
  BY <1>13 DEF InsertOrdered
<1>14. ASSUME NEW t \in Thread, CountUp(t) PROVE TypeOK'
  <2>1. uo[t] \in UserOp /\ uo[t].sender \in Sender
    BY <1>14, OpFields DEF CountUp
  <2>2. sender_count' \in [Sender -> Nat]
    BY <1>14, <2>1 DEF CountUp
  <2> QED
    BY <1>14, <2>2 DEF CountUp, Return
<1>15. ASSUME NEW t \in Thread, NEW h \in Hash, RemoveByHash(t, h)
       PROVE  TypeOK'
  BY <1>15 DEF RemoveByHash
<1>16. ASSUME NEW t \in Thread, NEW i \in Id, RemoveById(t, i) PROVE TypeOK'
  BY <1>16 DEF RemoveById
<1>17. ASSUME NEW t \in Thread, RemoveHash(t) PROVE TypeOK'
  BY <1>17 DEF RemoveHash
<1>18. ASSUME NEW t \in Thread, RemoveId(t) PROVE TypeOK'
  BY <1>18 DEF RemoveId
<1>19. ASSUME NEW t \in Thread, RemoveOrdered(t) PROVE TypeOK'
  BY <1>19 DEF RemoveOrdered
<1>20. ASSUME NEW t \in Thread, CountDown(t) PROVE TypeOK'
  <2>1. entry[t] \in Entry /\ entry[t].uo.sender \in Sender
    BY <1>20, EntryFields DEF CountDown
  <2>2. sender_count' \in [Sender -> Nat]
    BY <1>20, <2>1 DEF CountDown
  <2>3. CASE uo[t] = None /\ Return(t)
    BY <1>20, <2>2, <2>3 DEF CountDown, Return
  <2>4. CASE uo[t] # None /\ Goto(t, "sender_check") /\ UNCHANGED locals
    BY <1>20, <2>2, <2>4 DEF CountDown
  <2> QED
    BY <1>20, <2>3, <2>4 DEF CountDown
<1>21. ASSUME NEW t \in Thread, ClearHash(t) PROVE TypeOK'
  BY <1>21 DEF ClearHash
<1>22. ASSUME NEW t \in Thread, ClearId(t) PROVE TypeOK'
  BY <1>22 DEF ClearId
<1>23. ASSUME NEW t \in Thread, ClearOrdered(t) PROVE TypeOK'
  BY <1>23 DEF ClearOrdered
<1>24. ASSUME NEW t \in Thread, ClearCount(t) PROVE TypeOK'
  BY <1>24 DEF ClearCount
<1> QED
  BY <1>1, <1>2, <1>3, <1>4, <1>5, <1>6, <1>7, <1>8, <1>9, <1>10, <1>11,
     <1>12, <1>13, <1>14, <1>15, <1>16, <1>17, <1>18, <1>19, <1>20, <1>21,
     <1>22, <1>23, <1>24
  DEF Next, Call, Continue

\* The indexes of OperationPool and the locals of every call keep their
\* types, and a call finds set what the calls before that point set.
THEOREM TypeCorrect == Spec => []TypeOK
<1>1. Init => TypeOK
  BY InitTypeOK
<1>2. TypeOK /\ [Next]_vars => TypeOK'
  BY StepTypeOK
<1> QED
  BY <1>1, <1>2, PTL DEF Spec

-----------------------------------------------------------------------------
(* The size of the pool.  A caller that passed the size check and has not  *)
(* inserted yet stands for an entry to come; the entries present and those *)
(* to come are bounded together, and that is inductive.                    *)

Stored   == {h \in Hash : by_hash[h] # None}
Admitted == {t \in Thread : pc[t] \in {"take_sequence", "insert_hash"}}

SizeInv ==
  Cardinality(Stored) + Cardinality(Admitted)
    <= MaxSize + Cardinality(Thread) - 1

\* A pool of finitely many operations has finitely many hashes.
LEMMA HashFinite == IsFiniteSet(Hash)
<1> DEFINE f == [u \in UserOp |-> u.hash]
<1>1. f \in Surjection(UserOp, Hash)
  BY DEF Surjection, Hash
<1> HIDE DEF f
<1> QED
  BY <1>1, FS_Surjection, PoolConstants

\* The sets counted are finite, and a count is at least what a subset gives.
LEMMA Counts ==
  /\ IsFiniteSet(Stored) /\ Cardinality(Stored) \in Nat
  /\ IsFiniteSet(Admitted) /\ Cardinality(Admitted) \in Nat
  /\ IsFiniteSet(Stored') /\ Cardinality(Stored') \in Nat
  /\ IsFiniteSet(Admitted') /\ Cardinality(Admitted') \in Nat
  /\ Cardinality(Thread) \in Nat \ {0}
  /\ MaxSize \in Nat /\ MaxOpsPerSender \in Nat
<1>1. /\ Stored \in SUBSET Hash /\ Stored' \in SUBSET Hash
      /\ Admitted \in SUBSET Thread /\ Admitted' \in SUBSET Thread
  BY DEF Stored, Admitted
<1>2. IsFiniteSet(Thread) /\ Thread # {}
  BY PoolConstants
<1>3. /\ IsFiniteSet(Stored) /\ IsFiniteSet(Stored')
      /\ IsFiniteSet(Admitted) /\ IsFiniteSet(Admitted')
  BY <1>1, <1>2, HashFinite, FS_Subset
<1>4. Cardinality(Thread) \in Nat /\ Cardinality(Thread) # 0
  BY <1>2, FS_CardinalityType, FS_EmptySet
<1> QED
  BY <1>3, <1>4, FS_CardinalityType, PoolConstants

\* A step that neither stores a hash nor admits a caller keeps the bound.
LEMMA SizeInvShrinks ==
  ASSUME SizeInv, Stored' \subseteq Stored, Admitted' \subseteq Admitted
  PROVE  SizeInv'
<1>1. Cardinality(Stored') <= Cardinality(Stored)
  BY Counts, FS_Subset
<1>2. Cardinality(Admitted') <= Cardinality(Admitted)
  BY Counts, FS_Subset
<1> QED
  BY <1>1, <1>2, Counts DEF SizeInv

\* An empty pool and no add in progress.
LEMMA InitSizeInv == Init => SizeInv
<1> SUFFICES ASSUME Init PROVE SizeInv
  OBVIOUS
<1>1. Stored = {} /\ Admitted = {}
  BY DEF Init, Stored, Admitted
<1>2. Cardinality(Stored) = 0 /\ Cardinality(Admitted) = 0
  BY <1>1, FS_EmptySet
<1> QED
  BY <1>2, Counts DEF SizeInv

\* Only SizeCheck admits a caller, and it does so below max_size; only
\* InsertHash stores a hash, and its caller is then no longer counted.
LEMMA StepSizeInv == TypeOK /\ SizeInv /\ [Next]_vars => SizeInv'
<1> SUFFICES ASSUME TypeOK, SizeInv, [Next]_vars PROVE SizeInv'
  OBVIOUS
<1> USE DEF indexes, locals, Goto
<1> DEFINE Shrinks == Stored' \subseteq Stored /\ Admitted' \subseteq Admitted
<1>1. CASE UNCHANGED vars
  BY <1>1, SizeInvShrinks DEF vars, Stored, Admitted
<1>2. ASSUME NEW t \in Thread, SizeCheck(t) PROVE SizeInv'
  <2>1. Stored' = Stored
    BY <1>2 DEF SizeCheck, Stored
  <2>2. Cardinality(Stored) < MaxSize
    BY <1>2 DEF SizeCheck, Size, Stored
  <2>3. Cardinality(Admitted') <= Cardinality(Thread)
    BY FS_Subset, PoolConstants DEF Admitted
  <2> QED
    BY <2>1, <2>2, <2>3, Counts DEF SizeInv
<1>3. ASSUME NEW t \in Thread, InsertHash(t) PROVE SizeInv'
  <2>1. Stored' \subseteq Stored \cup {uo[t].hash}
    BY <1>3 DEF InsertHash, Stored, TypeOK
  <2>2. Admitted' = Admitted \ {t} /\ t \in Admitted
    BY <1>3 DEF InsertHash, Admitted, TypeOK
  <2>3. Cardinality(Stored') <= Cardinality(Stored) + 1
    <3> DEFINE S == Stored
               h == uo[t].hash
    <3>1. IsFiniteSet(S) /\ Cardinality(S) \in Nat
      BY Counts
    <3>2. Stored' \in SUBSET (S \cup {h})
      BY <2>1
    <3> HIDE DEF S, h
    <3>3. /\ IsFiniteSet(S \cup {h})
          /\ Cardinality(S \cup {h}) = IF h \in S THEN Cardinality(S)
                                       ELSE Cardinality(S) + 1
      BY <3>1, FS_AddElement
    <3>4. Cardinality(Stored') <= Cardinality(S \cup {h})
      BY <3>2, <3>3, FS_Subset
    <3>5. Cardinality(Stored') <= Cardinality(S) + 1
      BY <3>1, <3>3, <3>4, Counts
    <3> QED
      BY <3>5 DEF S
  <2>4. Cardinality(Admitted') = Cardinality(Admitted) - 1
    BY <2>2, Counts, FS_RemoveElement
  <2> QED
    BY <2>3, <2>4, Counts DEF SizeInv
<1>4. ASSUME NEW t \in Thread, NEW u \in UserOp, Add(t, u) PROVE SizeInv'
  BY <1>4, SizeInvShrinks DEF Add, Stored, Admitted, TypeOK
<1>5. ASSUME NEW t \in Thread,
             \/ NoExisting(t) \/ ReplaceExisting(t)
             \/ ReplacementUnderpriced(t) \/ SenderLimitReached(t)
             \/ SenderCheck(t) \/ PoolFull(t)
      PROVE  SizeInv'
  <2>1. Shrinks
    BY <1>5 DEF NoExisting, ReplaceExisting, ReplacementUnderpriced,
                SenderLimitReached, SenderCheck, PoolFull, Return, Stored,
                Admitted, TypeOK
  <2> QED
    BY <2>1, SizeInvShrinks
<1>6. ASSUME NEW t \in Thread, TakeSequence(t) PROVE SizeInv'
  BY <1>6, SizeInvShrinks DEF TakeSequence, Stored, Admitted, TypeOK
<1>7. ASSUME NEW t \in Thread,
             InsertId(t) \/ InsertOrdered(t) \/ CountUp(t)
      PROVE  SizeInv'
  <2>1. Shrinks
    BY <1>7 DEF InsertId, InsertOrdered, CountUp, Return, Stored, Admitted,
                TypeOK
  <2> QED
    BY <2>1, SizeInvShrinks
<1>8. ASSUME NEW t \in Thread,
             \/ \E h \in Hash : RemoveByHash(t, h)
             \/ \E i \in Id : RemoveById(t, i)
      PROVE  SizeInv'
  <2>1. Shrinks
    BY <1>8 DEF RemoveByHash, RemoveById, Stored, Admitted, TypeOK
  <2> QED
    BY <2>1, SizeInvShrinks
<1>9. ASSUME NEW t \in Thread,
             RemoveHash(t) \/ RemoveId(t) \/ RemoveOrdered(t)
      PROVE  SizeInv'
  <2>1. Shrinks
    BY <1>9 DEF RemoveHash, RemoveId, RemoveOrdered, Stored, Admitted, TypeOK
  <2> QED
    BY <2>1, SizeInvShrinks
<1>10. ASSUME NEW t \in Thread, CountDown(t) PROVE SizeInv'
  <2>1. Shrinks
    BY <1>10 DEF CountDown, Return, Stored, Admitted, TypeOK
  <2> QED
    BY <2>1, SizeInvShrinks
<1>11. ASSUME NEW t \in Thread,
              ClearHash(t) \/ ClearId(t) \/ ClearOrdered(t) \/ ClearCount(t)
       PROVE  SizeInv'
  <2>1. Shrinks
    BY <1>11 DEF ClearHash, ClearId, ClearOrdered, ClearCount, Stored,
                 Admitted, TypeOK
  <2> QED
    BY <2>1, SizeInvShrinks
<1> QED
  BY <1>1, <1>2, <1>3, <1>4, <1>5, <1>6, <1>7, <1>8, <1>9, <1>10, <1>11
  DEF Next, Call, Continue

\* However many callers overlap between the size check of add and its first
\* insertion, the pool exceeds max_size by less than their number.
THEOREM SizeBounded == Spec => []SizeWithinOvershoot
<1>1. Init => TypeOK /\ SizeInv
  BY InitTypeOK, InitSizeInv
<1>2. TypeOK /\ SizeInv /\ [Next]_vars => TypeOK' /\ SizeInv'
  BY StepTypeOK, StepSizeInv
<1>3. SizeInv => SizeWithinOvershoot
  BY Counts DEF SizeInv, SizeWithinOvershoot, Size, Stored
<1> QED
  BY <1>1, <1>2, <1>3, PTL DEF Spec

-----------------------------------------------------------------------------
(* The operations of a sender.  A caller between the check of the sender's *)
(* counter and the increment stands for an increment to come.              *)

ReservedLabel == {"size_check", "take_sequence", "insert_hash", "insert_id",
                  "insert_ordered", "count_up"}

Reserved(s) == {t \in Thread : pc[t] \in ReservedLabel /\ uo[t].sender = s}

SenderInv ==
  \A s \in Sender :
    sender_count[s] + Cardinality(Reserved(s))
      <= MaxOpsPerSender + Cardinality(Thread) - 1

\* The adds that have reserved room for a sender are finitely many.
LEMMA ReservedCounts ==
  ASSUME NEW s
  PROVE  /\ IsFiniteSet(Reserved(s)) /\ Cardinality(Reserved(s)) \in Nat
         /\ IsFiniteSet(Reserved(s)') /\ Cardinality(Reserved(s)') \in Nat
         /\ Cardinality(Reserved(s)) <= Cardinality(Thread)
         /\ Cardinality(Reserved(s)') <= Cardinality(Thread)
<1>1. Reserved(s) \in SUBSET Thread /\ Reserved(s)' \in SUBSET Thread
  BY DEF Reserved
<1>2. IsFiniteSet(Reserved(s)) /\ IsFiniteSet(Reserved(s)')
  BY <1>1, FS_Subset, PoolConstants
<1> QED
  BY <1>1, <1>2, FS_Subset, FS_CardinalityType, PoolConstants

\* A step that neither raises a counter nor reserves an increment keeps the
\* bound of a sender.
LEMMA SenderInvShrinks ==
  ASSUME TypeOK, SenderInv, TypeOK', NEW s \in Sender,
         sender_count'[s] <= sender_count[s],
         Reserved(s)' \subseteq Reserved(s)
  PROVE  sender_count'[s] + Cardinality(Reserved(s)')
           <= MaxOpsPerSender + Cardinality(Thread) - 1
<1>1. Cardinality(Reserved(s)') <= Cardinality(Reserved(s))
  BY ReservedCounts, FS_Subset
<1>2. sender_count[s] \in Nat /\ sender_count'[s] \in Nat
  BY DEF TypeOK
<1> QED
  BY <1>1, <1>2, ReservedCounts, Counts DEF SenderInv

\* No sender has a count and none is reserved.
LEMMA InitSenderInv == Init => SenderInv
<1> SUFFICES ASSUME Init, NEW s \in Sender
             PROVE  sender_count[s] + Cardinality(Reserved(s))
                      <= MaxOpsPerSender + Cardinality(Thread) - 1
  BY DEF SenderInv
<1>1. Reserved(s) = {} /\ sender_count[s] = 0
  BY DEF Init, Reserved, ReservedLabel
<1>2. Cardinality(Reserved(s)) = 0
  BY <1>1, FS_EmptySet
<1> QED
  BY <1>1, <1>2, Counts

\* Only SenderCheck reserves an increment, and it does so below the limit;
\* only CountUp raises a counter, and its caller is then no longer counted.
LEMMA StepSenderInv ==
  TypeOK /\ TypeOK' /\ SenderInv /\ [Next]_vars => SenderInv'
<1> SUFFICES ASSUME TypeOK, TypeOK', SenderInv, [Next]_vars, NEW s \in Sender
             PROVE  sender_count'[s] + Cardinality(Reserved(s)')
                      <= MaxOpsPerSender + Cardinality(Thread) - 1
  BY DEF SenderInv
<1> DEFINE Bound == sender_count'[s] + Cardinality(Reserved(s)')
                      <= MaxOpsPerSender + Cardinality(Thread) - 1
           Shrinks == /\ sender_count'[s] <= sender_count[s]
                      /\ Reserved(s)' \subseteq Reserved(s)
<1> USE DEF indexes, locals, Goto, ReservedLabel
<1>0. sender_count[s] \in Nat /\ sender_count'[s] \in Nat
  BY DEF TypeOK
<1>1. CASE UNCHANGED vars
  <2>1. Shrinks
    BY <1>0, <1>1 DEF vars, Reserved
  <2> QED
    BY <2>1, SenderInvShrinks
<1>2. ASSUME NEW t \in Thread, SenderCheck(t) PROVE Bound
  <2>1. CASE uo[t].sender = s
    <3>1. sender_count'[s] = sender_count[s]
          /\ sender_count[s] < MaxOpsPerSender
      BY <1>2, <2>1 DEF SenderCheck
    <3> QED
      BY <1>0, <3>1, ReservedCounts, Counts
  <2>2. CASE uo[t].sender # s
    <3>1. Shrinks
      BY <1>0, <1>2, <2>2 DEF SenderCheck, Reserved, TypeOK
    <3> QED
      BY <3>1, SenderInvShrinks
  <2> QED
    BY <2>1, <2>2
<1>3. ASSUME NEW t \in Thread, CountUp(t) PROVE Bound
  <2>1. CASE uo[t].sender = s
    <3>1. sender_count'[s] = sender_count[s] + 1
      BY <1>3, <2>1 DEF CountUp, TypeOK
    <3>2. Reserved(s)' = Reserved(s) \ {t} /\ t \in Reserved(s)
      BY <1>3, <2>1 DEF CountUp, Return, Reserved, TypeOK
    <3>3. Cardinality(Reserved(s)') = Cardinality(Reserved(s)) - 1
      BY <3>2, ReservedCounts, FS_RemoveElement
    <3> QED
      BY <1>0, <3>1, <3>3, ReservedCounts, Counts DEF SenderInv
  <2>2. CASE uo[t].sender # s
    <3>1. Shrinks
      BY <1>0, <1>3, <2>2 DEF CountUp, Return, Reserved, TypeOK
    <3> QED
      BY <3>1, SenderInvShrinks
  <2> QED
    BY <2>1, <2>2
<1>4. ASSUME NEW t \in Thread, NEW u \in UserOp, Add(t, u) PROVE Bound
  <2>1. Shrinks
    BY <1>0, <1>4 DEF Add, Reserved, TypeOK
  <2> QED
    BY <2>1, SenderInvShrinks
<1>5. ASSUME NEW t \in Thread,
             \/ NoExisting(t) \/ ReplaceExisting(t)
             \/ ReplacementUnderpriced(t) \/ SenderLimitReached(t)
             \/ PoolFull(t) \/ SizeCheck(t)
      PROVE  Bound
  <2>1. Shrinks
    BY <1>0, <1>5 DEF NoExisting, ReplaceExisting, ReplacementUnderpriced,
                SenderLimitReached, PoolFull, SizeCheck, Return, Reserved,
                TypeOK
  <2> QED
    BY <2>1, SenderInvShrinks
<1>6. ASSUME NEW t \in Thread,
             TakeSequence(t) \/ InsertHash(t) \/ InsertId(t) \/ InsertOrdered(t)
      PROVE  Bound
  <2>1. Shrinks
    BY <1>0, <1>6 DEF TakeSequence, InsertHash, InsertId, InsertOrdered,
                Reserved, TypeOK
  <2> QED
    BY <2>1, SenderInvShrinks
<1>7. ASSUME NEW t \in Thread,
             \/ \E h \in Hash : RemoveByHash(t, h)
             \/ \E i \in Id : RemoveById(t, i)
      PROVE  Bound
  <2>1. Shrinks
    BY <1>0, <1>7 DEF RemoveByHash, RemoveById, Reserved, TypeOK
  <2> QED
    BY <2>1, SenderInvShrinks
<1>8. ASSUME NEW t \in Thread,
             RemoveHash(t) \/ RemoveId(t) \/ RemoveOrdered(t)
      PROVE  Bound
  <2>1. Shrinks
    BY <1>0, <1>8 DEF RemoveHash, RemoveId, RemoveOrdered, Reserved, TypeOK
  <2> QED
    BY <2>1, SenderInvShrinks
<1>9. ASSUME NEW t \in Thread, CountDown(t) PROVE Bound
  <2>1. sender_count'[s] <= sender_count[s]
    BY <1>0, <1>9 DEF CountDown, TypeOK
  <2>2. Reserved(s)' \subseteq Reserved(s)
    BY <1>9 DEF CountDown, Return, Reserved, TypeOK
  <2> QED
    BY <2>1, <2>2, SenderInvShrinks
<1>10. ASSUME NEW t \in Thread,
              ClearHash(t) \/ ClearId(t) \/ ClearOrdered(t) \/ ClearCount(t)
       PROVE  Bound
  <2>1. Shrinks
    BY <1>0, <1>10 DEF ClearHash, ClearId, ClearOrdered, ClearCount, Reserved,
                 TypeOK
  <2> QED
    BY <2>1, SenderInvShrinks
<1> QED
  BY <1>1, <1>2, <1>3, <1>4, <1>5, <1>6, <1>7, <1>8, <1>9, <1>10
  DEF Next, Call, Continue

\* However many callers overlap between the check of a sender's counter and
\* its increment, the counter exceeds max_ops_per_sender by less than their
\* number.
THEOREM SenderCountBounded == Spec => []SenderCountWithinOvershoot
<1>1. Init => TypeOK /\ SenderInv
  BY InitTypeOK, InitSenderInv
<1>2. TypeOK /\ SenderInv /\ [Next]_vars => TypeOK' /\ SenderInv'
  BY StepTypeOK, StepSenderInv
<1>3. TypeOK /\ SenderInv => SenderCountWithinOvershoot
  <2> SUFFICES ASSUME TypeOK, SenderInv, NEW s \in Sender
               PROVE  sender_count[s] <= MaxOpsPerSender + Cardinality(Thread) - 1
    BY DEF SenderCountWithinOvershoot
  <2>1. sender_count[s] \in Nat
    BY DEF TypeOK
  <2> QED
    BY <2>1, ReservedCounts, Counts DEF SenderInv
<1> QED
  BY <1>1, <1>2, <1>3, PTL DEF Spec

\* Both limits of the pool are exceeded by the other callers at most.
THEOREM LimitsBounded == Spec => []LimitsWithinOvershoot
<1>1. SizeWithinOvershoot /\ SenderCountWithinOvershoot => LimitsWithinOvershoot
  BY DEF LimitsWithinOvershoot
<1> QED
  BY <1>1, SizeBounded, SenderCountBounded, PTL

-----------------------------------------------------------------------------
(* Sequence numbers.  An entry is made with the number next_sequence then  *)
(* had, and until it is in the order only its caller knows it.             *)

Inserting(t) == pc[t] \in {"insert_hash", "insert_id", "insert_ordered"}

Taken(n) == n < next_sequence \/ n = MaxSequence

SequenceInv ==
  /\ SequenceUnique
  /\ \A e \in ordered : Taken(e.sequence)
  /\ \A t \in Thread : Inserting(t) => Taken(fresh[t].sequence)
  /\ \A t \in Thread, e \in ordered :
       Inserting(t) /\ fresh[t].sequence = e.sequence
         => e.sequence = MaxSequence
  /\ \A t, r \in Thread :
       Inserting(t) /\ Inserting(r) /\ fresh[t].sequence = fresh[r].sequence
         => t = r \/ fresh[t].sequence = MaxSequence

\* A step that makes no entry, orders none and does not set the counter back.
LEMMA SequenceInvKept ==
  ASSUME SequenceInv, ordered' \subseteq ordered,
         next_sequence' = next_sequence, fresh \in [Thread -> Entry \cup {None}],
         \A t \in Thread : Inserting(t)' => Inserting(t) /\ fresh'[t] = fresh[t]
  PROVE  SequenceInv'
BY DEF SequenceInv, SequenceUnique, Taken

\* No entry exists, in the order or in the hands of a caller.
LEMMA InitSequenceInv == Init => SequenceInv
BY DEF Init, SequenceInv, SequenceUnique, Inserting

\* TakeSequence gives out a number nobody has, or the last one; InsertOrdered
\* hands a caller's number over to the order.
LEMMA StepSequenceInv == TypeOK /\ SequenceInv /\ [Next]_vars => SequenceInv'
<1> SUFFICES ASSUME TypeOK, SequenceInv, [Next]_vars PROVE SequenceInv'
  OBVIOUS
<1> USE DEF indexes, locals, Goto
<1> DEFINE Kept ==
      /\ ordered' \subseteq ordered
      /\ next_sequence' = next_sequence
      /\ \A t \in Thread : Inserting(t)' => Inserting(t) /\ fresh'[t] = fresh[t]
<1>0. Kept => SequenceInv'
  BY SequenceInvKept DEF TypeOK
<1>1. CASE UNCHANGED vars
  BY <1>0, <1>1 DEF vars, Inserting
<1>2. ASSUME NEW t \in Thread, TakeSequence(t) PROVE SequenceInv'
  <2>1. PICK base_fee \in BaseFee :
          fresh' = [fresh EXCEPT
                      ![t] = NewPoolEntry(uo[t], base_fee, next_sequence)]
    BY <1>2 DEF TakeSequence
  <2>2. fresh'[t].sequence = next_sequence
    BY <2>1 DEF NewPoolEntry, TypeOK
  <2>3. /\ next_sequence \in 0..MaxSequence /\ MaxSequence \in Nat
        /\ next_sequence' = IF next_sequence < MaxSequence
                              THEN next_sequence + 1 ELSE next_sequence
        /\ ordered' = ordered
    BY <1>2, PoolConstants DEF TakeSequence, TypeOK
  <2>4. \A r \in Thread : Inserting(r)' =>
          r = t \/ (Inserting(r) /\ fresh'[r] = fresh[r])
    BY <1>2, <2>1 DEF TakeSequence, Inserting, TypeOK
  <2>5. /\ \A e \in ordered : e.sequence \in 0..MaxSequence
        /\ \A r \in Thread :
             Inserting(r) => fresh[r].sequence \in 0..MaxSequence
    BY EntryFields DEF TypeOK, Inserting
  <2> DEFINE TakenNext(n) == n < next_sequence' \/ n = MaxSequence
  <2>6. /\ TakenNext(next_sequence)
        /\ \A n \in 0..MaxSequence : Taken(n) => TakenNext(n)
        /\ \A n \in 0..MaxSequence :
             Taken(n) /\ n = next_sequence => n = MaxSequence
    BY <2>3 DEF Taken
  <2>7. /\ \A e \in ordered : TakenNext(e.sequence)
        /\ \A r \in Thread : Inserting(r)' => TakenNext(fresh'[r].sequence)
    BY <2>2, <2>4, <2>5, <2>6 DEF SequenceInv
  <2>8. \A e \in ordered :
          e.sequence = next_sequence => e.sequence = MaxSequence
    BY <2>5, <2>6 DEF SequenceInv
  <2>9. \A r \in Thread :
          Inserting(r) /\ fresh[r].sequence = next_sequence
            => next_sequence = MaxSequence
    BY <2>5, <2>6 DEF SequenceInv
  <2>10. \A r \in Thread, e \in ordered :
           Inserting(r)' /\ fresh'[r].sequence = e.sequence
             => e.sequence = MaxSequence
    BY <2>2, <2>4, <2>8 DEF SequenceInv
  <2>11. \A q, r \in Thread :
           Inserting(q)' /\ Inserting(r)'
             /\ fresh'[q].sequence = fresh'[r].sequence
             => q = r \/ fresh'[q].sequence = MaxSequence
    BY <2>2, <2>4, <2>9 DEF SequenceInv
  <2> QED
    BY <2>3, <2>7, <2>10, <2>11 DEF SequenceInv, SequenceUnique, Taken
<1>3. ASSUME NEW t \in Thread, InsertOrdered(t) PROVE SequenceInv'
  <2>1. /\ ordered' = ordered \cup {fresh[t]}
        /\ next_sequence' = next_sequence /\ fresh' = fresh
        /\ Inserting(t)
        /\ \A r \in Thread : Inserting(r)' => Inserting(r) /\ r # t
    BY <1>3 DEF InsertOrdered, Inserting, TypeOK
  <2> QED
    BY <2>1 DEF SequenceInv, SequenceUnique, Taken
<1>4. ASSUME NEW t \in Thread, NEW u \in UserOp, Add(t, u)
      PROVE  SequenceInv'
  BY <1>0, <1>4 DEF Add, Inserting, TypeOK
<1>5. ASSUME NEW t \in Thread,
             \/ NoExisting(t) \/ ReplaceExisting(t)
             \/ ReplacementUnderpriced(t) \/ SenderLimitReached(t)
             \/ SenderCheck(t) \/ PoolFull(t) \/ SizeCheck(t)
      PROVE  SequenceInv'
  BY <1>0, <1>5 DEF NoExisting, ReplaceExisting, ReplacementUnderpriced,
         SenderLimitReached, SenderCheck, PoolFull, SizeCheck, Return,
         Inserting, TypeOK
<1>6. ASSUME NEW t \in Thread, InsertHash(t) \/ InsertId(t) \/ CountUp(t)
      PROVE  SequenceInv'
  BY <1>0, <1>6 DEF InsertHash, InsertId, CountUp, Return, Inserting, TypeOK
<1>7. ASSUME NEW t \in Thread,
             \/ \E h \in Hash : RemoveByHash(t, h)
             \/ \E i \in Id : RemoveById(t, i)
      PROVE  SequenceInv'
  BY <1>0, <1>7 DEF RemoveByHash, RemoveById, Inserting, TypeOK
<1>8. ASSUME NEW t \in Thread,
             RemoveHash(t) \/ RemoveId(t) \/ RemoveOrdered(t)
      PROVE  SequenceInv'
  BY <1>0, <1>8 DEF RemoveHash, RemoveId, RemoveOrdered, Inserting, TypeOK
<1>9. ASSUME NEW t \in Thread, CountDown(t) PROVE SequenceInv'
  BY <1>0, <1>9 DEF CountDown, Return, Inserting, TypeOK
<1>10. ASSUME NEW t \in Thread,
              ClearHash(t) \/ ClearId(t) \/ ClearOrdered(t) \/ ClearCount(t)
       PROVE  SequenceInv'
  BY <1>0, <1>10 DEF ClearHash, ClearId, ClearOrdered, ClearCount, Inserting,
         TypeOK
<1> QED
  BY <1>1, <1>2, <1>3, <1>4, <1>5, <1>6, <1>7, <1>8, <1>9, <1>10
  DEF Next, Call, Continue

\* Two entries of the order never share a sequence number, whatever adds and
\* removals overlap, until next_sequence saturates.
THEOREM SequencesUnique == Spec => []SequenceUnique
<1>1. Init => TypeOK /\ SequenceInv
  BY InitTypeOK, InitSequenceInv
<1>2. TypeOK /\ SequenceInv /\ [Next]_vars => TypeOK' /\ SequenceInv'
  BY StepTypeOK, StepSequenceInv
<1>3. SequenceInv => SequenceUnique
  BY DEF SequenceInv
<1> QED
  BY <1>1, <1>2, <1>3, PTL DEF Spec

-----------------------------------------------------------------------------
(***************************************************************************)
(* Calls that do not overlap.                                              *)
(*                                                                         *)
(* With one caller a call runs from its first critical section to its last *)
(* one undisturbed, which is how pool.rs is written to be read.  What it   *)
(* then guarantees is IndexAgreement, FailedAddDisplacesNothing and the    *)
(* atomic mempool of MempoolSpec.  In the middle of a call the indexes     *)
(* differ from the order by the one entry the call is working on, so the   *)
(* invariant says, label by label, which set of entries each index holds.  *)
(***************************************************************************)
OneCaller == \A s, t \in Thread : s = t

\* The fees of the operations leave u128 room for the bump: without this
\* the release arithmetic of the bump wraps, and a cheaper bid replaces.
NoBumpWraps ==
  /\ ReplacementFeeBumpBps \in Nat
  /\ \A u \in UserOp :
       /\ u.max_fee_per_gas * ReplacementFeeBumpBps < FeeModulus
       /\ u.max_fee_per_gas
            + (u.max_fee_per_gas * ReplacementFeeBumpBps) \div 10000 < FeeModulus

\* What sender_count counts.
OfSender(S, s) == {e \in S : e.uo.sender = s}

\* The entries by_hash, by_id and sender_count describe, at the label of t.
InByHash(t) ==
  CASE pc[t] \in {"remove_id", "remove_ordered"} -> ordered \ {entry[t]}
    [] pc[t] \in {"insert_id", "insert_ordered"} -> ordered \cup {fresh[t]}
    [] pc[t] \in {"clear_id", "clear_ordered"}   -> {}
    [] OTHER -> ordered

InById(t) ==
  CASE pc[t] = "remove_ordered" -> ordered \ {entry[t]}
    [] pc[t] = "insert_ordered" -> ordered \cup {fresh[t]}
    [] pc[t] = "clear_ordered"  -> {}
    [] OTHER -> ordered

Counted(t) ==
  CASE pc[t] = "count_down" -> ordered \cup {entry[t]}
    [] pc[t] = "count_up"   -> ordered \ {fresh[t]}
    [] OTHER -> ordered

\* An index describes the entries S: it finds each of them, and nothing else.
ByHashIs(S) ==
  /\ \A e \in S : by_hash[e.uo.hash] = e
  /\ \A h \in Hash : by_hash[h] # None => by_hash[h] \in S /\ by_hash[h].uo.hash = h

ByIdIs(S) ==
  /\ \A e \in S : by_id[IdOf(e.uo)] = e
  /\ \A i \in Id : by_id[i] # None => by_id[i] \in S /\ IdOf(by_id[i].uo) = i

CountIs(S) == \A s \in Sender : sender_count[s] = Cardinality(OfSender(S, s))

IndexInv ==
  \A t \in Thread :
    /\ ByHashIs(InByHash(t))
    /\ ByIdIs(InById(t))
    /\ pc[t] \notin {"clear_id", "clear_ordered", "clear_count"} => CountIs(Counted(t))

\* add past its limit checks, and past its look at by_id.
InsertLabel == {"insert_hash", "insert_id", "insert_ordered"}
PastCheck == {"take_sequence"} \cup InsertLabel
PastLookup == {"sender_check", "size_check"} \cup PastCheck

\* What the locals of a call stand for.
EntryInv ==
  \A t \in Thread :
    /\ pc[t] \in {"remove_hash", "remove_id", "remove_ordered"} => entry[t] \in ordered
    /\ pc[t] = "count_down" => entry[t] \notin ordered
    /\ pc[t] = "count_up" => /\ fresh[t] \in ordered /\ fresh[t] # None
                             /\ fresh[t].uo = uo[t]
    /\ pc[t] \in {"idle", "id_lookup"} \cup ClearLabel => entry[t] = None
    /\ pc[t] = "clear_count" => ordered = {}
    /\ pc[t] \in {"idle"} \cup ClearLabel => uo[t] = None

\* The order holds one entry for an id.
OnePerId == \A e, f \in ordered : IdOf(e.uo) = IdOf(f.uo) => e = f

\* The operation add carries is new: no entry has its hash, from the moment
\* the old entry is out none has its id, and what is replaced was outbid.
NewInv ==
  OnePerId /\ \A t \in Thread : uo[t] # None /\ pc[t] # "count_up" =>
    /\ \A e \in ordered : e.uo.hash # uo[t].hash
    /\ entry[t] # None =>
         /\ IdOf(entry[t].uo) = IdOf(uo[t]) /\ entry[t].uo # uo[t]
         /\ Outbids(uo[t], entry[t])
    /\ pc[t] \in PastLookup \cup {"count_down"} =>
         \A e \in ordered : IdOf(e.uo) # IdOf(uo[t])

\* There is room for u.
Room(u) ==
  /\ Cardinality(ordered) < MaxSize
  /\ Cardinality(OfSender(ordered, u.sender)) < MaxOpsPerSender

\* The limits hold, and past a check of add, or once a replaced entry has
\* left, there is room for the new one.
LimitInv ==
  /\ IsFiniteSet(ordered)
  /\ Cardinality(ordered) <= MaxSize
  /\ \A s \in Sender : Cardinality(OfSender(ordered, s)) <= MaxOpsPerSender
  /\ \A t \in Thread : uo[t] # None =>
       /\ pc[t] \in PastLookup \cup {"count_down"} /\ entry[t] # None => Room(uo[t])
       /\ pc[t] \in PastCheck => Room(uo[t])
       /\ pc[t] = "size_check" =>
            Cardinality(OfSender(ordered, uo[t].sender)) < MaxOpsPerSender

\* The inductive invariant of the pool whose calls do not overlap.
SerialInv == TypeOK /\ IndexInv /\ EntryInv /\ NewInv /\ LimitInv

-----------------------------------------------------------------------------

\* The empty pool satisfies the invariant.
LEMMA InitSerialInv == Init => SerialInv
<1> SUFFICES ASSUME Init PROVE SerialInv
  OBVIOUS
<1>1. TypeOK
  BY InitTypeOK
<1>2. \A t \in Thread : pc[t] = "idle" /\ uo[t] = None /\ entry[t] = None
  BY DEF Init
<1>3. \A s : OfSender({}, s) = {}
  BY DEF OfSender
<1>4. /\ IsFiniteSet({}) /\ Cardinality({}) = 0
      /\ MaxSize \in Nat /\ MaxOpsPerSender \in Nat
  BY FS_EmptySet, PoolConstants
<1>5. LimitInv
  BY <1>2, <1>3, <1>4 DEF Init, LimitInv
<1>6. IndexInv
  <2> SUFFICES ASSUME NEW t \in Thread
               PROVE  /\ ByHashIs(InByHash(t)) /\ ByIdIs(InById(t))
                      /\ CountIs(Counted(t))
    BY DEF IndexInv
  <2>1. InByHash(t) = {} /\ InById(t) = {} /\ Counted(t) = {}
    BY <1>2 DEF InByHash, InById, Counted, Init
  <2>2. CountIs({})
    BY <1>3, <1>4 DEF CountIs, Init
  <2>3. ByHashIs({}) /\ ByIdIs({})
    BY DEF ByHashIs, ByIdIs, Init
  <2> QED
    BY <2>1, <2>2, <2>3
<1>7. EntryInv /\ NewInv
  BY <1>2 DEF Init, EntryInv, NewInv, OnePerId, ClearLabel
<1> QED
  BY <1>1, <1>5, <1>6, <1>7 DEF SerialInv

\* Adding or removing an entry changes the count of its sender by one.
LEMMA OfSenderCount ==
  ASSUME NEW S, IsFiniteSet(S), NEW s, NEW e
  PROVE  /\ IsFiniteSet(OfSender(S, s)) /\ Cardinality(OfSender(S, s)) \in Nat
         /\ Cardinality(OfSender(S \cup {e}, s)) =
              IF e \notin S /\ e.uo.sender = s
                THEN Cardinality(OfSender(S, s)) + 1 ELSE Cardinality(OfSender(S, s))
         /\ Cardinality(OfSender(S \ {e}, s)) =
              IF e \in S /\ e.uo.sender = s
                THEN Cardinality(OfSender(S, s)) - 1 ELSE Cardinality(OfSender(S, s))
<1> DEFINE T == OfSender(S, s)
<1>1. T \in SUBSET S
  BY DEF OfSender
<1>2. IsFiniteSet(T) /\ Cardinality(T) \in Nat
  BY <1>1, FS_Subset, FS_CardinalityType
<1>3. /\ OfSender(S \cup {e}, s) = IF e.uo.sender = s THEN T \cup {e} ELSE T
      /\ OfSender(S \ {e}, s) = IF e.uo.sender = s THEN T \ {e} ELSE T
      /\ e.uo.sender = s => (e \in T <=> e \in S)
  BY DEF OfSender
<1> HIDE DEF T
<1>4. /\ Cardinality(T \cup {e}) = IF e \in T THEN Cardinality(T) ELSE Cardinality(T) + 1
      /\ Cardinality(T \ {e}) = IF e \in T THEN Cardinality(T) - 1 ELSE Cardinality(T)
  BY <1>2, FS_AddElement, FS_RemoveElement
<1> QED
  BY <1>2, <1>3, <1>4 DEF T

\* The length of by_hash is the number of entries in the order: their
\* hashes are a bijection onto the keys.
LEMMA SizeIsCardinality ==
  ASSUME TypeOK, ByHashIs(ordered)
  PROVE  IsFiniteSet(ordered) /\ Size = Cardinality(ordered)
<1> DEFINE H == {h \in Hash : by_hash[h] # None}
           f == [e \in ordered |-> e.uo.hash]
<1>1. \A e \in ordered : e.uo.hash \in H /\ by_hash[e.uo.hash] = e
  BY EntryFields DEF TypeOK, ByHashIs
<1>2. \A h \in H : by_hash[h] \in ordered /\ by_hash[h].uo.hash = h
  BY DEF ByHashIs
<1>3. f \in Bijection(ordered, H)
  BY <1>1, <1>2 DEF Bijection, Injection, Surjection, IsInjective
<1>4. IsFiniteSet(H)
  BY HashFinite, FS_Subset
<1> HIDE DEF f, H
<1>5. IsFiniteSet(ordered) /\ Cardinality(ordered) = Cardinality(H)
  BY <1>3, <1>4, FS_Injection DEF Bijection
<1> QED
  BY <1>5 DEF H, Size

\* Each call keeps its locals pointing where its labels say.
LEMMA StepEntryInv ==
  ASSUME OneCaller, SerialInv, NEW t \in Thread, Call(t) \/ Continue(t)
  PROVE  EntryInv'
<1> USE DEF indexes, locals, Goto, TypeOK, SerialInv, EntryInv, OneCaller,
  ClearLabel, Label, AddLabel, RemoveLabel
<1>2. ASSUME NEW u \in UserOp, Add(t, u) PROVE EntryInv'
  BY <1>2 DEF Add
<1>3. ASSUME NoExisting(t) PROVE EntryInv'
  BY <1>3 DEF NoExisting
<1>4. ASSUME ReplaceExisting(t) PROVE EntryInv'
  <2>1. uo[t] \in UserOp /\ IdOf(uo[t]) \in Id
    BY <1>4, OpFields DEF ReplaceExisting
  <2>2. ByIdIs(ordered)
    BY <1>4 DEF ReplaceExisting, IndexInv, InById
  <2>3. by_id[IdOf(uo[t])] \in ordered
    BY <1>4, <2>1, <2>2 DEF ReplaceExisting, ByIdIs
  <2> QED
    BY <1>4, <2>3 DEF ReplaceExisting
<1>5. ASSUME ReplacementUnderpriced(t) PROVE EntryInv'
  BY <1>5 DEF ReplacementUnderpriced, Return
<1>6. ASSUME SenderLimitReached(t) PROVE EntryInv'
  BY <1>6 DEF SenderLimitReached, Return
<1>7. ASSUME SenderCheck(t) PROVE EntryInv'
  BY <1>7 DEF SenderCheck
<1>8. ASSUME PoolFull(t) PROVE EntryInv'
  BY <1>8 DEF PoolFull, Return
<1>9. ASSUME SizeCheck(t) PROVE EntryInv'
  BY <1>9 DEF SizeCheck
<1>10. ASSUME TakeSequence(t) PROVE EntryInv'
  BY <1>10 DEF TakeSequence
<1>11. ASSUME InsertHash(t) PROVE EntryInv'
  BY <1>11 DEF InsertHash
<1>12. ASSUME InsertId(t) PROVE EntryInv'
  BY <1>12 DEF InsertId
<1>13. ASSUME InsertOrdered(t) PROVE EntryInv'
  BY <1>13 DEF InsertOrdered
<1>14. ASSUME CountUp(t) PROVE EntryInv'
  BY <1>14 DEF CountUp, Return
<1>15. ASSUME NEW h \in Hash, RemoveByHash(t, h) PROVE EntryInv'
  BY <1>15 DEF RemoveByHash, IndexInv, ByHashIs, InByHash
<1>16. ASSUME NEW i \in Id, RemoveById(t, i) PROVE EntryInv'
  BY <1>16 DEF RemoveById, IndexInv, ByIdIs, InById
<1>17. ASSUME RemoveHash(t) PROVE EntryInv'
  BY <1>17 DEF RemoveHash
<1>18. ASSUME RemoveId(t) PROVE EntryInv'
  BY <1>18 DEF RemoveId
<1>19. ASSUME RemoveOrdered(t) PROVE EntryInv'
  BY <1>19 DEF RemoveOrdered
<1>20. ASSUME CountDown(t) PROVE EntryInv'
  BY <1>20 DEF CountDown, Return
<1>21. ASSUME ClearHash(t) PROVE EntryInv'
  BY <1>21 DEF ClearHash
<1>22. ASSUME ClearId(t) PROVE EntryInv'
  BY <1>22 DEF ClearId
<1>23. ASSUME ClearOrdered(t) PROVE EntryInv'
  BY <1>23 DEF ClearOrdered
<1>24. ASSUME ClearCount(t) PROVE EntryInv'
  BY <1>24 DEF ClearCount
<1> QED
  BY <1>2, <1>3, <1>4, <1>5, <1>6, <1>7, <1>8, <1>9, <1>10, <1>11,
     <1>12, <1>13, <1>14, <1>15, <1>16, <1>17, <1>18, <1>19, <1>20, <1>21,
     <1>22, <1>23, <1>24
  DEF Call, Continue

\* add inserts only what is new, and only one entry for an id.
LEMMA StepNewInv ==
  ASSUME OneCaller, SerialInv, TypeOK', NEW t \in Thread, Call(t) \/ Continue(t)
  PROVE  NewInv'
<1> USE DEF indexes, locals, Goto, TypeOK, SerialInv, OneCaller, ClearLabel,
  Label, AddLabel, RemoveLabel, EntryInv, NewInv, OnePerId, InsertLabel, PastCheck, PastLookup
<1>2. ASSUME NEW u \in UserOp, Add(t, u) PROVE NewInv'
  <2>1. ByHashIs(ordered)
    BY <1>2 DEF Add, IndexInv, InByHash
  <2>2. \A e \in ordered : e.uo.hash # u.hash
    BY <1>2, <2>1, EntryFields DEF Add, ByHashIs
  <2> QED
    BY <1>2, <2>2 DEF Add
<1>3. ASSUME NoExisting(t) PROVE NewInv'
  <2>1. ByIdIs(ordered)
    BY <1>3 DEF NoExisting, IndexInv, InById
  <2>2. \A e \in ordered : IdOf(e.uo) # IdOf(uo[t])
    BY <1>3, <2>1, EntryFields DEF NoExisting, ByIdIs
  <2> QED
    BY <1>3, <2>2 DEF NoExisting
<1>4. ASSUME ReplaceExisting(t) PROVE NewInv'
  <2> DEFINE old == by_id[IdOf(uo[t])]
  <2>1. ByIdIs(ordered)
    BY <1>4 DEF ReplaceExisting, IndexInv, InById
  <2>2. uo[t] \in UserOp /\ IdOf(uo[t]) \in Id
    BY <1>4, OpFields DEF ReplaceExisting
  <2>3. old \in ordered /\ IdOf(old.uo) = IdOf(uo[t])
    BY <1>4, <2>1, <2>2 DEF ReplaceExisting, ByIdIs
  <2>4. old.uo # uo[t]
    BY <1>4, <2>2, <2>3 DEF ReplaceExisting
  <2>5. /\ entry'[t] = old /\ pc'[t] = "remove_hash" /\ uo' = uo /\ ordered' = ordered
        /\ Outbids(uo[t], old)
    BY <1>4 DEF ReplaceExisting
  <2> HIDE DEF old
  <2>6. Outbids(uo'[t], entry'[t])
    BY <2>5
  <2> QED
    BY <1>4, <2>3, <2>4, <2>5, <2>6 DEF ReplaceExisting
<1>5. ASSUME ReplacementUnderpriced(t) PROVE NewInv'
  BY <1>5 DEF ReplacementUnderpriced, Return
<1>6. ASSUME SenderLimitReached(t) PROVE NewInv'
  BY <1>6 DEF SenderLimitReached, Return
<1>7. ASSUME SenderCheck(t) PROVE NewInv'
  BY <1>7 DEF SenderCheck
<1>8. ASSUME PoolFull(t) PROVE NewInv'
  BY <1>8 DEF PoolFull, Return
<1>9. ASSUME SizeCheck(t) PROVE NewInv'
  BY <1>9 DEF SizeCheck
<1>10. ASSUME TakeSequence(t) PROVE NewInv'
  BY <1>10 DEF TakeSequence
<1>11. ASSUME InsertHash(t) PROVE NewInv'
  BY <1>11 DEF InsertHash
<1>12. ASSUME InsertId(t) PROVE NewInv'
  BY <1>12 DEF InsertId
<1>13. ASSUME InsertOrdered(t) PROVE NewInv'
  BY <1>13 DEF InsertOrdered
<1>14. ASSUME CountUp(t) PROVE NewInv'
  BY <1>14 DEF CountUp, Return
<1>15. ASSUME NEW h \in Hash, RemoveByHash(t, h) PROVE NewInv'
  BY <1>15 DEF RemoveByHash
<1>16. ASSUME NEW i \in Id, RemoveById(t, i) PROVE NewInv'
  BY <1>16 DEF RemoveById
<1>17. ASSUME RemoveHash(t) PROVE NewInv'
  BY <1>17 DEF RemoveHash
<1>18. ASSUME RemoveId(t) PROVE NewInv'
  BY <1>18 DEF RemoveId
<1>19. ASSUME RemoveOrdered(t) PROVE NewInv'
  <2>1. entry[t] \in ordered /\ ordered' = ordered \ {entry[t]}
    BY <1>19 DEF RemoveOrdered
  <2>2. \A e \in ordered' : IdOf(e.uo) # IdOf(entry[t].uo)
    BY <2>1
  <2> QED
    BY <1>19, <2>1, <2>2 DEF RemoveOrdered
<1>20. ASSUME CountDown(t) PROVE NewInv'
  BY <1>20 DEF CountDown, Return
<1>21. ASSUME ClearHash(t) PROVE NewInv'
  BY <1>21 DEF ClearHash
<1>22. ASSUME ClearId(t) PROVE NewInv'
  BY <1>22 DEF ClearId
<1>23. ASSUME ClearOrdered(t) PROVE NewInv'
  BY <1>23 DEF ClearOrdered
<1>24. ASSUME ClearCount(t) PROVE NewInv'
  BY <1>24 DEF ClearCount
<1> QED
  BY <1>2, <1>3, <1>4, <1>5, <1>6, <1>7, <1>8, <1>9, <1>10, <1>11, <1>12,
    <1>13, <1>14, <1>15, <1>16, <1>17, <1>18, <1>19, <1>20, <1>21, <1>22,
      <1>23, <1>24
  DEF Call, Continue

\* Every critical section changes its index by the entry of the call alone.
LEMMA StepIndexInv ==
  ASSUME OneCaller, SerialInv, TypeOK', NEW t \in Thread, Call(t) \/ Continue(t)
  PROVE  IndexInv'
<1>1. \A s, e :
        /\ Cardinality(OfSender(ordered, s)) \in Nat
        /\ Cardinality(OfSender(ordered \cup {e}, s)) =
             IF e \notin ordered /\ e.uo.sender = s
               THEN Cardinality(OfSender(ordered, s)) + 1 ELSE Cardinality(OfSender(ordered, s))
        /\ Cardinality(OfSender(ordered \ {e}, s)) =
             IF e \in ordered /\ e.uo.sender = s
               THEN Cardinality(OfSender(ordered, s)) - 1 ELSE Cardinality(OfSender(ordered, s))
  BY OfSenderCount DEF SerialInv, LimitInv
<1> USE DEF indexes, locals, Goto, TypeOK, SerialInv, OneCaller, ClearLabel,
  Label, AddLabel, RemoveLabel, IndexInv, EntryInv, NewInv, InsertLabel,
  PastCheck, PastLookup, InByHash, InById, Counted, ByHashIs, ByIdIs, CountIs,
  OfSender
<1>2. ASSUME NEW u \in UserOp, Add(t, u) PROVE IndexInv'
  BY <1>2 DEF Add
<1>3. ASSUME NoExisting(t) PROVE IndexInv'
  BY <1>3 DEF NoExisting
<1>4. ASSUME ReplaceExisting(t) PROVE IndexInv'
  BY <1>4 DEF ReplaceExisting
<1>5. ASSUME ReplacementUnderpriced(t) PROVE IndexInv'
  BY <1>5 DEF ReplacementUnderpriced, Return
<1>6. ASSUME SenderLimitReached(t) PROVE IndexInv'
  BY <1>6 DEF SenderLimitReached, Return
<1>7. ASSUME SenderCheck(t) PROVE IndexInv'
  BY <1>7 DEF SenderCheck
<1>8. ASSUME PoolFull(t) PROVE IndexInv'
  BY <1>8 DEF PoolFull, Return
<1>9. ASSUME SizeCheck(t) PROVE IndexInv'
  BY <1>9 DEF SizeCheck
<1>10. ASSUME TakeSequence(t) PROVE IndexInv'
  BY <1>10 DEF TakeSequence
<1>11. ASSUME InsertHash(t) PROVE IndexInv'
  BY <1>11 DEF InsertHash
<1>12. ASSUME InsertId(t) PROVE IndexInv'
  BY <1>12 DEF InsertId
<1>13. ASSUME InsertOrdered(t) PROVE IndexInv'
  BY <1>13 DEF InsertOrdered
<1>14. ASSUME CountUp(t) PROVE IndexInv'
  <2> DEFINE e == fresh[t]
  <2>1. /\ e \in ordered /\ e.uo = uo[t] /\ uo[t] \in UserOp
        /\ uo[t].sender \in Sender /\ IsFiniteSet(ordered)
    BY <1>14, OpFields DEF CountUp, LimitInv
  <2>2. ByHashIs(ordered) /\ ByIdIs(ordered) /\ CountIs(ordered \ {e})
    BY <1>14 DEF CountUp
  <2>3. /\ ordered' = ordered /\ by_hash' = by_hash /\ by_id' = by_id
        /\ sender_count' = [sender_count EXCEPT ![uo[t].sender] = @ + 1]
        /\ pc'[t] = "idle"
    BY <1>14 DEF CountUp, Return
  <2>4. CountIs(ordered)'
    <3> SUFFICES ASSUME NEW s \in Sender
                 PROVE  sender_count'[s] = Cardinality(OfSender(ordered, s))
      BY <2>3 DEF CountIs
    <3>1. sender_count[s] = Cardinality(OfSender(ordered \ {e}, s))
      BY <2>2 DEF CountIs
    <3> HIDE DEF e, OfSender
    <3>2. /\ Cardinality(OfSender(ordered, s)) \in Nat
          /\ Cardinality(OfSender(ordered \ {e}, s)) =
               IF e.uo.sender = s THEN Cardinality(OfSender(ordered, s)) - 1
                                  ELSE Cardinality(OfSender(ordered, s))
      BY <1>1, <2>1
    <3> QED
      BY <2>1, <2>3, <3>1, <3>2
  <2> QED
    BY <2>2, <2>3, <2>4
<1>15. ASSUME NEW h \in Hash, RemoveByHash(t, h) PROVE IndexInv'
  BY <1>15 DEF RemoveByHash
<1>16. ASSUME NEW i \in Id, RemoveById(t, i) PROVE IndexInv'
  BY <1>16 DEF RemoveById
<1>17. ASSUME RemoveHash(t) PROVE IndexInv'
  BY <1>17 DEF RemoveHash
<1>18. ASSUME RemoveId(t) PROVE IndexInv'
  BY <1>18 DEF RemoveId
<1>19. ASSUME RemoveOrdered(t) PROVE IndexInv'
  BY <1>19 DEF RemoveOrdered
<1>20. ASSUME CountDown(t) PROVE IndexInv'
  <2> DEFINE e == entry[t]
  <2>1. /\ e \notin ordered /\ e \in Entry /\ e.uo.sender \in Sender
        /\ IsFiniteSet(ordered)
    BY <1>20, EntryFields DEF CountDown, LimitInv
  <2>2. ByHashIs(ordered) /\ ByIdIs(ordered) /\ CountIs(ordered \cup {e})
    BY <1>20 DEF CountDown
  <2>3. /\ ordered' = ordered /\ by_hash' = by_hash /\ by_id' = by_id
        /\ sender_count' = [sender_count EXCEPT
                              ![e.uo.sender] = IF @ > 0 THEN @ - 1 ELSE 0]
        /\ pc'[t] \in {"idle", "sender_check"}
    BY <1>20 DEF CountDown, Return
  <2>4. CountIs(ordered)'
    <3> SUFFICES ASSUME NEW s \in Sender
                 PROVE  sender_count'[s] = Cardinality(OfSender(ordered, s))
      BY <2>3 DEF CountIs
    <3>1. sender_count[s] = Cardinality(OfSender(ordered \cup {e}, s))
      BY <2>2 DEF CountIs
    <3> HIDE DEF e, OfSender
    <3>2. /\ Cardinality(OfSender(ordered, s)) \in Nat
          /\ Cardinality(OfSender(ordered \cup {e}, s)) =
               IF e.uo.sender = s THEN Cardinality(OfSender(ordered, s)) + 1
                                  ELSE Cardinality(OfSender(ordered, s))
      BY <1>1, <2>1
    <3> QED
      BY <2>1, <2>3, <3>1, <3>2
  <2> QED
    BY <2>2, <2>3, <2>4
<1>21. ASSUME ClearHash(t) PROVE IndexInv'
  BY <1>21 DEF ClearHash
<1>22. ASSUME ClearId(t) PROVE IndexInv'
  BY <1>22 DEF ClearId
<1>23. ASSUME ClearOrdered(t) PROVE IndexInv'
  BY <1>23 DEF ClearOrdered
<1>24. ASSUME ClearCount(t) PROVE IndexInv'
  <2>1. /\ ordered' = ordered /\ ordered = {} /\ by_hash' = by_hash /\ by_id' = by_id
        /\ ByHashIs(ordered) /\ ByIdIs(ordered)
        /\ sender_count' = [s \in Sender |-> 0] /\ pc'[t] = "idle"
    BY <1>24 DEF ClearCount
  <2>2. CountIs(ordered)'
    <3>1. \A s : OfSender({}, s) = {}
      BY DEF OfSender
    <3> HIDE DEF OfSender
    <3>2. \A s : Cardinality(OfSender(ordered, s)) = 0
      BY <2>1, <3>1, FS_EmptySet
    <3> QED
      BY <2>1, <3>2 DEF OfSender
  <2>3. ByHashIs(ordered)' /\ ByIdIs(ordered)'
    BY <2>1
  <2> HIDE DEF ByHashIs, ByIdIs, CountIs, OfSender
  <2> QED
    BY <2>1, <2>2, <2>3
<1> QED
  BY <1>2, <1>3, <1>4, <1>5, <1>6, <1>7, <1>8, <1>9, <1>10, <1>11, <1>12,
    <1>13, <1>14, <1>15, <1>16, <1>17, <1>18, <1>19, <1>20, <1>21, <1>22,
      <1>23, <1>24
  DEF Call, Continue

\* Room is left where add goes on, and no step takes it but the insertion.
LEMMA StepLimitInv ==
  ASSUME OneCaller, SerialInv, TypeOK', NEW t \in Thread, Call(t) \/ Continue(t)
  PROVE  LimitInv'
<1>a. \A s, e :
        /\ Cardinality(OfSender(ordered \cup {e}, s)) =
             IF e \notin ordered /\ e.uo.sender = s
               THEN Cardinality(OfSender(ordered, s)) + 1 ELSE Cardinality(OfSender(ordered, s))
        /\ Cardinality(OfSender(ordered \ {e}, s)) =
             IF e \in ordered /\ e.uo.sender = s
               THEN Cardinality(OfSender(ordered, s)) - 1 ELSE Cardinality(OfSender(ordered, s))
  BY OfSenderCount DEF SerialInv, LimitInv
<1> USE DEF indexes, locals, Goto, TypeOK, SerialInv, OneCaller, EntryInv,
  InsertLabel, PastCheck, PastLookup
<1> DEFINE Of(s) == OfSender(ordered, s)
<1>1. /\ IsFiniteSet(ordered) /\ Cardinality(ordered) \in Nat
      /\ \A s : IsFiniteSet(Of(s)) /\ Cardinality(Of(s)) \in Nat
      /\ MaxSize \in Nat /\ MaxOpsPerSender \in Nat
  BY OfSenderCount, FS_CardinalityType, PoolConstants DEF LimitInv
<1> DEFINE Kept ==
      /\ uo'[t] # None /\ pc'[t] \in PastLookup \cup {"count_down"} /\ entry'[t] # None
           => Room(uo[t])'
      /\ uo'[t] # None /\ pc'[t] \in PastCheck => Room(uo[t])'
      /\ uo'[t] # None /\ pc'[t] = "size_check" =>
           Cardinality(OfSender(ordered', uo'[t].sender)) < MaxOpsPerSender
<1>2. ASSUME IsFiniteSet(ordered'), Cardinality(ordered') <= MaxSize,
             \A s \in Sender : Cardinality(OfSender(ordered', s)) <= MaxOpsPerSender,
             Kept
      PROVE  LimitInv'
  BY <1>2 DEF LimitInv
<1>0. ASSUME ordered' = ordered, Kept PROVE LimitInv'
  BY <1>0, <1>2 DEF LimitInv
<1>3. ASSUME \/ \E u \in UserOp : Add(t, u)
             \/ NoExisting(t) \/ ReplaceExisting(t)
             \/ ReplacementUnderpriced(t) \/ SenderLimitReached(t) \/ PoolFull(t)
             \/ CountUp(t) \/ \E h \in Hash : RemoveByHash(t, h)
             \/ \E i \in Id : RemoveById(t, i)
             \/ RemoveHash(t) \/ RemoveId(t)
             \/ ClearHash(t) \/ ClearId(t) \/ ClearCount(t)
      PROVE  LimitInv'
  BY <1>0, <1>3 DEF LimitInv, Room, Add, NoExisting, ReplaceExisting,
    ReplacementUnderpriced, SenderLimitReached, PoolFull, CountUp,
    RemoveByHash, RemoveById,
    RemoveHash, RemoveId, ClearHash, ClearId, ClearCount, Return
<1>4. ASSUME SenderCheck(t) PROVE LimitInv'
  <2>1. CountIs(ordered) /\ uo[t] \in UserOp /\ uo[t].sender \in Sender
    BY <1>4, OpFields DEF SenderCheck, IndexInv, Counted, ClearLabel, AddLabel
  <2>2. Cardinality(Of(uo[t].sender)) < MaxOpsPerSender
    BY <1>4, <2>1 DEF SenderCheck, CountIs
  <2> HIDE DEF Of
  <2> QED
    BY <1>0, <1>4, <2>2 DEF SenderCheck, LimitInv, Room, Of
<1>5. ASSUME SizeCheck(t) PROVE LimitInv'
  <2>1. ByHashIs(ordered)
    BY <1>5 DEF SizeCheck, IndexInv, InByHash
  <2>2. Cardinality(ordered) = Size
    BY <2>1, SizeIsCardinality
  <2>3. Room(uo[t])
    BY <1>1, <1>5, <2>2 DEF SizeCheck, LimitInv, Room, AddLabel
  <2> HIDE DEF Of
  <2> QED
    BY <1>0, <1>5, <2>3 DEF SizeCheck, Room
<1>6. ASSUME TakeSequence(t) \/ InsertHash(t) \/ InsertId(t) PROVE LimitInv'
  <2>1. Room(uo[t]) /\ ordered' = ordered /\ uo' = uo /\ pc'[t] \in InsertLabel
    BY <1>6 DEF TakeSequence, InsertHash, InsertId, LimitInv, AddLabel
  <2> HIDE DEF Of
  <2> QED
    BY <1>0, <2>1 DEF Room
<1>7. ASSUME InsertOrdered(t) PROVE LimitInv'
  <2> DEFINE e == fresh[t]
  <2>1. /\ Room(uo[t]) /\ e.uo = uo[t] /\ ordered' = ordered \cup {e}
        /\ pc'[t] = "count_up"
    BY <1>7 DEF InsertOrdered, LimitInv, AddLabel
  <2> HIDE DEF e, Of
  <2>2. IsFiniteSet(ordered') /\ Cardinality(ordered') <= MaxSize
    <3>1. /\ IsFiniteSet(ordered \cup {e})
          /\ \/ Cardinality(ordered \cup {e}) = Cardinality(ordered)
             \/ Cardinality(ordered \cup {e}) = Cardinality(ordered) + 1
      BY <1>1, FS_AddElement
    <3>2. Cardinality(ordered) < MaxSize
      BY <2>1 DEF Room
    <3> QED
      BY <1>1, <2>1, <3>1, <3>2
  <2>3. ASSUME NEW s \in Sender
        PROVE  Cardinality(OfSender(ordered', s)) <= MaxOpsPerSender
    <3>1. Cardinality(OfSender(ordered \cup {e}, s)) =
            IF e \notin ordered /\ e.uo.sender = s
              THEN Cardinality(OfSender(ordered, s)) + 1
              ELSE Cardinality(OfSender(ordered, s))
      BY <1>a
    <3>2. Cardinality(Of(s)) \in Nat /\ Cardinality(Of(s)) <= MaxOpsPerSender
      BY <1>1 DEF LimitInv, Of
    <3>3. uo[t].sender = s => Cardinality(Of(s)) < MaxOpsPerSender
      BY <2>1 DEF Room, Of
    <3> QED
      BY <1>1, <2>1, <3>1, <3>2, <3>3 DEF Of
  <2> QED
    BY <1>2, <2>1, <2>2, <2>3
<1>8. ASSUME RemoveOrdered(t) PROVE LimitInv'
  <2> DEFINE e == entry[t]
  <2>1. /\ e \in ordered /\ ordered' = ordered \ {e} /\ pc'[t] = "count_down"
        /\ uo' = uo /\ entry' = entry /\ pc[t] = "remove_ordered" /\ e \in Entry
    BY <1>8 DEF RemoveOrdered
  <2>2. uo[t] # None => IdOf(e.uo) = IdOf(uo[t])
    BY <2>1, EntryFields DEF NewInv
  <2>3. uo[t] # None => uo[t].sender = e.uo.sender
    BY <2>2 DEF IdOf
  <2>4. e.uo.sender \in Sender
    BY <2>1, EntryFields
  <2> HIDE DEF e
  <2>5. IsFiniteSet(ordered') /\ Cardinality(ordered') = Cardinality(ordered) - 1
    BY <1>1, <2>1, FS_RemoveElement
  <2>6. Cardinality(ordered') < MaxSize
    BY <1>1, <2>5 DEF LimitInv
  <2>7. \A s : Cardinality(OfSender(ordered', s)) =
           IF e.uo.sender = s THEN Cardinality(Of(s)) - 1 ELSE Cardinality(Of(s))
    BY <1>a, <2>1 DEF Of
  <2>8. \A s \in Sender : Cardinality(Of(s)) <= MaxOpsPerSender
    BY DEF LimitInv
  <2> HIDE DEF Of
  <2>9. /\ \A s \in Sender : Cardinality(OfSender(ordered', s)) <= MaxOpsPerSender
        /\ Cardinality(OfSender(ordered', e.uo.sender)) < MaxOpsPerSender
    BY <1>1, <2>4, <2>7, <2>8
  <2>10. uo[t] # None => Room(uo[t])'
    BY <2>1, <2>3, <2>6, <2>9 DEF Room
  <2> QED
    <3>1. Cardinality(ordered') <= MaxSize /\ pc'[t] = "count_down"
      BY <1>1, <2>1, <2>5, <2>6
    <3> QED
      BY <1>2, <2>1, <2>5, <2>9, <2>10, <3>1
<1>9. ASSUME CountDown(t) PROVE LimitInv'
  <2>1. uo[t] # None => Room(uo[t])
    BY <1>9 DEF CountDown, LimitInv, RemoveLabel
  <2> HIDE DEF Of
  <2> QED
    BY <1>0, <1>9, <2>1 DEF CountDown, Return, Room
<1>10. ASSUME ClearOrdered(t) PROVE LimitInv'
  <2>1. \A s : OfSender({}, s) = {}
    BY DEF OfSender
  <2>2. uo'[t] = None /\ ordered' = {}
    BY <1>10 DEF ClearOrdered, ClearLabel
  <2> QED
    <3>0. IsFiniteSet(ordered') /\ Cardinality(ordered') = 0
      BY <2>2, FS_EmptySet
    <3>a. \A s : Cardinality(OfSender(ordered', s)) = 0
      BY <2>1, <2>2, FS_EmptySet
    <3>1. /\ Cardinality(ordered') <= MaxSize
          /\ \A s : Cardinality(OfSender(ordered', s)) <= MaxOpsPerSender
      BY <1>1, <3>0, <3>a
    <3> QED
      BY <1>2, <2>2, <3>0, <3>1
<1> QED
  BY <1>3, <1>4, <1>5, <1>6, <1>7, <1>8, <1>9, <1>10 DEF Call, Continue

-----------------------------------------------------------------------------

\* Every step preserves the invariant.
LEMMA StepSerialInv ==
  ASSUME OneCaller, SerialInv, [Next]_vars
  PROVE  SerialInv'
<1>1. TypeOK'
  BY StepTypeOK DEF SerialInv
<1>2. CASE UNCHANGED vars
  <2>1. /\ by_hash' = by_hash /\ by_id' = by_id /\ ordered' = ordered
        /\ sender_count' = sender_count /\ pc' = pc /\ uo' = uo
        /\ entry' = entry /\ fresh' = fresh
    BY <1>2 DEF vars
  <2>a. \A t : /\ InByHash(t)' = InByHash(t) /\ InById(t)' = InById(t)
               /\ Counted(t)' = Counted(t)
    BY <2>1 DEF InByHash, InById, Counted
  <2>2. IndexInv'
    <3> SUFFICES ASSUME NEW t \in Thread
                 PROVE  /\ ByHashIs(InByHash(t))' /\ ByIdIs(InById(t))'
                        /\ pc[t] \notin {"clear_id", "clear_ordered", "clear_count"}
                             => CountIs(Counted(t))'
      BY <2>1 DEF IndexInv
    <3>1. /\ ByHashIs(InByHash(t)) /\ ByIdIs(InById(t))
          /\ pc[t] \notin {"clear_id", "clear_ordered", "clear_count"}
               => CountIs(Counted(t))
      BY DEF SerialInv, IndexInv
    <3> QED
      BY <2>1, <2>a, <3>1 DEF ByHashIs, ByIdIs, CountIs
  <2>3. EntryInv' /\ NewInv' /\ LimitInv'
    BY <2>1 DEF SerialInv, EntryInv, NewInv, OnePerId, LimitInv, Room
  <2> QED
    BY <1>1, <2>2, <2>3 DEF SerialInv
<1>3. CASE Next
  <2>1. PICK t \in Thread : Call(t) \/ Continue(t)
    BY <1>3 DEF Next
  <2> QED
    BY <1>1, <2>1, StepIndexInv, StepEntryInv, StepNewInv, StepLimitInv
    DEF SerialInv
<1> QED
  BY <1>2, <1>3

\* Between calls the indexes agree.
LEMMA SerialAgreement == OneCaller /\ SerialInv => IndexAgreement
<1> SUFFICES ASSUME SerialInv, Quiescent
             PROVE  /\ {by_hash[h] : h \in Hash} \ {None} = ordered
                    /\ {by_id[i] : i \in Id} \ {None} = ordered
                    /\ \A s \in Sender :
                         sender_count[s] = Cardinality({e \in ordered : e.uo.sender = s})
  BY DEF IndexAgreement
<1>1. PICK t \in Thread : TRUE
  BY PoolConstants
<1>2. pc[t] = "idle"
  BY DEF Quiescent
<1>3. ByHashIs(ordered) /\ ByIdIs(ordered) /\ CountIs(ordered)
  BY <1>2 DEF SerialInv, IndexInv, InByHash, InById, Counted
<1>4. \A e \in ordered : e # None /\ e.uo.hash \in Hash /\ IdOf(e.uo) \in Id
  BY EntryFields DEF SerialInv, TypeOK
<1> QED
  BY <1>3, <1>4 DEF ByHashIs, ByIdIs, CountIs, OfSender

\* When calls do not overlap, every call of the pool leaves its four indexes
\* describing one set of operations.
THEOREM IndexesAgree ==
  ASSUME OneCaller
  PROVE  Spec => []IndexAgreement
<1>1. Init => SerialInv
  BY InitSerialInv
<1>2. SerialInv /\ [Next]_vars => SerialInv'
  BY StepSerialInv
<1>3. SerialInv => IndexAgreement
  BY SerialAgreement
<1> QED
  BY <1>1, <1>2, <1>3, PTL DEF Spec

\* An add that fails on a limit replaces nothing: a replaced entry has just
\* left room for the one that replaces it.
LEMMA FailedAddHeldNothing ==
  ASSUME SerialInv, NEW t \in Thread, SenderLimitReached(t) \/ PoolFull(t)
  PROVE  entry[t] = None
<1>1. /\ pc[t] \in {"sender_check", "size_check"}
      /\ uo[t] \in UserOp /\ uo[t].sender \in Sender
  BY OpFields DEF SenderLimitReached, PoolFull, SerialInv, TypeOK, AddLabel
<1>2. ByHashIs(ordered) /\ CountIs(ordered)
  BY <1>1 DEF SerialInv, IndexInv, InByHash, Counted, ClearLabel
<1>3. /\ Size = Cardinality(ordered)
      /\ sender_count[uo[t].sender] = Cardinality(OfSender(ordered, uo[t].sender))
  BY <1>1, <1>2, SizeIsCardinality DEF SerialInv, CountIs
<1>4. \/ Cardinality(OfSender(ordered, uo[t].sender)) >= MaxOpsPerSender
      \/ Cardinality(ordered) >= MaxSize
  BY <1>3 DEF SenderLimitReached, PoolFull
<1>5. /\ Cardinality(OfSender(ordered, uo[t].sender)) \in Nat
      /\ Cardinality(ordered) \in Nat /\ MaxSize \in Nat /\ MaxOpsPerSender \in Nat
  BY OfSenderCount, FS_CardinalityType, PoolConstants DEF SerialInv, LimitInv
<1>6. ~Room(uo[t])
  BY <1>4, <1>5 DEF Room
<1>7. uo[t] # None
  BY <1>1, OpFields
<1> QED
  BY <1>1, <1>6, <1>7 DEF SerialInv, LimitInv, PastLookup

\* When calls do not overlap, an add refused by a limit leaves every
\* operation of the pool in place, although add removes before it checks.
THEOREM NothingDisplaced ==
  ASSUME OneCaller
  PROVE  Spec => FailedAddDisplacesNothing
<1>1. Init => SerialInv
  BY InitSerialInv
<1>2. SerialInv /\ [Next]_vars => SerialInv'
  BY StepSerialInv
<1>3. SerialInv /\ [Next]_vars =>
        [\A t \in Thread : SenderLimitReached(t) \/ PoolFull(t) => entry[t] = None]_vars
  BY FailedAddHeldNothing
<1> QED
  BY <1>1, <1>2, <1>3, PTL DEF Spec, FailedAddDisplacesNothing

\* With one caller, Contents is what the order holds, and the operation a
\* replacement has taken out of it.
LEMMA ContentsOfOne ==
  ASSUME OneCaller, NEW t \in Thread
  PROVE  /\ Contents = {e.uo : e \in ordered}
                         \cup (IF Replacing(t) THEN {entry[t].uo} ELSE {})
         /\ Contents' = {e.uo : e \in ordered'}
                          \cup (IF Replacing(t)' THEN {entry'[t].uo} ELSE {})
<1>1. ASSUME NEW R \in SUBSET Thread
      PROVE  (R = {t} /\ t \in R) \/ (R = {} /\ t \notin R)
  BY Zenon DEF OneCaller
<1> DEFINE R == {r \in Thread : Replacing(r)}
<1>2. /\ {entry[r].uo : r \in R} = IF t \in R THEN {entry[t].uo} ELSE {}
      /\ {entry'[r].uo : r \in R'} = IF t \in R' THEN {entry'[t].uo} ELSE {}
  <2>1. R \in SUBSET Thread /\ R' \in SUBSET Thread
    OBVIOUS
  <2>2. {entry[r].uo : r \in R} = IF t \in R THEN {entry[t].uo} ELSE {}
    <3> HIDE DEF R
    <3>1. CASE R = {t} /\ t \in R
      <4>1. {entry[r].uo : r \in {t}} = {entry[t].uo}
        OBVIOUS
      <4> QED
        BY <3>1, <4>1, Zenon
    <3>2. CASE R = {} /\ t \notin R
      <4>1. {entry[r].uo : r \in {}} = {}
        OBVIOUS
      <4> QED
        BY <3>2, <4>1, Zenon
    <3> QED
      BY <1>1, <2>1, <3>1, <3>2, Zenon
  <2>3. {entry'[r].uo : r \in R'} = IF t \in R' THEN {entry'[t].uo} ELSE {}
    <3> DEFINE Q == R'
    <3>1. Q \in SUBSET Thread
      BY <2>1
    <3> HIDE DEF Q
    <3>2. CASE Q = {t} /\ t \in Q
      <4>1. {entry'[r].uo : r \in {t}} = {entry'[t].uo}
        OBVIOUS
      <4> QED
        BY <3>2, <4>1, Zenon DEF Q
    <3>3. CASE Q = {} /\ t \notin Q
      <4>1. {entry'[r].uo : r \in {}} = {}
        OBVIOUS
      <4> QED
        BY <3>3, <4>1, Zenon DEF Q
    <3> QED
      BY <1>1, <3>1, <3>2, <3>3, Zenon
  <2> QED
    BY <2>2, <2>3
<1>3. (t \in R <=> Replacing(t)) /\ (t \in R' <=> Replacing(t)')
  OBVIOUS
<1>4. /\ Contents = {e.uo : e \in ordered} \cup {entry[r].uo : r \in R}
      /\ Contents' = {e.uo : e \in ordered'} \cup {entry'[r].uo : r \in R'}
  BY DEF Contents
<1> HIDE DEF R
<1> QED
  BY <1>2, <1>3, <1>4

\* There are no more operations than entries, in the pool or of a sender.
LEMMA ContentsCount ==
  ASSUME NEW S, IsFiniteSet(S), NEW s
  PROVE  /\ Cardinality({e.uo : e \in S}) <= Cardinality(S)
         /\ Cardinality({u \in {e.uo : e \in S} : u.sender = s})
              <= Cardinality(OfSender(S, s))
         /\ Cardinality({e.uo : e \in S}) \in Nat
         /\ Cardinality({u \in {e.uo : e \in S} : u.sender = s}) \in Nat
<1>1. IsFiniteSet(OfSender(S, s))
  BY FS_Subset DEF OfSender
<1>2. \A T : IsFiniteSet(T) => /\ IsFiniteSet({e.uo : e \in T})
                               /\ Cardinality({e.uo : e \in T}) <= Cardinality(T)
  <2> SUFFICES ASSUME NEW T, IsFiniteSet(T)
               PROVE  /\ IsFiniteSet({e.uo : e \in T})
                      /\ Cardinality({e.uo : e \in T}) <= Cardinality(T)
    OBVIOUS
  <2> DEFINE U == {e.uo : e \in T}
             f == [e \in T |-> e.uo]
  <2>1. f \in Surjection(T, U)
    BY DEF Surjection
  <2> HIDE DEF f
  <2> QED
    BY <2>1, FS_Surjection
<1>3. {u \in {e.uo : e \in S} : u.sender = s} = {e.uo : e \in OfSender(S, s)}
  BY DEF OfSender
<1> QED
  BY <1>1, <1>2, <1>3, FS_CardinalityType

\* Where the fee arithmetic does not wrap, the bump the code asks for is the
\* one the mempool promises.
LEMMA BumpIsExact ==
  ASSUME NoBumpWraps, NEW u \in UserOp
  PROVE  MinBump(u.max_fee_per_gas) =
           u.max_fee_per_gas
             + (u.max_fee_per_gas * ReplacementFeeBumpBps) \div 10000
<1> DEFINE fee == u.max_fee_per_gas
           product == fee * ReplacementFeeBumpBps
<1>1. /\ fee \in Nat /\ FeeModulus \in Nat \ {0} /\ product \in Nat
      /\ product < FeeModulus /\ fee + product \div 10000 < FeeModulus
  BY PoolConstants DEF NoBumpWraps
<1>2. MinBump(fee) = (fee + (product % FeeModulus) \div 10000) % FeeModulus
  BY DEF MinBump
<1> HIDE DEF fee, product
<1>3. product % FeeModulus = product /\ product \div 10000 \in Nat
  BY <1>1
<1>4. fee + product \div 10000 \in Nat
  BY <1>1, <1>3
<1>5. (fee + product \div 10000) % FeeModulus = fee + product \div 10000
  BY <1>1, <1>4
<1> QED
  BY <1>2, <1>3, <1>5 DEF fee, product

\* InsertOrdered is where add takes effect: an insertion, or a replacement
\* of the operation it has taken out.
LEMMA InsertRefines ==
  ASSUME OneCaller, NoBumpWraps, SerialInv, NEW t \in Thread, InsertOrdered(t)
  PROVE  Mempool!Next
<1> DEFINE Held == {e.uo : e \in ordered}
<1>1. /\ uo[t] \in UserOp /\ uo[t] # None
      /\ fresh[t].uo = uo[t]
      /\ pc[t] \in PastCheck \cap PastLookup /\ pc[t] # "count_up"
      /\ entry[t] \in Entry \cup {None}
      /\ \A e \in ordered : e.uo \in UserOp
  BY EntryFields DEF InsertOrdered, SerialInv, TypeOK, AddLabel, PastCheck,
    PastLookup, InsertLabel
<1>2. /\ \A e \in ordered : IdOf(e.uo) # IdOf(uo[t])
      /\ entry[t] # None => /\ IdOf(entry[t].uo) = IdOf(uo[t])
                            /\ entry[t].uo # uo[t]
                            /\ Outbids(uo[t], entry[t])
  BY <1>1 DEF SerialInv, NewInv
<1>3. IsFiniteSet(ordered) /\ Room(uo[t])
  BY <1>1 DEF SerialInv, LimitInv
<1>4. pc'[t] = "count_up" /\ ordered' = ordered \cup {fresh[t]}
  BY DEF InsertOrdered, SerialInv, TypeOK, Goto
<1>5. Contents' = Held \cup {uo[t]}
  <2>1. Contents' = {e.uo : e \in ordered'}
    <3>1. ~Replacing(t)'
      BY <1>4 DEF Replacing
    <3> QED
      BY <3>1, ContentsOfOne
  <2> QED
    BY <1>1, <1>4, <2>1
<1>6. Contents = Held \cup (IF entry[t] = None THEN {} ELSE {entry[t].uo})
  <2>1. Replacing(t) <=> entry[t] # None
    BY <1>1 DEF Replacing, InsertOrdered
  <2> QED
    BY <2>1, ContentsOfOne
<1>7. \A u, v \in UserOp : Mempool!SameId(u, v) <=> IdOf(u) = IdOf(v)
  BY DEF Mempool!SameId, IdOf
<1>8. CASE entry[t] = None
  <2>1. Contents = Held
    BY <1>6, <1>8
  <2>2. \A v \in Contents : ~Mempool!SameId(uo[t], v)
    BY <1>1, <1>2, <1>7, <2>1
  <2>3. /\ Cardinality(Held) <= Cardinality(ordered)
        /\ Cardinality({u \in Held : u.sender = uo[t].sender})
              <= Cardinality(OfSender(ordered, uo[t].sender))
        /\ Cardinality(Held) \in Nat
        /\ Cardinality({u \in Held : u.sender = uo[t].sender}) \in Nat
    BY <1>3, ContentsCount
  <2>4. /\ Cardinality(ordered) \in Nat
        /\ Cardinality(OfSender(ordered, uo[t].sender)) \in Nat
        /\ MaxSize \in Nat /\ MaxOpsPerSender \in Nat
    BY <1>3, OfSenderCount, FS_CardinalityType, PoolConstants
  <2>5. /\ Cardinality(Held) < MaxSize
        /\ Cardinality({u \in Held : u.sender = uo[t].sender}) < MaxOpsPerSender
    BY <1>3, <2>3, <2>4 DEF Room
  <2>c. \A S : Mempool!Cardinality(S) = Cardinality(S)
    BY DEF Mempool!Cardinality, Cardinality
  <2> HIDE DEF Held
  <2>6. Mempool!Insert(uo[t])
    BY <1>5, <2>1, <2>2, <2>5, <2>c DEF Mempool!Insert, Mempool!OfSender
  <2> QED
    BY <1>1, <2>6 DEF Mempool!Next
<1>9. CASE entry[t] # None
  <2> DEFINE old == entry[t].uo
  <2>1. old \in UserOp /\ old \in Contents
    BY <1>1, <1>6, <1>9, EntryFields
  <2>2. old \notin Held
    BY <1>1, <1>2, <1>9
  <2>3. Contents' = (Contents \ {old}) \cup {uo[t]}
    BY <1>5, <1>6, <1>9, <2>2
  <2>4. uo[t].max_fee_per_gas >=
          old.max_fee_per_gas
            + (old.max_fee_per_gas * ReplacementFeeBumpBps) \div 10000
    BY <1>2, <1>9, <2>1, BumpIsExact DEF Outbids
  <2>5. Mempool!SameId(old, uo[t]) /\ old # uo[t]
    BY <1>1, <1>2, <1>7, <1>9, <2>1
  <2> HIDE DEF old, Held
  <2>6. Mempool!Replace(old, uo[t])
    BY <2>3, <2>4, <2>5 DEF Mempool!Replace
  <2> QED
    BY <1>1, <2>1, <2>6 DEF Mempool!Next
<1> QED
  BY <1>8, <1>9

\* RemoveOrdered is where a removal takes effect; inside a replacement it
\* changes nothing, since the pool still stands for the old operation.
LEMMA RemoveRefines ==
  ASSUME OneCaller, SerialInv, NEW t \in Thread, RemoveOrdered(t)
  PROVE  Mempool!Next \/ UNCHANGED Contents
<1> DEFINE e0 == entry[t]
<1>1. /\ e0 \in ordered /\ e0 # None
      /\ pc[t] = "remove_ordered" /\ pc'[t] = "count_down"
      /\ ordered' = ordered \ {e0} /\ uo' = uo /\ entry' = entry
  BY EntryFields DEF RemoveOrdered, SerialInv, EntryInv, TypeOK, Goto, locals
<1>2. Contents = {e.uo : e \in ordered}
  <2>1. ~Replacing(t)
    BY <1>1 DEF Replacing
  <2> QED
    BY <2>1, ContentsOfOne
<1>3. Contents' = {e.uo : e \in ordered'} \cup (IF Replacing(t)' THEN {e0.uo} ELSE {})
  BY <1>1, ContentsOfOne
<1>4. Replacing(t)' <=> uo[t] # None
  BY <1>1 DEF Replacing
<1>5. \A e \in ordered : e.uo = e0.uo => e = e0
  BY <1>1 DEF SerialInv, NewInv, OnePerId
<1>6. CASE uo[t] # None
  BY <1>1, <1>2, <1>3, <1>4, <1>6
<1>7. CASE uo[t] = None
  <2>1. Contents' = Contents \ {e0.uo}
    BY <1>1, <1>2, <1>3, <1>4, <1>5, <1>7
  <2>2. e0.uo \in Contents
    BY <1>1, <1>2
  <2>3. Mempool!Remove(e0.uo)
    BY <2>1 DEF Mempool!Remove
  <2> QED
    BY <2>2, <2>3 DEF Mempool!Next
<1> QED
  BY <1>6, <1>7

\* ClearOrdered empties the mempool.
LEMMA ClearRefines ==
  ASSUME OneCaller, SerialInv, NEW t \in Thread, ClearOrdered(t)
  PROVE  Mempool!Next
<1>1. pc'[t] = "clear_count" /\ ordered' = {}
  BY DEF ClearOrdered, SerialInv, TypeOK, Goto
<1>2. ~Replacing(t)'
  BY <1>1 DEF Replacing
<1>3. Contents' = {e.uo : e \in ordered'}
  BY <1>2, ContentsOfOne
<1> QED
  BY <1>1, <1>3 DEF Mempool!Next, Mempool!Clear

\* Every other step leaves what the pool stands for as it was: the order
\* keeps its entries, and a replacement under way stays one.
LEMMA OthersStutter ==
  ASSUME OneCaller, SerialInv, NEW t \in Thread, ordered' = ordered,
         Replacing(t)' <=> Replacing(t),
         Replacing(t) => entry'[t] = entry[t]
  PROVE  UNCHANGED Contents
BY ContentsOfOne

\* Every step of the pool is a step of the mempool or a stutter.
LEMMA StepRefines ==
  ASSUME OneCaller, NoBumpWraps, SerialInv, [Next]_vars
  PROVE  [Mempool!Next]_Contents
<1>1. CASE UNCHANGED vars
  BY <1>1 DEF vars, Contents, Replacing
<1>2. CASE Next
  <2>1. PICK t \in Thread : Call(t) \/ Continue(t)
    BY <1>2 DEF Next
  <2>2. CASE InsertOrdered(t)
    BY <2>2, InsertRefines
  <2>3. CASE RemoveOrdered(t)
    BY <2>3, RemoveRefines
  <2>4. CASE ClearOrdered(t)
    BY <2>4, ClearRefines
  <2>5. CASE ~(InsertOrdered(t) \/ RemoveOrdered(t) \/ ClearOrdered(t))
    <3> SUFFICES /\ ordered' = ordered
                 /\ Replacing(t)' <=> Replacing(t)
                 /\ Replacing(t) => entry'[t] = entry[t]
      BY OthersStutter
    <3> USE DEF Replacing, indexes, locals, Goto, TypeOK, SerialInv
    <3>1. ASSUME NEW u \in UserOp, Add(t, u)
          PROVE  ordered' = ordered /\ ~Replacing(t) /\ ~Replacing(t)'
      BY <3>1 DEF Add
    <3>2. ASSUME \/ \E h \in Hash : RemoveByHash(t, h)
                 \/ \E i \in Id : RemoveById(t, i)
                 \/ ClearHash(t)
          PROVE  ordered' = ordered /\ ~Replacing(t) /\ ~Replacing(t)'
      BY <3>2 DEF RemoveByHash, RemoveById, ClearHash
    <3>3. ASSUME NoExisting(t) \/ ReplaceExisting(t)
          PROVE  ordered' = ordered /\ ~Replacing(t) /\ ~Replacing(t)'
      BY <3>3 DEF NoExisting, ReplaceExisting, EntryInv
    <3>4. ASSUME \/ ReplacementUnderpriced(t) \/ CountUp(t)
                 \/ RemoveHash(t) \/ RemoveId(t) \/ ClearId(t) \/ ClearCount(t)
          PROVE  ordered' = ordered /\ ~Replacing(t) /\ ~Replacing(t)'
      BY <3>4 DEF ReplacementUnderpriced, CountUp, RemoveHash, RemoveId,
        ClearId, ClearCount, Return
    <3>5. ASSUME SenderLimitReached(t) \/ PoolFull(t)
          PROVE  ordered' = ordered /\ ~Replacing(t) /\ ~Replacing(t)'
      <4>1. entry[t] = None
        BY <3>5, FailedAddHeldNothing
      <4> QED
        BY <3>5, <4>1 DEF SenderLimitReached, PoolFull, Return
    <3>6. ASSUME \/ SenderCheck(t) \/ SizeCheck(t) \/ TakeSequence(t)
                 \/ InsertHash(t) \/ InsertId(t)
          PROVE  /\ ordered' = ordered /\ (Replacing(t)' <=> Replacing(t))
                 /\ entry' = entry
      BY <3>6 DEF SenderCheck, SizeCheck, TakeSequence, InsertHash, InsertId
    <3>7. ASSUME CountDown(t)
          PROVE  /\ ordered' = ordered /\ (Replacing(t)' <=> Replacing(t))
                 /\ Replacing(t) => entry' = entry
      BY <3>7 DEF CountDown, Return
    <3> HIDE DEF Replacing, indexes, locals, Goto, TypeOK, SerialInv
    <3>8. CASE Call(t)
      BY <3>1, <3>2, <3>8 DEF Call
    <3>9. CASE Continue(t)
      BY <2>5, <3>3, <3>4, <3>5, <3>6, <3>7, <3>9 DEF Continue
    <3> QED
      BY <2>1, <3>8, <3>9
  <2> QED
    BY <2>2, <2>3, <2>4, <2>5
<1> QED
  BY <1>1, <1>2

\* add, remove and clear, each spread over up to eleven critical sections,
\* amount to inserting, replacing, removing or clearing in one step: the
\* pool promises what MempoolSpec states.
THEOREM PoolImplementsMempool ==
  ASSUME OneCaller, NoBumpWraps
  PROVE  Spec => ImplementsMempool
<1>1. Init => SerialInv
  BY InitSerialInv
<1>2. SerialInv /\ [Next]_vars => SerialInv'
  BY StepSerialInv
<1>3. Init => Mempool!Init
  BY DEF Init, Mempool!Init, Contents, Replacing
<1>4. SerialInv /\ [Next]_vars => [Mempool!Next]_Contents
  BY StepRefines
<1> QED
  BY <1>1, <1>2, <1>3, <1>4, PTL DEF Spec, ImplementsMempool, Mempool!Spec

\* What a reader of the pool may rely on: the limits and one operation per
\* id, also while a replacement is under way.
ContentsSound ==
  /\ Cardinality(Contents) <= MaxSize
  /\ \A s \in Sender :
       Cardinality({u \in Contents : u.sender = s}) <= MaxOpsPerSender
  /\ \A u, v \in Contents : IdOf(u) = IdOf(v) => u = v

\* However fees are, and whatever a replacement has taken out and not yet put
\* back: with one caller the pool keeps what its configuration promises.
THEOREM ContentsStaySound ==
  ASSUME OneCaller
  PROVE  Spec => []ContentsSound
<1>1. Init => SerialInv
  BY InitSerialInv
<1>2. SerialInv /\ [Next]_vars => SerialInv'
  BY StepSerialInv
<1>3. SerialInv => ContentsSound
  <2> SUFFICES ASSUME SerialInv PROVE ContentsSound
    OBVIOUS
  <2>1. PICK t \in Thread : TRUE
    BY PoolConstants
  <2> DEFINE Held == {e.uo : e \in ordered}
             Of(S, s) == {u \in S : u.sender = s}
  <2>2. Contents = Held \cup (IF Replacing(t) THEN {entry[t].uo} ELSE {})
    BY ContentsOfOne
  <2>3. IsFiniteSet(ordered) /\ IsFiniteSet(Held)
    <3>1. ordered \subseteq Entry /\ IsFiniteSet(UserOp) /\ IsFiniteSet(ordered)
      BY PoolConstants DEF SerialInv, TypeOK, LimitInv
    <3>2. Held \subseteq UserOp
      BY <3>1 DEF Entry
    <3> QED
      BY <3>1, <3>2, FS_Subset
  <2>4. /\ Cardinality(Held) \in Nat
        /\ Cardinality(Held) <= Cardinality(ordered)
        /\ Cardinality(ordered) \in Nat
    BY <2>3, ContentsCount, FS_CardinalityType
  <2>5. ASSUME NEW s
        PROVE  /\ Cardinality(Of(Held, s)) \in Nat
               /\ Cardinality(Of(Held, s)) <= Cardinality(OfSender(ordered, s))
               /\ Cardinality(OfSender(ordered, s)) \in Nat
    <3>1. /\ Cardinality(Of(Held, s)) \in Nat
          /\ Cardinality(Of(Held, s)) <= Cardinality(OfSender(ordered, s))
      BY <2>3, ContentsCount
    <3>2. Cardinality(OfSender(ordered, s)) \in Nat
      BY <2>3, OfSenderCount
    <3> QED
      BY <3>1, <3>2
  <2>6. MaxSize \in Nat /\ MaxOpsPerSender \in Nat
    BY PoolConstants
  <2>7. \A u, v \in Held : IdOf(u) = IdOf(v) => u = v
    BY DEF SerialInv, NewInv, OnePerId
  <2>8. CASE ~Replacing(t)
    <3>1. Contents = Held
      BY <2>2, <2>8
    <3>2. Cardinality(ordered) <= MaxSize
      BY DEF SerialInv, LimitInv
    <3>3. \A s \in Sender : Cardinality(OfSender(ordered, s)) <= MaxOpsPerSender
      BY DEF SerialInv, LimitInv
    <3> HIDE DEF Held
    <3>4. \A s \in Sender : Cardinality(Of(Contents, s)) <= MaxOpsPerSender
      <4> HIDE DEF Of
      <4> QED
        BY <2>5, <2>6, <3>1, <3>3
    <3> QED
      BY <2>4, <2>6, <2>7, <3>1, <3>2, <3>4 DEF ContentsSound
  <2>9. CASE Replacing(t)
    <3> DEFINE old == entry[t].uo
    <3>1. /\ uo[t] # None /\ entry[t] # None /\ entry[t] \in Entry
          /\ pc[t] \in PastLookup \cup {"count_down"} /\ pc[t] # "count_up"
          /\ uo[t] \in UserOp
      BY <2>9 DEF Replacing, PastLookup, PastCheck, InsertLabel, SerialInv, TypeOK
    <3>2. IdOf(old) = IdOf(uo[t]) /\ \A e \in ordered : IdOf(e.uo) # IdOf(uo[t])
      BY <3>1 DEF SerialInv, NewInv
    <3>3. old.sender = uo[t].sender
      BY <3>2 DEF IdOf
    <3>4. Room(uo[t])
      BY <3>1 DEF SerialInv, LimitInv
    <3>5. Contents = Held \cup {old}
      BY <2>2, <2>9
    <3>6. \A u \in Held : IdOf(u) # IdOf(old)
      BY <3>2
    <3> HIDE DEF Held, old
    <3>7. Cardinality(Contents) <= MaxSize
      <4>1. \/ Cardinality(Held \cup {old}) = Cardinality(Held)
            \/ Cardinality(Held \cup {old}) = Cardinality(Held) + 1
        BY <2>3, FS_AddElement
      <4> QED
        BY <2>4, <2>6, <3>4, <3>5, <4>1 DEF Room
    <3>8. ASSUME NEW s \in Sender
          PROVE  Cardinality(Of(Contents, s)) <= MaxOpsPerSender
      <4>1. CASE s = old.sender
        <5>1. Of(Contents, s) = Of(Held, s) \cup {old}
          BY <3>5, <4>1
        <5>2. IsFiniteSet(Of(Held, s))
          BY <2>3, FS_Subset
        <5> HIDE DEF Of
        <5>3. \/ Cardinality(Of(Held, s) \cup {old}) = Cardinality(Of(Held, s))
              \/ Cardinality(Of(Held, s) \cup {old}) = Cardinality(Of(Held, s)) + 1
          BY <5>2, FS_AddElement
        <5>4. Cardinality(OfSender(ordered, s)) < MaxOpsPerSender
          BY <3>3, <3>4, <4>1 DEF Room
        <5> QED
          BY <2>5, <2>6, <5>1, <5>3, <5>4
      <4>2. CASE s # old.sender
        <5>1. Of(Contents, s) = Of(Held, s)
          BY <3>5, <4>2
        <5>2. Cardinality(OfSender(ordered, s)) <= MaxOpsPerSender
          BY DEF SerialInv, LimitInv
        <5> HIDE DEF Of
        <5> QED
          BY <2>5, <2>6, <5>1, <5>2
      <4> QED
        BY <4>1, <4>2
    <3>9. \A u, v \in Contents : IdOf(u) = IdOf(v) => u = v
      BY <2>7, <3>5, <3>6
    <3> QED
      BY <3>7, <3>8, <3>9 DEF ContentsSound
  <2> QED
    BY <2>8, <2>9
<1> QED
  BY <1>1, <1>2, <1>3, PTL DEF Spec

-----------------------------------------------------------------------------
(***************************************************************************)
(* Calls that overlap, each about an operation of its own.                 *)
(*                                                                         *)
(* No lock of pool.rs is held from one critical section to the next, so    *)
(* nothing but the data keeps overlapping calls apart.  It is enough that  *)
(* they are about different (sender, nonce): each index then differs from  *)
(* the order by the entries the calls under way are working on, every one  *)
(* of them at a key of its own.                                            *)
(***************************************************************************)

\* The id a call is about: that of the operation it adds, and else of the
\* entry it removes.
IdAt(t) == IF uo[t] # None THEN IdOf(uo[t]) ELSE IdOf(entry[t].uo)

\* Calls that overlap are about different ids, and no call overlaps a clear.
Apart ==
  \A s, t \in Thread : s # t /\ pc[s] # "idle" /\ pc[t] # "idle" =>
    /\ pc[s] \notin ClearLabel /\ pc[t] \notin ClearLabel
    /\ IdAt(s) # IdAt(t)

\* The hash of an operation covers its sender and its nonce.
HashCoversId == \A u, v \in UserOp : u.hash = v.hash => IdOf(u) = IdOf(v)

At(L) == {t \in Thread : pc[t] \in L}

\* The entries by_hash, by_id and sender_count describe.
HashHeld ==
  (ordered \ {entry[t] : t \in At({"remove_id", "remove_ordered"})})
    \cup {fresh[t] : t \in At({"insert_id", "insert_ordered"})}
IdHeld ==
  (ordered \ {entry[t] : t \in At({"remove_ordered"})})
    \cup {fresh[t] : t \in At({"insert_ordered"})}
CountHeld ==
  (ordered \cup {entry[t] : t \in At({"count_down"})})
    \ {fresh[t] : t \in At({"count_up"})}

\* They describe them unless a clear is half way through.
HeldInv ==
  /\ ByHashIs(IF At({"clear_id", "clear_ordered"}) = {} THEN HashHeld ELSE {})
  /\ ByIdIs(IF At({"clear_ordered"}) = {} THEN IdHeld ELSE {})
  /\ At(ClearLabel) = {} => CountIs(CountHeld)

\* The inductive invariant of the pool whose calls are apart.
ApartInv == TypeOK /\ IsFiniteSet(ordered) /\ HeldInv /\ EntryInv /\ NewInv

\* The calls of the other threads are about other ids than i.
OthersOff(t, i) ==
  \A s \in Thread \ {t} :
    /\ pc[s] \notin ClearLabel
    /\ pc[s] \in RemoveLabel => entry[s] \in Entry /\ IdOf(entry[s].uo) # i
    /\ pc[s] \in InsertLabel \cup {"count_up"} =>
         fresh[s] \in Entry /\ fresh[s].uo = uo[s] /\ uo[s] # None
    /\ uo[s] # None => uo[s] \in UserOp /\ IdOf(uo[s]) # i

-----------------------------------------------------------------------------

\* The empty pool satisfies the invariant.
LEMMA InitApartInv == Init => ApartInv
<1> SUFFICES ASSUME Init PROVE ApartInv
  OBVIOUS
<1>1. TypeOK /\ EntryInv /\ NewInv
  BY InitSerialInv DEF SerialInv
<1>2. \A L : "idle" \notin L => At(L) = {}
  BY DEF At, Init
<1>3. HashHeld = {} /\ IdHeld = {} /\ CountHeld = {}
  BY <1>2 DEF HashHeld, IdHeld, CountHeld, Init
<1>4. \A s : OfSender({}, s) = {}
  BY DEF OfSender
<1>5. CountIs({})
  BY <1>4, FS_EmptySet DEF CountIs, Init
<1>6. ByHashIs({}) /\ ByIdIs({})
  BY DEF ByHashIs, ByIdIs, Init
<1>7. HeldInv
  BY <1>3, <1>5, <1>6 DEF HeldInv
<1>8. IsFiniteSet(ordered)
  BY FS_EmptySet DEF Init
<1> QED
  BY <1>1, <1>7, <1>8 DEF ApartInv

\* What the locals of a call are about is the id of the call.
LEMMA WorkIds ==
  ASSUME ApartInv, NEW t \in Thread
  PROVE  /\ pc[t] \in RemoveLabel =>
              entry[t] \in Entry /\ IdOf(entry[t].uo) = IdAt(t)
         /\ pc[t] \in InsertLabel \cup {"count_up"} =>
              /\ fresh[t] \in Entry /\ fresh[t].uo = uo[t]
              /\ uo[t] # None
         /\ uo[t] # None =>
              /\ uo[t] \in UserOp /\ IdOf(uo[t]) = IdAt(t)
              /\ pc[t] \notin {"idle"} \cup ClearLabel
<1> USE DEF ApartInv, TypeOK, Label, AddLabel, RemoveLabel, ClearLabel, InsertLabel
<1>1. ASSUME pc[t] \in RemoveLabel
      PROVE  entry[t] \in Entry /\ IdOf(entry[t].uo) = IdAt(t)
  BY <1>1 DEF NewInv, IdAt
<1>2. ASSUME pc[t] \in InsertLabel \cup {"count_up"}
      PROVE  fresh[t] \in Entry /\ fresh[t].uo = uo[t] /\ uo[t] # None
  BY <1>2 DEF EntryInv
<1>3. ASSUME uo[t] # None
      PROVE  /\ uo[t] \in UserOp /\ IdOf(uo[t]) = IdAt(t)
             /\ pc[t] \notin {"idle"} \cup ClearLabel
  BY <1>3 DEF EntryInv, IdAt
<1> QED
  BY <1>1, <1>2, <1>3

\* A call under way shares its id with no other.
LEMMA ContinueOff ==
  ASSUME ApartInv, Apart, NEW t \in Thread, pc[t] \notin {"idle"} \cup ClearLabel
  PROVE  OthersOff(t, IdAt(t))
<1> SUFFICES ASSUME NEW s \in Thread \ {t}
             PROVE  /\ pc[s] \notin ClearLabel
                    /\ pc[s] \in RemoveLabel =>
                         entry[s] \in Entry /\ IdOf(entry[s].uo) # IdAt(t)
                    /\ pc[s] \in InsertLabel \cup {"count_up"} =>
                         fresh[s] \in Entry /\ fresh[s].uo = uo[s] /\ uo[s] # None
                    /\ uo[s] # None => uo[s] \in UserOp /\ IdOf(uo[s]) # IdAt(t)
  BY DEF OthersOff
<1>1. pc[s] # "idle" => pc[s] \notin ClearLabel /\ IdAt(s) # IdAt(t)
  BY DEF Apart
<1>2. "idle" \notin ClearLabel /\ "idle" \notin RemoveLabel
  BY DEF ClearLabel, RemoveLabel
<1> QED
  BY <1>1, <1>2, WorkIds

\* Neither does a call that begins.
LEMMA StartOff ==
  ASSUME ApartInv, Apart', NEW t \in Thread, pc'[t] \notin {"idle"} \cup ClearLabel,
         \A s \in Thread \ {t} :
           pc'[s] = pc[s] /\ uo'[s] = uo[s] /\ entry'[s] = entry[s]
  PROVE  OthersOff(t, IdAt(t)')
<1> SUFFICES ASSUME NEW s \in Thread \ {t}
             PROVE  /\ pc[s] \notin ClearLabel
                    /\ pc[s] \in RemoveLabel =>
                         entry[s] \in Entry /\ IdOf(entry[s].uo) # IdAt(t)'
                    /\ pc[s] \in InsertLabel \cup {"count_up"} =>
                         fresh[s] \in Entry /\ fresh[s].uo = uo[s] /\ uo[s] # None
                    /\ uo[s] # None => uo[s] \in UserOp /\ IdOf(uo[s]) # IdAt(t)'
  BY DEF OthersOff
<1>1. IdAt(s)' = IdAt(s)
  BY DEF IdAt
<1>2. pc[s] # "idle" => pc[s] \notin ClearLabel /\ IdAt(s) # IdAt(t)'
  BY <1>1 DEF Apart
<1>3. "idle" \notin ClearLabel /\ "idle" \notin RemoveLabel
  BY DEF ClearLabel, RemoveLabel
<1> QED
  BY <1>2, <1>3, WorkIds

\* What the indexes hold are entries.
LEMMA HeldAreEntries ==
  ASSUME ApartInv
  PROVE  HashHeld \subseteq Entry /\ IdHeld \subseteq Entry /\ CountHeld \subseteq Entry
<1>1. \A t \in Thread : pc[t] \in InsertLabel => fresh[t] \in Entry
  BY WorkIds
<1>2. \A t \in Thread : pc[t] = "count_down" => entry[t] \in Entry
  BY WorkIds DEF RemoveLabel
<1>3. ordered \subseteq Entry
  BY DEF ApartInv, TypeOK
<1> QED
  BY <1>1, <1>2, <1>3 DEF HashHeld, IdHeld, CountHeld, At, InsertLabel

\* Of the id of a call, the indexes hold what that call alone says.
LEMMA HeldOf ==
  ASSUME NEW t \in Thread, NEW i, OthersOff(t, i), NEW e, IdOf(e.uo) = i
  PROVE  /\ e \in HashHeld <=>
              \/ /\ e \in ordered
                 /\ pc[t] \in {"remove_id", "remove_ordered"} => e # entry[t]
              \/ pc[t] \in {"insert_id", "insert_ordered"} /\ e = fresh[t]
         /\ e \in IdHeld <=>
              \/ e \in ordered /\ (pc[t] = "remove_ordered" => e # entry[t])
              \/ pc[t] = "insert_ordered" /\ e = fresh[t]
         /\ e \in CountHeld <=>
              /\ e \in ordered \/ (pc[t] = "count_down" /\ e = entry[t])
              /\ ~(pc[t] = "count_up" /\ e = fresh[t])
<1>1. ASSUME NEW s \in Thread, s # t
      PROVE  /\ pc[s] \in RemoveLabel => e # entry[s]
             /\ pc[s] \in InsertLabel \cup {"count_up"} => e # fresh[s]
  <2>1. s \in Thread \ {t}
    BY <1>1
  <2>2. /\ pc[s] \in RemoveLabel => IdOf(entry[s].uo) # i
        /\ pc[s] \in InsertLabel \cup {"count_up"} => IdOf(fresh[s].uo) # i
    BY <2>1 DEF OthersOff
  <2> QED
    BY <2>2
<1>2. /\ {"remove_id", "remove_ordered", "count_down"} \subseteq RemoveLabel
      /\ {"insert_id", "insert_ordered"} \subseteq InsertLabel
  BY DEF RemoveLabel, InsertLabel
<1>3. e \in HashHeld <=>
              \/ /\ e \in ordered
                 /\ pc[t] \in {"remove_id", "remove_ordered"} => e # entry[t]
              \/ pc[t] \in {"insert_id", "insert_ordered"} /\ e = fresh[t]
  BY <1>1, <1>2 DEF HashHeld, At
<1>4. e \in IdHeld <=>
              \/ e \in ordered /\ (pc[t] = "remove_ordered" => e # entry[t])
              \/ pc[t] = "insert_ordered" /\ e = fresh[t]
  BY <1>1, <1>2 DEF IdHeld, At
<1>5. e \in CountHeld <=>
              /\ e \in ordered \/ (pc[t] = "count_down" /\ e = entry[t])
              /\ ~(pc[t] = "count_up" /\ e = fresh[t])
  BY <1>1, <1>2 DEF CountHeld, At
<1> QED
  BY <1>3, <1>4, <1>5

-----------------------------------------------------------------------------

BusyLabel == {"remove_id", "remove_ordered", "count_down", "insert_id",
              "insert_ordered", "count_up"} \cup ClearLabel

\* A step that writes no index, and is neither from nor to a label at which
\* an index is behind the order, leaves what the indexes hold as it was.
LEMMA HeldKept ==
  ASSUME ApartInv,
         by_hash' = by_hash, by_id' = by_id, ordered' = ordered,
         sender_count' = sender_count,
         \A s \in Thread :
           pc[s] \in BusyLabel \/ pc'[s] \in BusyLabel =>
             pc'[s] = pc[s] /\ entry'[s] = entry[s] /\ fresh'[s] = fresh[s]
  PROVE  HeldInv'
<1>1. \A L : L \subseteq BusyLabel =>
        /\ At(L)' = At(L)
        /\ \A s \in At(L) : entry'[s] = entry[s] /\ fresh'[s] = fresh[s]
  BY DEF At
<1>2. /\ {"remove_id", "remove_ordered"} \subseteq BusyLabel
      /\ {"insert_id", "insert_ordered"} \subseteq BusyLabel
      /\ {"remove_ordered"} \subseteq BusyLabel /\ {"insert_ordered"} \subseteq BusyLabel
      /\ {"count_down"} \subseteq BusyLabel /\ {"count_up"} \subseteq BusyLabel
      /\ {"clear_id", "clear_ordered"} \subseteq BusyLabel
      /\ {"clear_ordered"} \subseteq BusyLabel /\ ClearLabel \subseteq BusyLabel
  BY DEF BusyLabel, ClearLabel
<1> HIDE DEF BusyLabel, At
<1>3. HashHeld' = HashHeld
  BY <1>1, <1>2 DEF HashHeld
<1>4. IdHeld' = IdHeld
  BY <1>1, <1>2 DEF IdHeld
<1>5. CountHeld' = CountHeld
  BY <1>1, <1>2 DEF CountHeld
<1>6. /\ At({"clear_id", "clear_ordered"})' = At({"clear_id", "clear_ordered"})
      /\ At({"clear_ordered"})' = At({"clear_ordered"})
      /\ At(ClearLabel)' = At(ClearLabel)
  BY <1>1, <1>2
<1> QED
  BY <1>3, <1>4, <1>5, <1>6 DEF ApartInv, HeldInv, ByHashIs, ByIdIs, CountIs

\* Without a clear the indexes hold what they should.
LEMMA HeldNow ==
  ASSUME HeldInv, NEW t \in Thread, NEW i, OthersOff(t, i), pc[t] \notin ClearLabel
  PROVE  ByHashIs(HashHeld) /\ ByIdIs(IdHeld) /\ CountIs(CountHeld)
<1>1. \A s \in Thread : pc[s] \notin ClearLabel
  BY DEF OthersOff
<1>2. At({"clear_id", "clear_ordered"}) = {} /\ At({"clear_ordered"}) = {}
      /\ At(ClearLabel) = {}
  BY <1>1 DEF At, ClearLabel
<1> QED
  BY <1>2 DEF HeldInv

\* And it is enough that they do.
LEMMA HeldThen ==
  ASSUME NEW t \in Thread, NEW i, OthersOff(t, i), pc'[t] \notin ClearLabel,
         \A s \in Thread \ {t} : pc'[s] = pc[s],
         ByHashIs(HashHeld)', ByIdIs(IdHeld)', CountIs(CountHeld)'
  PROVE  HeldInv'
<1>1. \A s \in Thread : pc'[s] \notin ClearLabel
  BY DEF OthersOff
<1>2. /\ At({"clear_id", "clear_ordered"})' = {} /\ At({"clear_ordered"})' = {}
      /\ At(ClearLabel)' = {}
  BY <1>1 DEF At, ClearLabel
<1> QED
  BY <1>2 DEF HeldInv

\* What the calls under way work on is finite, and so is what is counted.
LEMMA CountHeldFinite == ASSUME ApartInv PROVE IsFiniteSet(CountHeld)
<1>1. IsFiniteSet(At({"count_down"}))
  BY PoolConstants, FS_Subset DEF At
<1>2. IsFiniteSet({entry[t] : t \in At({"count_down"})})
  <2> DEFINE T == At({"count_down"})
             f == [t \in T |-> entry[t]]
  <2>1. f \in Surjection(T, {entry[t] : t \in T})
    BY DEF Surjection
  <2> QED
    BY <1>1, <2>1, FS_Surjection
<1>3. IsFiniteSet(ordered \cup {entry[t] : t \in At({"count_down"})})
  BY <1>2, FS_Union DEF ApartInv
<1> QED
  BY <1>3, FS_Subset DEF CountHeld

\* A step of one call leaves the locals of the others alone.
LEMMA OthersKeep ==
  ASSUME TypeOK, NEW t \in Thread, Call(t) \/ Continue(t)
  PROVE  \A s \in Thread \ {t} : /\ pc'[s] = pc[s] /\ uo'[s] = uo[s]
                                 /\ entry'[s] = entry[s] /\ fresh'[s] = fresh[s]
<1> SUFFICES ASSUME NEW s \in Thread \ {t}
             PROVE  /\ pc'[s] = pc[s] /\ uo'[s] = uo[s]
                    /\ entry'[s] = entry[s] /\ fresh'[s] = fresh[s]
  OBVIOUS
<1> DEFINE Keep == /\ pc'[s] = pc[s] /\ uo'[s] = uo[s]
                   /\ entry'[s] = entry[s] /\ fresh'[s] = fresh[s]
<1>1. /\ pc \in [Thread -> Label] /\ uo \in [Thread -> UserOp \cup {None}]
      /\ entry \in [Thread -> Entry \cup {None}]
      /\ fresh \in [Thread -> Entry \cup {None}]
  BY DEF TypeOK
<1> USE <1>1 DEF locals, Goto, Return
<1>2. ASSUME Call(t) PROVE Keep
  BY <1>2 DEF Call, Add, RemoveByHash, RemoveById, ClearHash
<1>3. ASSUME NoExisting(t) \/ ReplaceExisting(t) \/ ReplacementUnderpriced(t)
      PROVE  Keep
  BY <1>3 DEF NoExisting, ReplaceExisting, ReplacementUnderpriced
<1>4. ASSUME SenderLimitReached(t) \/ SenderCheck(t) \/ PoolFull(t) \/ SizeCheck(t)
      PROVE  Keep
  BY <1>4 DEF SenderLimitReached, SenderCheck, PoolFull, SizeCheck
<1>5. ASSUME \/ TakeSequence(t) \/ InsertHash(t) \/ InsertId(t)
             \/ InsertOrdered(t) \/ CountUp(t)
      PROVE  Keep
  BY <1>5 DEF TakeSequence, InsertHash, InsertId, InsertOrdered, CountUp
<1>6. ASSUME RemoveHash(t) \/ RemoveId(t) \/ RemoveOrdered(t) \/ CountDown(t)
      PROVE  Keep
  BY <1>6 DEF RemoveHash, RemoveId, RemoveOrdered, CountDown
<1>7. ASSUME ClearId(t) \/ ClearOrdered(t) \/ ClearCount(t) PROVE Keep
  BY <1>7 DEF ClearId, ClearOrdered, ClearCount
<1> HIDE DEF Keep
<1>8. Keep
  BY <1>2, <1>3, <1>4, <1>5, <1>6, <1>7 DEF Continue
<1> QED
  BY <1>8 DEF Keep

\* A call puts its entry into one index after the other, and each of them
\* holds it from then on.
LEMMA InsertKeepsHeld ==
  ASSUME HashCoversId, ApartInv, NEW t \in Thread, OthersOff(t, IdAt(t)),
         InsertHash(t) \/ InsertId(t) \/ InsertOrdered(t) \/ CountUp(t)
  PROVE  HeldInv'
<1> DEFINE e == fresh[t]
<1>1. /\ pc[t] \in InsertLabel \cup {"count_up"} /\ pc[t] \notin ClearLabel
      /\ pc'[t] \notin ClearLabel
  BY DEF InsertHash, InsertId, InsertOrdered, CountUp, Return, Goto, InsertLabel,
    ClearLabel, ApartInv, TypeOK
<1>2. /\ e \in Entry /\ e.uo = uo[t] /\ IdOf(e.uo) = IdAt(t)
      /\ e # None /\ e.uo \in UserOp /\ e.uo.hash \in Hash /\ IdOf(e.uo) \in Id
      /\ e.uo.sender \in Sender
  BY <1>1, WorkIds, EntryFields
<1>3. \A s \in Thread \ {t} : /\ pc'[s] = pc[s] /\ entry'[s] = entry[s]
                              /\ fresh'[s] = fresh[s]
  <2>1. Continue(t) /\ TypeOK
    BY DEF Continue, ApartInv
  <2> QED
    BY <2>1, OthersKeep
<1>4. ByHashIs(HashHeld) /\ ByIdIs(IdHeld) /\ CountIs(CountHeld)
  BY <1>1, HeldNow DEF ApartInv
<1>5. HashHeld \subseteq Entry /\ IdHeld \subseteq Entry /\ CountHeld \subseteq Entry
  BY HeldAreEntries
<1>6. \A f \in Entry : IdOf(f.uo) # IdOf(e.uo) => f.uo.hash # e.uo.hash
  BY <1>2, EntryFields DEF HashCoversId
<1>7. ASSUME pc[t] \in InsertLabel
      PROVE  \A f \in ordered : IdOf(f.uo) # IdOf(e.uo) /\ f.uo.hash # e.uo.hash
  <2>1. uo[t] # None /\ pc[t] # "count_up" /\ pc[t] \in PastLookup
    BY <1>2, <1>7, PoolConstants DEF InsertLabel, PastLookup, PastCheck
  <2> QED
    BY <1>2, <2>1 DEF ApartInv, NewInv
<1>8. \A f : IdOf(f.uo) = IdOf(e.uo) =>
        /\ f \in HashHeld <=>
             \/ f \in ordered /\ (pc[t] \in {"remove_id", "remove_ordered"} => f # entry[t])
             \/ pc[t] \in {"insert_id", "insert_ordered"} /\ f = fresh[t]
        /\ f \in IdHeld <=>
             \/ f \in ordered /\ (pc[t] = "remove_ordered" => f # entry[t])
             \/ pc[t] = "insert_ordered" /\ f = fresh[t]
        /\ f \in CountHeld <=>
             /\ f \in ordered \/ (pc[t] = "count_down" /\ f = entry[t])
             /\ ~(pc[t] = "count_up" /\ f = fresh[t])
  BY <1>2, HeldOf
<1>a. pc \in [Thread -> Label]
  BY DEF ApartInv, TypeOK
<1>9. ASSUME InsertHash(t) PROVE HeldInv'
  <2>1. /\ pc[t] = "insert_hash" /\ pc'[t] = "insert_id"
        /\ by_hash' = [by_hash EXCEPT ![e.uo.hash] = e]
        /\ by_id' = by_id /\ ordered' = ordered /\ sender_count' = sender_count
        /\ entry' = entry /\ fresh' = fresh
    BY <1>2, <1>9, <1>a DEF InsertHash, Goto, locals
  <2>2. /\ At({"insert_id", "insert_ordered"})' = At({"insert_id", "insert_ordered"}) \cup {t}
        /\ At({"remove_id", "remove_ordered"})' = At({"remove_id", "remove_ordered"})
        /\ At({"insert_ordered"})' = At({"insert_ordered"})
        /\ At({"remove_ordered"})' = At({"remove_ordered"})
        /\ At({"count_down"})' = At({"count_down"}) /\ At({"count_up"})' = At({"count_up"})
    BY <1>3, <2>1 DEF At
  <2>3. IdHeld' = IdHeld /\ CountHeld' = CountHeld
    BY <2>1, <2>2 DEF IdHeld, CountHeld
  <2>4. HashHeld' = HashHeld \cup {e}
    BY <2>1, <2>2 DEF HashHeld
  <2>5. \A f \in HashHeld : f.uo.hash # e.uo.hash
    <3> SUFFICES ASSUME NEW f \in HashHeld, f.uo.hash = e.uo.hash PROVE FALSE
      OBVIOUS
    <3>1. IdOf(f.uo) = IdOf(e.uo)
      BY <1>5, <1>6
    <3>2. f \in ordered
      BY <1>8, <2>1, <3>1
    <3> QED
      BY <1>7, <2>1, <3>2 DEF InsertLabel
  <2>6. by_hash \in [Hash -> Entry \cup {None}]
    BY DEF ApartInv, TypeOK
  <2> HIDE DEF e
  <2>7. ByHashIs(HashHeld)'
    <3>1. \A f \in HashHeld \cup {e} : by_hash'[f.uo.hash] = f
      BY <1>2, <1>4, <1>5, <2>1, <2>5, <2>6, EntryFields DEF ByHashIs
    <3>2. \A h \in Hash : by_hash'[h] # None =>
            by_hash'[h] \in HashHeld \cup {e} /\ by_hash'[h].uo.hash = h
      BY <1>2, <1>4, <2>1, <2>6 DEF ByHashIs
    <3> QED
      BY <2>4, <3>1, <3>2 DEF ByHashIs
  <2>8. ByIdIs(IdHeld)' /\ CountIs(CountHeld)'
    BY <1>4, <2>1, <2>3 DEF ByIdIs, CountIs
  <2> QED
    BY <1>1, <1>3, <2>7, <2>8, HeldThen
<1>10. ASSUME InsertId(t) PROVE HeldInv'
  <2>1. /\ pc[t] = "insert_id" /\ pc'[t] = "insert_ordered"
        /\ by_id' = [by_id EXCEPT ![IdOf(e.uo)] = e]
        /\ by_hash' = by_hash /\ ordered' = ordered /\ sender_count' = sender_count
        /\ entry' = entry /\ fresh' = fresh
    BY <1>2, <1>10, <1>a DEF InsertId, Goto, locals
  <2>2. /\ At({"insert_id", "insert_ordered"})' = At({"insert_id", "insert_ordered"})
        /\ At({"remove_id", "remove_ordered"})' = At({"remove_id", "remove_ordered"})
        /\ At({"insert_ordered"})' = At({"insert_ordered"}) \cup {t}
        /\ At({"remove_ordered"})' = At({"remove_ordered"})
        /\ At({"count_down"})' = At({"count_down"}) /\ At({"count_up"})' = At({"count_up"})
    BY <1>3, <2>1 DEF At
  <2>3. HashHeld' = HashHeld /\ CountHeld' = CountHeld
    BY <2>1, <2>2 DEF HashHeld, CountHeld
  <2>4. IdHeld' = IdHeld \cup {e}
    BY <2>1, <2>2 DEF IdHeld
  <2>5. \A f \in IdHeld : IdOf(f.uo) # IdOf(e.uo)
    BY <1>7, <1>8, <2>1 DEF InsertLabel
  <2>6. by_id \in [Id -> Entry \cup {None}]
    BY DEF ApartInv, TypeOK
  <2> HIDE DEF e
  <2>7. ByIdIs(IdHeld)'
    <3>1. \A f \in IdHeld \cup {e} : by_id'[IdOf(f.uo)] = f
      BY <1>2, <1>4, <1>5, <2>1, <2>5, <2>6, EntryFields DEF ByIdIs
    <3>2. \A j \in Id : by_id'[j] # None =>
            by_id'[j] \in IdHeld \cup {e} /\ IdOf(by_id'[j].uo) = j
      BY <1>2, <1>4, <2>1, <2>6 DEF ByIdIs
    <3> QED
      BY <2>4, <3>1, <3>2 DEF ByIdIs
  <2>8. ByHashIs(HashHeld)' /\ CountIs(CountHeld)'
    BY <1>4, <2>1, <2>3 DEF ByHashIs, CountIs
  <2> QED
    BY <1>1, <1>3, <2>7, <2>8, HeldThen
<1>11. ASSUME InsertOrdered(t) PROVE HeldInv'
  <2>1. /\ pc[t] = "insert_ordered" /\ pc'[t] = "count_up"
        /\ ordered' = ordered \cup {e}
        /\ by_hash' = by_hash /\ by_id' = by_id /\ sender_count' = sender_count
        /\ entry' = entry /\ fresh' = fresh
    BY <1>11, <1>a DEF InsertOrdered, Goto, locals
  <2>2. /\ At({"insert_id", "insert_ordered"}) = At({"insert_id", "insert_ordered"})' \cup {t}
        /\ At({"remove_id", "remove_ordered"})' = At({"remove_id", "remove_ordered"})
        /\ At({"insert_ordered"}) = At({"insert_ordered"})' \cup {t}
        /\ At({"remove_ordered"})' = At({"remove_ordered"})
        /\ At({"count_down"})' = At({"count_down"})
        /\ At({"count_up"})' = At({"count_up"}) \cup {t}
    BY <1>3, <2>1 DEF At
  <2>3. e \in HashHeld /\ e \in IdHeld /\ e \notin CountHeld
    BY <1>7, <1>8, <2>1 DEF InsertLabel
  <2>4. \A s \in At({"remove_id", "remove_ordered"}) : entry[s] # e
    BY <1>2, <2>1 DEF OthersOff, At, RemoveLabel
  <2>5. HashHeld' = HashHeld
    BY <2>1, <2>2, <2>4 DEF HashHeld
  <2>6. IdHeld' = IdHeld
    <3>1. \A s \in At({"remove_ordered"}) : entry[s] # e
      BY <2>4 DEF At
    <3> QED
      BY <2>1, <2>2, <3>1 DEF IdHeld
  <2>7. CountHeld' = CountHeld
    BY <2>1, <2>2, <2>3 DEF CountHeld
  <2>8. ByHashIs(HashHeld)' /\ ByIdIs(IdHeld)' /\ CountIs(CountHeld)'
    BY <1>4, <2>1, <2>5, <2>6, <2>7 DEF ByHashIs, ByIdIs, CountIs
  <2> QED
    BY <1>1, <1>3, <2>8, HeldThen
<1>12. ASSUME CountUp(t) PROVE HeldInv'
  <2>1. /\ pc[t] = "count_up" /\ pc'[t] = "idle"
        /\ sender_count' = [sender_count EXCEPT ![e.uo.sender] = @ + 1]
        /\ by_hash' = by_hash /\ by_id' = by_id /\ ordered' = ordered
    BY <1>2, <1>12, <1>a DEF CountUp, Return, Goto
  <2>2. /\ At({"insert_id", "insert_ordered"})' = At({"insert_id", "insert_ordered"})
        /\ At({"remove_id", "remove_ordered"})' = At({"remove_id", "remove_ordered"})
        /\ At({"insert_ordered"})' = At({"insert_ordered"})
        /\ At({"remove_ordered"})' = At({"remove_ordered"})
        /\ At({"count_down"})' = At({"count_down"})
        /\ At({"count_up"}) = At({"count_up"})' \cup {t} /\ t \notin At({"count_up"})'
        /\ t \notin At({"insert_id", "insert_ordered"})
        /\ t \notin At({"remove_id", "remove_ordered"})
        /\ t \notin At({"count_down"})
    BY <1>3, <2>1 DEF At
  <2>a. \A L : \A s \in At(L) \ {t} : entry'[s] = entry[s] /\ fresh'[s] = fresh[s]
    BY <1>3 DEF At
  <2>3. HashHeld' = HashHeld
    BY <2>1, <2>2, <2>a DEF HashHeld
  <2>4. IdHeld' = IdHeld
    <3>1. t \notin At({"insert_ordered"}) /\ t \notin At({"remove_ordered"})
      BY <2>1 DEF At
    <3> QED
      BY <2>1, <2>2, <2>a, <3>1 DEF IdHeld
  <2>5. e \notin CountHeld /\ e \in ordered
    BY <1>8, <2>1 DEF ApartInv, EntryInv
  <2>6. CountHeld' = CountHeld \cup {e}
    <3>1. \A s \in At({"count_up"})' : fresh'[s] # e /\ fresh'[s] = fresh[s]
      <4> SUFFICES ASSUME NEW s \in Thread \ {t}, pc[s] = "count_up"
                   PROVE  fresh[s] # e
        BY <1>3, <2>2 DEF At
      <4> QED
        BY <1>2 DEF OthersOff
    <3>2. \A s \in At({"count_down"}) : entry'[s] = entry[s]
      BY <2>2, <2>a
    <3> QED
      BY <2>1, <2>2, <2>5, <3>1, <3>2 DEF CountHeld
  <2>7. CountIs(CountHeld)'
    <3> SUFFICES ASSUME NEW s \in Sender
                 PROVE  sender_count'[s] = Cardinality(OfSender(CountHeld \cup {e}, s))
      BY <2>6 DEF CountIs
    <3>1. sender_count[s] = Cardinality(OfSender(CountHeld, s))
      BY <1>4 DEF CountIs
    <3>2. IsFiniteSet(CountHeld)
      BY CountHeldFinite
    <3>3. sender_count \in [Sender -> Nat]
      BY DEF ApartInv, TypeOK
    <3> HIDE DEF e
    <3>4. Cardinality(OfSender(CountHeld \cup {e}, s)) =
            IF e.uo.sender = s THEN Cardinality(OfSender(CountHeld, s)) + 1
                               ELSE Cardinality(OfSender(CountHeld, s))
      BY <2>5, <3>2, OfSenderCount
    <3> QED
      BY <1>2, <2>1, <3>1, <3>3, <3>4
  <2>8. ByHashIs(HashHeld)' /\ ByIdIs(IdHeld)'
    BY <1>4, <2>1, <2>3, <2>4 DEF ByHashIs, ByIdIs
  <2> QED
    BY <1>1, <1>3, <2>7, <2>8, HeldThen
<1> QED
  BY <1>9, <1>10, <1>11, <1>12

\* A call takes its entry out of one index after the other.
LEMMA RemoveKeepsHeld ==
  ASSUME ApartInv, NEW t \in Thread, OthersOff(t, IdAt(t)),
         RemoveHash(t) \/ RemoveId(t) \/ RemoveOrdered(t) \/ CountDown(t)
  PROVE  HeldInv'
<1> DEFINE e == entry[t]
<1>1. /\ pc[t] \in RemoveLabel /\ pc[t] \notin ClearLabel
      /\ pc'[t] \notin ClearLabel
  BY DEF RemoveHash, RemoveId, RemoveOrdered, CountDown, Return, Goto,
    RemoveLabel, ClearLabel, ApartInv, TypeOK
<1>2. /\ e \in Entry /\ IdOf(e.uo) = IdAt(t)
      /\ e # None /\ e.uo \in UserOp /\ e.uo.hash \in Hash /\ IdOf(e.uo) \in Id
      /\ e.uo.sender \in Sender
  BY <1>1, WorkIds, EntryFields
<1>3. \A s \in Thread \ {t} : /\ pc'[s] = pc[s] /\ entry'[s] = entry[s]
                              /\ fresh'[s] = fresh[s]
  <2>1. Continue(t) /\ TypeOK
    BY DEF Continue, ApartInv
  <2> QED
    BY <2>1, OthersKeep
<1>4. ByHashIs(HashHeld) /\ ByIdIs(IdHeld) /\ CountIs(CountHeld)
  BY <1>1, HeldNow DEF ApartInv
<1>5. HashHeld \subseteq Entry /\ IdHeld \subseteq Entry /\ CountHeld \subseteq Entry
  BY HeldAreEntries
<1>6. /\ e \in HashHeld <=>
           \/ e \in ordered /\ pc[t] \notin {"remove_id", "remove_ordered"}
           \/ pc[t] \in {"insert_id", "insert_ordered"} /\ e = fresh[t]
      /\ e \in IdHeld <=>
           \/ e \in ordered /\ pc[t] # "remove_ordered"
           \/ pc[t] = "insert_ordered" /\ e = fresh[t]
      /\ e \in CountHeld <=>
           /\ e \in ordered \/ pc[t] = "count_down"
           /\ ~(pc[t] = "count_up" /\ e = fresh[t])
  BY <1>2, HeldOf
<1>7. \A s \in Thread \ {t} :
        /\ pc[s] \in RemoveLabel => entry[s] # e
        /\ pc[s] \in InsertLabel \cup {"count_up"} => fresh[s] # e
  BY <1>2 DEF OthersOff
<1>8. pc[t] # "count_down" => e \in ordered
  BY <1>1 DEF ApartInv, EntryInv, RemoveLabel
<1>a. pc \in [Thread -> Label]
  BY DEF ApartInv, TypeOK
<1>9. ASSUME RemoveHash(t) PROVE HeldInv'
  <2>1. /\ pc[t] = "remove_hash" /\ pc'[t] = "remove_id"
        /\ by_hash' = [by_hash EXCEPT ![e.uo.hash] = None]
        /\ by_id' = by_id /\ ordered' = ordered /\ sender_count' = sender_count
        /\ entry' = entry /\ fresh' = fresh
    BY <1>9, <1>a DEF RemoveHash, Goto, locals
  <2>2. /\ At({"insert_id", "insert_ordered"})' = At({"insert_id", "insert_ordered"})
        /\ At({"remove_id", "remove_ordered"})' = At({"remove_id", "remove_ordered"}) \cup {t}
        /\ At({"insert_ordered"})' = At({"insert_ordered"})
        /\ At({"remove_ordered"})' = At({"remove_ordered"})
        /\ At({"count_down"})' = At({"count_down"}) /\ At({"count_up"})' = At({"count_up"})
    BY <1>3, <2>1 DEF At
  <2>3. IdHeld' = IdHeld /\ CountHeld' = CountHeld
    BY <2>1, <2>2 DEF IdHeld, CountHeld
  <2>4. \A s \in At({"insert_id", "insert_ordered"}) : fresh[s] # e
    BY <1>7, <2>1 DEF At, InsertLabel
  <2>5. HashHeld' = HashHeld \ {e}
    BY <2>1, <2>2, <2>4 DEF HashHeld
  <2>6. e \in HashHeld /\ by_hash \in [Hash -> Entry \cup {None}]
    BY <1>6, <1>8, <2>1 DEF ApartInv, TypeOK
  <2> HIDE DEF e
  <2>7. ByHashIs(HashHeld)'
    <3>1. \A f \in HashHeld \ {e} : by_hash'[f.uo.hash] = f
      BY <1>2, <1>4, <1>5, <2>1, <2>6, EntryFields DEF ByHashIs
    <3>2. \A h \in Hash : by_hash'[h] # None =>
            by_hash'[h] \in HashHeld \ {e} /\ by_hash'[h].uo.hash = h
      BY <1>2, <1>4, <2>1, <2>6 DEF ByHashIs
    <3> QED
      BY <2>5, <3>1, <3>2 DEF ByHashIs
  <2>8. ByIdIs(IdHeld)' /\ CountIs(CountHeld)'
    BY <1>4, <2>1, <2>3 DEF ByIdIs, CountIs
  <2> QED
    BY <1>1, <1>3, <2>7, <2>8, HeldThen
<1>10. ASSUME RemoveId(t) PROVE HeldInv'
  <2>1. /\ pc[t] = "remove_id" /\ pc'[t] = "remove_ordered"
        /\ by_id' = [by_id EXCEPT ![IdOf(e.uo)] = None]
        /\ by_hash' = by_hash /\ ordered' = ordered /\ sender_count' = sender_count
        /\ entry' = entry /\ fresh' = fresh
    BY <1>10, <1>a DEF RemoveId, Goto, locals
  <2>2. /\ At({"insert_id", "insert_ordered"})' = At({"insert_id", "insert_ordered"})
        /\ At({"remove_id", "remove_ordered"})' = At({"remove_id", "remove_ordered"})
        /\ At({"insert_ordered"})' = At({"insert_ordered"})
        /\ At({"remove_ordered"})' = At({"remove_ordered"}) \cup {t}
        /\ At({"count_down"})' = At({"count_down"}) /\ At({"count_up"})' = At({"count_up"})
    BY <1>3, <2>1 DEF At
  <2>3. HashHeld' = HashHeld /\ CountHeld' = CountHeld
    BY <2>1, <2>2 DEF HashHeld, CountHeld
  <2>4. \A s \in At({"insert_ordered"}) : fresh[s] # e
    BY <1>7, <2>1 DEF At, InsertLabel
  <2>5. IdHeld' = IdHeld \ {e}
    BY <2>1, <2>2, <2>4 DEF IdHeld
  <2>6. e \in IdHeld /\ by_id \in [Id -> Entry \cup {None}]
    BY <1>6, <1>8, <2>1 DEF ApartInv, TypeOK
  <2> HIDE DEF e
  <2>7. ByIdIs(IdHeld)'
    <3>1. \A f \in IdHeld \ {e} : by_id'[IdOf(f.uo)] = f
      BY <1>2, <1>4, <1>5, <2>1, <2>6, EntryFields DEF ByIdIs
    <3>2. \A j \in Id : by_id'[j] # None =>
            by_id'[j] \in IdHeld \ {e} /\ IdOf(by_id'[j].uo) = j
      BY <1>2, <1>4, <2>1, <2>6 DEF ByIdIs
    <3> QED
      BY <2>5, <3>1, <3>2 DEF ByIdIs
  <2>8. ByHashIs(HashHeld)' /\ CountIs(CountHeld)'
    BY <1>4, <2>1, <2>3 DEF ByHashIs, CountIs
  <2> QED
    BY <1>1, <1>3, <2>7, <2>8, HeldThen
<1>11. ASSUME RemoveOrdered(t) PROVE HeldInv'
  <2>1. /\ pc[t] = "remove_ordered" /\ pc'[t] = "count_down"
        /\ ordered' = ordered \ {e}
        /\ by_hash' = by_hash /\ by_id' = by_id /\ sender_count' = sender_count
        /\ entry' = entry /\ fresh' = fresh
    BY <1>11, <1>a DEF RemoveOrdered, Goto, locals
  <2>2. /\ At({"insert_id", "insert_ordered"})' = At({"insert_id", "insert_ordered"})
        /\ At({"remove_id", "remove_ordered"}) = At({"remove_id", "remove_ordered"})' \cup {t}
        /\ At({"insert_ordered"})' = At({"insert_ordered"})
        /\ At({"remove_ordered"}) = At({"remove_ordered"})' \cup {t}
        /\ At({"count_down"})' = At({"count_down"}) \cup {t}
        /\ At({"count_up"})' = At({"count_up"})
    BY <1>3, <2>1 DEF At
  <2>3. e \notin HashHeld /\ e \notin IdHeld /\ e \in CountHeld
    BY <1>6, <1>8, <2>1
  <2>4. HashHeld' = HashHeld
    BY <2>1, <2>2, <2>3 DEF HashHeld
  <2>5. IdHeld' = IdHeld
    BY <2>1, <2>2, <2>3 DEF IdHeld
  <2>6. CountHeld' = CountHeld
    BY <2>1, <2>2, <2>3 DEF CountHeld
  <2>7. ByHashIs(HashHeld)' /\ ByIdIs(IdHeld)' /\ CountIs(CountHeld)'
    BY <1>4, <2>1, <2>4, <2>5, <2>6 DEF ByHashIs, ByIdIs, CountIs
  <2> QED
    BY <1>1, <1>3, <2>7, HeldThen
<1>12. ASSUME CountDown(t) PROVE HeldInv'
  <2>1. /\ pc[t] = "count_down" /\ pc'[t] \in {"idle", "sender_check"}
        /\ sender_count' = [sender_count EXCEPT
                              ![e.uo.sender] = IF @ > 0 THEN @ - 1 ELSE 0]
        /\ by_hash' = by_hash /\ by_id' = by_id /\ ordered' = ordered
    BY <1>12, <1>a DEF CountDown, Return, Goto
  <2>2. /\ At({"insert_id", "insert_ordered"})' = At({"insert_id", "insert_ordered"})
        /\ At({"remove_id", "remove_ordered"})' = At({"remove_id", "remove_ordered"})
        /\ At({"insert_ordered"})' = At({"insert_ordered"})
        /\ At({"remove_ordered"})' = At({"remove_ordered"})
        /\ At({"count_down"}) = At({"count_down"})' \cup {t} /\ t \notin At({"count_down"})'
        /\ At({"count_up"})' = At({"count_up"})
        /\ t \notin At({"insert_id", "insert_ordered"})
        /\ t \notin At({"remove_id", "remove_ordered"})
        /\ t \notin At({"insert_ordered"}) /\ t \notin At({"remove_ordered"})
        /\ t \notin At({"count_up"})
    BY <1>3, <2>1 DEF At
  <2>a. \A L : \A s \in At(L) \ {t} : entry'[s] = entry[s] /\ fresh'[s] = fresh[s]
    BY <1>3 DEF At
  <2>3. HashHeld' = HashHeld
    BY <2>1, <2>2, <2>a DEF HashHeld
  <2>4. IdHeld' = IdHeld
    BY <2>1, <2>2, <2>a DEF IdHeld
  <2>5. e \in CountHeld /\ e \notin ordered
    BY <1>6, <2>1 DEF ApartInv, EntryInv
  <2>6. CountHeld' = CountHeld \ {e}
    <3>1. \A s \in At({"count_down"})' : entry'[s] # e /\ entry'[s] = entry[s]
      <4> SUFFICES ASSUME NEW s \in Thread \ {t}, pc[s] = "count_down"
                   PROVE  entry[s] # e
        BY <1>3, <2>2 DEF At
      <4> QED
        BY <1>7 DEF RemoveLabel
    <3>2. \A s \in At({"count_up"}) : fresh'[s] = fresh[s]
      BY <2>2, <2>a
    <3> QED
      BY <2>1, <2>2, <2>5, <3>1, <3>2 DEF CountHeld
  <2>7. CountIs(CountHeld)'
    <3> SUFFICES ASSUME NEW s \in Sender
                 PROVE  sender_count'[s] = Cardinality(OfSender(CountHeld \ {e}, s))
      BY <2>6 DEF CountIs
    <3>1. sender_count[s] = Cardinality(OfSender(CountHeld, s))
      BY <1>4 DEF CountIs
    <3>2. IsFiniteSet(CountHeld)
      BY CountHeldFinite
    <3>3. sender_count \in [Sender -> Nat]
      BY DEF ApartInv, TypeOK
    <3> HIDE DEF e
    <3>4. /\ Cardinality(OfSender(CountHeld \ {e}, s)) \in Nat
          /\ Cardinality(OfSender(CountHeld \ {e}, s)) =
               IF e.uo.sender = s THEN Cardinality(OfSender(CountHeld, s)) - 1
                                  ELSE Cardinality(OfSender(CountHeld, s))
      <4>1. IsFiniteSet(CountHeld \ {e})
        BY <3>2, FS_Subset
      <4> QED
        BY <2>5, <3>2, <4>1, OfSenderCount
    <3> QED
      BY <1>2, <2>1, <3>1, <3>3, <3>4
  <2>8. ByHashIs(HashHeld)' /\ ByIdIs(IdHeld)'
    BY <1>4, <2>1, <2>3, <2>4 DEF ByHashIs, ByIdIs
  <2> QED
    BY <1>1, <1>3, <2>7, <2>8, HeldThen
<1> QED
  BY <1>9, <1>10, <1>11, <1>12

\* A clear is alone, and empties one index after the other.
LEMMA ClearKeepsHeld ==
  ASSUME ApartInv, Apart, Apart', NEW t \in Thread,
         ClearHash(t) \/ ClearId(t) \/ ClearOrdered(t) \/ ClearCount(t)
  PROVE  HeldInv'
<1>1. /\ pc[t] \in {"idle"} \cup ClearLabel
      /\ pc[t] \in ClearLabel \/ pc'[t] \in ClearLabel
      /\ \A s \in Thread \ {t} : pc'[s] = pc[s]
  BY DEF ClearHash, ClearId, ClearOrdered, ClearCount, Goto, ClearLabel,
    ApartInv, TypeOK
<1>2. \A s \in Thread \ {t} : pc[s] = "idle"
  <2>1. "idle" \notin ClearLabel
    BY DEF ClearLabel
  <2> QED
    BY <1>1, <2>1 DEF Apart
<1>3. pc'[t] \in {"idle"} \cup ClearLabel
  BY DEF ClearHash, ClearId, ClearOrdered, ClearCount, Goto, ClearLabel,
    ApartInv, TypeOK
<1>4. \A L : "idle" \notin L => At(L) = IF pc[t] \in L THEN {t} ELSE {}
  BY <1>2 DEF At
<1>5. \A L : "idle" \notin L => At(L)' = IF pc'[t] \in L THEN {t} ELSE {}
  BY <1>1, <1>2 DEF At
<1>6. HashHeld = ordered /\ IdHeld = ordered /\ CountHeld = ordered
  BY <1>1, <1>4 DEF HashHeld, IdHeld, CountHeld, ClearLabel
<1>7. HashHeld' = ordered' /\ IdHeld' = ordered' /\ CountHeld' = ordered'
  BY <1>3, <1>5 DEF HashHeld, IdHeld, CountHeld, ClearLabel
<1>8. /\ ByHashIs(IF pc[t] \in {"clear_id", "clear_ordered"} THEN {} ELSE ordered)
      /\ ByIdIs(IF pc[t] = "clear_ordered" THEN {} ELSE ordered)
  BY <1>4, <1>6 DEF ApartInv, HeldInv
<1>a. pc \in [Thread -> Label]
  BY DEF ApartInv, TypeOK
<1>9. SUFFICES
        /\ ByHashIs(IF pc[t] \in {"clear_id", "clear_ordered"} THEN {} ELSE ordered)'
        /\ ByIdIs(IF pc[t] = "clear_ordered" THEN {} ELSE ordered)'
        /\ pc'[t] \notin ClearLabel => CountIs(ordered)'
  <2>1. /\ At({"clear_id", "clear_ordered"})' = {} <=> pc'[t] \notin {"clear_id", "clear_ordered"}
        /\ At({"clear_ordered"})' = {} <=> pc'[t] # "clear_ordered"
        /\ At(ClearLabel)' = {} <=> pc'[t] \notin ClearLabel
    BY <1>5 DEF ClearLabel
  <2> QED
    BY <1>7, <2>1 DEF HeldInv, ByHashIs, ByIdIs, CountIs
<1>10. CASE ClearHash(t)
  BY <1>8, <1>10, <1>a DEF ClearHash, Goto, ByHashIs, ByIdIs, ClearLabel
<1>11. CASE ClearId(t)
  BY <1>8, <1>11, <1>a DEF ClearId, Goto, ByHashIs, ByIdIs, ClearLabel
<1>12. CASE ClearOrdered(t)
  BY <1>8, <1>12, <1>a DEF ClearOrdered, Goto, ByHashIs, ByIdIs, ClearLabel
<1>13. CASE ClearCount(t)
  <2>1. /\ ordered = {} /\ ordered' = {} /\ pc[t] = "clear_count" /\ pc'[t] = "idle"
        /\ by_hash' = by_hash /\ by_id' = by_id /\ sender_count' = [s \in Sender |-> 0]
    BY <1>13, <1>a DEF ClearCount, Goto, ApartInv, EntryInv
  <2>2. CountIs(ordered)'
    <3>1. \A s : OfSender({}, s) = {}
      BY DEF OfSender
    <3> QED
      BY <2>1, <3>1, FS_EmptySet DEF CountIs
  <2> QED
    BY <1>8, <2>1, <2>2 DEF ByHashIs, ByIdIs
<1> QED
  BY <1>10, <1>11, <1>12, <1>13

\* Every step of calls that are apart keeps the indexes with the order.
LEMMA StepHeldInv ==
  ASSUME HashCoversId, ApartInv, Apart, Apart', NEW t \in Thread,
         Call(t) \/ Continue(t)
  PROVE  HeldInv'
<1>a. TypeOK
  BY DEF ApartInv
<1>1. \A s \in Thread \ {t} : /\ pc'[s] = pc[s] /\ entry'[s] = entry[s]
                              /\ fresh'[s] = fresh[s]
  BY <1>a, OthersKeep
<1>2. pc[t] \notin {"idle"} \cup ClearLabel => OthersOff(t, IdAt(t))
  BY ContinueOff
<1>3. ASSUME by_hash' = by_hash, by_id' = by_id, ordered' = ordered,
             sender_count' = sender_count,
             pc[t] \notin BusyLabel, pc'[t] \notin BusyLabel
      PROVE  HeldInv'
  <2>1. \A s \in Thread :
          pc[s] \in BusyLabel \/ pc'[s] \in BusyLabel =>
            pc'[s] = pc[s] /\ entry'[s] = entry[s] /\ fresh'[s] = fresh[s]
    BY <1>1, <1>3
  <2> QED
    BY <1>3, <2>1, HeldKept
<1> USE <1>a DEF TypeOK, Goto, Return, indexes, locals
<1>4. ASSUME \/ \E u \in UserOp : Add(t, u)
             \/ \E h \in Hash : RemoveByHash(t, h)
             \/ \E i \in Id : RemoveById(t, i)
      PROVE  HeldInv'
  <2>1. pc[t] \notin BusyLabel /\ pc'[t] \notin BusyLabel
    BY <1>4 DEF Add, RemoveByHash, RemoveById, BusyLabel, ClearLabel
  <2>2. /\ by_hash' = by_hash /\ by_id' = by_id /\ ordered' = ordered
        /\ sender_count' = sender_count
    BY <1>4 DEF Add, RemoveByHash, RemoveById
  <2> QED
    BY <1>3, <2>1, <2>2
<1>5. ASSUME NoExisting(t) \/ ReplaceExisting(t) \/ ReplacementUnderpriced(t)
      PROVE  HeldInv'
  <2>1. pc[t] \notin BusyLabel /\ pc'[t] \notin BusyLabel
    BY <1>5 DEF NoExisting, ReplaceExisting, ReplacementUnderpriced, BusyLabel,
      ClearLabel
  <2>2. /\ by_hash' = by_hash /\ by_id' = by_id /\ ordered' = ordered
        /\ sender_count' = sender_count
    BY <1>5 DEF NoExisting, ReplaceExisting, ReplacementUnderpriced
  <2> QED
    BY <1>3, <2>1, <2>2
<1>6. ASSUME \/ SenderLimitReached(t) \/ SenderCheck(t) \/ PoolFull(t)
             \/ SizeCheck(t) \/ TakeSequence(t)
      PROVE  HeldInv'
  <2>1. pc[t] \notin BusyLabel /\ pc'[t] \notin BusyLabel
    BY <1>6 DEF SenderLimitReached, SenderCheck, PoolFull, SizeCheck,
      TakeSequence, BusyLabel, ClearLabel
  <2>2. /\ by_hash' = by_hash /\ by_id' = by_id /\ ordered' = ordered
        /\ sender_count' = sender_count
    BY <1>6 DEF SenderLimitReached, SenderCheck, PoolFull, SizeCheck, TakeSequence
  <2> QED
    BY <1>3, <2>1, <2>2
<1>7. ASSUME InsertHash(t) \/ InsertId(t) \/ InsertOrdered(t) \/ CountUp(t)
      PROVE  HeldInv'
  <2>1. pc[t] \notin {"idle"} \cup ClearLabel
    BY <1>7 DEF InsertHash, InsertId, InsertOrdered, CountUp, ClearLabel
  <2> QED
    BY <1>2, <1>7, <2>1, InsertKeepsHeld
<1>8. ASSUME RemoveHash(t) \/ RemoveId(t) \/ RemoveOrdered(t) \/ CountDown(t)
      PROVE  HeldInv'
  <2>1. pc[t] \notin {"idle"} \cup ClearLabel
    BY <1>8 DEF RemoveHash, RemoveId, RemoveOrdered, CountDown, ClearLabel
  <2> QED
    BY <1>2, <1>8, <2>1, RemoveKeepsHeld
<1>9. ASSUME ClearHash(t) \/ ClearId(t) \/ ClearOrdered(t) \/ ClearCount(t)
      PROVE  HeldInv'
  BY <1>9, ClearKeepsHeld
<1> QED
  BY <1>4, <1>5, <1>6, <1>7, <1>8, <1>9 DEF Call, Continue

\* What a call finds in an index under its own id is in the order: only the
\* call that is inserting it could have it in an index and not yet there.
LEMMA FoundIsOrdered ==
  ASSUME ApartInv, NEW t \in Thread, NEW e, OthersOff(t, IdOf(e.uo)),
         pc[t] \in {"idle", "id_lookup"}, e \in HashHeld \/ e \in IdHeld
  PROVE  e \in ordered
BY HeldOf

\* A call finds in the order what is its own, whatever the others do.
LEMMA StepEntryApart ==
  ASSUME ApartInv, Apart, Apart', NEW t \in Thread, Call(t) \/ Continue(t)
  PROVE  EntryInv'
<1>a. TypeOK
  BY DEF ApartInv
<1>1. \A s \in Thread \ {t} : /\ pc'[s] = pc[s] /\ uo'[s] = uo[s]
                              /\ entry'[s] = entry[s] /\ fresh'[s] = fresh[s]
  BY <1>a, OthersKeep
<1> DEFINE EntryOk(s) ==
    /\ pc[s] \in {"remove_hash", "remove_id", "remove_ordered"} => entry[s] \in ordered
    /\ pc[s] = "count_down" => entry[s] \notin ordered
    /\ pc[s] = "count_up" => /\ fresh[s] \in ordered /\ fresh[s] # None
                             /\ fresh[s].uo = uo[s]
    /\ pc[s] \in {"idle", "id_lookup"} \cup ClearLabel => entry[s] = None
    /\ pc[s] = "clear_count" => ordered = {}
    /\ pc[s] \in {"idle"} \cup ClearLabel => uo[s] = None
<1>2. \A s \in Thread : EntryOk(s)
  BY DEF ApartInv, EntryInv
<1>3. SUFFICES \A s \in Thread : EntryOk(s)'
  BY DEF EntryInv
<1>4. ASSUME ordered' = ordered, EntryOk(t)'
      PROVE  \A s \in Thread : EntryOk(s)'
  <2> SUFFICES ASSUME NEW s \in Thread \ {t} PROVE EntryOk(s)'
    BY <1>4
  <2> QED
    BY <1>1, <1>2, <1>4
<1>5. ASSUME NEW e, ordered' = ordered \cup {e} \/ ordered' = ordered \ {e},
             IdOf(e.uo) = IdAt(t), pc[t] \notin {"idle"} \cup ClearLabel, EntryOk(t)'
      PROVE  \A s \in Thread : EntryOk(s)'
  <2> SUFFICES ASSUME NEW s \in Thread \ {t} PROVE EntryOk(s)'
    BY <1>5
  <2>1. OthersOff(t, IdAt(t))
    BY <1>5, ContinueOff
  <2>2. /\ pc[s] \in RemoveLabel => entry[s] # e
        /\ pc[s] = "count_up" => fresh[s] # e
        /\ pc[s] \notin ClearLabel
    BY <1>5, <2>1 DEF OthersOff
  <2>3. /\ pc[s] \in {"remove_hash", "remove_id", "remove_ordered", "count_down"} =>
             entry[s] # e
        /\ pc[s] # "clear_count"
    BY <2>2 DEF RemoveLabel, ClearLabel
  <2> HIDE DEF OthersOff
  <2> QED
    BY <1>1, <1>2, <1>5, <2>2, <2>3
<1> HIDE DEF EntryOk
<1>b. EntryOk(t)
  BY <1>2
<1> USE <1>a DEF TypeOK, Goto, Return, indexes, locals, Label, AddLabel,
  RemoveLabel, ClearLabel
<1>6. ASSUME NEW u \in UserOp, Add(t, u) PROVE \A s \in Thread : EntryOk(s)'
  <2>1. ordered' = ordered /\ EntryOk(t)'
    BY <1>6, <1>b DEF Add, EntryOk
  <2> QED
    BY <1>4, <2>1
<1>7. ASSUME NEW h \in Hash, RemoveByHash(t, h) PROVE \A s \in Thread : EntryOk(s)'
  <2> DEFINE e == by_hash[h]
  <2>1. /\ pc[t] = "idle" /\ uo'[t] = None /\ entry'[t] = e /\ e # None
        /\ pc'[t] = "remove_hash" /\ ordered' = ordered
    BY <1>7, <1>b DEF RemoveByHash, EntryOk
  <2>2. OthersOff(t, IdOf(e.uo))
    <3>1. IdAt(t)' = IdOf(e.uo)
      BY <2>1 DEF IdAt
    <3> QED
      BY <1>1, <2>1, <3>1, StartOff
  <2>3. e \in HashHeld
    <3>1. ByHashIs(HashHeld)
      BY <2>1, <2>2, HeldNow DEF ApartInv
    <3> QED
      BY <2>1, <3>1 DEF ByHashIs
  <2> HIDE DEF e
  <2>4. e \in ordered
    BY <2>1, <2>2, <2>3, FoundIsOrdered
  <2>5. EntryOk(t)'
    BY <2>1, <2>4 DEF EntryOk
  <2> QED
    BY <1>4, <2>1, <2>5
<1>8. ASSUME NEW i \in Id, RemoveById(t, i) PROVE \A s \in Thread : EntryOk(s)'
  <2> DEFINE e == by_id[i]
  <2>1. /\ pc[t] = "idle" /\ uo'[t] = None /\ entry'[t] = e /\ e # None
        /\ pc'[t] = "remove_hash" /\ ordered' = ordered
    BY <1>8, <1>b DEF RemoveById, EntryOk
  <2>2. OthersOff(t, IdOf(e.uo))
    <3>1. IdAt(t)' = IdOf(e.uo)
      BY <2>1 DEF IdAt
    <3> QED
      BY <1>1, <2>1, <3>1, StartOff
  <2>3. e \in IdHeld
    <3>1. ByIdIs(IdHeld)
      BY <2>1, <2>2, HeldNow DEF ApartInv
    <3> QED
      BY <2>1, <3>1 DEF ByIdIs
  <2> HIDE DEF e
  <2>4. e \in ordered
    BY <2>1, <2>2, <2>3, FoundIsOrdered
  <2>5. EntryOk(t)'
    BY <2>1, <2>4 DEF EntryOk
  <2> QED
    BY <1>4, <2>1, <2>5
<1>9. ASSUME ReplaceExisting(t) PROVE \A s \in Thread : EntryOk(s)'
  <2> DEFINE e == by_id[IdOf(uo[t])]
  <2>1. /\ pc[t] = "id_lookup" /\ uo[t] \in UserOp /\ uo[t] # None
        /\ entry'[t] = e /\ e # None
        /\ pc'[t] = "remove_hash" /\ ordered' = ordered
    BY <1>9, PoolConstants DEF ReplaceExisting
  <2>2. OthersOff(t, IdOf(uo[t]))
    <3>1. IdAt(t) = IdOf(uo[t])
      BY <2>1 DEF IdAt
    <3> QED
      BY <2>1, <3>1, ContinueOff
  <2>3. e \in IdHeld /\ IdOf(e.uo) = IdOf(uo[t])
    <3>1. ByIdIs(IdHeld)
      BY <2>1, <2>2, HeldNow DEF ApartInv
    <3>2. IdOf(uo[t]) \in Id
      BY <2>1, OpFields
    <3> QED
      BY <2>1, <3>1, <3>2 DEF ByIdIs
  <2> HIDE DEF e
  <2>4. e \in ordered
    BY <2>1, <2>2, <2>3, FoundIsOrdered
  <2>5. EntryOk(t)'
    BY <2>1, <2>4 DEF EntryOk
  <2> QED
    BY <1>4, <2>1, <2>5
<1>10. ASSUME \/ NoExisting(t) \/ ReplacementUnderpriced(t)
              \/ SenderLimitReached(t) \/ SenderCheck(t)
       PROVE  \A s \in Thread : EntryOk(s)'
  <2>1. ordered' = ordered /\ EntryOk(t)'
    BY <1>10, <1>b DEF NoExisting, ReplacementUnderpriced, SenderLimitReached,
      SenderCheck, EntryOk
  <2> QED
    BY <1>4, <2>1
<1>11. ASSUME \/ PoolFull(t) \/ SizeCheck(t) \/ TakeSequence(t)
              \/ InsertHash(t) \/ InsertId(t) \/ CountUp(t)
       PROVE  \A s \in Thread : EntryOk(s)'
  <2>1. ordered' = ordered /\ EntryOk(t)'
    BY <1>11, <1>b DEF PoolFull, SizeCheck, TakeSequence, InsertHash, InsertId,
      CountUp, EntryOk
  <2> QED
    BY <1>4, <2>1
<1>12. ASSUME RemoveHash(t) \/ RemoveId(t) \/ CountDown(t)
       PROVE  \A s \in Thread : EntryOk(s)'
  <2>1. ordered' = ordered /\ EntryOk(t)'
    BY <1>12, <1>b DEF RemoveHash, RemoveId, CountDown, EntryOk
  <2> QED
    BY <1>4, <2>1
<1>13. ASSUME InsertOrdered(t) PROVE \A s \in Thread : EntryOk(s)'
  <2>1. /\ pc[t] = "insert_ordered" /\ pc'[t] = "count_up"
        /\ ordered' = ordered \cup {fresh[t]} /\ fresh' = fresh /\ uo' = uo
    BY <1>13 DEF InsertOrdered
  <2>2. /\ fresh[t] \in Entry /\ fresh[t].uo = uo[t] /\ uo[t] # None
        /\ IdOf(fresh[t].uo) = IdAt(t)
    BY <2>1, WorkIds DEF InsertLabel
  <2>3. EntryOk(t)'
    BY <2>1, <2>2, PoolConstants DEF EntryOk
  <2> QED
    BY <1>5, <2>1, <2>2, <2>3
<1>14. ASSUME RemoveOrdered(t) PROVE \A s \in Thread : EntryOk(s)'
  <2>1. /\ pc[t] = "remove_ordered" /\ pc'[t] = "count_down"
        /\ ordered' = ordered \ {entry[t]} /\ entry' = entry
    BY <1>14 DEF RemoveOrdered
  <2>2. IdOf(entry[t].uo) = IdAt(t)
    BY <2>1, WorkIds
  <2>3. EntryOk(t)'
    BY <2>1 DEF EntryOk
  <2> QED
    BY <1>5, <2>1, <2>2, <2>3
<1>15. ASSUME ClearHash(t) \/ ClearId(t) \/ ClearCount(t)
       PROVE  \A s \in Thread : EntryOk(s)'
  <2>1. ordered' = ordered /\ EntryOk(t)'
    BY <1>15, <1>b DEF ClearHash, ClearId, ClearCount, EntryOk
  <2> QED
    BY <1>4, <2>1
<1>16. ASSUME ClearOrdered(t) PROVE \A s \in Thread : EntryOk(s)'
  <2>1. EntryOk(t)'
    BY <1>16, <1>b DEF ClearOrdered, EntryOk
  <2>2. \A s \in Thread \ {t} : pc[s] = "idle"
    BY <1>16 DEF ClearOrdered, Apart
  <2>3. ASSUME NEW s \in Thread \ {t} PROVE EntryOk(s)'
    BY <1>1, <1>2, <2>2 DEF EntryOk
  <2> QED
    BY <2>1, <2>3
<1> QED
  BY <1>6, <1>7, <1>8, <1>9, <1>10, <1>11, <1>12, <1>13, <1>14, <1>15, <1>16
  DEF Call, Continue

\* add inserts only what is new, although others insert beside it.
LEMMA StepNewApart ==
  ASSUME HashCoversId, ApartInv, Apart, Apart', NEW t \in Thread,
         Call(t) \/ Continue(t)
  PROVE  NewInv'
<1>a. TypeOK
  BY DEF ApartInv
<1>1. \A s \in Thread \ {t} : /\ pc'[s] = pc[s] /\ uo'[s] = uo[s]
                              /\ entry'[s] = entry[s]
  BY <1>a, OthersKeep
<1> DEFINE NewOk(s) ==
  uo[s] # None /\ pc[s] # "count_up" =>
    /\ \A e \in ordered : e.uo.hash # uo[s].hash
    /\ entry[s] # None =>
         /\ IdOf(entry[s].uo) = IdOf(uo[s]) /\ entry[s].uo # uo[s]
         /\ Outbids(uo[s], entry[s])
    /\ pc[s] \in PastLookup \cup {"count_down"} =>
         \A e \in ordered : IdOf(e.uo) # IdOf(uo[s])
<1>2. OnePerId /\ \A s \in Thread : NewOk(s)
  BY DEF ApartInv, NewInv
<1>3. SUFFICES OnePerId' /\ \A s \in Thread : NewOk(s)'
  BY DEF NewInv
<1>4. ASSUME ordered' \subseteq ordered, NewOk(t)'
      PROVE  OnePerId' /\ \A s \in Thread : NewOk(s)'
  <2>1. OnePerId'
    BY <1>2, <1>4 DEF OnePerId
  <2>2. ASSUME NEW s \in Thread \ {t} PROVE NewOk(s)'
    <3>1. /\ Outbids(uo[s], entry[s])' <=> Outbids(uo[s], entry[s])
      BY <1>1 DEF Outbids, MinBump
    <3> HIDE DEF Outbids
    <3> QED
      BY <1>1, <1>2, <1>4, <3>1
  <2> HIDE DEF NewOk
  <2> QED
    BY <1>4, <2>1, <2>2
<1>5. /\ uo[t] # None => uo[t] \in UserOp /\ pc[t] \notin {"idle"} \cup ClearLabel
      /\ pc[t] \in {"idle"} \cup ClearLabel => uo[t] = None
  BY <1>2, WorkIds DEF ApartInv, EntryInv
<1> HIDE DEF NewOk
<1>b. NewOk(t)
  BY <1>2
<1> USE <1>a DEF TypeOK, Goto, Return, indexes, locals, Label, AddLabel,
  RemoveLabel, ClearLabel, PastLookup, PastCheck, InsertLabel
<1>6. ASSUME NEW u \in UserOp, Add(t, u)
      PROVE  OnePerId' /\ \A s \in Thread : NewOk(s)'
  <2>1. /\ pc[t] = "idle" /\ pc'[t] = "id_lookup" /\ uo'[t] = u /\ u # None
        /\ by_hash[u.hash] = None /\ ordered' = ordered /\ entry'[t] = None
    BY <1>6, PoolConstants DEF Add, ApartInv, EntryInv
  <2>2. OthersOff(t, IdOf(u))
    <3>1. IdAt(t)' = IdOf(u)
      BY <2>1 DEF IdAt
    <3> QED
      BY <1>1, <2>1, <3>1, StartOff
  <2>3. ByHashIs(HashHeld)
    BY <2>1, <2>2, HeldNow DEF ApartInv
  <2>4. ASSUME NEW e \in ordered, e.uo.hash = u.hash PROVE FALSE
    <3>1. e \in Entry
      BY DEF ApartInv
    <3>2. IdOf(e.uo) = IdOf(u)
      BY <2>4, <3>1, EntryFields DEF HashCoversId
    <3>3. e \in HashHeld
      BY <2>1, <2>2, <3>2, HeldOf
    <3> QED
      BY <2>1, <2>3, <2>4, <3>1, <3>3, EntryFields DEF ByHashIs
  <2>5. NewOk(t)'
    BY <2>1, <2>4 DEF NewOk
  <2> QED
    BY <1>4, <2>1, <2>5
<1>7. ASSUME NoExisting(t) PROVE OnePerId' /\ \A s \in Thread : NewOk(s)'
  <2>1. /\ pc[t] = "id_lookup" /\ pc'[t] = "sender_check" /\ uo' = uo
        /\ uo[t] \in UserOp /\ uo[t] # None /\ entry' = entry /\ ordered' = ordered
        /\ by_id[IdOf(uo[t])] = None
    BY <1>7, PoolConstants DEF NoExisting
  <2>2. OthersOff(t, IdOf(uo[t]))
    <3>1. IdAt(t) = IdOf(uo[t])
      BY <2>1 DEF IdAt
    <3> QED
      BY <2>1, <3>1, ContinueOff
  <2>3. ByIdIs(IdHeld)
    BY <2>1, <2>2, HeldNow DEF ApartInv
  <2>4. ASSUME NEW e \in ordered, IdOf(e.uo) = IdOf(uo[t]) PROVE FALSE
    <3>1. e \in IdHeld
      BY <2>1, <2>2, <2>4, HeldOf
    <3>2. e # None
      BY EntryFields DEF ApartInv
    <3> QED
      BY <2>1, <2>3, <2>4, <3>1, <3>2 DEF ByIdIs
  <2>5. Outbids(uo[t], entry[t])' <=> Outbids(uo[t], entry[t])
    BY <2>1 DEF Outbids, MinBump
  <2>6. NewOk(t)'
    BY <1>b, <2>1, <2>4, <2>5 DEF NewOk
  <2> QED
    BY <1>4, <2>1, <2>6
<1>8. ASSUME ReplaceExisting(t) PROVE OnePerId' /\ \A s \in Thread : NewOk(s)'
  <2> DEFINE e == by_id[IdOf(uo[t])]
  <2>1. /\ pc[t] = "id_lookup" /\ uo[t] \in UserOp /\ uo[t] # None /\ uo' = uo
        /\ entry'[t] = e /\ e # None /\ Outbids(uo[t], e)
        /\ pc'[t] = "remove_hash" /\ ordered' = ordered
    BY <1>8, PoolConstants DEF ReplaceExisting
  <2>2. OthersOff(t, IdOf(uo[t]))
    <3>1. IdAt(t) = IdOf(uo[t])
      BY <2>1 DEF IdAt
    <3> QED
      BY <2>1, <3>1, ContinueOff
  <2>3. e \in IdHeld /\ IdOf(e.uo) = IdOf(uo[t])
    <3>1. ByIdIs(IdHeld)
      BY <2>1, <2>2, HeldNow DEF ApartInv
    <3>2. IdOf(uo[t]) \in Id
      BY <2>1, OpFields
    <3> QED
      BY <2>1, <3>1, <3>2 DEF ByIdIs
  <2> HIDE DEF e
  <2>4. e \in ordered
    BY <2>1, <2>2, <2>3, FoundIsOrdered
  <2>5. e.uo # uo[t]
    BY <1>b, <2>1, <2>4 DEF NewOk
  <2>6. Outbids(uo[t], entry[t])'
    BY <2>1 DEF Outbids, MinBump
  <2>7. NewOk(t)'
    BY <1>b, <2>1, <2>3, <2>5, <2>6 DEF NewOk
  <2> QED
    BY <1>4, <2>1, <2>7
<1>9. ASSUME \/ ReplacementUnderpriced(t) \/ SenderLimitReached(t) \/ PoolFull(t)
             \/ CountUp(t)
      PROVE  OnePerId' /\ \A s \in Thread : NewOk(s)'
  <2>1. ordered' = ordered /\ uo'[t] = None
    BY <1>9 DEF ReplacementUnderpriced, SenderLimitReached, PoolFull, CountUp
  <2> QED
    BY <1>4, <2>1 DEF NewOk
<1>10. ASSUME \/ SenderCheck(t) \/ SizeCheck(t) \/ TakeSequence(t)
              \/ InsertHash(t) \/ InsertId(t)
       PROVE  OnePerId' /\ \A s \in Thread : NewOk(s)'
  <2>1. /\ ordered' = ordered /\ uo' = uo /\ entry' = entry
        /\ pc[t] \in PastLookup
    BY <1>10 DEF SenderCheck, SizeCheck, TakeSequence, InsertHash, InsertId
  <2>2. Outbids(uo[t], entry[t])' <=> Outbids(uo[t], entry[t])
    BY <2>1 DEF Outbids, MinBump
  <2>3. NewOk(t)'
    BY <1>b, <2>1, <2>2 DEF NewOk
  <2> QED
    BY <1>4, <2>1, <2>3
<1>11. ASSUME InsertOrdered(t) PROVE OnePerId' /\ \A s \in Thread : NewOk(s)'
  <2> DEFINE e == fresh[t]
  <2>1. /\ pc[t] = "insert_ordered" /\ pc'[t] = "count_up"
        /\ ordered' = ordered \cup {e}
    BY <1>11 DEF InsertOrdered
  <2>2. /\ e \in Entry /\ e.uo = uo[t] /\ uo[t] # None /\ uo[t] \in UserOp
        /\ IdOf(uo[t]) = IdAt(t)
    BY <2>1, WorkIds
  <2>3. OthersOff(t, IdAt(t))
    BY <2>1, ContinueOff
  <2> HIDE DEF e
  <2>4. OnePerId'
    <3>1. \A f \in ordered : IdOf(f.uo) # IdOf(e.uo)
      BY <1>b, <2>1, <2>2 DEF NewOk
    <3> QED
      BY <1>2, <2>1, <3>1 DEF OnePerId
  <2>5. NewOk(t)'
    BY <2>1 DEF NewOk
  <2>6. ASSUME NEW s \in Thread \ {t} PROVE NewOk(s)'
    <3>1. uo[s] # None => uo[s] \in UserOp /\ IdOf(uo[s]) # IdOf(e.uo)
      BY <2>2, <2>3 DEF OthersOff
    <3>2. uo[s] # None => e.uo.hash # uo[s].hash
      BY <2>2, <3>1 DEF HashCoversId
    <3>3. Outbids(uo[s], entry[s])' <=> Outbids(uo[s], entry[s])
      BY <1>1 DEF Outbids, MinBump
    <3>4. NewOk(s)
      BY <1>2
    <3> QED
      BY <1>1, <2>1, <3>1, <3>2, <3>3, <3>4 DEF NewOk
  <2> QED
    BY <2>4, <2>5, <2>6
<1>12. ASSUME \/ \E h \in Hash : RemoveByHash(t, h)
              \/ \E i \in Id : RemoveById(t, i)
              \/ ClearHash(t)
       PROVE  OnePerId' /\ \A s \in Thread : NewOk(s)'
  <2>1. ordered' = ordered /\ uo' = uo /\ pc[t] = "idle"
    BY <1>12 DEF RemoveByHash, RemoveById, ClearHash
  <2>2. NewOk(t)'
    BY <1>5, <2>1 DEF NewOk
  <2> QED
    BY <1>4, <2>1, <2>2
<1>13. ASSUME RemoveHash(t) \/ RemoveId(t)
       PROVE  OnePerId' /\ \A s \in Thread : NewOk(s)'
  <2>1. /\ ordered' = ordered /\ uo' = uo /\ entry' = entry
        /\ pc'[t] \in {"remove_id", "remove_ordered"}
        /\ pc[t] \in {"remove_hash", "remove_id"}
    BY <1>13 DEF RemoveHash, RemoveId
  <2>2. Outbids(uo[t], entry[t])' <=> Outbids(uo[t], entry[t])
    BY <2>1 DEF Outbids, MinBump
  <2>3. NewOk(t)'
    BY <1>b, <2>1, <2>2 DEF NewOk
  <2> QED
    BY <1>4, <2>1, <2>3
<1>14. ASSUME RemoveOrdered(t) PROVE OnePerId' /\ \A s \in Thread : NewOk(s)'
  <2>1. /\ pc[t] = "remove_ordered" /\ pc'[t] = "count_down"
        /\ ordered' = ordered \ {entry[t]} /\ uo' = uo /\ entry' = entry
    BY <1>14 DEF RemoveOrdered
  <2>2. entry[t] \in ordered /\ entry[t] # None
    BY <2>1 DEF ApartInv, EntryInv
  <2>3. \A f \in ordered' : IdOf(f.uo) # IdOf(entry[t].uo)
    BY <1>2, <2>1, <2>2 DEF OnePerId
  <2>4. Outbids(uo[t], entry[t])' <=> Outbids(uo[t], entry[t])
    BY <2>1 DEF Outbids, MinBump
  <2>5. NewOk(t)'
    BY <1>b, <2>1, <2>2, <2>3, <2>4 DEF NewOk
  <2> QED
    BY <1>4, <2>1, <2>5
<1>15. ASSUME CountDown(t) PROVE OnePerId' /\ \A s \in Thread : NewOk(s)'
  <2>1. ordered' = ordered /\ pc[t] = "count_down"
    BY <1>15 DEF CountDown
  <2>2. CASE uo[t] = None
    <3>1. uo'[t] = None
      BY <1>15, <2>2 DEF CountDown
    <3> QED
      BY <1>4, <2>1, <3>1 DEF NewOk
  <2>3. CASE uo[t] # None
    <3>1. uo' = uo /\ entry' = entry /\ pc'[t] = "sender_check"
      BY <1>15, <2>3 DEF CountDown
    <3>2. Outbids(uo[t], entry[t])' <=> Outbids(uo[t], entry[t])
      BY <3>1 DEF Outbids, MinBump
    <3>3. NewOk(t)'
      BY <1>b, <2>1, <2>3, <3>1, <3>2 DEF NewOk
    <3> QED
      BY <1>4, <2>1, <3>3
  <2> QED
    BY <2>2, <2>3
<1>16. ASSUME ClearId(t) \/ ClearOrdered(t) \/ ClearCount(t)
       PROVE  OnePerId' /\ \A s \in Thread : NewOk(s)'
  <2>1. ordered' \subseteq ordered /\ uo' = uo /\ pc[t] \in ClearLabel
    BY <1>16 DEF ClearId, ClearOrdered, ClearCount
  <2>2. NewOk(t)'
    BY <1>5, <2>1 DEF NewOk
  <2> QED
    BY <1>4, <2>1, <2>2
<1> QED
  BY <1>6, <1>7, <1>8, <1>9, <1>10, <1>11, <1>12, <1>13, <1>14, <1>15, <1>16
  DEF Call, Continue

\* A step puts at most one entry into the order.
LEMMA OrderStaysFinite ==
  ASSUME IsFiniteSet(ordered), NEW t \in Thread, Call(t) \/ Continue(t)
  PROVE  IsFiniteSet(ordered')
<1>1. \/ ordered' = ordered \/ ordered' = ordered \cup {fresh[t]}
      \/ ordered' = ordered \ {entry[t]} \/ ordered' = {}
  <2>1. CASE Call(t)
    BY <2>1 DEF Call, Add, RemoveByHash, RemoveById, ClearHash, indexes
  <2>2. CASE \/ NoExisting(t) \/ ReplaceExisting(t) \/ ReplacementUnderpriced(t)
             \/ SenderLimitReached(t) \/ SenderCheck(t)
             \/ PoolFull(t) \/ SizeCheck(t) \/ TakeSequence(t)
    BY <2>2 DEF NoExisting, ReplaceExisting, ReplacementUnderpriced,
      SenderLimitReached, SenderCheck, PoolFull, SizeCheck, TakeSequence, indexes
  <2>3. CASE \/ InsertHash(t) \/ InsertId(t) \/ InsertOrdered(t) \/ CountUp(t)
             \/ RemoveHash(t) \/ RemoveId(t) \/ RemoveOrdered(t) \/ CountDown(t)
             \/ ClearId(t) \/ ClearOrdered(t) \/ ClearCount(t)
    BY <2>3 DEF InsertHash, InsertId, InsertOrdered, CountUp, RemoveHash,
      RemoveId, RemoveOrdered, CountDown, ClearId, ClearOrdered, ClearCount
  <2> QED
    BY <2>1, <2>2, <2>3 DEF Continue
<1>2. IsFiniteSet(ordered \cup {fresh[t]})
  BY FS_AddElement
<1>3. IsFiniteSet(ordered \ {entry[t]}) /\ IsFiniteSet({})
  BY FS_Subset, FS_EmptySet
<1> QED
  BY <1>1, <1>2, <1>3

\* The invariant is preserved as long as calls are apart.
LEMMA StepApartInv ==
  ASSUME HashCoversId, ApartInv, Apart, Apart', [Next]_vars
  PROVE  ApartInv'
<1>1. TypeOK'
  BY StepTypeOK DEF ApartInv
<1>2. CASE UNCHANGED vars
  <2>1. /\ by_hash' = by_hash /\ by_id' = by_id /\ ordered' = ordered
        /\ sender_count' = sender_count /\ pc' = pc /\ uo' = uo
        /\ entry' = entry /\ fresh' = fresh
    BY <1>2 DEF vars
  <2>2. HeldInv'
    BY <2>1, HeldKept
  <2>3. IsFiniteSet(ordered)' /\ EntryInv' /\ NewInv'
    BY <2>1 DEF ApartInv, EntryInv, NewInv, OnePerId, Outbids, MinBump
  <2> QED
    BY <1>1, <2>2, <2>3 DEF ApartInv
<1>3. CASE Next
  <2>1. PICK t \in Thread : Call(t) \/ Continue(t)
    BY <1>3 DEF Next
  <2>2. IsFiniteSet(ordered)'
    BY <2>1, OrderStaysFinite DEF ApartInv
  <2> QED
    BY <1>1, <2>1, <2>2, StepHeldInv, StepEntryApart, StepNewApart DEF ApartInv
<1> QED
  BY <1>2, <1>3

\* Overlapping calls that are about different ids leave the indexes in
\* agreement and one entry for an id: what PoolIndexRace finds takes two
\* calls for the same (sender, nonce).
THEOREM ApartCallsAgree ==
  ASSUME HashCoversId
  PROVE  Spec /\ []Apart => [](IndexAgreement /\ OneOperationPerId)
<1>1. Init => ApartInv
  BY InitApartInv
<1>2. ApartInv /\ Apart /\ Apart' /\ [Next]_vars => ApartInv'
  BY StepApartInv
<1>3. ApartInv => IndexAgreement /\ OneOperationPerId
  <2> SUFFICES ASSUME ApartInv, Quiescent
               PROVE  /\ {by_hash[h] : h \in Hash} \ {None} = ordered
                      /\ {by_id[i] : i \in Id} \ {None} = ordered
                      /\ \A s \in Sender :
                           sender_count[s] = Cardinality({e \in ordered : e.uo.sender = s})
                      /\ OnePerId
    BY DEF IndexAgreement, OneOperationPerId, OnePerId
  <2>1. \A L : "idle" \notin L => At(L) = {}
    BY DEF Quiescent, At
  <2>2. HashHeld = ordered /\ IdHeld = ordered /\ CountHeld = ordered
    BY <2>1 DEF HashHeld, IdHeld, CountHeld
  <2>3. ByHashIs(ordered) /\ ByIdIs(ordered) /\ CountIs(ordered)
    BY <2>1, <2>2 DEF ApartInv, HeldInv, ClearLabel
  <2>4. \A e \in ordered : e # None /\ e.uo.hash \in Hash /\ IdOf(e.uo) \in Id
    BY EntryFields DEF ApartInv, TypeOK
  <2>5. OnePerId
    BY DEF ApartInv, NewInv
  <2> QED
    BY <2>3, <2>4, <2>5 DEF ByHashIs, ByIdIs, CountIs, OfSender
<1> QED
  BY <1>1, <1>2, <1>3, PTL DEF Spec

=============================================================================
