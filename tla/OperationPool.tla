--------------------------- MODULE OperationPool ---------------------------
(***************************************************************************)
(* crates/pool/src/pool.rs: the mempool.  OperationPool keeps four indexes *)
(* and a counter, each behind its own RwLock, and never holds two locks at *)
(* once: a call is a sequence of critical sections, and the calls of       *)
(* different threads interleave between them.  Every critical section that *)
(* reads or writes an index is one action; code between two of them (which *)
(* touches only the caller's locals) belongs to the action before it.      *)
(***************************************************************************)
EXTENDS Integers, FiniteSets

CONSTANTS
  Thread,                 \* callers: RPC handlers, bundler task, watcher
  UserOp,                 \* operations clients may submit (records)
  BaseFee,                \* base fees the RPC layer may pass to add
  MaxSize,                \* PoolConfig::max_size
  MaxOpsPerSender,        \* PoolConfig::max_ops_per_sender
  ReplacementFeeBumpBps,  \* PoolConfig::replacement_fee_bump_bps
  MaxSequence,            \* u64::MAX, scaled: next_sequence saturates here
  FeeModulus,             \* 2^128, scaled: fee arithmetic wraps here
  None                    \* absence of an entry or of an operation

Sender == {u.sender : u \in UserOp}
Hash   == {u.hash : u \in UserOp}

\* UserOperationId: sender and nonce (192-bit key, 64-bit sequence)
IdOf(u) == [sender |-> u.sender, nonce_key |-> u.nonce_key,
            nonce_sequence |-> u.nonce_sequence]
Id == {IdOf(u) : u \in UserOp}

\* GasFees::effective_gas_price: min(max_fee, base_fee + priority), in u128
EffectiveGasPrice(u, base_fee) ==
  LET offered == (base_fee + u.max_priority_fee_per_gas) % FeeModulus
  IN  IF u.max_fee_per_gas <= offered THEN u.max_fee_per_gas ELSE offered

\* PoolEntry: hash and id are functions of uo
NewPoolEntry(u, base_fee, s) ==
  [uo |-> u, submit_gas_price |-> EffectiveGasPrice(u, base_fee),
   sequence |-> s]

Entry == [uo : UserOp, submit_gas_price : Nat, sequence : 0..MaxSequence]

ASSUME PoolConstants ==
  /\ IsFiniteSet(Thread) /\ Thread # {}
  /\ IsFiniteSet(UserOp)
  /\ \A u \in UserOp : /\ u.max_fee_per_gas \in Nat
                       /\ u.max_priority_fee_per_gas \in Nat
  /\ BaseFee \subseteq Nat
  /\ MaxSize \in Nat
  /\ MaxOpsPerSender \in Nat
  /\ MaxSequence \in Nat
  /\ FeeModulus \in Nat \ {0}
  /\ None \notin Entry /\ None \notin UserOp

VARIABLES
  by_hash,        \* HashMap<B256, Arc<PoolEntry>>, None where absent
  by_id,          \* HashMap<UserOperationId, Arc<PoolEntry>>
  ordered,        \* BTreeSet<OrderEntry>
  sender_count,   \* HashMap<Address, usize>, 0 where absent
  next_sequence,  \* u64
  pc,             \* where each caller is in its call
  uo,             \* add's operation; None in the other calls
  entry,          \* the entry remove_inner works on; None if there is none
  fresh           \* the entry add is inserting; None before it exists

indexes == <<by_hash, by_id, ordered, sender_count, next_sequence>>
locals  == <<uo, entry, fresh>>
vars    == <<by_hash, by_id, ordered, sender_count, next_sequence,
             pc, uo, entry, fresh>>

RemoveLabel == {"remove_hash", "remove_id", "remove_ordered", "count_down"}
AddLabel    == {"id_lookup", "sender_check", "size_check", "take_sequence",
                "insert_hash", "insert_id", "insert_ordered", "count_up"}
ClearLabel  == {"clear_id", "clear_ordered", "clear_count"}
Label       == {"idle"} \cup RemoveLabel \cup AddLabel \cup ClearLabel

Goto(t, label) == pc' = [pc EXCEPT ![t] = label]

\* The call of t ends, successfully or not.
Return(t) ==
  /\ Goto(t, "idle")
  /\ uo'    = [uo EXCEPT ![t] = None]
  /\ entry' = [entry EXCEPT ![t] = None]
  /\ fresh' = [fresh EXCEPT ![t] = None]

Size == Cardinality({h \in Hash : by_hash[h] # None})

\* existing_fee + existing_fee * bps / 10000, in u128 (release arithmetic)
MinBump(existing_fee) ==
  (existing_fee + ((existing_fee * ReplacementFeeBumpBps) % FeeModulus)
                     \div 10000) % FeeModulus

Init ==
  /\ by_hash = [h \in Hash |-> None]
  /\ by_id = [i \in Id |-> None]
  /\ ordered = {}
  /\ sender_count = [s \in Sender |-> 0]
  /\ next_sequence = 0
  /\ pc = [t \in Thread |-> "idle"]
  /\ uo = [t \in Thread |-> None]
  /\ entry = [t \in Thread |-> None]
  /\ fresh = [t \in Thread |-> None]

-----------------------------------------------------------------------------
(* add                                                                     *)

\* A known hash is refused at once (AlreadyKnown), which changes nothing.
Add(t, u) ==
  /\ pc[t] = "idle"
  /\ by_hash[u.hash] = None
  /\ Goto(t, "id_lookup")
  /\ uo' = [uo EXCEPT ![t] = u]
  /\ UNCHANGED <<indexes, entry, fresh>>

NoExisting(t) ==
  /\ pc[t] = "id_lookup"
  /\ by_id[IdOf(uo[t])] = None
  /\ Goto(t, "sender_check")
  /\ UNCHANGED <<indexes, locals>>

Outbids(u, existing) == u.max_fee_per_gas >= MinBump(existing.uo.max_fee_per_gas)

ReplaceExisting(t) ==
  /\ pc[t] = "id_lookup"
  /\ by_id[IdOf(uo[t])] # None
  /\ Outbids(uo[t], by_id[IdOf(uo[t])])
  /\ entry' = [entry EXCEPT ![t] = by_id[IdOf(uo[t])]]
  /\ Goto(t, "remove_hash")
  /\ UNCHANGED <<indexes, uo, fresh>>

ReplacementUnderpriced(t) ==
  /\ pc[t] = "id_lookup"
  /\ by_id[IdOf(uo[t])] # None
  /\ ~Outbids(uo[t], by_id[IdOf(uo[t])])
  /\ Return(t)
  /\ UNCHANGED indexes

\* Mutant of SenderLimitReached: the limit leaves no room for a replacement.
SenderLimitReached_Early(t) ==
  /\ pc[t] = "sender_check"
  /\ sender_count[uo[t].sender] + 1 >= MaxOpsPerSender
  /\ Return(t)
  /\ UNCHANGED indexes

SenderLimitReached(t) ==
  /\ pc[t] = "sender_check"
  /\ sender_count[uo[t].sender] >= MaxOpsPerSender
  /\ Return(t)
  /\ UNCHANGED indexes

\* Mutant of SenderCheck: <= for <.
SenderCheck_OffByOne(t) ==
  /\ pc[t] = "sender_check"
  /\ sender_count[uo[t].sender] <= MaxOpsPerSender
  /\ Goto(t, "size_check")
  /\ UNCHANGED <<indexes, locals>>

SenderCheck(t) ==
  /\ pc[t] = "sender_check"
  /\ sender_count[uo[t].sender] < MaxOpsPerSender
  /\ Goto(t, "size_check")
  /\ UNCHANGED <<indexes, locals>>

PoolFull(t) ==
  /\ pc[t] = "size_check"
  /\ Size >= MaxSize
  /\ Return(t)
  /\ UNCHANGED indexes

SizeCheck(t) ==
  /\ pc[t] = "size_check"
  /\ Size < MaxSize
  /\ Goto(t, "take_sequence")
  /\ UNCHANGED <<indexes, locals>>

\* Mutant of TakeSequence: the sequence is read and never advanced.
TakeSequence_NotAdvanced(t) ==
  /\ pc[t] = "take_sequence"
  /\ \E base_fee \in BaseFee :
       fresh' = [fresh EXCEPT
                   ![t] = NewPoolEntry(uo[t], base_fee, next_sequence)]
  /\ Goto(t, "insert_hash")
  /\ UNCHANGED <<by_hash, by_id, ordered, sender_count, next_sequence,
                 uo, entry>>

\* saturating_add(1); base_fee, add's other argument, is first used here
TakeSequence(t) ==
  /\ pc[t] = "take_sequence"
  /\ next_sequence' = IF next_sequence < MaxSequence
                        THEN next_sequence + 1 ELSE next_sequence
  /\ \E base_fee \in BaseFee :
       fresh' = [fresh EXCEPT
                   ![t] = NewPoolEntry(uo[t], base_fee, next_sequence)]
  /\ Goto(t, "insert_hash")
  /\ UNCHANGED <<by_hash, by_id, ordered, sender_count, uo, entry>>

InsertHash(t) ==
  /\ pc[t] = "insert_hash"
  /\ by_hash' = [by_hash EXCEPT ![uo[t].hash] = fresh[t]]
  /\ Goto(t, "insert_id")
  /\ UNCHANGED <<by_id, ordered, sender_count, next_sequence, locals>>

InsertId(t) ==
  /\ pc[t] = "insert_id"
  /\ by_id' = [by_id EXCEPT ![IdOf(uo[t])] = fresh[t]]
  /\ Goto(t, "insert_ordered")
  /\ UNCHANGED <<by_hash, ordered, sender_count, next_sequence, locals>>

InsertOrdered(t) ==
  /\ pc[t] = "insert_ordered"
  /\ ordered' = ordered \cup {fresh[t]}
  /\ Goto(t, "count_up")
  /\ UNCHANGED <<by_hash, by_id, sender_count, next_sequence, locals>>

CountUp(t) ==
  /\ pc[t] = "count_up"
  /\ sender_count' = [sender_count EXCEPT ![uo[t].sender] = @ + 1]
  /\ Return(t)
  /\ UNCHANGED <<by_hash, by_id, ordered, next_sequence>>

-----------------------------------------------------------------------------
(* remove_by_hash, remove_by_id and remove_inner.  A removal of something  *)
(* that is not there returns None at once and changes nothing.             *)

RemoveByHash(t, h) ==
  /\ pc[t] = "idle"
  /\ by_hash[h] # None
  /\ entry' = [entry EXCEPT ![t] = by_hash[h]]
  /\ Goto(t, "remove_hash")
  /\ UNCHANGED <<indexes, uo, fresh>>

RemoveById(t, i) ==
  /\ pc[t] = "idle"
  /\ by_id[i] # None
  /\ entry' = [entry EXCEPT ![t] = by_id[i]]
  /\ Goto(t, "remove_hash")
  /\ UNCHANGED <<indexes, uo, fresh>>

RemoveHash(t) ==
  /\ pc[t] = "remove_hash"
  /\ by_hash' = [by_hash EXCEPT ![entry[t].uo.hash] = None]
  /\ Goto(t, "remove_id")
  /\ UNCHANGED <<by_id, ordered, sender_count, next_sequence, locals>>

RemoveId(t) ==
  /\ pc[t] = "remove_id"
  /\ by_id' = [by_id EXCEPT ![IdOf(entry[t].uo)] = None]
  /\ Goto(t, "remove_ordered")
  /\ UNCHANGED <<by_hash, ordered, sender_count, next_sequence, locals>>

\* Mutant of RemoveOrdered: the removal from the order is forgotten.
RemoveOrdered_Forgotten(t) ==
  /\ pc[t] = "remove_ordered"
  /\ Goto(t, "count_down")
  /\ UNCHANGED <<indexes, locals>>

RemoveOrdered(t) ==
  /\ pc[t] = "remove_ordered"
  /\ ordered' = ordered \ {entry[t]}
  /\ Goto(t, "count_down")
  /\ UNCHANGED <<by_hash, by_id, sender_count, next_sequence, locals>>

\* saturating_sub(1), and a count of zero leaves the map; add goes on
CountDown(t) ==
  /\ pc[t] = "count_down"
  /\ sender_count' = [sender_count EXCEPT
                        ![entry[t].uo.sender] = IF @ > 0 THEN @ - 1 ELSE 0]
  /\ \/ uo[t] = None /\ Return(t)
     \/ uo[t] # None /\ Goto(t, "sender_check") /\ UNCHANGED locals
  /\ UNCHANGED <<by_hash, by_id, ordered, next_sequence>>

-----------------------------------------------------------------------------
(* clear                                                                   *)

ClearHash(t) ==
  /\ pc[t] = "idle"
  /\ by_hash' = [h \in Hash |-> None]
  /\ Goto(t, "clear_id")
  /\ UNCHANGED <<by_id, ordered, sender_count, next_sequence, locals>>

ClearId(t) ==
  /\ pc[t] = "clear_id"
  /\ by_id' = [i \in Id |-> None]
  /\ Goto(t, "clear_ordered")
  /\ UNCHANGED <<by_hash, ordered, sender_count, next_sequence, locals>>

ClearOrdered(t) ==
  /\ pc[t] = "clear_ordered"
  /\ ordered' = {}
  /\ Goto(t, "clear_count")
  /\ UNCHANGED <<by_hash, by_id, sender_count, next_sequence, locals>>

ClearCount(t) ==
  /\ pc[t] = "clear_count"
  /\ sender_count' = [s \in Sender |-> 0]
  /\ Goto(t, "idle")
  /\ UNCHANGED <<by_hash, by_id, ordered, next_sequence, locals>>

-----------------------------------------------------------------------------

Call(t) ==
  \/ \E u \in UserOp : Add(t, u)
  \/ \E h \in Hash : RemoveByHash(t, h)
  \/ \E i \in Id : RemoveById(t, i)
  \/ ClearHash(t)

Continue(t) ==
  \/ NoExisting(t) \/ ReplaceExisting(t) \/ ReplacementUnderpriced(t)
  \/ SenderLimitReached(t) \/ SenderCheck(t)
  \/ PoolFull(t) \/ SizeCheck(t)
  \/ TakeSequence(t)
  \/ InsertHash(t) \/ InsertId(t) \/ InsertOrdered(t) \/ CountUp(t)
  \/ RemoveHash(t) \/ RemoveId(t) \/ RemoveOrdered(t) \/ CountDown(t)
  \/ ClearId(t) \/ ClearOrdered(t) \/ ClearCount(t)

Next == \E t \in Thread : Call(t) \/ Continue(t)

Spec == Init /\ [][Next]_vars

-----------------------------------------------------------------------------
(* Properties                                                              *)

Quiescent == \A t \in Thread : pc[t] = "idle"

\* The operations the pool holds, a replacement counted as one step: while
\* add has taken the old operation out and not yet put the new one in, the
\* pool still stands for the old one.
Replacing(t) ==
  /\ uo[t] # None
  /\ entry[t] # None
  /\ pc[t] \in {"count_down", "sender_check", "size_check", "take_sequence",
                "insert_hash", "insert_id", "insert_ordered"}

Contents == {e.uo : e \in ordered}
              \cup {entry[t].uo : t \in {r \in Thread : Replacing(r)}}

\* Every variable of the pool, and every local of a call in pool.rs, keeps
\* its type, and the locals a label reads are set when it is reached.
TypeOK ==
  /\ by_hash \in [Hash -> Entry \cup {None}]
  /\ by_id \in [Id -> Entry \cup {None}]
  /\ ordered \subseteq Entry
  /\ sender_count \in [Sender -> Nat]
  /\ next_sequence \in 0..MaxSequence
  /\ pc \in [Thread -> Label]
  /\ uo \in [Thread -> UserOp \cup {None}]
  /\ entry \in [Thread -> Entry \cup {None}]
  /\ fresh \in [Thread -> Entry \cup {None}]
  /\ \A t \in Thread :
       /\ pc[t] \in AddLabel => uo[t] # None
       /\ pc[t] \in RemoveLabel => entry[t] # None
       /\ pc[t] \in {"insert_hash", "insert_id", "insert_ordered"}
            => fresh[t] # None /\ fresh[t].uo = uo[t]

\* Between calls the four indexes of OperationPool describe one set of
\* operations: add, remove_inner and clear change all of them or none.
IndexAgreement ==
  Quiescent =>
    /\ {by_hash[h] : h \in Hash} \ {None} = ordered
    /\ {by_id[i] : i \in Id} \ {None} = ordered
    /\ \A s \in Sender :
         sender_count[s] = Cardinality({e \in ordered : e.uo.sender = s})

\* The pool implements the atomic mempool: whatever its calls do to the
\* indexes amounts to inserting, replacing, removing or clearing.
Mempool == INSTANCE MempoolSpec WITH ops <- Contents
ImplementsMempool == Mempool!Spec

\* An add that fails on the sender limit or on the pool size has not already
\* taken out the operation it meant to replace (pool.rs removes first and
\* checks the limits afterwards).
FailedAddDisplacesNothing ==
  [][\A t \in Thread :
       SenderLimitReached(t) \/ PoolFull(t) => entry[t] = None]_vars

\* The size check of add and its insertion are two critical sections, so
\* calls that overlap can exceed max_size, but only by the number of other
\* callers; a single caller never exceeds it.
SizeWithinOvershoot ==
  Size <= MaxSize + Cardinality(Thread) - 1

\* The same for the per-sender counter, whose check and increment are six
\* critical sections apart.
SenderCountWithinOvershoot ==
  \A s \in Sender :
    sender_count[s] <= MaxOpsPerSender + Cardinality(Thread) - 1

\* However calls of add overlap, both limits hold but for the callers that
\* are between check and insertion.
LimitsWithinOvershoot == SizeWithinOvershoot /\ SenderCountWithinOvershoot

\* Two entries of the order never share a sequence number, whatever the
\* interleaving of adds, so the FIFO tie-break of OrderEntry::cmp is strict
\* until the counter saturates.
SequenceUnique ==
  \A e, f \in ordered :
    e.sequence = f.sequence => e = f \/ e.sequence = MaxSequence

\* UserOperationId: "When a new UO arrives with the same (sender, nonce) pair,
\* it replaces the existing one": between calls the order that bundles are
\* built from holds one operation for an id.
OneOperationPerId ==
  Quiescent => \A e, f \in ordered : IdOf(e.uo) = IdOf(f.uo) => e = f

=============================================================================
