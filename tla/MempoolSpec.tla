---------------------------- MODULE MempoolSpec ----------------------------
(***************************************************************************)
(* What crates/pool promises its users: a set of user operations with at   *)
(* most one operation per (sender, nonce), a size limit, a limit per       *)
(* sender, and replacement only by an operation that pays the fee bump.    *)
(* Every operation of the pool is one atomic step.  OperationPool is shown *)
(* to implement this specification when its calls do not overlap.          *)
(***************************************************************************)
EXTENDS Integers, FiniteSets

CONSTANTS
  UserOp,                 \* the operations clients may submit
  MaxSize,                \* PoolConfig::max_size
  MaxOpsPerSender,        \* PoolConfig::max_ops_per_sender
  ReplacementFeeBumpBps   \* PoolConfig::replacement_fee_bump_bps

VARIABLE ops              \* the operations in the mempool

SameId(a, b) ==
  /\ a.sender = b.sender
  /\ a.nonce_key = b.nonce_key
  /\ a.nonce_sequence = b.nonce_sequence

OfSender(s) == {u \in ops : u.sender = s}

Init == ops = {}

Insert(u) ==
  /\ \A v \in ops : ~SameId(u, v)
  /\ Cardinality(ops) < MaxSize
  /\ Cardinality(OfSender(u.sender)) < MaxOpsPerSender
  /\ ops' = ops \cup {u}

Replace(old, u) ==
  /\ SameId(old, u)
  /\ old # u
  /\ u.max_fee_per_gas >=
       old.max_fee_per_gas
         + (old.max_fee_per_gas * ReplacementFeeBumpBps) \div 10000
  /\ ops' = (ops \ {old}) \cup {u}

Remove(u) == ops' = ops \ {u}

Clear == ops' = {}

Next ==
  \/ \E u \in UserOp : Insert(u)
  \/ \E old \in ops, u \in UserOp : Replace(old, u)
  \/ \E u \in ops : Remove(u)
  \/ Clear

Spec == Init /\ [][Next]_ops

=============================================================================
