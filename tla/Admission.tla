----------------------------- MODULE Admission -----------------------------
(***************************************************************************)
(* The way of an operation into the pool: send_user_operation of           *)
(* crates/rpc/src/eth.rs, which runs on every RPC thread at once, through  *)
(* the Validator (crates/pool/src/validation.rs) and the ReputationManager *)
(* (reputation.rs) to OperationPool::add.  The validator reads the pool    *)
(* and the reputations under locks it gives up at once, so all it found    *)
(* may be stale when the operation is added.  The pool is MempoolSpec: its *)
(* calls are atomic here.                                                  *)
(***************************************************************************)
EXTENDS Integers, Sequences, FiniteSets, SequencesExt, FiniteSetsExt

CONSTANTS
  Thread,                 \* RPC threads
  UserOp,                 \* operations; .entities is a sequence
  MaxSize, MaxOpsPerSender, ReplacementFeeBumpBps,   \* PoolConfig
  SequenceModulus,        \* 2^64, scaled: the nonce sequence wraps here
  MaxTransactionSize,     \* ChainSpec::max_transaction_size_bytes
  MinPriority,            \* ChainSpec::min_max_priority_fee_per_gas
  BaseFee,                \* EthApiImpl::base_fee, 0: set_base_fee has no caller
  MinOpsForThrottle,      \* ReputationConfig::min_ops_for_throttle
  ThrottleDenominator,    \* throttle_threshold = 1 / ThrottleDenominator
  BanDenominator,         \* ban_threshold = 1 / BanDenominator
  MaxSubmissions,         \* bound: submissions
  MaxDecays,              \* bound: runs of hourly_decay
  ZeroAddress, None

Entity == UNION {ToSet(u.entities) : u \in UserOp}

ASSUME AdmissionConstants ==
  /\ IsFiniteSet(Thread) /\ IsFiniteSet(UserOp)
  /\ {MaxSize, MaxOpsPerSender, MaxTransactionSize, MinPriority, BaseFee,
      MinOpsForThrottle, MaxSubmissions, MaxDecays}
       \subseteq Nat
  /\ {SequenceModulus, ThrottleDenominator, BanDenominator} \subseteq Nat \ {0}
  /\ \A u \in UserOp : /\ u.nonce_sequence \in 0..SequenceModulus-1
                       /\ u.entities \in Seq(Entity) \ {<<>>}
  /\ None \notin UserOp

VARIABLES
  pool,         \* the operations in the mempool
  seen,         \* ReputationEntry::ops_seen, 0 where there is no entry
  included,     \* ReputationEntry::ops_included
  pc, uo, step, \* each thread: where it is, its operation, its loop index
  crediting,    \* the watcher's loop: entities still to be credited
  submissions, decays,
  validated,    \* history: times each operation passed the validator
  removed,      \* history: <<sender, key>> an operation was removed from
  credited      \* history: entities record_included was called on

request == <<pc, uo, step>>
bounds  == <<submissions, decays>>
history == <<validated, removed, credited>>
vars    == <<pool, seen, included, pc, uo, step, crediting, submissions,
             decays, validated, removed, credited>>

Mempool == INSTANCE MempoolSpec WITH ops <- pool

Key(u) == <<u.sender, u.nonce_key>>

Init ==
  /\ Mempool!Init
  /\ seen = [e \in Entity |-> 0] /\ included = [e \in Entity |-> 0]
  /\ pc = [t \in Thread |-> "idle"]
  /\ uo = [t \in Thread |-> None] /\ step = [t \in Thread |-> 1]
  /\ crediting = <<>>
  /\ submissions = 0 /\ decays = 0
  /\ validated = [u \in UserOp |-> 0] /\ removed = {} /\ credited = {}

Goto(t, label) == pc' = [pc EXCEPT ![t] = label] /\ UNCHANGED <<uo, step>>
Loop(t, label) ==
  /\ pc' = [pc EXCEPT ![t] = label]
  /\ step' = [step EXCEPT ![t] = 1]
  /\ UNCHANGED uo
NextEntity(t) == step' = [step EXCEPT ![t] = @ + 1] /\ UNCHANGED <<pc, uo>>

\* The request is answered: a hash, or an error.
Respond(t) ==
  /\ pc' = [pc EXCEPT ![t] = "idle"]
  /\ uo' = [uo EXCEPT ![t] = None]
  /\ step' = [step EXCEPT ![t] = 1]

-----------------------------------------------------------------------------
(* One request                                                             *)

\* validate_static_fields
ValidStaticFields(u) ==
  /\ u.sender # ZeroAddress
  /\ 0 \notin {u.verification_gas_limit, u.max_fee_per_gas, u.pre_verification_gas}
  /\ u.max_priority_fee_per_gas <= u.max_fee_per_gas
  /\ u.call_data_size <= MaxTransactionSize

\* validate_gas_price: GasFees::covers
CoversGasPrice(u) ==
  /\ u.max_fee_per_gas >= BaseFee + MinPriority
  /\ u.max_priority_fee_per_gas >= MinPriority

\* validate_sync looks at the operation's own fields before it reads the
\* pool or a reputation, and refuses it at once.
SendUserOperation(t, u) ==
  /\ pc[t] = "idle"
  /\ submissions < MaxSubmissions
  /\ submissions' = submissions + 1
  /\ IF ValidStaticFields(u) /\ CoversGasPrice(u)
       THEN /\ pc' = [pc EXCEPT ![t] = "known_id"]
            /\ uo' = [uo EXCEPT ![t] = u]
       ELSE UNCHANGED <<pc, uo>>
  /\ UNCHANGED <<pool, seen, included, step, crediting, decays, history>>

\* validate_nonce, get_by_id: a replacement is let through
LookUpId(t) ==
  /\ pc[t] = "known_id"
  /\ IF \E v \in pool : Mempool!SameId(v, uo[t])
       THEN Loop(t, "check") ELSE Goto(t, "max_sequence")
  /\ UNCHANGED <<pool, seen, included, crediting, bounds, history>>

\* OperationPool::max_nonce_sequence, over the operations of u's key
Sequences(u) == {v.nonce_sequence : v \in {w \in pool : Key(w) = Key(u)}}

\* Mutant of InSequence: any later sequence will do.
InSequence_Later(u) ==
  Sequences(u) # {} => u.nonce_sequence > Max(Sequences(u))

\* max_seq + 1 wraps at u64::MAX in a release build
InSequence(u) ==
  Sequences(u) # {} =>
    u.nonce_sequence = (Max(Sequences(u)) + 1) % SequenceModulus

CheckSequence(t) ==
  /\ pc[t] = "max_sequence"
  /\ IF InSequence(uo[t]) THEN Loop(t, "check") ELSE Respond(t)
  /\ UNCHANGED <<pool, seen, included, crediting, bounds, history>>

\* Mutant of Status: >= for >.
Status_OffByOne(e) ==
  IF seen[e] = 0 \/ seen[e] <= MinOpsForThrottle + 1 THEN "Ok"
  ELSE IF included[e] * BanDenominator < seen[e] THEN "Banned"
  ELSE IF included[e] * ThrottleDenominator < seen[e] THEN "Throttled"
  ELSE "Ok"

\* ReputationEntry::status; the ratio of two counters compared with 1/n
Status(e) ==
  IF seen[e] <= MinOpsForThrottle THEN "Ok"
  ELSE IF included[e] * BanDenominator < seen[e] THEN "Banned"
  ELSE IF included[e] * ThrottleDenominator < seen[e] THEN "Throttled"
  ELSE "Ok"

Current(t) == uo[t].entities[step[t]]
AtLast(t)  == step[t] = Len(uo[t].entities)

\* Mutant of CheckEntity: one loop that checks and records.
CheckEntity_Records(t) ==
  /\ pc[t] = "check"
  /\ \/ Status(Current(t)) # "Ok" /\ Respond(t) /\ UNCHANGED <<seen, validated>>
     \/ /\ Status(Current(t)) = "Ok"
        /\ seen' = [seen EXCEPT ![Current(t)] = @ + 1]
        /\ IF AtLast(t)
             THEN Loop(t, "add") /\ validated' = [validated EXCEPT ![uo[t]] = @ + 1]
             ELSE NextEntity(t) /\ UNCHANGED validated
  /\ UNCHANGED <<pool, included, crediting, bounds, removed, credited>>

\* validate_reputation, first loop: anything but Ok refuses the operation
CheckEntity(t) ==
  /\ pc[t] = "check"
  /\ \/ Status(Current(t)) # "Ok" /\ Respond(t) /\ UNCHANGED validated
     \/ Status(Current(t)) = "Ok" /\ ~AtLast(t) /\ NextEntity(t)
          /\ UNCHANGED validated
     \/ Status(Current(t)) = "Ok" /\ AtLast(t) /\ Loop(t, "seen")
          /\ validated' = [validated EXCEPT ![uo[t]] = @ + 1]
  /\ UNCHANGED <<pool, seen, included, crediting, bounds, removed, credited>>

\* Mutant of RecordSeen: the loop runs past the last entity.
RecordSeen_TooFar(t) ==
  /\ pc[t] = "seen"
  /\ seen' = [seen EXCEPT ![Current(t)] = @ + 1]
  /\ IF step[t] > Len(uo[t].entities) THEN Loop(t, "add") ELSE NextEntity(t)
  /\ UNCHANGED <<pool, included, crediting, bounds, history>>

\* validate_reputation, second loop: record_seen, one lock per entity
RecordSeen(t) ==
  /\ pc[t] = "seen"
  /\ seen' = [seen EXCEPT ![Current(t)] = @ + 1]
  /\ IF AtLast(t) THEN Loop(t, "add") ELSE NextEntity(t)
  /\ UNCHANGED <<pool, included, crediting, bounds, history>>

CanAdd(u) ==
  \/ ENABLED Mempool!Insert(u)
  \/ \E old \in pool : ENABLED Mempool!Replace(old, u)

\* OperationPool::add accepts or replaces, or refuses and changes nothing.
AddToPool(t) ==
  /\ pc[t] = "add"
  /\ \/ Mempool!Insert(uo[t])
     \/ \E old \in pool : Mempool!Replace(old, uo[t])
     \/ ~CanAdd(uo[t]) /\ UNCHANGED pool
  /\ Respond(t)
  /\ UNCHANGED <<seen, included, crediting, bounds, history>>

-----------------------------------------------------------------------------
(* Those who take operations out                                           *)

\* The bundler task removes what it sent or what a simulation blamed.
BundlerRemoves(u) ==
  /\ u \in pool
  /\ Mempool!Remove(u)
  /\ removed' = removed \cup {Key(u)}
  /\ UNCHANGED <<seen, included, request, crediting, bounds, validated,
                 credited>>

\* scan_user_op_events: a mined operation that the pool still holds
WatcherRemoves(u) ==
  /\ crediting = <<>>
  /\ u \in pool
  /\ Mempool!Remove(u)
  /\ removed' = removed \cup {Key(u)}
  /\ crediting' = u.entities
  /\ UNCHANGED <<seen, included, request, bounds, validated, credited>>

RecordIncluded ==
  /\ crediting # <<>>
  /\ included' = [included EXCEPT ![Head(crediting)] = @ + 1]
  /\ credited' = credited \cup {Head(crediting)}
  /\ crediting' = Tail(crediting)
  /\ UNCHANGED <<pool, seen, request, bounds, validated, removed>>

\* Mutant of HourlyDecay: ops_seen is left as it is.
HourlyDecay_IncludedOnly ==
  /\ decays < MaxDecays
  /\ decays' = decays + 1
  /\ included' = [e \in Entity |-> (included[e] * 23) \div 24]
  /\ UNCHANGED <<pool, seen, request, crediting, submissions, history>>

\* hourly_decay, under the one lock of the reputations
HourlyDecay ==
  /\ decays < MaxDecays
  /\ decays' = decays + 1
  /\ seen' = [e \in Entity |-> (seen[e] * 23) \div 24]
  /\ included' = [e \in Entity |-> (included[e] * 23) \div 24]
  /\ UNCHANGED <<pool, request, crediting, submissions, history>>

-----------------------------------------------------------------------------

Request(t) ==
  \/ \E u \in UserOp : SendUserOperation(t, u)
  \/ LookUpId(t) \/ CheckSequence(t)
  \/ CheckEntity(t) \/ RecordSeen(t) \/ AddToPool(t)

Next ==
  \/ \E t \in Thread : Request(t)
  \/ \E u \in UserOp : BundlerRemoves(u) \/ WatcherRemoves(u)
  \/ RecordIncluded
  \/ HourlyDecay

Spec == Init /\ [][Next]_vars

-----------------------------------------------------------------------------
(* Properties                                                              *)

\* Where entities() of u names e: a contract may be both factory and
\* paymaster, and is then recorded twice.
MentionsOf(u, e) == {i \in DOMAIN u.entities : u.entities[i] = e}
Mentions(u, e)   == Cardinality(MentionsOf(u, e))

\* Every mention of e, each time its operation passed the validator.
Recordings(e) ==
  UNION {{u} \X (MentionsOf(u, e) \X (1..validated[u])) : u \in UserOp}

\* The counters and the locals of the handler keep their types, and a loop
\* over entities() stays inside it.
TypeOK ==
  /\ pool \subseteq UserOp
  /\ seen \in [Entity -> Nat] /\ included \in [Entity -> Nat]
  /\ pc \in [Thread -> {"idle", "known_id", "max_sequence", "check", "seen",
                        "add"}]
  /\ uo \in [Thread -> UserOp \cup {None}]
  /\ \A t \in Thread :
       /\ pc[t] # "idle" <=> uo[t] # None
       /\ pc[t] # "idle" => step[t] \in DOMAIN uo[t].entities
  /\ crediting \in Seq(Entity)
  /\ validated \in [UserOp -> Nat]

\* Operations of a key that start a run of consecutive sequences
RunStarts(k) ==
  {u \in pool :
     /\ Key(u) = k
     /\ \A v \in pool : Key(v) = k =>
          u.nonce_sequence # (v.nonce_sequence + 1) % SequenceModulus}

\* validate_nonce keeps the sequences of a (sender, key) consecutive, except
\* that threads which found the key empty at the same time may each start a
\* run of their own: never more runs than threads while nothing is removed.
NonceRunsBounded ==
  \A u \in UserOp :
    Key(u) \notin removed =>
      Cardinality(RunStarts(Key(u))) <= Cardinality(Thread)

\* Checking and recording are apart in validate_reputation, so threads that
\* overlap can take an entity past the threshold, but only by what each of
\* them records once: no entity that was never credited is seen more often.
SeenWithinOvershoot ==
  \A e \in Entity \ credited :
    seen[e] <= MinOpsForThrottle
                 + Cardinality(Thread) * Max({Mentions(u, e) : u \in UserOp})

\* The counters of the reputations add up.  An operation refused for one of
\* its entities counts against none of them: when no thread is recording,
\* ops_seen is the number of mentions in the operations that passed the
\* validator, added to the pool or not.  An operation is credited once at
\* most, by whoever takes it out of the pool, and only after it was seen.
CountersAddUp ==
  decays = 0 =>
    /\ \A e \in Entity : included[e] <= seen[e]
    /\ (\A t \in Thread : pc[t] # "seen") =>
         \A e \in Entity : seen[e] = Cardinality(Recordings(e))

\* hourly_decay rounds both counters down, each on its own, so it can lower
\* the ratio of an entity that did nothing: from good standing to throttled,
\* but never to banned.
DecayBansNobody ==
  [][HourlyDecay =>
       \A e \in Entity : Status(e) = "Ok" => Status(e)' # "Banned"]_vars

=============================================================================
