---------------------------- MODULE BundleSender ----------------------------
(***************************************************************************)
(* crates/builder/src/task.rs and tracker.rs: the bundler task, a state    *)
(* machine that builds a bundle from the pool, sends it through            *)
(* DirectSubmissionStrategy, polls for its receipt, raises its fee and     *)
(* waits for confirmations.  The node (mempool, chain, EntryPoint) and the *)
(* RPC clients that fill the pool run beside it and are external.          *)
(*                                                                         *)
(* A handler of the task is one action, except where it awaits twice and   *)
(* uses what it read before the second await: handle_building (candidates, *)
(* then simulation) and handle_pending (receipt, then nonce) are two       *)
(* actions each, told apart by "awaiting".                                 *)
(*                                                                         *)
(* Block numbers are kept relative to the head and saturate at             *)
(* ConfirmationDepth, the only distance the code compares.  The pool is    *)
(* reduced to the version (hash) held for each operation id; OperationPool *)
(* models its internals.                                                   *)
(***************************************************************************)
EXTENDS Integers, FiniteSets

CONSTANTS
  Id,                 \* UserOperationIds clients submit
  MaxVersion,         \* bound: submissions per id (first one, replacements)
  MaxNonce,           \* bound: transactions of the signer that get mined
  InitialNonce,       \* the signer's nonce when the task starts
  MaxAttempts,        \* EscalationConfig::max_attempts
  ConfirmationDepth,  \* BundlerTask::confirmation_depth
  Fault,              \* which faults of the environment occur
  None

Faults == {"submit", "provider", "drop", "reorg", "restart", "revert", "fees"}

ASSUME SenderConstants ==
  /\ IsFiniteSet(Id) /\ Cardinality(Id) <= 3     \* see Failing
  /\ MaxVersion \in Nat /\ MaxNonce \in Nat /\ InitialNonce \in Nat
  /\ MaxAttempts \in Nat /\ ConfirmationDepth \in Nat
  /\ Fault \subseteq Faults

\* A transaction: handleOps of some operations.  bump counts fee rises.
Tx == [nonce : Nat, bump : 0..MaxAttempts, ops : SUBSET Id]

Pending == [tx_hash : Tx, nonce : Nat, escalation_count : 0..MaxAttempts,
            timed_out : BOOLEAN]

ASSUME NoneIsNothing == None \notin Pending /\ None \notin Nat

State == {"Idle", "Building", "Submitting", "Pending", "Escalating",
          "Confirming", "Confirmed", "Abandoned"}

VARIABLES
  state,           \* BundlerTask::state
  awaiting,        \* the handler is past its first await
  candidates,      \* handle_building: what best_operations returned
  current_bundle,  \* ids of the current bundle, {} for None
  mined_block,     \* Option<u64>: distance of that block from the head
  pending,         \* TransactionTracker::pending
  current_nonce,   \* TransactionTracker::current_nonce
  pool,            \* version of the operation held for an id, 0 for none
  added,           \* versions submitted so far
  mempool,         \* external: transactions the network may still mine
  mined,           \* external: [tx, age, ok] for mined transactions
  chain_nonce,     \* external: the signer's nonce at the head
  executed,        \* external: ids whose account nonce is used up
  undone           \* history: a block was undone or handleOps reverted at will

task    == <<state, awaiting, candidates, current_bundle, mined_block>>
tracker == <<pending, current_nonce>>
clients == <<pool, added>>
node    == <<mempool, mined, chain_nonce, executed, undone>>
vars    == <<state, awaiting, candidates, current_bundle, mined_block,
             pending, current_nonce, pool, added,
             mempool, mined, chain_nonce, executed, undone>>

Init ==
  /\ state = "Idle" /\ awaiting = FALSE
  /\ candidates = [i \in Id |-> 0]
  /\ current_bundle = {} /\ mined_block = None
  /\ pending = None
  /\ current_nonce = InitialNonce          \* TransactionTracker::initialize
  /\ pool = [i \in Id |-> 0] /\ added = [i \in Id |-> 0]
  /\ mempool = {} /\ mined = {}
  /\ chain_nonce = InitialNonce /\ executed = {} /\ undone = FALSE

Become(s) == state' = s

InPool == {i \in Id : pool[i] # 0}

IsMined(tx) == \E m \in mined : m.tx = tx

-----------------------------------------------------------------------------
(* Idle, Building                                                          *)

HandleIdle ==
  /\ state = "Idle"
  /\ InPool # {}
  /\ Become("Building")
  /\ UNCHANGED <<awaiting, candidates, current_bundle, mined_block,
                 tracker, clients, node>>

\* The fee oracle answers, best_operations is read and filtered by covers.
\* Nothing left to bundle is NoOperations; an error also ends in Idle.
ProposeCandidates ==
  /\ state = "Building" /\ ~awaiting
  /\ \E skipped \in SUBSET InPool :
       /\ skipped # {} => "fees" \in Fault
       /\ candidates' = [i \in Id |-> IF i \in skipped THEN 0 ELSE pool[i]]
       /\ IF InPool = skipped
            THEN Become("Idle") /\ awaiting' = FALSE
            ELSE Become("Building") /\ awaiting' = TRUE
  /\ UNCHANGED <<current_bundle, mined_block, tracker, clients, node>>

Candidate == {i \in Id : candidates[i] # 0}

\* The operations call_handle_ops fails on, one per attempt.  A used nonce
\* fails; up to max_retries (3) such operations are weeded out, which is
\* every one of them here (at most three ids).
Failing == Candidate \cap executed

\* remove_by_hash: only the version that was simulated is taken out.
WithoutRejected ==
  [i \in Id |-> IF i \in Failing /\ pool[i] = candidates[i]
                  THEN 0 ELSE pool[i]]

BuildBundle ==
  /\ state = "Building" /\ awaiting
  /\ Candidate # Failing
  /\ current_bundle' = Candidate \ Failing
  /\ pool' = WithoutRejected
  /\ Become("Submitting")
  /\ awaiting' = FALSE
  /\ candidates' = [i \in Id |-> 0]
  /\ UNCHANGED <<mined_block, tracker, added, node>>

\* Every candidate failed (NoOperations) or the node did not answer: the
\* handler returns to Idle and the pool keeps what was rejected.
BuildNothing ==
  /\ state = "Building" /\ awaiting
  /\ Candidate = Failing \/ "provider" \in Fault
  /\ Become("Idle")
  /\ awaiting' = FALSE
  /\ candidates' = [i \in Id |-> 0]
  /\ UNCHANGED <<current_bundle, mined_block, tracker, clients, node>>

-----------------------------------------------------------------------------
(* DirectSubmissionStrategy::submit as the task sees it.  The node refuses *)
(* a used nonce and a transaction it knows, and may refuse one that does   *)
(* not outbid another of the same nonce.  Under the fault "submit" signing *)
(* or sending fails, or the answer to an accepted transaction is lost.     *)

Acceptable(tx) == tx.nonce >= chain_nonce /\ tx \notin mempool

Accepted(tx) ==
  /\ Acceptable(tx)
  /\ mempool' = mempool \cup {tx}

Outbid(tx) == \E x \in mempool : x.nonce = tx.nonce /\ x.bump >= tx.bump

Failed(tx) ==
  \/ /\ ~Acceptable(tx) \/ Outbid(tx) \/ "submit" \in Fault
     /\ UNCHANGED mempool
  \/ /\ "submit" \in Fault
     /\ Accepted(tx)

-----------------------------------------------------------------------------
(* Submitting                                                              *)

BundleTx(nonce, bump) == [nonce |-> nonce, bump |-> bump, ops |-> current_bundle]

NewPending(tx) == [tx_hash |-> tx, nonce |-> current_nonce,
                   escalation_count |-> 0, timed_out |-> FALSE]

\* Mutant of HandleSubmitting: the nonce is counted up on submission.
HandleSubmitting_CountsNonce ==
  /\ state = "Submitting"
  /\ LET tx == BundleTx(current_nonce, 0) IN
       \/ /\ Accepted(tx) /\ pending' = NewPending(tx) /\ Become("Pending")
          /\ current_nonce' = current_nonce + 1
       \/ Failed(tx) /\ UNCHANGED <<pending, current_nonce>>
                     /\ Become("Abandoned")
  /\ UNCHANGED <<awaiting, candidates, current_bundle, mined_block,
                 clients, mined, chain_nonce, executed, undone>>

\* record_submission keeps current_nonce: it moves only in check_pending.
HandleSubmitting ==
  /\ state = "Submitting"
  /\ LET tx == BundleTx(current_nonce, 0) IN
       \/ Accepted(tx) /\ pending' = NewPending(tx) /\ Become("Pending")
       \/ Failed(tx) /\ UNCHANGED pending /\ Become("Abandoned")
  /\ UNCHANGED <<awaiting, candidates, current_bundle, mined_block,
                 current_nonce, clients, mined, chain_nonce, executed, undone>>

-----------------------------------------------------------------------------
(* Pending: check_pending reads the receipt, then the nonce.               *)

\* remove_bundled_ops: by id, whatever version the pool holds by now.
WithoutBundled == [i \in Id |-> IF i \in current_bundle THEN 0 ELSE pool[i]]

ReceiptFound ==
  /\ state = "Pending" /\ ~awaiting
  /\ \E m \in mined :
       /\ m.tx = pending.tx_hash
       /\ mined_block' = m.age
  /\ current_nonce' = pending.nonce + 1
  /\ pending' = None
  /\ pool' = WithoutBundled
  /\ Become("Confirming")
  /\ UNCHANGED <<awaiting, candidates, current_bundle, added, node>>

NoReceipt ==
  /\ state = "Pending" /\ ~awaiting
  /\ ~IsMined(pending.tx_hash)
  /\ awaiting' = TRUE
  /\ UNCHANGED <<state, candidates, current_bundle, mined_block,
                 tracker, clients, node>>

\* Mutant of NonceConsumed: only a nonce two further counts as consumed.
NonceConsumed_OffByOne ==
  /\ state = "Pending" /\ awaiting
  /\ chain_nonce > pending.nonce + 1
  /\ current_nonce' = chain_nonce
  /\ pending' = None
  /\ Become("Abandoned")
  /\ awaiting' = FALSE
  /\ UNCHANGED <<candidates, current_bundle, mined_block, clients, node>>

\* Mutant of NonceConsumed: it is taken for the receipt that is missing.
NonceConsumed_TakenForMined ==
  /\ state = "Pending" /\ awaiting
  /\ chain_nonce > pending.nonce
  /\ current_nonce' = chain_nonce
  /\ pending' = None
  /\ pool' = WithoutBundled
  /\ mined_block' = 0
  /\ Become("Confirming")
  /\ awaiting' = FALSE
  /\ UNCHANGED <<candidates, current_bundle, added, node>>

\* Mutant of NonceConsumed: the chain's nonce is not taken over.
NonceConsumed_KeepsNonce ==
  /\ state = "Pending" /\ awaiting
  /\ chain_nonce > pending.nonce
  /\ pending' = None
  /\ Become("Abandoned")
  /\ awaiting' = FALSE
  /\ UNCHANGED <<candidates, current_bundle, mined_block, current_nonce,
                 clients, node>>

NonceConsumed ==
  /\ state = "Pending" /\ awaiting
  /\ chain_nonce > pending.nonce
  /\ current_nonce' = chain_nonce
  /\ pending' = None
  /\ Become("Abandoned")
  /\ awaiting' = FALSE
  /\ UNCHANGED <<candidates, current_bundle, mined_block, clients, node>>

NeedsEscalation ==
  pending.timed_out /\ pending.escalation_count < MaxAttempts

StillPending ==
  /\ state = "Pending" /\ awaiting
  /\ chain_nonce <= pending.nonce
  /\ Become(IF NeedsEscalation THEN "Escalating" ELSE "Pending")
  /\ awaiting' = FALSE
  /\ UNCHANGED <<candidates, current_bundle, mined_block,
                 tracker, clients, node>>

\* Either read fails: the next poll starts over.
CheckFailed ==
  /\ state = "Pending" /\ awaiting
  /\ "provider" \in Fault
  /\ awaiting' = FALSE
  /\ UNCHANGED <<state, candidates, current_bundle, mined_block,
                 tracker, clients, node>>

\* initial_wait has passed since record_submission.
InitialWaitElapses ==
  /\ pending # None
  /\ ~pending.timed_out
  /\ pending' = [pending EXCEPT !.timed_out = TRUE]
  /\ UNCHANGED <<task, current_nonce, clients, node>>

-----------------------------------------------------------------------------
(* Escalating                                                              *)

\* Mutant of EscalationImpossible: clear_pending is forgotten.
EscalationImpossible_KeepsPending ==
  /\ state = "Escalating"
  /\ "provider" \in Fault
  /\ Become("Abandoned")
  /\ UNCHANGED <<awaiting, candidates, current_bundle, mined_block,
                 tracker, clients, node>>

\* escalated_fees is None when the network's fees cannot be read.
EscalationImpossible ==
  /\ state = "Escalating"
  /\ "provider" \in Fault
  /\ pending' = None
  /\ Become("Abandoned")
  /\ UNCHANGED <<awaiting, candidates, current_bundle, mined_block,
                 current_nonce, clients, node>>

\* Mutant of EscalationNonce: the nonce after the pending one.
EscalationNonce_Next == current_nonce + 1

\* next_nonce().saturating_sub(1)
EscalationNonce == IF current_nonce = 0 THEN 0 ELSE current_nonce - 1

\* record_escalation changes the hash and the fees, never the nonce.
HandleEscalating ==
  /\ state = "Escalating"
  /\ LET tx == BundleTx(EscalationNonce, pending.escalation_count + 1) IN
       \/ /\ Accepted(tx)
          /\ pending' = [pending EXCEPT !.tx_hash = tx,
                                        !.escalation_count = @ + 1]
       \/ Failed(tx) /\ UNCHANGED pending
  /\ Become("Pending")
  /\ UNCHANGED <<awaiting, candidates, current_bundle, mined_block,
                 current_nonce, clients, mined, chain_nonce, executed, undone>>

-----------------------------------------------------------------------------
(* Confirming and the terminal states                                      *)

HandleConfirming ==
  /\ state = "Confirming"
  /\ mined_block >= ConfirmationDepth
  /\ Become("Confirmed")
  /\ UNCHANGED <<awaiting, candidates, current_bundle, mined_block,
                 tracker, clients, node>>

ResetToIdle ==
  /\ state \in {"Confirmed", "Abandoned"}
  /\ current_bundle' = {}
  /\ mined_block' = None
  /\ Become("Idle")
  /\ UNCHANGED <<awaiting, candidates, tracker, clients, node>>

\* The process is restarted: nothing is persisted, initialize reads the nonce.
Restart ==
  /\ "restart" \in Fault
  /\ state' = "Idle" /\ awaiting' = FALSE
  /\ candidates' = [i \in Id |-> 0]
  /\ current_bundle' = {} /\ mined_block' = None
  /\ pending' = None
  /\ current_nonce' = chain_nonce
  /\ pool' = [i \in Id |-> 0]
  /\ UNCHANGED <<added, node>>

-----------------------------------------------------------------------------
(* The clients and the node                                                *)

\* eth_sendUserOperation: a first operation for the id or a replacement.
Submit(i) ==
  /\ added[i] < MaxVersion
  /\ added' = [added EXCEPT ![i] = @ + 1]
  /\ pool' = [pool EXCEPT ![i] = added[i] + 1]
  /\ UNCHANGED <<task, tracker, node>>

Older(age) == IF age < ConfirmationDepth THEN age + 1 ELSE age

Aged == {[m EXCEPT !.age = Older(@)] : m \in mined}

\* A block.  Its number is one more than the last, so everything mined
\* before is one block further from the head.
BlockAges == mined_block' = IF mined_block = None THEN None
                                                  ELSE Older(mined_block)

EmptyBlock ==
  /\ mined' = Aged
  /\ BlockAges
  /\ mined' # mined \/ mined_block' # mined_block
  /\ UNCHANGED <<state, awaiting, candidates, current_bundle, tracker,
                 clients, mempool, chain_nonce, executed, undone>>

\* A block with one of the signer's transactions.  handleOps reverts as a
\* whole when an operation's nonce is used up (or, under "revert", at will):
\* the signer's nonce is spent and no operation executes.
MineTx(tx) ==
  /\ tx.nonce = chain_nonce
  /\ chain_nonce < MaxNonce
  /\ chain_nonce' = chain_nonce + 1
  /\ mempool' = {x \in mempool : x.nonce # tx.nonce}
  /\ BlockAges
  /\ \E ok \in BOOLEAN :
       /\ ok => tx.ops \cap executed = {}
       /\ ~ok => tx.ops \cap executed # {} \/ "revert" \in Fault
       /\ mined' = Aged \cup {[tx |-> tx, age |-> 0, ok |-> ok]}
       /\ executed' = IF ok THEN executed \cup tx.ops ELSE executed
       /\ undone' = (undone \/ (~ok /\ tx.ops \cap executed = {}))
  /\ UNCHANGED <<state, awaiting, candidates, current_bundle, tracker, clients>>

DropTx(tx) ==
  /\ "drop" \in Fault
  /\ mempool' = mempool \ {tx}
  /\ UNCHANGED <<task, tracker, clients, mined, chain_nonce, executed, undone>>

\* The block of the signer's last transaction is replaced by one without it.
Reorg(m) ==
  /\ "reorg" \in Fault
  /\ m.tx.nonce = chain_nonce - 1
  /\ m.age < ConfirmationDepth
  /\ mined' = mined \ {m}
  /\ mempool' = mempool \cup {m.tx}
  /\ chain_nonce' = chain_nonce - 1
  /\ executed' = IF m.ok THEN executed \ m.tx.ops ELSE executed
  /\ undone' = TRUE
  /\ UNCHANGED <<task, tracker, clients>>

-----------------------------------------------------------------------------

Task ==
  \/ HandleIdle \/ ProposeCandidates \/ BuildBundle \/ BuildNothing
  \/ HandleSubmitting
  \/ ReceiptFound \/ NoReceipt \/ NonceConsumed \/ StillPending \/ CheckFailed
  \/ EscalationImpossible \/ HandleEscalating
  \/ HandleConfirming \/ ResetToIdle

Environment ==
  \/ InitialWaitElapses \/ Restart
  \/ \E i \in Id : Submit(i)
  \/ EmptyBlock
  \/ \E tx \in mempool : MineTx(tx) \/ DropTx(tx)
  \/ \E m \in mined : Reorg(m)

Next == Task \/ Environment

Spec == Init /\ [][Next]_vars

\* The task's timers keep firing, and so does the escalation timeout.
TaskSpec == Spec /\ WF_vars(Task) /\ WF_vars(InitialWaitElapses)

\* The chain also grows and includes a transaction whose nonce is due.
FairSpec ==
  /\ TaskSpec
  /\ WF_vars(EmptyBlock)
  /\ WF_vars(\E tx \in mempool : MineTx(tx))

-----------------------------------------------------------------------------
(* Properties                                                              *)

\* Every variable of the task and of its environment keeps its type.
TypeOK ==
  /\ state \in State /\ awaiting \in BOOLEAN
  /\ candidates \in [Id -> 0..MaxVersion]
  /\ current_bundle \subseteq Id
  /\ mined_block \in (0..ConfirmationDepth) \cup {None}
  /\ pending \in Pending \cup {None}
  /\ current_nonce \in Nat
  /\ pool \in [Id -> 0..MaxVersion] /\ added \in [Id -> 0..MaxVersion]
  /\ mempool \subseteq Tx
  /\ mined \subseteq [tx : Tx, age : 0..ConfirmationDepth, ok : BOOLEAN]
  /\ chain_nonce \in Nat
  /\ executed \subseteq Id

\* The tracker holds a transaction exactly in the states that poll or bump
\* one: the branches of task.rs for a missing pending transaction, and the
\* Abandoned -> Idle -> Submitting path over a forgotten one, are dead.
PendingTracked == pending # None <=> state \in {"Pending", "Escalating"}

\* The task has a bundle wherever it unwraps one, and a block to count from
\* in Confirming: the early returns for None in task.rs are never taken.
BundlePresent ==
  /\ state \in {"Submitting", "Pending", "Escalating", "Confirming"}
       => current_bundle # {}
  /\ state = "Confirming" => mined_block # None

\* While blocks are final, the tracker's nonce never runs ahead of the
\* chain's, so no transaction waits behind a nonce gap, and every one the
\* network holds was sent at a nonce the chain had reached.
NonceNeverAhead ==
  ~undone => /\ current_nonce <= chain_nonce
             /\ \A tx \in mempool : tx.nonce <= chain_nonce

\* The pending record describes the transaction it names, also after any
\* number of escalations: record_escalation keeps the nonce on trust, and
\* what handle_escalating sends at another nonce the node refuses.
TrackerMatchesTx ==
  ~undone /\ pending # None => pending.tx_hash.nonce = pending.nonce

\* While blocks are final, a confirmed bundle is on the chain: the receipt
\* read in check_pending is the one confirmations are counted for.
ConfirmedIsMined ==
  ~undone /\ state = "Confirmed" => \E m \in mined : m.tx.ops = current_bundle

\* An operation that leaves the pool because its bundle was found mined was
\* executed by the EntryPoint, unless handleOps reverted or blocks are undone:
\* remove_bundled_ops goes by id and never looks at the receipt's status.
MinedOpsExecuted ==
  [][state = "Pending" /\ state' \in {"Confirming", "Abandoned"} /\ ~undone' =>
       \A i \in Id : pool[i] # 0 /\ pool'[i] = 0 => i \in executed]_vars

\* With a node that answers and includes what it accepts, every operation
\* in the pool is executed, through whatever races of polling, escalation
\* and mining.
EveryOpExecuted == \A i \in Id : pool[i] # 0 ~> i \in executed

\* With such a node every bundle ends: the task comes back to Idle, and the
\* tracker does not stay behind the signer's real nonce.
BundleEnds ==
  /\ state = "Submitting" ~> state = "Idle"
  /\ current_nonce < chain_nonce ~> current_nonce = chain_nonce

-----------------------------------------------------------------------------
(* What the documentation says and the code does not do                    *)

\* task.rs, handle_escalating: "Build a replacement transaction with higher
\* fees": a replacement carries the nonce of what it replaces.
EscalationReplaces ==
  state = "Escalating" => EscalationNonce = pending.nonce

\* tracker.rs, max_attempts: "Maximum number of escalation attempts before
\* abandoning": a transaction out of attempts does not stay pending forever.
MaxedOutIsAbandoned ==
  (pending # None /\ pending.escalation_count = MaxAttempts)
    ~> pending = None

\* UserOperationId: once an operation mines "the pool must remove" what it
\* holds for its id.
ExecutedLeavesPool == \A i \in Id : i \in executed ~> pool[i] = 0

=============================================================================
