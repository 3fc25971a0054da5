------------------------------- MODULE EthApi -------------------------------
(***************************************************************************)
(* The methods of crates/rpc/src/eth.rs that ask the node:                 *)
(* eth_estimateUserOperationGas simulates an operation twice,              *)
(* eth_getUserOperationReceipt reads the head, the logs and a transaction, *)
(* which a client asks after eth_getUserOperationByHash; the chain moves   *)
(* between all of them.  Requests share nothing but what they read, so one *)
(* is at hand at a time.                                                   *)
(***************************************************************************)
EXTENDS Integers, Sequences, ProviderErrors

CONSTANTS
  Gas,          \* gas a phase of the operation may take, as the chain stands
  Price,        \* fees an operation names; 0 when it names none
  Reply,        \* external: replies of the node to a simulation
  LogWindow,    \* blocks get_user_operation_receipt looks back, 1000
  MaxHeight,    \* bound: height of the chain
  MaxEthReorgs  \* bound: times the newest block is replaced

ASSUME EthConstants ==
  /\ Gas \subseteq Nat \ {0} /\ Price \subseteq Nat
  /\ {LogWindow, MaxEthReorgs} \subseteq Nat /\ MaxHeight \in Nat \ {0}

VARIABLES
  handler,    \* the request at hand: where it is, its locals
  response,   \* what the last one was answered
  cost,       \* external: gas the operation's two phases take by now
  blocks,     \* external: what each block did with the operation
  in_pool,    \* the operation is in the pool
  eth_reorgs, \* external: blocks replaced so far
  lost        \* history: dropped from the pool unmined

eth_vars == <<handler, response, cost, blocks, in_pool, eth_reorgs, lost>>
outside  == <<cost, blocks, in_pool, eth_reorgs, lost>>

Phases == [verification : Gas, execution : Gas]
Outcome == {"none", "succeeded", "reverted"}   \* of the operation in a block
Idle == [at |-> "idle"]
NoResponse == [to |-> "none"]

EthInit ==
  /\ handler = Idle /\ response = NoResponse
  /\ cost \in Phases
  /\ blocks = <<"none">> /\ in_pool = TRUE
  /\ eth_reorgs = 0 /\ lost = FALSE

Answers(r) == handler' = Idle /\ response' = r
Error(kind) == Answers([to |-> kind])

-----------------------------------------------------------------------------
(* eth_estimateUserOperationGas                                            *)

\* simulateHandleOp: what the operation pays, at the price it names
Paid(price) == (cost.verification + cost.execution) * price

\* Mutant of CallGas: the comparison is the other way round.
CallGas_Swapped(simulated, pre_op_gas, paid) ==
  IF simulated < pre_op_gas THEN pre_op_gas - simulated ELSE paid

\* current_base_fee().max(1) is 1: set_base_fee has no caller
CallGas(simulated, pre_op_gas, paid) ==
  IF simulated > pre_op_gas THEN simulated - pre_op_gas ELSE paid

UnsupportedEntryPoint ==
  /\ handler.at = "idle" /\ Error("invalid_params")
  /\ UNCHANGED outside

\* into_user_operation gives fees that were left out the value 0.
Estimate ==
  /\ handler.at = "idle"
  /\ \E price \in Price :
       handler' = [at |-> "simulate_validation", price |-> price]
  /\ UNCHANGED <<response, outside>>

ValidationSimulated(reply) ==
  /\ handler.at = "simulate_validation"
  /\ IF Simulated(reply) = "output"
       THEN /\ handler' = [at |-> "simulate_handle_op", price |-> handler.price,
                           pre_op_gas |-> cost.verification]
            /\ UNCHANGED response
       ELSE Error(Simulated(reply))
  /\ UNCHANGED outside

\* The estimate, and as history what the second simulation saw
HandleOpSimulated(reply) ==
  /\ handler.at = "simulate_handle_op"
  /\ IF Simulated(reply) = "output"
       THEN Answers([to |-> "estimate",
              verification_gas_limit |-> handler.pre_op_gas,
              call_gas_limit |-> CallGas(cost.verification, handler.pre_op_gas,
                                         Paid(handler.price)),
              price |-> handler.price, simulated |-> cost])
       ELSE Error(Simulated(reply))
  /\ UNCHANGED outside

-----------------------------------------------------------------------------
(* eth_getUserOperationByHash, then eth_getUserOperationReceipt            *)

\* get_user_operation_by_hash: the pool alone
ByHash ==
  /\ handler.at = "idle"
  /\ handler' = [at |-> "by_hash", found |-> in_pool]
  /\ UNCHANGED <<response, outside>>

\* get_block_number
HeadArrives ==
  /\ handler.at = "by_hash"
  /\ handler' = [at |-> "logs", found |-> handler.found,
                 current_block |-> Len(blocks)]
  /\ UNCHANGED <<response, outside>>

\* Mutant of InWindow: the newest block is left out.
InWindow_Exclusive(n) ==
  /\ n >= handler.current_block - LogWindow /\ n < handler.current_block
  /\ n \in DOMAIN blocks

\* from_block saturates at zero, before the first block; blocks the chain
\* has lost have no logs
InWindow(n) ==
  /\ n >= handler.current_block - LogWindow /\ n <= handler.current_block
  /\ n \in DOMAIN blocks

\* Mutant of LogsArrive: the log of a mined block is taken as success.
LogsArrive_Success ==
  LET logs == {n \in 1..MaxHeight : InWindow(n) /\ blocks[n] # "none"}
  IN  /\ handler.at = "logs"
      /\ IF logs = {}
           THEN Answers([to |-> "receipt", found |-> handler.found, success |-> "none",
                         transaction |-> "none"])
           ELSE /\ handler' = [at |-> "receipt", found |-> handler.found,
                               success |-> "succeeded"]
                /\ UNCHANGED response
      /\ UNCHANGED outside

\* get_logs: the first log of the operation; the chain has one at most
LogsArrive ==
  LET logs == {n \in 1..MaxHeight : InWindow(n) /\ blocks[n] # "none"}
  IN  /\ handler.at = "logs"
      /\ IF logs = {}
           THEN Answers([to |-> "receipt", found |-> handler.found, success |-> "none",
                         transaction |-> "none"])
           ELSE /\ \E n \in logs :
                     handler' = [at |-> "receipt", found |-> handler.found,
                                 success |-> blocks[n]]
                /\ UNCHANGED response
      /\ UNCHANGED outside

\* get_transaction_receipt, of the chain as it is by now
ReceiptArrives ==
  /\ handler.at = "receipt"
  /\ \E outcome \in Outcome :
       /\ outcome = "none" <=> \A n \in DOMAIN blocks : blocks[n] = "none"
       /\ outcome # "none" => \E n \in DOMAIN blocks : blocks[n] = outcome
       /\ Answers([to |-> "receipt", found |-> handler.found,
                   success |-> handler.success, transaction |-> outcome])
  /\ UNCHANGED outside

QueryFails ==
  /\ handler.at \in {"by_hash", "logs", "receipt"}
  /\ Error("internal")
  /\ UNCHANGED outside

-----------------------------------------------------------------------------
(* The chain and the pool                                                  *)

Mined == \E n \in DOMAIN blocks : blocks[n] # "none"

Grow ==
  /\ Len(blocks) < MaxHeight
  /\ \E outcome \in IF Mined THEN {"none"} ELSE Outcome :
       blocks' = Append(blocks, outcome)
  /\ cost' \in Phases
  /\ UNCHANGED <<handler, response, in_pool, eth_reorgs, lost>>

ReplaceNewest ==
  /\ eth_reorgs < MaxEthReorgs
  /\ eth_reorgs' = eth_reorgs + 1
  /\ \E outcome \in Outcome :
       /\ outcome # "none" => \A n \in 1..Len(blocks)-1 : blocks[n] = "none"
       /\ blocks' = [blocks EXCEPT ![Len(blocks)] = outcome]
  /\ UNCHANGED <<handler, response, cost, in_pool, lost>>

\* The watcher or the task takes out an operation that was mined; a
\* rejected or replaced one is lost.
LeavesPool ==
  /\ in_pool
  /\ in_pool' = FALSE /\ lost' = ~Mined
  /\ UNCHANGED <<handler, response, cost, blocks, eth_reorgs>>

EthNext ==
  \/ UnsupportedEntryPoint \/ Estimate
  \/ \E reply \in Reply : ValidationSimulated(reply) \/ HandleOpSimulated(reply)
  \/ ByHash \/ HeadArrives \/ LogsArrive \/ ReceiptArrives \/ QueryFails
  \/ Grow \/ ReplaceNewest \/ LeavesPool

EthSpec == EthInit /\ [][EthNext]_eth_vars

-----------------------------------------------------------------------------
(* Properties                                                              *)

\* The locals of a handler and its answers keep their types, and the chain
\* executes the operation once at most.
EthTypeOK ==
  /\ handler \in
       [at : {"idle"}] \cup [at : {"simulate_validation"}, price : Price]
       \cup [at : {"simulate_handle_op"}, price : Price, pre_op_gas : Gas]
       \cup [at : {"by_hash"}, found : BOOLEAN]
       \cup [at : {"logs"}, found : BOOLEAN, current_block : 1..MaxHeight]
       \cup [at : {"receipt"}, found : BOOLEAN, success : Outcome \ {"none"}]
  /\ response \in
       [to : {"none", "invalid_params", "internal"}]
       \cup [to : {"receipt"}, found : BOOLEAN, success : Outcome, transaction : Outcome]
       \cup [to : {"estimate"}, verification_gas_limit : Gas, call_gas_limit : Nat,
             price : Price, simulated : Phases]
  /\ cost \in Phases /\ blocks \in Seq(Outcome) /\ Len(blocks) \in 1..MaxHeight
  /\ in_pool \in BOOLEAN /\ eth_reorgs \in 0..MaxEthReorgs /\ lost \in BOOLEAN
  /\ \A m, n \in DOMAIN blocks :
       blocks[m] # "none" /\ blocks[n] # "none" => m = n

\* An estimate covers what the operation used when it was simulated, if the
\* operation names a price and validating it took no less gas the first
\* time than the second.  Without a price the call gas is 0, and where
\* validation became dearer in between it is only the difference, though
\* eth.rs:202 says "Call gas = total gas used - pre-op gas".
EstimateCovers ==
  LET r == response
  IN  /\ r.to = "estimate" /\ r.price > 0
      /\ r.simulated.verification <= r.verification_gas_limit
      =>
          /\ r.call_gas_limit >= r.simulated.execution
          /\ r.verification_gas_limit >= r.simulated.verification

\* An operation moves from the pool to the chain: a client that asks by hash
\* and then for the receipt, and is told None twice, may take it for lost.
\* Neither the removal from the pool nor the blocks in between can hide it,
\* unless a block was replaced or the log has left the window.
SeenSomewhere ==
  response.to = "receipt" /\ ~response.found /\ response.success = "none" =>
    \/ lost \/ eth_reorgs > 0 \/ Len(blocks) > LogWindow + 1

\* The two halves of a receipt, from the log and from the transaction, agree
\* while no block was replaced: nothing else can come between the queries.
ReceiptAgrees ==
  /\ response.to = "receipt" /\ response.success # "none"
  /\ eth_reorgs = 0
  => response.success = response.transaction

=============================================================================
