--------------------------- MODULE ProviderErrors ---------------------------
(***************************************************************************)
(* How crates/provider/src/alloy reads the reply of a node to eth_call.    *)
(* A reply is the output of the call or an error message, of which only    *)
(* the hexadecimal words matter: their number of digits, and the error of  *)
(* the EntryPoint they encode, if they do.                                 *)
(***************************************************************************)
EXTENDS Integers, Sequences

NoData == [error |-> "none", index |-> 0]

\* extract_revert_data: what follows the first "0x" of the message, if it is
\* at least a selector and const_hex::decode takes it
ExtractRevertData(message) ==
  IF message # <<>> /\ Head(message).digits >= 8 /\ Head(message).digits % 2 = 0
    THEN Head(message).data ELSE NoData

\* call_handle_ops; "error" is ProviderError::Transport
HandleOpsOut(reply) ==
  LET data == ExtractRevertData(reply.message)
  IN  CASE reply.ok -> [kind |-> "success", index |-> 0]
        [] ~reply.ok /\ data = NoData -> [kind |-> "error", index |-> 0]
        [] ~reply.ok /\ data.error \in {"FailedOp", "FailedOpWithRevert"} ->
             [kind |-> "failed_op", index |-> data.index]
        [] OTHER -> [kind |-> "revert", index |-> 0]

\* simulate_validation and simulate_handle_op, and what the RPC handler
\* makes of them: an output, invalid parameters, or an internal error
Simulated(reply) ==
  CASE reply.ok /\ reply.decodes -> "output"
    [] ~reply.ok /\ ExtractRevertData(reply.message) # NoData -> "invalid_params"
    [] OTHER -> "internal"

=============================================================================
