------------------------------ MODULE MCParts -------------------------------
(* Small instances of six modules that share no state, checked side by     *)
(* side: a behavior is a behavior of one of them, the part, and the        *)
(* variables of the other five stay as they were.                          *)
EXTENDS BundleFees, ConflictDetector, StrategyRouter, SignerManager,
        UserOperations, EthApi, TLC

VARIABLE part

\* A dear market, and one without a base fee but with tips.
Markets == {[base |-> 0, priority |-> 40], [base |-> 900, priority |-> 7]}

\* Contracts and gas values of two bytes and one; what an EntryPoint never
\* sees is set in some operations.
A == <<0, 255>>
Low0 == <<0>>
Top == <<255>>
Op(factory, paymaster, call_gas, pre_verification_gas) ==
  [sender |-> A, nonce |-> <<0, 255>>, call_data |-> Top,
   call_gas_limit |-> call_gas, verification_gas_limit |-> Top,
   pre_verification_gas |-> pre_verification_gas, max_fee_per_gas |-> Top,
   max_priority_fee_per_gas |-> Low0, signature |-> Top,
   factory |-> factory[1], factory_data |-> factory[2],
   paymaster |-> paymaster[1], paymaster_verification_gas_limit |-> paymaster[2],
   paymaster_post_op_gas_limit |-> paymaster[3], paymaster_data |-> paymaster[4]]
Factories == {<<NoAddress, <<>>>>, <<NoAddress, Top>>, <<A, <<>>>>, <<A, Top>>}
Paymasters ==
  {<<NoAddress, Low0, Low0, <<>>>>, <<NoAddress, Top, Low0, Low0>>,
   <<A, Low0, Top, <<>>>>, <<A, Top, Low0, Low0>>}
GivenOps == {Op(f, p, Low0, Top) : f \in Factories, p \in Paymasters}
PartialOps ==
  {Op(f, <<A, NoGas, NoGas, <<>>>>, NoGas, g) : f \in Factories, g \in {NoGas, Top}}

\* Init code and paymaster data of every length from none to one byte more
\* than an address, and a gas value of more than a u128.
PackedOp(code, paymaster, pre_verification_gas) ==
  [sender |-> A, nonce |-> <<0, 255>>, call_data |-> <<>>,
   account_gas_limits |-> <<0, 255>>,
   pre_verification_gas |-> pre_verification_gas, gas_fees |-> <<255, 0>>,
   init_code |-> code, paymaster_and_data |-> paymaster, signature |-> Low0]
ChainOps ==
  {PackedOp(code, paymaster, gas) :
     code \in {<<>>, Low0, A, A \o Top},
     paymaster \in {<<>>, <<0, 0, 255>>, A \o A, A \o A \o Low0},
     gas \in {<<0, 255>>, <<255, 0>>}}

\* Output that decodes or not; an error with revert data, and one without.
Replies ==
  LET Word == [digits |-> 8, data |-> [error |-> "other", index |-> 0]]
  IN  {[ok |-> TRUE, decodes |-> TRUE, message |-> <<>>],
       [ok |-> TRUE, decodes |-> FALSE, message |-> <<>>],
       [ok |-> FALSE, decodes |-> FALSE, message |-> <<Word>>],
       [ok |-> FALSE, decodes |-> FALSE, message |-> <<>>]}

\* A part that is not at hand starts in one state only.
Init ==
  /\ part \in {"fees", "conflicts", "router", "signers", "operations", "rpc"}
  /\ FeesInit
  /\ part # "fees" => chain[1] = (CHOOSE m \in Market : TRUE) /\ strategy = "linear"
  /\ ConflictInit /\ RouterInit /\ SignerInit
  /\ UserOpInit
  /\ part # "operations" => /\ uo = (CHOOSE op \in Given : TRUE)
                            /\ packed = (CHOOSE p \in OnChain : TRUE)
  /\ EthInit
  /\ part # "rpc" => cost = (CHOOSE phases \in Phases : TRUE)

Next ==
  /\ UNCHANGED part
  /\ \/ /\ part = "fees" /\ FeesNext
        /\ UNCHANGED <<conflict_vars, router_vars, signer_vars, uo_vars, eth_vars>>
     \/ /\ part = "conflicts" /\ ConflictNext
        /\ UNCHANGED <<fees_vars, router_vars, signer_vars, uo_vars, eth_vars>>
     \/ /\ part = "router" /\ RouterNext
        /\ UNCHANGED <<fees_vars, conflict_vars, signer_vars, uo_vars, eth_vars>>
     \/ /\ part = "signers" /\ Acquire
        /\ UNCHANGED <<fees_vars, conflict_vars, router_vars, uo_vars, eth_vars>>
     \/ /\ part = "operations" /\ UserOpNext
        /\ UNCHANGED <<fees_vars, conflict_vars, router_vars, signer_vars, eth_vars>>
     \/ /\ part = "rpc" /\ EthNext
        /\ UNCHANGED <<fees_vars, conflict_vars, router_vars, signer_vars, uo_vars>>

Spec ==
  Init /\ [][Next]_<<part, fees_vars, conflict_vars, router_vars, signer_vars,
                     uo_vars, eth_vars>>

PartsSymmetry == Permutations(Caller) \cup Permutations(Sender)

=============================================================================
