---------------------------- MODULE MCAdmission ----------------------------
(* A small instance of Admission for TLC.                                  *)
EXTENDS Admission

Op(sender, sequence, fee, entities) ==
  [sender |-> sender, nonce_key |-> 0, nonce_sequence |-> sequence,
   max_fee_per_gas |-> fee, max_priority_fee_per_gas |-> 10,
   verification_gas_limit |-> 1, pre_verification_gas |-> 1,
   call_data_size |-> 1, entities |-> entities]

\* a has operations for the last sequence, for 0, 1 and 3, and a bid that
\* replaces the one for 1; the contract c is factory and paymaster of one of
\* them, the paymaster of another, and the factory of b's.  The last two are
\* refused for their fields: a bid below its own priority fee, no gas.
Ops ==
  {Op("a", 5, 10, <<"a">>), Op("a", 0, 10, <<"a", "c">>),
   Op("a", 1, 10, <<"a">>), Op("a", 1, 11, <<"a">>),
   Op("a", 3, 10, <<"a", "c", "c">>), Op("b", 1, 10, <<"b", "c">>),
   Op("a", 1, 9, <<"a">>),
   [Op("b", 0, 10, <<"b">>) EXCEPT !.pre_verification_gas = 0]}

ThreadSymmetry == Permutations(Thread)

=============================================================================
