-------------------------- MODULE MCOperationPool --------------------------
(* Small instances of OperationPool for TLC.                               *)
EXTENDS OperationPool, TLC

Op(hash, sender, nonce, fee, priority) ==
  [hash |-> hash, sender |-> sender, nonce_key |-> 0,
   nonce_sequence |-> nonce, max_fee_per_gas |-> fee,
   max_priority_fee_per_gas |-> priority]

\* a has three bids for its nonce 0, the second one short of the bump over
\* the first, and operations for nonces 1 and 2; b has operations for two
\* nonces.  Together they reach both limits of the serial instance.
SerialOps ==
  {Op(1, "a", 0, 10, 1), Op(2, "a", 0, 10, 2), Op(3, "a", 0, 11, 1),
   Op(4, "a", 1, 10, 2), Op(5, "a", 2, 10, 1),
   Op(6, "b", 0, 12, 2), Op(7, "b", 1, 12, 2)}

\* Two bids for one nonce and an operation for the next, one sender.
CrowdOps == {Op(1, "a", 0, 10, 1), Op(2, "a", 0, 11, 1), Op(3, "a", 1, 10, 1)}

ThreadSymmetry == Permutations(Thread)

=============================================================================
