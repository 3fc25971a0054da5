--------------------------- MODULE SignerManager ----------------------------
(***************************************************************************)
(* crates/signer/src/manager.rs: signers are leased in turn by one atomic  *)
(* counter that wraps.  A lease is not exclusive and is never returned.    *)
(***************************************************************************)
EXTENDS Integers

CONSTANTS
  Signers,       \* SignerManager::count()
  IndexModulus,  \* 2^64
  MaxLeases      \* bound

ASSUME SignerConstants ==
  Signers \in Nat \ {0} /\ IndexModulus \in Nat \ {0} /\ MaxLeases \in Nat

VARIABLES
  next_index,  \* SignerManager::next_index
  leases,      \* history: leases of each signer
  wraps        \* history: times the counter wrapped

signer_vars == <<next_index, leases, wraps>>
Signer == 0 .. Signers - 1

SignerInit == next_index = 0 /\ leases = [s \in Signer |-> 0] /\ wraps = 0

\* Mutant of Turn: the counter is halved, one turn is for two leases.
Turn_Halved == (next_index \div 2) % Signers

\* acquire: the index of the lease
Turn == next_index % Signers

Acquire ==
  /\ leases[Turn] < MaxLeases
  /\ leases' = [leases EXCEPT ![Turn] = @ + 1]
  /\ next_index' = (next_index + 1) % IndexModulus
  /\ wraps' = IF next_index' = 0 THEN wraps + 1 ELSE wraps

SignerSpec == SignerInit /\ [][Acquire]_signer_vars

\* manager.rs: "distributes signing requests across them": the leases of any
\* two signers differ by at most one, and by one more for every time the
\* counter wraps where the number of signers does not divide its range.
LeasesBalanced ==
  \A s, t \in Signer : leases[s] <= leases[t] + 1 + wraps

=============================================================================
