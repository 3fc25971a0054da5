-------------------------- MODULE MCBundleProposer --------------------------
(* A small instance of BundleProposer for TLC.                             *)
EXTENDS BundleProposer

PoolEntry(sequence, price, fee, priority, gas) ==
  [sequence |-> sequence, submit_gas_price |-> price, max_fee_per_gas |-> fee,
   max_priority_fee_per_gas |-> priority, total_gas_limit |-> gas]

\* Two entries of one price, one that covers only the low base fee, one
\* whose gas limit overflows the estimate, and one with too low a priority.
Entries ==
  {PoolEntry(1, 2, 20, 2, 30), PoolEntry(2, 2, 20, 2, 40),
   PoolEntry(3, 3, 5, 3, 30), PoolEntry(4, 4, 20, 4, 990),
   PoolEntry(5, 0, 20, 0, 30), PoolEntry(6, 1, 20, 1, 50)}

\* Success; an error with the revert data of the EntryPoint, for every index
\* of a bundle and one more, or of another contract; one whose first word is
\* the selector alone, so that the data after it is not read; and none.
Word(error, index) ==
  [digits |-> 72, data |-> [error |-> error, index |-> index]]
Selector == [digits |-> 8, data |-> [error |-> "other", index |-> 0]]
ErrorReply(words) == [ok |-> FALSE, decodes |-> FALSE, message |-> words]
Replies ==
  {[ok |-> TRUE, decodes |-> TRUE, message |-> <<>>], ErrorReply(<<>>),
   ErrorReply(<<Selector, Word("FailedOp", 0)>>),
   ErrorReply(<<Word("SignatureValidationFailed", 0)>>)}
  \cup {ErrorReply(<<Word(error, index)>>) :
          error \in {"FailedOp", "FailedOpWithRevert"}, index \in 0..MaxBundleSize}

=============================================================================
