--------------------------- MODULE MCChainWatcher ---------------------------
(* Small instances of ChainWatcher for TLC.                                *)
EXTENDS ChainWatcher

=============================================================================
