--------------------------- MODULE MCBundleSender ---------------------------
(* Small instances of BundleSender for TLC.                                *)
EXTENDS BundleSender, TLC

IdSymmetry == Permutations(Id)

=============================================================================
