-------------------------- MODULE MCBranchDirectory --------------------------
(***************************************************************************)
(* Constants of the TLC instances of BranchDirectory.                      *)
(***************************************************************************)
EXTENDS BranchDirectory, TLC

Interchangeable == Permutations(Workers) \cup Permutations(Branches)
=============================================================================
