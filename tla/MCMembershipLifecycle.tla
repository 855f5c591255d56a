------------------------ MODULE MCMembershipLifecycle ------------------------
(***************************************************************************)
(* Small instances of MembershipLifecycle for TLC.                         *)
(***************************************************************************)
EXTENDS MembershipLifecycle, TLC

\* Every member is of the one branch of the instance.
MCBranchOf == [m \in Members |-> CHOOSE b \in Branches : TRUE]

\* Workers and membership ids are interchangeable: no action orders them.
Interchangeable == Permutations(Workers) \cup Permutations(Ids)
=============================================================================
