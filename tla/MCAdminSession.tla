--------------------------- MODULE MCAdminSession ---------------------------
(***************************************************************************)
(* Constants of the TLC instances of AdminSession.                         *)
(***************************************************************************)
EXTENDS AdminSession, TLC

Interchangeable == Permutations(Workers) \cup Permutations(Sessions)
                   \cup Permutations(Grants)
=============================================================================
