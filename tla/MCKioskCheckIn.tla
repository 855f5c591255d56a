--------------------------- MODULE MCKioskCheckIn ---------------------------
(* Instances of KioskCheckIn for TLC. *)
EXTENDS KioskCheckIn, TLC

\* Members that differ in their patience are not interchangeable.
Interchangeable == Permutations(Callers) \cup Permutations(Members \ Impatient)
=============================================================================
