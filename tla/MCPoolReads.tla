----------------------------- MODULE MCPoolReads ------------------------------
(***************************************************************************)
(* The two reads that take several statements on the pool: a walk through   *)
(* a list and the sales summary.  They share no table; each behaviour is    *)
(* one of the two.                                                          *)
(***************************************************************************)
EXTENDS CursorPaging, SalesSummary, TLC

VARIABLE
    view         \* which read this behaviour is about

ReadInit ==
    /\ view \in {"list", "sales"}
    /\ ListInit
    /\ SalesInit
    /\ view = "list" => ask.from = today /\ ask.to = today

ReadNext ==
    \/ view = "list" /\ ListNext /\ UNCHANGED <<view, salesVars>>
    \/ view = "sales" /\ SalesNext /\ UNCHANGED <<view, listVars>>

ReadSpec == ReadInit /\ [][ReadNext]_<<view, listVars, salesVars>>

Interchangeable == Permutations(Writers) \cup Permutations(Memberships) \cup Permutations(Methods)
================================================================================
