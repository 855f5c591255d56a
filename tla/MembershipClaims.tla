--------------------------- MODULE MembershipClaims ---------------------------
(***************************************************************************)
(* What the repository's documents and comments say of memberships and the *)
(* handlers do not keep.  Each claim is checked on its own, and TLC shows  *)
(* a behaviour of MembershipLifecycle that breaks it.                      *)
(***************************************************************************)
EXTENDS MCMembershipLifecycle

\* docs/ADR.md: `refunded` and `expired` express the end of a membership.
\* A refunded membership does not come back.
RefundIsFinal ==
    [][\A i \in DOMAIN rows :
          rows[i].status = "refunded" => rows'[i].status = "refunded"]_vars
==============================================================================
