--------------------------- MODULE MembershipTable ---------------------------
(***************************************************************************)
(* The memberships table as data: one row, the constraints PostgreSQL      *)
(* enforces on the table, and the effect of every UPDATE the repository    *)
(* layer issues on a row, one operator per statement.  The component       *)
(* modules turn these operators into actions.                              *)
(*                                                                         *)
(* Dates are integers (days of the KST calendar) and Null is SQL's NULL.   *)
(***************************************************************************)
EXTENDS Integers, FiniteSets

CONSTANTS
    Ids,          \* membership ids the bigserial may hand out
    Members,      \* members.id
    Branches,     \* branches.id
    BranchOf,     \* members.branch_id, which no handler changes
    Null,         \* SQL NULL
    MonthlyTerms, \* lengths in days AddDate(0, months, 0) gives a monthly
    PassTerm,     \* length in days AddDate(0, 2, 0) gives a pass10
    PassVisits    \* visits a pass10 starts with (10 in the code)

ASSUME MembersAssumption ==
    /\ BranchOf \in [Members -> Branches]
    /\ Null \notin Int
    /\ Null \notin Branches

ASSUME TermsAssumption ==
    /\ MonthlyTerms \subseteq Nat \ {0}
    /\ PassTerm \in Nat \ {0}
    /\ PassVisits \in Nat \ {0}

Kinds == {"monthly", "pass10"}

Statuses == {"active", "paused", "refunded", "expired"}

Date == Int

DateOrNull == Int \cup {Null}

Row ==
    [member     : Members,
     kind       : Kinds,
     start      : Date,
     end        : Date,
     remaining  : Int \cup {Null},
     status     : Statuses,
     pauseStart : DateOrNull,
     pauseEnd   : DateOrNull,
     pauseUsed  : BOOLEAN]

Live(r) == r.status \in {"active", "paused"}

HasWindow(r) == r.pauseStart # Null /\ r.pauseEnd # Null

PauseLen(r) == r.pauseEnd - r.pauseStart

(***************************************************************************)
(* What the database accepts.  A statement that would break one of these   *)
(* raises an error and its transaction rolls back.                         *)
(***************************************************************************)

\* The CHECK constraints, and the daterange() of the exclusion constraint:
\* PostgreSQL evaluates it for live rows only, and it raises an error when
\* its bounds are the wrong way round.
RowOK(r) ==
    /\ r.kind = "monthly" => r.remaining = Null
    /\ r.kind = "pass10"  => r.remaining # Null /\ r.remaining >= 0
    /\ (r.pauseStart = Null) <=> (r.pauseEnd = Null)
    /\ HasWindow(r) => r.pauseStart <= r.pauseEnd
    /\ r.status = "paused" => HasWindow(r)
    /\ Live(r) => r.start <= r.end

\* memberships_no_period_overlap: the closed date ranges of two live rows of
\* one member are disjoint.
Overlap(r, s) ==
    /\ r.member = s.member
    /\ Live(r) /\ Live(s)
    /\ r.start <= s.end /\ s.start <= r.end

Accepts(table) ==
    /\ \A i \in DOMAIN table : RowOK(table[i])
    /\ \A i, j \in DOMAIN table : i # j => ~Overlap(table[i], table[j])

(***************************************************************************)
(* The statements, as functions from the old row to the new one.  The      *)
(* definitions named Wrong... are not the program: they are slips that     *)
(* could be made in the statement that follows them, kept to show that the *)
(* properties notice.                                                      *)
(***************************************************************************)

Granted(m, kind, start, term) ==
    [member     |-> m,
     kind       |-> kind,
     start      |-> start,
     end        |-> start + term,
     remaining  |-> IF kind = "pass10" THEN PassVisits ELSE Null,
     status     |-> "active",
     pauseStart |-> Null,
     pauseEnd   |-> Null,
     pauseUsed  |-> FALSE]

Paused(r, from, to, day) ==
    [r EXCEPT !.pauseStart = from,
              !.pauseEnd   = to,
              !.pauseUsed  = TRUE,
              !.end        = @ + (to - from),
              !.status     = IF from <= day THEN "paused" ELSE @]

\* The formula of docs/API.md, on the extended end_date.
WrongUnpausedPartly(r, day) ==
    [r EXCEPT !.end        = @ - (r.pauseEnd - day),
              !.pauseStart = Null,
              !.pauseEnd   = Null,
              !.status     = "active"]

\* The pause columns are not cleared.
WrongUnpausedInWindow(r, day) ==
    [r EXCEPT !.end    = @ - PauseLen(r) - (r.pauseEnd - day),
              !.status = "active"]

\* The result is a row only when the window is set: NULL arithmetic would
\* make end_date NULL, which its NOT NULL rejects.
Unpaused(r, day) ==
    [r EXCEPT !.end        = @ - PauseLen(r) - (r.pauseEnd - day),
              !.pauseStart = Null,
              !.pauseEnd   = Null,
              !.status     = "active"]

\* The sign of the roll-back is wrong.
WrongCancelled(r) ==
    [r EXCEPT !.end        = @ + PauseLen(r),
              !.pauseStart = Null,
              !.pauseEnd   = Null,
              !.pauseUsed  = FALSE]

Cancelled(r) ==
    [r EXCEPT !.end        = @ - PauseLen(r),
              !.pauseStart = Null,
              !.pauseEnd   = Null,
              !.pauseUsed  = FALSE]

Refunded(r) == [r EXCEPT !.status = "refunded"]

\* The rows a bulk extension selects and locks.
BulkTarget(r, branch, kind, deleted) ==
    /\ Live(r)
    /\ r.member \notin deleted
    /\ branch # Null => BranchOf[r.member] = branch
    /\ kind # Null => r.kind = kind

\* A hold that is running or still to come moves with the membership.
MovesWindow(r, day) ==
    \/ r.status = "paused"
    \/ /\ r.status = "active" /\ r.pauseUsed
       /\ r.pauseStart # Null /\ r.pauseStart > day

Extended(r, days, day) ==
    IF MovesWindow(r, day)
    THEN [r EXCEPT !.end        = @ + days,
                   !.pauseStart = @ + days,
                   !.pauseEnd   = @ + days]
    ELSE [r EXCEPT !.end = @ + days]

\* Equality where a missed night calls for a comparison.
WrongExpireOnce(r, now) ==
    IF r.status = "active" /\ r.end = now - 1
    THEN [r EXCEPT !.status = "expired"]
    ELSE r

\* The three membership steps of the daily batch; `now` is the database's
\* KST date.  Rows the WHERE clause leaves out are unchanged.
ExpireIfPast(r, now) ==
    IF r.status = "active" /\ r.end < now
    THEN [r EXCEPT !.status = "expired"]
    ELSE r

WrongReactivateOnce(r, now) ==
    IF r.status = "paused" /\ r.pauseEnd = now - 1
    THEN [r EXCEPT !.status = "active", !.pauseStart = Null, !.pauseEnd = Null]
    ELSE r

\* One day too late.
WrongReactivateLate(r, now) ==
    IF r.status = "paused" /\ r.pauseEnd < now - 1
    THEN [r EXCEPT !.status = "active", !.pauseStart = Null, !.pauseEnd = Null]
    ELSE r

\* One of the two pause columns is left.
WrongReactivateHalf(r, now) ==
    IF r.status = "paused" /\ r.pauseEnd < now
    THEN [r EXCEPT !.status = "active", !.pauseStart = Null]
    ELSE r

ReactivateIfOver(r, now) ==
    IF r.status = "paused" /\ r.pauseEnd < now
    THEN [r EXCEPT !.status = "active", !.pauseStart = Null, !.pauseEnd = Null]
    ELSE r

\* The hold is expected to have begun the day before.
WrongPauseLate(r, now) ==
    IF r.status = "active" /\ r.pauseStart = now - 1
    THEN [r EXCEPT !.status = "paused"]
    ELSE r

PauseIfArrived(r, now) ==
    IF r.status = "active" /\ r.pauseStart = now
    THEN [r EXCEPT !.status = "paused"]
    ELSE r

\* A check-in: the rows that cover the day, and the visit it takes off a
\* pass10 on the member's first check-in of that day.
Covers(r, m, day) ==
    /\ r.member = m
    /\ r.status = "active"
    /\ r.start <= day /\ day <= r.end

\* Every check-in is charged.
WrongVisited(r, first) ==
    IF r.kind = "pass10"
    THEN [r EXCEPT !.remaining = @ - 1,
                   !.status    = IF r.remaining - 1 <= 0 THEN "expired" ELSE @]
    ELSE r

Visited(r, first) ==
    IF first /\ r.kind = "pass10"
    THEN [r EXCEPT !.remaining = @ - 1,
                   !.status    = IF r.remaining - 1 <= 0 THEN "expired" ELSE @]
    ELSE r
=============================================================================
