----------------------------- MODULE SalesSummary -----------------------------
(***************************************************************************)
(* GET /api/sales/summary: three statements on the pool, each on what is   *)
(* committed when it runs, over payments that grants and refunds only ever *)
(* add to.  Payments of other branches than the one asked for are left     *)
(* out: no statement sees them.                                            *)
(***************************************************************************)
EXTENDS Integers, FiniteSets, Functions

CONSTANTS
    Memberships,
    Methods,     \* "cash" and "card"
    Days,        \* values of paid_at
    Amounts,     \* what a grant costs
    NoAnswer,
    MaxInt,      \* largest int4, what ::int accepts
    MaxRefunds   \* bound on the refunds of a membership

ASSUME SalesAssumption ==
    /\ Amounts \subseteq Nat \ {0} /\ Days \subseteq Nat
    /\ MaxInt \in Nat /\ MaxRefunds \in Nat
    /\ IsFiniteSet(Methods) /\ IsFiniteSet(Days)

VARIABLES
    today,       \* the day
    payments,    \* the table
    ask,         \* the request: which statement is next, and its range of days
    total,       \* answer of the first statement
    byMethod,    \* of the second, by method
    byDay,       \* of the third, by day and method
    quiet        \* no payment of the range was committed since the first statement

askVars   == <<ask, total, byMethod, byDay>>
salesVars == <<today, payments, askVars, quiet>>

Payment == [id : Nat, membership : Memberships, amount : Int, method : Methods,
            day : Days]

\* net is negative when a range holds a refund and not the grant before it.  The
\* comment of SalesBucket has all three values non-negative.
Bucket == [gross : Nat, refund : Nat, net : Int]

Steps == {"idle", "totals", "methods", "days", "done", "failed"}

SalesTypeOK ==
    /\ today \in Days
    /\ payments \subseteq Payment
    /\ ask \in [step : Steps, from : Days, to : Days]
    /\ total \in Bucket \cup {NoAnswer}
    /\ byMethod \in [Methods -> Bucket] \cup {NoAnswer}
    /\ byDay \in [Days -> [Methods -> Bucket]] \cup {NoAnswer}
    /\ quiet \in BOOLEAN

SalesInit ==
    /\ today \in Days /\ \A d \in Days : today <= d
    /\ payments = {}
    /\ ask \in [step : {"idle"}, from : Days, to : Days]
    /\ ask.from <= ask.to
    /\ total = NoAnswer /\ byMethod = NoAnswer /\ byDay = NoAnswer
    /\ quiet = TRUE

GrantOf(m) == {p \in payments : p.membership = m /\ p.amount > 0}

RefundsOf(m) == {p \in payments : p.membership = m /\ p.amount < 0}

InRange(p) == ask.from <= p.day /\ p.day <= ask.to

-----------------------------------------------------------------------------
(* Payments                                                                  *)

Midnight ==
    /\ today + 1 \in Days
    /\ today' = today + 1
    /\ UNCHANGED <<payments, askVars, quiet>>

\* paid_at is the day the handler read, which may have ended since.
PaidAt == {today, today - 1} \cap Days

InsertPayment(m, amount, method, day) ==
    LET p == [id |-> Cardinality(payments) + 1, membership |-> m, amount |-> amount,
              method |-> method, day |-> day]
    IN  /\ payments' = payments \cup {p}
        /\ quiet' = (ask.step \in {"idle", "totals"} \/ (quiet /\ ~InRange(p)))
        /\ UNCHANGED <<today, askVars>>

Grant(m) ==
    /\ GrantOf(m) = {}
    /\ \E amount \in Amounts, method \in Methods, day \in PaidAt :
          InsertPayment(m, amount, method, day)

\* The refund is booked under a method of its own.
WrongRefund(m) ==
    /\ Cardinality(RefundsOf(m)) < MaxRefunds
    /\ \E orig \in GrantOf(m), method \in Methods, day \in PaidAt :
          /\ orig.day <= day
          /\ InsertPayment(m, -orig.amount, method, day)

\* The negative of the payment GetOriginalGrantPayment finds, by its method.  Two
\* refunds at once may both be booked, and a refunded membership that was
\* paused can be refunded again.
Refund(m) ==
    /\ Cardinality(RefundsOf(m)) < MaxRefunds
    /\ \E orig \in GrantOf(m), day \in PaidAt :
          /\ orig.day <= day
          /\ InsertPayment(m, -orig.amount, orig.method, day)

-----------------------------------------------------------------------------
(* The three statements                                                      *)

Sum(S) == SumFunction([p \in S |-> p.amount])

Sums(S) == [gross  |-> Sum({p \in S : p.amount > 0}),
            refund |-> -Sum({p \in S : p.amount < 0}),
            net    |-> Sum(S)]

\* sum(...)::int raises an error for a sum that int4 does not hold.
Fits(b) == b.gross <= MaxInt /\ b.refund <= MaxInt /\ -MaxInt - 1 <= b.net

Selected == {p \in payments : InRange(p)}

\* The groups leave the last day of the range out.
WrongOf(S, method) == {p \in S : p.method = method /\ p.day < ask.to}

Of(S, method) == {p \in S : p.method = method}

On(S, day) == {p \in S : p.day = day}

Request ==
    /\ ask.step = "idle"
    /\ ask' = [ask EXCEPT !.step = "totals"]
    /\ UNCHANGED <<today, payments, total, byMethod, byDay, quiet>>

\* The first statement sums without a cast, as bigint.
WrongTotals ==
    /\ ask.step = "totals"
    /\ total' = Sums(Selected)
    /\ ask' = [ask EXCEPT !.step = "methods"]
    /\ UNCHANGED <<today, payments, byMethod, byDay, quiet>>

Totals ==
    /\ ask.step = "totals"
    /\ Fits(Sums(Selected))
    /\ total' = Sums(Selected)
    /\ ask' = [ask EXCEPT !.step = "methods"]
    /\ UNCHANGED <<today, payments, byMethod, byDay, quiet>>

\* Methods that have no row stay zero in the answer.
ByMethod ==
    /\ ask.step = "methods"
    /\ \A m \in Methods : Fits(Sums(Of(Selected, m)))
    /\ byMethod' = [m \in Methods |-> Sums(Of(Selected, m))]
    /\ ask' = [ask EXCEPT !.step = "days"]
    /\ UNCHANGED <<today, payments, total, byDay, quiet>>

\* The days are grouped without the range.
WrongByDay ==
    /\ ask.step = "days"
    /\ \A d \in Days, m \in Methods : Fits(Sums(Of(On(payments, d), m)))
    /\ byDay' = [d \in Days |-> [m \in Methods |-> Sums(Of(On(payments, d), m))]]
    /\ ask' = [ask EXCEPT !.step = "done"]
    /\ UNCHANGED <<today, payments, total, byMethod, quiet>>

ByDay ==
    /\ ask.step = "days"
    /\ \A d \in Days, m \in Methods : Fits(Sums(Of(On(Selected, d), m)))
    /\ byDay' = [d \in Days |-> [m \in Methods |-> Sums(Of(On(Selected, d), m))]]
    /\ ask' = [ask EXCEPT !.step = "done"]
    /\ UNCHANGED <<today, payments, total, byMethod, quiet>>

\* 500: the statement whose turn it is meets a sum that does not fit, or fails for
\* any other reason, as does the reading of its rows.
Fail ==
    /\ ask.step \in {"totals", "methods", "days"}
    /\ ask' = [ask EXCEPT !.step = "failed"]
    /\ UNCHANGED <<today, payments, total, byMethod, byDay, quiet>>

SalesNext ==
    \/ Midnight
    \/ \E m \in Memberships : Grant(m) \/ Refund(m)
    \/ Request \/ Totals \/ ByMethod \/ ByDay \/ Fail

SalesSpec == SalesInit /\ [][SalesNext]_salesVars

-----------------------------------------------------------------------------

FirstDay == \A d \in Days : ask.from <= d

\* A part of the answer, summed over the methods, and over the days of a method.
OverMethods(field) == SumFunction([m \in Methods |-> byMethod[m][field]])

OverDays(m, field) == SumFunction([d \in Days |-> byDay[d][m][field]])

\* The parts of one answer differ only by payments that were committed while it was
\* put together: no later part is short of a payment that an earlier one counts,
\* gross and refunds each.
PartsGrow ==
    ask.step = "done" =>
        \A field \in {"gross", "refund"} :
            /\ total[field] <= OverMethods(field)
            /\ \A m \in Methods : byMethod[m][field] <= OverDays(m, field)

\* When no payment of the range was committed between the statements, they agree.
QuietPartsAgree ==
    ask.step = "done" /\ quiet =>
        \A field \in {"gross", "refund", "net"} :
            /\ total[field] = OverMethods(field)
            /\ \A m \in Methods : byMethod[m][field] = OverDays(m, field)

\* In an answer that goes back to the first day, no method gives back more than it
\* took in, unless some membership was refunded twice: a refund is booked under the
\* method of its grant, as the comment of GetOriginalGrantPayment has it.
RefundsMirrorGrants ==
    ask.step = "done" /\ FirstDay
            /\ (\A m \in Memberships : Cardinality(RefundsOf(m)) <= 1) =>
        \A m \in Methods : byMethod[m].refund <= byMethod[m].gross

\* A range whose totals were answered is never too large for the statements after
\* it, unless payments were committed in between: gross and refunds are summed
\* apart, so that no method and no day exceeds int4 where the whole did not.
QuietRangeFits ==
    quiet /\ ask.step \in {"methods", "days"} =>
        \A m \in Methods :
            /\ Fits(Sums(Of(Selected, m)))
            /\ \A d \in Days : Fits(Sums(Of(On(Selected, d), m)))

-----------------------------------------------------------------------------
(* What keeps the properties true from step to step: each part of the answer *)
(* is what its statement read in a table of then, and the table only grows    *)

\* Every refund stands beside the grant it gives back.
Mirrored(S) ==
    \A p \in S : p.amount < 0 =>
        \E q \in S : /\ q.membership = p.membership /\ q.method = p.method
                     /\ q.amount = -p.amount /\ q.day <= p.day

Within(S) == {p \in S : InRange(p)}

\* The parts of the answer given so far, when its statements found these tables.
Read(first, second, third) ==
    /\ ask.step \in {"methods", "days", "done"} => total = Sums(Within(first))
    /\ ask.step \in {"days", "done"} =>
          byMethod = [m \in Methods |-> Sums(Of(Within(second), m))]
    /\ ask.step = "done" =>
          byDay = [d \in Days |-> [m \in Methods |-> Sums(Of(On(Within(third), d), m))]]

\* When quiet, the first statement read all of the range there is.
PartsRead ==
    \E third \in SUBSET payments : \E second \in SUBSET third : \E first \in SUBSET second :
        /\ Mirrored(second)
        /\ quiet /\ ask.step \in {"methods", "days", "done"} => Within(first) = Selected
        /\ Read(first, second, third)

\* What was answered first did fit.
TotalFits == ask.step \in {"methods", "days", "done"} => Fits(total)

SalesInv ==
    /\ SalesTypeOK
    /\ IsFiniteSet(payments) /\ \A p \in payments : p.amount # 0
    /\ Mirrored(payments)
    /\ PartsRead
    /\ TotalFits
================================================================================
