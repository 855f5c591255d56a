------------------------- MODULE MembershipLifecycle -------------------------
(***************************************************************************)
(* The life of memberships: the admin handlers that grant, pause, unpause, *)
(* cancel a pause, refund and bulk-extend, the kiosk's check-in and the    *)
(* daily batch, all writing the memberships table concurrently.            *)
(*                                                                         *)
(* A handler takes two steps.  In the first it resolves the KST date, reads*)
(* the row outside any transaction and checks it; in the second its        *)
(* transaction runs.  Between the two, other handlers, the batch and       *)
(* midnight may pass.  A transaction is one step: it takes its row locks   *)
(* before it writes and commits all of its statements or none.             *)
(***************************************************************************)
EXTENDS MembershipTable

CONSTANTS
    Workers,     \* handler goroutines serving requests at the same time
    Runners,     \* processes that run the batch: the cron, the CLI
    Ops,         \* operations clients use in this instance
    Idle,        \* a worker between two requests
    Punctual,    \* TRUE: each night's batch succeeds before the day's requests
    Faults,      \* TRUE: a batch step may fail and the batch may stop half-way
    Straddle,    \* TRUE: a request may still be running when midnight passes
    MaxDay,      \* bound: the calendar is 0..MaxDay
    GrantAhead,  \* bound: how many days before its start a grant is made
    MaxAhead,    \* bound: days a pause is registered in advance
    MaxHold,     \* bound: longest pause asked for
    MaxExtend,   \* longest bulk extension (90 in the code)
    MaxEvents    \* bound: events of a membership before no more are asked for

AllOps == {"grant", "pause", "unpause", "cancel_pause", "refund",
           "bulk_extend", "check_in", "delete_member"}

ASSUME LifecycleAssumption ==
    /\ Ops \subseteq AllOps
    /\ Punctual \in BOOLEAN /\ Faults \in BOOLEAN /\ Straddle \in BOOLEAN
    /\ Punctual => ~Faults
    /\ GrantAhead \subseteq Nat
    /\ MaxDay \in Nat /\ MaxAhead \in Nat /\ MaxHold \in Nat
    /\ MaxExtend \in Nat /\ MaxEvents \in Nat

VARIABLES
    today,     \* the KST date, of the application clock and of the database
    rows,      \* memberships, by id
    deleted,   \* members with deleted_at set
    payments,  \* number of positive and of negative payments rows, by id
    history,   \* membership_events, by id, replayed as it grows
    visits,    \* check_ins: membership and KST date of checked_in_at
    inflight,  \* the request each worker is serving, checked and not committed
    run,       \* the batch run each runner is in
    ranOn      \* the last day on which a batch run did all of its steps

vars == <<today, rows, deleted, payments, history, visits, inflight, run, ranOn>>

(***************************************************************************)
(* The ledger membership_events, as a reader replays it.  Each event is    *)
(* applied with its own columns and its created_at date; `end` is what the *)
(* reader finds end_date to be.                                            *)
(***************************************************************************)

NewHistory == [end |-> 0, from |-> Null, to |-> Null,
               pauses |-> 0, refunds |-> 0, count |-> 0]

HistoryGrant(h, end) == [h EXCEPT !.end = end]

HistoryPause(h, from, to) ==
    [h EXCEPT !.end = @ + (to - from), !.from = from, !.to = to,
              !.pauses = @ + 1, !.count = @ + 1]

HistoryUnpause(h, actual) ==
    [h EXCEPT !.end = @ - (h.to - h.from) - (h.to - actual),
              !.from = Null, !.to = Null, !.count = @ + 1]

HistoryCancel(h) ==
    [h EXCEPT !.end = @ - (h.to - h.from), !.from = Null, !.to = Null,
              !.pauses = @ - 1, !.count = @ + 1]

HistoryRefund(h) == [h EXCEPT !.refunds = @ + 1, !.count = @ + 1]

\* The event carries no dates: a hold that is not over moves along.
HistoryExtend(h, days, on) ==
    IF h.from # Null /\ on <= h.to
    THEN [h EXCEPT !.end = @ + days, !.from = @ + days, !.to = @ + days,
                   !.count = @ + 1]
    ELSE [h EXCEPT !.end = @ + days, !.count = @ + 1]

Histories == [end : Date, from : DateOrNull, to : DateOrNull,
              pauses : Int, refunds : Nat, count : Nat]

(***************************************************************************)
(* Requests past their checks, and batch runs.                             *)
(***************************************************************************)

RowOps == {"pause", "unpause", "cancel_pause", "refund"}

Requests ==
    [op : {"grant"}, day : Date, member : Members, kind : Kinds,
     start : Date, term : Nat \ {0}]
      \cup
    [op : {"pause"}, day : Date, id : Ids, from : Date, to : Date]
      \cup
    [op : {"unpause", "cancel_pause", "refund"}, day : Date, id : Ids]
      \cup
    [op : {"bulk_extend"}, day : Date, days : Nat,
     branch : Branches \cup {Null}, kind : Kinds \cup {Null}]
      \cup
    [op : {"check_in"}, day : Date, member : Members]

NoRun == [step |-> 0, day |-> 0, clean |-> TRUE]

Runs == [step : 0 .. 3, day : Date, clean : BOOLEAN]

TypeOK ==
    /\ today \in Date
    /\ DOMAIN rows \subseteq Ids
    /\ rows \in [DOMAIN rows -> Row]
    /\ deleted \subseteq Members
    /\ payments \in [Ids -> [grants : Nat, refunds : Nat]]
    /\ history \in [Ids -> Histories]
    /\ visits \subseteq Ids \X Date
    /\ inflight \in [Workers -> Requests \cup {Idle}]
    /\ run \in [Runners -> Runs]
    /\ ranOn \in Date

Init ==
    /\ today = 0
    /\ rows = [i \in {} |-> Null]
    /\ deleted = {}
    /\ payments = [i \in Ids |-> [grants |-> 0, refunds |-> 0]]
    /\ history = [i \in Ids |-> NewHistory]
    /\ visits = {}
    /\ inflight = [w \in Workers |-> Idle]
    /\ run = [k \in Runners |-> NoRun]
    /\ ranOn = 0

-----------------------------------------------------------------------------
(***************************************************************************)
(* The first half of a handler: everything before its transaction.  A      *)
(* request that fails a check is answered and changes nothing.             *)
(***************************************************************************)

\* With a punctual batch nobody works between midnight and the batch's end.
Open == Punctual => ranOn = today

\* GetMembership: the row exists and its member is not soft-deleted.
Visible(i) == i \in DOMAIN rows /\ rows[i].member \notin deleted

Quota(i) == history[i].count < MaxEvents

Start(w, request) ==
    /\ Open
    /\ request.op \in Ops
    /\ inflight[w] = Idle
    /\ inflight' = [inflight EXCEPT ![w] = request]
    /\ UNCHANGED <<today, rows, deleted, payments, history, visits, run, ranOn>>

GrantCheck(w) ==
    \E m \in Members \ deleted, kind \in Kinds, start \in {today + a : a \in GrantAhead} :
      \E term \in (IF kind = "pass10" THEN {PassTerm} ELSE MonthlyTerms) :
        Start(w, [op |-> "grant", day |-> today, member |-> m, kind |-> kind,
                  start |-> start, term |-> term])

\* The handler looks at pause_used and at the dates, never at the status.
PauseCheck(w) ==
    \E i \in Ids, from \in today .. today + MaxAhead, len \in 0 .. MaxHold :
        /\ Visible(i) /\ Quota(i)
        /\ ~rows[i].pauseUsed
        /\ rows[i].start <= from
        /\ from + len <= rows[i].end
        /\ Start(w, [op |-> "pause", day |-> today, id |-> i,
                     from |-> from, to |-> from + len])

UnpauseCheck(w) ==
    \E i \in Ids :
        /\ Visible(i) /\ Quota(i)
        /\ rows[i].status = "paused"
        /\ Start(w, [op |-> "unpause", day |-> today, id |-> i])

CancelPauseCheck(w) ==
    \E i \in Ids :
        /\ Visible(i) /\ Quota(i)
        /\ rows[i].status = "active" /\ rows[i].pauseUsed
        /\ rows[i].pauseStart # Null /\ rows[i].pauseStart > today
        /\ Start(w, [op |-> "cancel_pause", day |-> today, id |-> i])

\* The idempotency look-up that comes first found no stored answer.
RefundCheck(w) ==
    \E i \in Ids :
        /\ Visible(i) /\ Quota(i)
        /\ Live(rows[i])
        /\ Start(w, [op |-> "refund", day |-> today, id |-> i])

BulkExtendCheck(w) ==
    \E days \in 1 .. MaxExtend,
       branch \in Branches \cup {Null}, kind \in Kinds \cup {Null} :
        /\ \A i \in DOMAIN rows : Quota(i)
        /\ Start(w, [op |-> "bulk_extend", day |-> today, days |-> days,
                     branch |-> branch, kind |-> kind])

CheckInArrives(w) ==
    \E m \in Members :
        Start(w, [op |-> "check_in", day |-> today, member |-> m])

-----------------------------------------------------------------------------
(***************************************************************************)
(* The second half: the transaction.                                       *)
(***************************************************************************)

\* Worker w commits a request of kind op, leaving `table` behind.
Commit(w, op, table) ==
    /\ Open
    /\ inflight[w] # Idle
    /\ inflight[w].op = op
    /\ Accepts(table)
    /\ rows' = table
    /\ inflight' = [inflight EXCEPT ![w] = Idle]
    /\ UNCHANGED <<today, deleted, run, ranOn>>

With(i, row) == [j \in DOMAIN rows \cup {i} |-> IF j = i THEN row ELSE rows[j]]

\* InsertMembership and InsertPayment.  Nothing here looks at the member
\* again: it may have been soft-deleted since the handler read it.
Grant(w) ==
    LET q == inflight[w] IN
    \E i \in Ids \ DOMAIN rows :
        LET row == Granted(q.member, q.kind, q.start, q.term) IN
        /\ Commit(w, "grant", With(i, row))
        /\ payments' = [payments EXCEPT ![i].grants = @ + 1]
        /\ history' = [history EXCEPT ![i] = HistoryGrant(@, row.end)]
        /\ UNCHANGED visits

Pause(w) ==
    LET q == inflight[w] IN
    /\ Commit(w, "pause", With(q.id, Paused(rows[q.id], q.from, q.to, q.day)))
    /\ history' = [history EXCEPT ![q.id] = HistoryPause(@, q.from, q.to)]
    /\ UNCHANGED <<payments, visits>>

Unpause(w) ==
    LET q == inflight[w] IN
    /\ inflight[w] # Idle /\ inflight[w].op = "unpause"
    /\ HasWindow(rows[q.id])
    /\ Commit(w, "unpause", With(q.id, Unpaused(rows[q.id], q.day)))
    /\ history' = [history EXCEPT ![q.id] = HistoryUnpause(@, q.day)]
    /\ UNCHANGED <<payments, visits>>

CancelPause(w) ==
    LET q == inflight[w] IN
    /\ inflight[w] # Idle /\ inflight[w].op = "cancel_pause"
    /\ HasWindow(rows[q.id])
    /\ Commit(w, "cancel_pause", With(q.id, Cancelled(rows[q.id])))
    /\ history' = [history EXCEPT ![q.id] = HistoryCancel(@)]
    /\ UNCHANGED <<payments, visits>>

\* Not the program: the transaction forgets the negative payment.
WrongRefund(w) ==
    LET q == inflight[w] IN
    /\ Commit(w, "refund", With(q.id, Refunded(rows[q.id])))
    /\ payments[q.id].grants > 0
    /\ history' = [history EXCEPT ![q.id] = HistoryRefund(@)]
    /\ UNCHANGED <<payments, visits>>

Refund(w) ==
    LET q == inflight[w] IN
    /\ Commit(w, "refund", With(q.id, Refunded(rows[q.id])))
    /\ payments[q.id].grants > 0
    /\ payments' = [payments EXCEPT ![q.id].refunds = @ + 1]
    /\ history' = [history EXCEPT ![q.id] = HistoryRefund(@)]
    /\ UNCHANGED visits

\* One UPDATE and one event for every target, all of them or none.
BulkExtend(w) ==
    LET q         == inflight[w]
        Target(i) == /\ i \in DOMAIN rows
                     /\ BulkTarget(rows[i], q.branch, q.kind, deleted)
    IN
    /\ Commit(w, "bulk_extend",
              [i \in DOMAIN rows |-> IF Target(i) THEN Extended(rows[i], q.days, q.day)
                                                  ELSE rows[i]])
    /\ history' = [i \in Ids |-> IF Target(i)
                                 THEN HistoryExtend(history[i], q.days, today)
                                 ELSE history[i]]
    /\ UNCHANGED <<payments, visits>>

\* The locked row covers the date the handler resolved; the check-in itself
\* is dated by the database.
CheckIn(w) ==
    LET q == inflight[w] IN
    /\ inflight[w] # Idle /\ inflight[w].op = "check_in"
    /\ q.member \notin deleted
    /\ \E i \in DOMAIN rows :
        LET first == ~ \E v \in visits : rows[v[1]].member = q.member /\ v[2] = q.day IN
        /\ Covers(rows[i], q.member, q.day)
        /\ Commit(w, "check_in", With(i, Visited(rows[i], first)))
        /\ visits' = visits \cup {<<i, today>>}
        /\ UNCHANGED <<payments, history>>

\* The transaction is refused or rolled back (a constraint, no row, a lost
\* connection, a cancelled request): the client gets an error.
RequestFails(w) ==
    /\ inflight[w] # Idle
    /\ inflight' = [inflight EXCEPT ![w] = Idle]
    /\ UNCHANGED <<today, rows, deleted, payments, history, visits, run, ranOn>>

\* DELETE /api/members/:id is a single statement.
DeleteMember ==
    \E m \in Members \ deleted :
        /\ Open
        /\ "delete_member" \in Ops
        /\ deleted' = deleted \cup {m}
        /\ UNCHANGED <<today, rows, payments, history, visits, inflight, run, ranOn>>

-----------------------------------------------------------------------------
(***************************************************************************)
(* The daily batch.  Each step is a transaction of its own; a step that    *)
(* fails is reported and the run goes on with the next one.                *)
(***************************************************************************)

ExpireAll == [i \in DOMAIN rows |-> ExpireIfPast(rows[i], today)]

ReactivateAll == [i \in DOMAIN rows |-> ReactivateIfOver(rows[i], today)]

ScheduleAll == [i \in DOMAIN rows |-> PauseIfArrived(rows[i], today)]

BatchStart(k) ==
    /\ run[k] = NoRun
    /\ run' = [run EXCEPT ![k] = [step |-> 1, day |-> today, clean |-> TRUE]]
    /\ UNCHANGED <<today, rows, deleted, payments, history, visits, inflight, ranOn>>

\* After the last membership step a run that did everything on one day has
\* brought the table up to that day.
BatchAdvance(k, ok) ==
    LET clean == ok /\ run[k].clean /\ run[k].day = today
        next  == [step |-> run[k].step + 1, day |-> run[k].day, clean |-> clean]
    IN
    /\ run' = [run EXCEPT ![k] = IF run[k].step = 3 THEN NoRun ELSE next]
    /\ ranOn' = IF run[k].step = 3 /\ clean THEN today ELSE ranOn
    /\ UNCHANGED <<today, deleted, payments, history, visits, inflight>>

BatchStep(k, step, table) ==
    /\ run[k].step = step
    /\ Accepts(table)
    /\ rows' = table
    /\ BatchAdvance(k, TRUE)

BatchExpire(k) == BatchStep(k, 1, ExpireAll)

BatchReactivate(k) == BatchStep(k, 2, ReactivateAll)

BatchSchedule(k) == BatchStep(k, 3, ScheduleAll)

BatchStepFails(k) ==
    /\ Faults
    /\ run[k].step > 0
    /\ UNCHANGED rows
    /\ BatchAdvance(k, FALSE)

\* The process stops, or the context is cancelled: no further steps.
BatchStops(k) ==
    /\ Faults
    /\ run[k].step > 0
    /\ run' = [run EXCEPT ![k] = NoRun]
    /\ UNCHANGED <<today, rows, deleted, payments, history, visits, inflight, ranOn>>

Midnight ==
    /\ today < MaxDay
    /\ Punctual => ranOn = today /\ \A k \in Runners : run[k] = NoRun
    /\ Straddle \/ \A w \in Workers : inflight[w] = Idle
    /\ today' = today + 1
    /\ UNCHANGED <<rows, deleted, payments, history, visits, inflight, run, ranOn>>

-----------------------------------------------------------------------------

Handle(w) ==
    \/ GrantCheck(w) \/ PauseCheck(w) \/ UnpauseCheck(w) \/ CancelPauseCheck(w)
    \/ RefundCheck(w) \/ BulkExtendCheck(w) \/ CheckInArrives(w)
    \/ Grant(w) \/ Pause(w) \/ Unpause(w) \/ CancelPause(w)
    \/ Refund(w) \/ BulkExtend(w) \/ CheckIn(w)
    \/ RequestFails(w)

Batch(k) ==
    \/ BatchStart(k) \/ BatchExpire(k) \/ BatchReactivate(k) \/ BatchSchedule(k)
    \/ BatchStepFails(k) \/ BatchStops(k)

Next ==
    \/ \E w \in Workers : Handle(w)
    \/ \E k \in Runners : Batch(k)
    \/ DeleteMember
    \/ Midnight

Spec == Init /\ [][Next]_vars

\* The scheduler: a run is started again and again, and a step that can
\* succeed again and again eventually does.
Scheduler ==
    \E k \in Runners :
        /\ WF_vars(BatchStart(k))
        /\ SF_vars(BatchExpire(k))
        /\ SF_vars(BatchReactivate(k))
        /\ SF_vars(BatchSchedule(k))

FairSpec == Spec /\ Scheduler

-----------------------------------------------------------------------------
(***************************************************************************)
(* Safety, whatever the order in which handlers and batch steps commit.    *)
(***************************************************************************)

SoundPeriod(r) ==
    /\ r.start <= r.end
    /\ HasWindow(r) =>
          /\ r.pauseStart <= r.pauseEnd
          /\ r.start <= r.end - PauseLen(r)

\* The dates of every membership stay a period, also in the states the
\* exclusion constraint does not look at (refunded, expired), and taking a
\* registered hold back always leaves one: start_date survives the date
\* arithmetic of ApplyPause, ApplyUnpause, ApplyCancelPause and BulkExtend
\* in any order.
PeriodSound == \A i \in DOMAIN rows : SoundPeriod(rows[i])

\* No row, whatever the handlers left in it, makes a step of RunExpiry raise
\* a constraint error: one bad row would undo the step for every member.
BatchNeverAborts ==
    /\ Accepts(ExpireAll)
    /\ Accepts(ReactivateAll)
    /\ Accepts(ScheduleAll)

\* Cancelling a registered hold shortens end_date and so never runs into
\* another membership of the member, even when other requests moved the row
\* after the handler read it.
CancelNeverConflicts ==
    \A i \in DOMAIN rows :
        HasWindow(rows[i]) /\ rows[i].status # "paused"
            => Accepts(With(i, Cancelled(rows[i])))

\* Money and ledger agree: a refund's status change, negative payment and
\* event are one transaction, so none of them is ever there without the
\* others, whichever requests raced.
RefundsBooked ==
    /\ \A i \in Ids : payments[i].refunds = history[i].refunds
    /\ \A i \in DOMAIN rows :
          rows[i].status = "refunded" => payments[i].refunds >= 1

(***************************************************************************)
(* The inductive invariant behind these: what the handlers and the batch   *)
(* rely on, besides the types, when they write a row.                      *)
(***************************************************************************)

\* A row with a registered hold has an event that tells its days.
HoldsLogged ==
    /\ \A i \in Ids : history[i].from = Null <=> history[i].to = Null
    /\ \A i \in DOMAIN rows : HasWindow(rows[i]) => history[i].from # Null

\* A request for one membership holds the id of a row that exists: rows are
\* never deleted.
RequestsKnown ==
    \A w \in Workers :
        inflight[w] # Idle /\ inflight[w].op \in RowOps
            => inflight[w].id \in DOMAIN rows

IInv ==
    /\ TypeOK
    /\ Accepts(rows)
    /\ PeriodSound
    /\ HoldsLogged
    /\ RequestsKnown
    /\ RefundsBooked

(***************************************************************************)
(* Safety when every night's batch succeeds before the first request and   *)
(* no request is running at midnight.                                      *)
(***************************************************************************)

BatchDone == ranOn = today /\ \A k \in Runners : run[k] = NoRun

\* The dates in membership_events explain end_date: replaying the events of
\* a membership in order gives the end_date of its row.
LedgerExplainsEnd ==
    \A i \in DOMAIN rows : history[i].end = rows[i].end

\* After a batch run that did all of its steps, every hold whose days have
\* come is in force: no row is still active with a registered hold that has
\* begun.
ScheduledHoldsStart ==
    BatchDone =>
        \A i \in DOMAIN rows :
            rows[i].status = "active" /\ HasWindow(rows[i])
                => rows[i].pauseStart > today

\* ... and no hold is in force beyond its last day.
HoldsEndOnTime ==
    BatchDone =>
        \A i \in DOMAIN rows :
            rows[i].status = "paused" => rows[i].pauseEnd >= today

\* The days a membership was used, and those of them on which another one of
\* the member was used too.
DaysUsed(i) == {v[2] : v \in {u \in visits : u[1] = i}}

DaysShared(i) ==
    {d \in DaysUsed(i) : \E v \in visits :
        /\ v[1] # i /\ v[2] = d
        /\ rows[v[1]].member = rows[i].member}

\* A pass10 is charged once for each day it is used, however often the
\* member checks in: the visits taken off it are between the days on which
\* only this membership was used and the days on which it was.
OneVisitPerDay ==
    \A i \in DOMAIN rows :
        rows[i].kind = "pass10" =>
            PassVisits - rows[i].remaining \in
                Cardinality(DaysUsed(i) \ DaysShared(i)) .. Cardinality(DaysUsed(i))

(***************************************************************************)
(* What makes these inductive.  A request is over on the day it began, so  *)
(* the night's batch finds the holds one day behind at the most, and its   *)
(* steps bring them up to the day one after the other.                     *)
(***************************************************************************)

SameDay ==
    \A w \in Workers : inflight[w] # Idle => inflight[w].day = today

PausesAhead ==
    \A w \in Workers :
        inflight[w] # Idle /\ inflight[w].op = "pause"
            => inflight[w].from >= inflight[w].day

\* The hold of a row is the one its events tell, and so is its end.
Explained(r, h) ==
    /\ h.end = r.end
    /\ HasWindow(r) => r.pauseUsed /\ h.from = r.pauseStart /\ h.to = r.pauseEnd

Starts(r, day) == r.status = "active" /\ HasWindow(r) => r.pauseStart > day

Ends(r, day) == r.status = "paused" => r.pauseEnd >= day

OnTime(r, day) == Starts(r, day) /\ Ends(r, day)

PunctualInv ==
    /\ SameDay
    /\ PausesAhead
    /\ \A w \in Workers : inflight[w] # Idle => ranOn = today
    /\ \A i \in DOMAIN rows : Explained(rows[i], history[i])
    /\ \A i \in DOMAIN rows : OnTime(rows[i], today - 1)
    /\ ranOn = today => \A i \in DOMAIN rows : OnTime(rows[i], today)
    /\ \A k \in Runners :
          run[k].step = 3 /\ run[k].clean /\ run[k].day = today
              => \A i \in DOMAIN rows : Ends(rows[i], today)

\* A run of today is past the step that reactivates, or has done all of them.
Reactivated ==
    \/ ranOn = today
    \/ \E k \in Runners : run[k].step = 3 /\ run[k].clean /\ run[k].day = today

\* That holds end needs neither a punctual batch nor one that never fails.
HoldsInv ==
    /\ SameDay
    /\ PausesAhead
    /\ ranOn <= today
    /\ \A k \in Runners : run[k].step # 0 => run[k].day <= today
    /\ Reactivated => \A i \in DOMAIN rows : Ends(rows[i], today)

\* The days a pass10 was charged for: all those on which only it was used,
\* and none on which it was not.
Charged(i) ==
    \E days \in SUBSET DaysUsed(i) :
        /\ DaysUsed(i) \ DaysShared(i) \subseteq days
        /\ Cardinality(days) = PassVisits - rows[i].remaining

VisitsInv ==
    /\ SameDay
    /\ \A v \in visits : v[1] \in DOMAIN rows
    /\ \A i \in Ids : IsFiniteSet(DaysUsed(i))
    /\ \A i \in DOMAIN rows : rows[i].kind = "pass10" => Charged(i)

(***************************************************************************)
(* Liveness, under the scheduler's fairness.                               *)
(***************************************************************************)

\* A hold that is over is taken off, however many nights the batch missed.
HoldOver(i) == i \in DOMAIN rows /\ rows[i].status = "paused" /\ rows[i].pauseEnd < today

HoldsEnd == \A i \in Ids : HoldOver(i) ~> ~HoldOver(i)

\* A membership that is past its end does not stay active, even when its
\* hold is found to be over only after the step that expires memberships.
PastEnd(i) == i \in DOMAIN rows /\ rows[i].status = "active" /\ rows[i].end < today

PastEndExpires == \A i \in Ids : PastEnd(i) ~> ~PastEnd(i)
=============================================================================
