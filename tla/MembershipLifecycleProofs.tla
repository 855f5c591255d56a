---------------------- MODULE MembershipLifecycleProofs ----------------------
(***************************************************************************)
(* Theorems about MembershipLifecycle, for any number of members, ids,     *)
(* workers and batch processes, any calendar and any interleaving,         *)
(* missed, failed and repeated batch runs included.                        *)
(***************************************************************************)
EXTENDS MembershipLifecycle, FiniteSetTheorems, TLAPS

(***************************************************************************)
(* Facts about single rows.                                                *)
(***************************************************************************)

\* A granted row is a row and its dates are a period.
LEMMA GrantedRow ==
    ASSUME NEW m \in Members, NEW kind \in Kinds, NEW start \in Date,
           NEW term \in Nat \ {0}
    PROVE  /\ Granted(m, kind, start, term) \in Row
           /\ SoundPeriod(Granted(m, kind, start, term))
           /\ ~HasWindow(Granted(m, kind, start, term))
           /\ Granted(m, kind, start, term).status # "refunded"
  BY TermsAssumption, MembersAssumption
     DEF Granted, Row, Kinds, Statuses, Date, DateOrNull, SoundPeriod, HasWindow

\* ApplyPause keeps the period of a row the table accepts.
LEMMA PausedRow ==
    ASSUME NEW r \in Row, NEW from \in Date, NEW to \in Date, NEW day \in Date,
           SoundPeriod(r), RowOK(Paused(r, from, to, day))
    PROVE  /\ Paused(r, from, to, day) \in Row
           /\ SoundPeriod(Paused(r, from, to, day))
           /\ Paused(r, from, to, day).status = "refunded" => r.status = "refunded"
  <1> DEFINE p == Paused(r, from, to, day)
  <1>1. /\ p.start = r.start /\ p.end = r.end + (to - from)
        /\ p.pauseStart = from /\ p.pauseEnd = to
        /\ p.status = (IF from <= day THEN "paused" ELSE r.status)
    BY DEF Paused, Row
  <1>2. p \in Row
    <2>1. r.end + (to - from) \in Date
      BY DEF Row, Date
    <2>2. from \in DateOrNull /\ to \in DateOrNull
      BY DEF DateOrNull, Date
    <2>3. (IF from <= day THEN "paused" ELSE r.status) \in Statuses
      BY DEF Row, Statuses
    <2> QED
      BY <2>1, <2>2, <2>3 DEF Paused, Row
  <1>3. from # Null /\ to # Null
    BY MembersAssumption DEF Date
  <1>4. from <= to
    BY <1>1, <1>3 DEF RowOK, HasWindow
  <1>5. SoundPeriod(p)
    BY <1>1, <1>4 DEF SoundPeriod, PauseLen, Row, Date
  <1>6. p.status = "refunded" => r.status = "refunded"
    BY <1>1
  <1> QED
    BY <1>2, <1>5, <1>6

\* ApplyUnpause leaves a period because the table accepts live rows only
\* with one.
LEMMA UnpausedRow ==
    ASSUME NEW r \in Row, NEW day \in Date,
           HasWindow(r), RowOK(Unpaused(r, day))
    PROVE  /\ Unpaused(r, day) \in Row
           /\ SoundPeriod(Unpaused(r, day))
           /\ ~HasWindow(Unpaused(r, day))
           /\ Unpaused(r, day).status # "refunded"
  <1> DEFINE u == Unpaused(r, day)
  <1>1. r.pauseStart \in Int /\ r.pauseEnd \in Int
    BY DEF HasWindow, Row, DateOrNull
  <1>2. r.end - PauseLen(r) - (r.pauseEnd - day) \in Date
    BY <1>1 DEF PauseLen, Row, Date
  <1>3. u \in Row
    BY <1>2 DEF Unpaused, Row, Statuses, DateOrNull
  <1>4. u.pauseStart = Null /\ u.status = "active"
    BY DEF Unpaused, Row
  <1>5. u.start <= u.end
    BY <1>4 DEF RowOK, Live
  <1> QED
    BY <1>3, <1>4, <1>5 DEF SoundPeriod, HasWindow

\* ApplyCancelPause leaves a period, whatever the row's status.
LEMMA CancelledRow ==
    ASSUME NEW r \in Row, HasWindow(r), SoundPeriod(r)
    PROVE  /\ Cancelled(r) \in Row
           /\ SoundPeriod(Cancelled(r))
           /\ ~HasWindow(Cancelled(r))
           /\ Cancelled(r).status = r.status
           /\ Cancelled(r).end <= r.end
  <1> DEFINE c == Cancelled(r)
  <1>1. r.pauseStart \in Int /\ r.pauseEnd \in Int
    BY DEF HasWindow, Row, DateOrNull
  <1>2. r.end - PauseLen(r) \in Date
    BY <1>1 DEF PauseLen, Row, Date
  <1>3. c \in Row
    BY <1>2 DEF Cancelled, Row, DateOrNull
  <1>4. /\ c.start = r.start /\ c.end = r.end - PauseLen(r)
        /\ c.pauseStart = Null /\ c.status = r.status
    BY DEF Cancelled, Row
  <1>5. c.start <= c.end /\ c.end <= r.end
    BY <1>1, <1>4 DEF SoundPeriod, PauseLen, Row, Date
  <1> QED
    BY <1>3, <1>4, <1>5 DEF SoundPeriod, HasWindow

\* ApplyRefund touches nothing but the status.
LEMMA RefundedRow ==
    ASSUME NEW r \in Row, SoundPeriod(r)
    PROVE  /\ Refunded(r) \in Row
           /\ SoundPeriod(Refunded(r))
           /\ HasWindow(Refunded(r)) <=> HasWindow(r)
  BY DEF Refunded, Row, Statuses, SoundPeriod, HasWindow, PauseLen

\* A bulk extension moves the end and the hold together or the end alone.
LEMMA ExtendedRow ==
    ASSUME NEW r \in Row, NEW days \in Nat, NEW day \in Date,
           SoundPeriod(r), RowOK(r)
    PROVE  /\ Extended(r, days, day) \in Row
           /\ SoundPeriod(Extended(r, days, day))
           /\ HasWindow(Extended(r, days, day)) <=> HasWindow(r)
           /\ Extended(r, days, day).status = r.status
  <1>1. CASE MovesWindow(r, day)
    <2>1. r.pauseStart # Null /\ r.pauseEnd # Null
      BY <1>1 DEF MovesWindow, RowOK, HasWindow
    <2>2. r.pauseStart \in Int /\ r.pauseEnd \in Int
      BY <2>1 DEF Row, DateOrNull
    <2> DEFINE e == Extended(r, days, day)
    <2>3. /\ r.end + days \in Date
          /\ r.pauseStart + days \in DateOrNull
          /\ r.pauseEnd + days \in DateOrNull
      BY <2>2 DEF Row, Date, DateOrNull
    <2>4. e \in Row
      BY <1>1, <2>3 DEF Extended, Row
    <2>5. /\ e.start = r.start /\ e.end = r.end + days /\ e.status = r.status
          /\ e.pauseStart = r.pauseStart + days /\ e.pauseEnd = r.pauseEnd + days
      BY <1>1 DEF Extended, Row
    <2>6. HasWindow(e) /\ HasWindow(r)
      BY <2>1, <2>2, <2>5, MembersAssumption DEF HasWindow
    <2>7. SoundPeriod(e)
      BY <2>2, <2>5, <2>6 DEF SoundPeriod, PauseLen, Row, Date
    <2> QED
      BY <2>4, <2>5, <2>6, <2>7
  <1>2. CASE ~MovesWindow(r, day)
    BY <1>2, MembersAssumption
       DEF Extended, Row, Date, DateOrNull, SoundPeriod, HasWindow, PauseLen
  <1> QED
    BY <1>1, <1>2

\* A check-in touches the visits and the status of a pass10.
LEMMA VisitedRow ==
    ASSUME NEW r \in Row, NEW first \in BOOLEAN, SoundPeriod(r), RowOK(r)
    PROVE  /\ Visited(r, first) \in Row
           /\ SoundPeriod(Visited(r, first))
           /\ HasWindow(Visited(r, first)) <=> HasWindow(r)
           /\ Visited(r, first).status = "refunded" => r.status = "refunded"
  <1>1. CASE first /\ r.kind = "pass10"
    <2>1. r.remaining \in Int
      BY <1>1 DEF RowOK, Row
    <2>2. /\ r.remaining - 1 \in Int \cup {Null}
          /\ (IF r.remaining - 1 <= 0 THEN "expired" ELSE r.status) \in Statuses
      BY <2>1 DEF Row, Statuses
    <2>3. Visited(r, first) \in Row
      BY <1>1, <2>2 DEF Visited, Row
    <2> QED
      BY <1>1, <2>3 DEF Visited, Row, SoundPeriod, HasWindow, PauseLen
  <1>2. CASE ~(first /\ r.kind = "pass10")
    BY <1>2 DEF Visited
  <1> QED
    BY <1>1, <1>2

(***************************************************************************)
(* The steps of the batch, row by row.                                     *)
(***************************************************************************)

\* ExpireActivePastEnd retires rows and leaves their dates alone.
LEMMA ExpiredRow ==
    ASSUME NEW r \in Row, NEW now \in Date, SoundPeriod(r), RowOK(r)
    PROVE  LET e == ExpireIfPast(r, now) IN
           /\ e \in Row /\ SoundPeriod(e) /\ RowOK(e)
           /\ e.member = r.member /\ e.start = r.start /\ e.end = r.end
           /\ Live(e) => Live(r)
           /\ HasWindow(e) => HasWindow(r)
           /\ e.status = "refunded" <=> r.status = "refunded"
  <1>1. ExpireIfPast(r, now) \in Row
    BY DEF ExpireIfPast, Row, Statuses
  <1> QED
    BY <1>1 DEF ExpireIfPast, Row, SoundPeriod, RowOK, HasWindow, PauseLen, Live

\* ReactivatePausedPastEnd clears the hold of a row and leaves its period alone.
LEMMA ReactivatedRow ==
    ASSUME NEW r \in Row, NEW now \in Date, SoundPeriod(r), RowOK(r)
    PROVE  LET e == ReactivateIfOver(r, now) IN
           /\ e \in Row /\ SoundPeriod(e) /\ RowOK(e)
           /\ e.member = r.member /\ e.start = r.start /\ e.end = r.end
           /\ Live(e) => Live(r)
           /\ HasWindow(e) => HasWindow(r)
           /\ e.status = "refunded" <=> r.status = "refunded"
  <1>1. ReactivateIfOver(r, now) \in Row
    BY DEF ReactivateIfOver, Row, Statuses, DateOrNull
  <1> QED
    BY <1>1 DEF ReactivateIfOver, Row, SoundPeriod, RowOK, HasWindow, PauseLen, Live

\* ScheduleArrivedPause pauses rows that have a hold, and changes nothing else.
LEMMA ScheduledRow ==
    ASSUME NEW r \in Row, NEW now \in Date, SoundPeriod(r), RowOK(r)
    PROVE  LET e == PauseIfArrived(r, now) IN
           /\ e \in Row /\ SoundPeriod(e) /\ RowOK(e)
           /\ e.member = r.member /\ e.start = r.start /\ e.end = r.end
           /\ Live(e) => Live(r)
           /\ HasWindow(e) => HasWindow(r)
           /\ e.status = "refunded" <=> r.status = "refunded"
  <1>1. PauseIfArrived(r, now) \in Row
    BY DEF PauseIfArrived, Row, Statuses
  <1>2. r.status = "active" /\ r.pauseStart = now => HasWindow(r)
    BY MembersAssumption DEF RowOK, HasWindow, Date
  <1> QED
    BY <1>1, <1>2 DEF PauseIfArrived, Row, SoundPeriod, RowOK, HasWindow, PauseLen, Live

\* A statement that only shortens periods and retires rows cannot break the
\* exclusion constraint.
LEMMA ShrinkingAccepted ==
    ASSUME NEW t, NEW u, DOMAIN u = DOMAIN t,
           t \in [DOMAIN t -> Row], u \in [DOMAIN t -> Row], Accepts(t),
           \A i \in DOMAIN t :
              /\ RowOK(u[i])
              /\ u[i].member = t[i].member /\ u[i].start = t[i].start
              /\ u[i].end <= t[i].end
              /\ Live(u[i]) => Live(t[i])
    PROVE  Accepts(u)
  <1>1. ASSUME NEW i \in DOMAIN t, NEW j \in DOMAIN t, i # j, Overlap(u[i], u[j])
        PROVE  FALSE
    <2>1. ~Overlap(t[i], t[j])
      BY <1>1 DEF Accepts
    <2>2. t[i] \in Row /\ t[j] \in Row /\ u[i] \in Row /\ u[j] \in Row
      OBVIOUS
    <2>3. /\ t[i].end \in Int /\ t[j].end \in Int /\ u[i].end \in Int /\ u[j].end \in Int
          /\ t[i].start \in Int /\ t[j].start \in Int
      BY <2>2 DEF Row, Date
    <2>4. Overlap(t[i], t[j])
      BY <1>1, <2>3 DEF Overlap
    <2> QED
      BY <2>1, <2>4
  <1> QED
    BY <1>1 DEF Accepts

(***************************************************************************)
(* The inductive invariant.                                                *)
(***************************************************************************)

\* The empty table satisfies the invariant.
THEOREM InitInv == Init => IInv
  <1> SUFFICES ASSUME Init PROVE IInv
    OBVIOUS
  <1> USE DEF Init
  <1>1. TypeOK
    BY DEF TypeOK, Histories, NewHistory, Date, DateOrNull, Runs, NoRun
  <1>2. Accepts(rows) /\ PeriodSound
    BY DEF Accepts, PeriodSound
  <1>3. HoldsLogged /\ RequestsKnown /\ RefundsBooked
    BY DEF HoldsLogged, RequestsKnown, RefundsBooked, NewHistory
  <1> QED
    BY <1>1, <1>2, <1>3 DEF IInv

\* The first half of a handler changes nothing but its own request.
LEMMA StartInv ==
    ASSUME IInv, NEW w \in Workers, NEW request \in Requests,
           request.op \in RowOps => request.id \in DOMAIN rows,
           Start(w, request)
    PROVE  IInv'
  <1> USE DEF Start
  <1>1. TypeOK'
    BY DEF IInv, TypeOK
  <1>2. Accepts(rows)' /\ PeriodSound' /\ HoldsLogged' /\ RefundsBooked'
    BY DEF IInv, Accepts, PeriodSound, HoldsLogged, RefundsBooked
  <1>3. RequestsKnown'
    BY DEF IInv, TypeOK, RequestsKnown
  <1> QED
    BY <1>1, <1>2, <1>3 DEF IInv

\* A step that leaves the rows, the ledger, the money and the requests alone,
\* or only ends a request.
LEMMA QuietInv ==
    ASSUME IInv, UNCHANGED <<rows, payments, history>>, TypeOK',
           \A w \in Workers : inflight'[w] \in {inflight[w], Idle}
    PROVE  IInv'
  <1>1. Accepts(rows)' /\ PeriodSound' /\ HoldsLogged' /\ RefundsBooked'
    BY DEF IInv, Accepts, PeriodSound, HoldsLogged, RefundsBooked
  <1>2. RequestsKnown'
    BY DEF IInv, RequestsKnown
  <1> QED
    BY <1>1, <1>2 DEF IInv

\* A transaction that writes one row, existing or new, with its event.
LEMMA CommitInv ==
    ASSUME IInv, NEW w \in Workers, NEW op, NEW i \in Ids, NEW row \in Row,
           NEW h \in Histories,
           Commit(w, op, With(i, row)),
           history' = [history EXCEPT ![i] = h],
           payments' \in [Ids -> [grants : Nat, refunds : Nat]],
           visits' \subseteq Ids \X Date,
           SoundPeriod(row),
           h.from = Null <=> h.to = Null,
           HasWindow(row) => h.from # Null,
           \A j \in Ids : payments'[j].refunds =
                             IF j = i THEN h.refunds ELSE payments[j].refunds,
           row.status = "refunded" => h.refunds >= 1
    PROVE  IInv'
  <1>1. /\ DOMAIN rows' = DOMAIN rows \cup {i}
        /\ \A j \in DOMAIN rows' : rows'[j] = IF j = i THEN row ELSE rows[j]
    BY DEF Commit, With
  <1>2. /\ history' \in [Ids -> Histories]
        /\ \A j \in Ids : history'[j] = IF j = i THEN h ELSE history[j]
    BY DEF IInv, TypeOK
  <1>3. TypeOK'
    <2>1. rows' = [j \in DOMAIN rows' |-> rows'[j]]
      BY DEF Commit, With
    <2>2. rows' \in [DOMAIN rows' -> Row] /\ DOMAIN rows' \subseteq Ids
      BY <1>1, <2>1 DEF IInv, TypeOK
    <2> QED
      BY <1>2, <2>2 DEF IInv, TypeOK, Commit
  <1>4. Accepts(rows)'
    BY DEF Commit, Accepts, RowOK, Overlap, Live, HasWindow
  <1>5. PeriodSound'
    BY <1>1 DEF IInv, PeriodSound, SoundPeriod, HasWindow, PauseLen
  <1>6. HoldsLogged'
    BY <1>1, <1>2 DEF IInv, TypeOK, HoldsLogged, HasWindow
  <1>7. RequestsKnown'
    BY <1>1 DEF IInv, TypeOK, RequestsKnown, Commit
  <1>8. RefundsBooked'
    BY <1>1, <1>2 DEF IInv, TypeOK, RefundsBooked
  <1> QED
    BY <1>3, <1>4, <1>5, <1>6, <1>7, <1>8 DEF IInv

(***************************************************************************)
(* The checks.                                                             *)
(***************************************************************************)

\* Each check starts a well-formed request for a row it has seen.
LEMMA ChecksInv ==
    ASSUME IInv, NEW w \in Workers,
           \/ GrantCheck(w) \/ PauseCheck(w) \/ UnpauseCheck(w)
           \/ CancelPauseCheck(w) \/ RefundCheck(w) \/ BulkExtendCheck(w)
           \/ CheckInArrives(w)
    PROVE  IInv'
  <1> today \in Int
    BY DEF IInv, TypeOK, Date
  <1>1. CASE GrantCheck(w)
    <2> PICK m \in Members \ deleted, kind \in Kinds,
             start \in {today + a : a \in GrantAhead} :
          \E term \in (IF kind = "pass10" THEN {PassTerm} ELSE MonthlyTerms) :
            Start(w, [op |-> "grant", day |-> today, member |-> m, kind |-> kind,
                      start |-> start, term |-> term])
      BY <1>1 DEF GrantCheck
    <2> PICK term \in (IF kind = "pass10" THEN {PassTerm} ELSE MonthlyTerms) :
            Start(w, [op |-> "grant", day |-> today, member |-> m, kind |-> kind,
                      start |-> start, term |-> term])
      OBVIOUS
    <2> DEFINE q == [op |-> "grant", day |-> today, member |-> m, kind |-> kind,
                     start |-> start, term |-> term]
    <2>1. start \in Int /\ term \in Nat \ {0}
      <3>1. GrantAhead \subseteq Nat
        BY LifecycleAssumption
      <3>2. \A a \in GrantAhead : today + a \in Int
        BY <3>1
      <3> QED
        BY <3>2, TermsAssumption
    <2>2. q \in Requests
      BY <2>1 DEF Requests, Date
    <2>3. q.op \notin RowOps
      BY DEF RowOps
    <2> QED
      BY <2>2, <2>3, StartInv
  <1>2. CASE PauseCheck(w)
    <2> PICK i \in Ids, from \in today .. today + MaxAhead, len \in 0 .. MaxHold :
          /\ Visible(i)
          /\ Start(w, [op |-> "pause", day |-> today, id |-> i,
                       from |-> from, to |-> from + len])
      BY <1>2 DEF PauseCheck
    <2> DEFINE q == [op |-> "pause", day |-> today, id |-> i,
                     from |-> from, to |-> from + len]
    <2>1. from \in Int /\ from + len \in Int
      BY LifecycleAssumption
    <2>2. q \in Requests
      BY <2>1 DEF Requests, Date
    <2>3. q.id \in DOMAIN rows
      BY DEF Visible
    <2> QED
      BY <2>2, <2>3, StartInv
  <1>3. CASE UnpauseCheck(w) \/ CancelPauseCheck(w) \/ RefundCheck(w)
    <2> PICK i \in Ids, op \in {"unpause", "cancel_pause", "refund"} :
          /\ Visible(i)
          /\ Start(w, [op |-> op, day |-> today, id |-> i])
      BY <1>3 DEF UnpauseCheck, CancelPauseCheck, RefundCheck
    <2> DEFINE q == [op |-> op, day |-> today, id |-> i]
    <2>1. q \in Requests
      BY DEF Requests, Date
    <2>2. q.id \in DOMAIN rows
      BY DEF Visible
    <2> QED
      BY <2>1, <2>2, StartInv
  <1>4. CASE BulkExtendCheck(w)
    <2> PICK days \in 1 .. MaxExtend,
             branch \in Branches \cup {Null}, kind \in Kinds \cup {Null} :
          Start(w, [op |-> "bulk_extend", day |-> today, days |-> days,
                    branch |-> branch, kind |-> kind])
      BY <1>4 DEF BulkExtendCheck
    <2> DEFINE q == [op |-> "bulk_extend", day |-> today, days |-> days,
                     branch |-> branch, kind |-> kind]
    <2>1. days \in Nat
      BY LifecycleAssumption
    <2>2. q \in Requests
      BY <2>1 DEF Requests, Date
    <2>3. q.op \notin RowOps
      BY DEF RowOps
    <2> QED
      BY <2>2, <2>3, StartInv
  <1>5. CASE CheckInArrives(w)
    <2> PICK m \in Members :
          Start(w, [op |-> "check_in", day |-> today, member |-> m])
      BY <1>5 DEF CheckInArrives
    <2> DEFINE q == [op |-> "check_in", day |-> today, member |-> m]
    <2>1. q \in Requests
      BY DEF Requests, Date
    <2>2. q.op \notin RowOps
      BY DEF RowOps
    <2> QED
      BY <2>1, <2>2, StartInv
  <1> QED
    BY <1>1, <1>2, <1>3, <1>4, <1>5

(***************************************************************************)
(* The transactions.                                                       *)
(***************************************************************************)

\* What a request of each kind carries.
LEMMA RequestShapes ==
    ASSUME NEW q \in Requests
    PROVE  /\ q.op = "grant" => /\ q.member \in Members /\ q.kind \in Kinds
                                /\ q.start \in Date /\ q.term \in Nat \ {0}
           /\ q.op = "pause" => /\ q.id \in Ids /\ q.day \in Date
                                /\ q.from \in Date /\ q.to \in Date
           /\ q.op \in {"unpause", "cancel_pause", "refund"} =>
                                q.id \in Ids /\ q.day \in Date
           /\ q.op = "bulk_extend" => q.days \in Nat /\ q.day \in Date
           /\ q.op = "check_in" => q.member \in Members /\ q.day \in Date
  BY DEF Requests

\* A committing request is one of the well-formed requests, and its row is
\* a sound row of the table.
LEMMA CommitFacts ==
    ASSUME IInv, NEW w \in Workers, NEW op, NEW table, Commit(w, op, table)
    PROVE  /\ inflight[w] \in Requests /\ inflight[w].op = op
           /\ op \in RowOps =>
                /\ inflight[w].id \in DOMAIN rows
                /\ rows[inflight[w].id] \in Row
                /\ SoundPeriod(rows[inflight[w].id])
                /\ RowOK(rows[inflight[w].id])
                /\ history[inflight[w].id] \in Histories
           /\ Accepts(table)
  <1>1. inflight[w] \in Requests /\ inflight[w].op = op
    BY DEF Commit, IInv, TypeOK
  <1>2. ASSUME op \in RowOps
        PROVE  inflight[w].id \in DOMAIN rows
    BY <1>1, <1>2 DEF IInv, RequestsKnown, Commit
  <1> QED
    BY <1>1, <1>2 DEF IInv, TypeOK, PeriodSound, Accepts, Commit

\* The transaction of a grant adds a sound row without a hold.
LEMMA GrantInv ==
    ASSUME IInv, NEW w \in Workers, Grant(w)
    PROVE  IInv'
  <1> DEFINE q == inflight[w]
             row == Granted(q.member, q.kind, q.start, q.term)
  <1>1. PICK i \in Ids \ DOMAIN rows :
        /\ Commit(w, "grant", With(i, row))
        /\ payments' = [payments EXCEPT ![i].grants = @ + 1]
        /\ history' = [history EXCEPT ![i] = HistoryGrant(@, row.end)]
        /\ UNCHANGED visits
    BY DEF Grant
  <1> DEFINE h == HistoryGrant(history[i], row.end)
  <1>2. q \in Requests /\ q.op = "grant"
    BY <1>1, CommitFacts
  <1>3. /\ row \in Row /\ SoundPeriod(row)
        /\ ~HasWindow(row) /\ row.status # "refunded"
    BY <1>2, RequestShapes, GrantedRow
  <1>4. history[i] \in Histories
    BY DEF IInv, TypeOK
  <1>5. /\ h \in Histories /\ h.from = history[i].from /\ h.to = history[i].to
        /\ h.refunds = history[i].refunds
    BY <1>3, <1>4 DEF HistoryGrant, Histories, Row
  <1>6. Commit(w, "grant", With(i, row)) /\ history' = [history EXCEPT ![i] = h]
    BY <1>1
  <1>7. \A j \in Ids : payments'[j].refunds = IF j = i THEN h.refunds ELSE payments[j].refunds
    BY <1>1, <1>5 DEF IInv, TypeOK, RefundsBooked
  <1>8. /\ payments' \in [Ids -> [grants : Nat, refunds : Nat]]
        /\ visits' \subseteq Ids \X Date
        /\ h.from = Null <=> h.to = Null
    BY <1>1, <1>5 DEF IInv, TypeOK, HoldsLogged
  <1> HIDE DEF q, row, h
  <1> QED
    BY <1>3, <1>5, <1>6, <1>7, <1>8, CommitInv

\* The transaction of a pause leaves a period that its hold can be taken from,
\* and logs the hold.
LEMMA PauseInv ==
    ASSUME IInv, NEW w \in Workers, Pause(w)
    PROVE  IInv'
  <1> DEFINE q == inflight[w]
             i == q.id
             row == Paused(rows[i], q.from, q.to, q.day)
             h == HistoryPause(history[i], q.from, q.to)
  <1>1. /\ Commit(w, "pause", With(i, row))
        /\ history' = [history EXCEPT ![i] = h]
        /\ UNCHANGED <<payments, visits>>
    BY DEF Pause, IInv, TypeOK
  <1>2. /\ q \in Requests /\ q.op = "pause" /\ i \in DOMAIN rows
        /\ rows[i] \in Row /\ SoundPeriod(rows[i])
        /\ history[i] \in Histories /\ Accepts(With(i, row))
    BY <1>1, CommitFacts DEF RowOps
  <1>3. i \in Ids /\ q.from \in Date /\ q.to \in Date /\ q.day \in Date
    BY <1>2, RequestShapes
  <1>4. RowOK(row)
    BY <1>2 DEF Accepts, With
  <1>5. row \in Row /\ SoundPeriod(row) /\ (row.status = "refunded" => rows[i].status = "refunded")
    BY <1>2, <1>3, <1>4, PausedRow
  <1>6. h \in Histories /\ h.from # Null /\ h.to # Null /\ h.refunds = history[i].refunds
    <2>1. /\ history[i].end + (q.to - q.from) \in Date
          /\ q.from \in DateOrNull /\ q.to \in DateOrNull
          /\ history[i].pauses + 1 \in Int /\ history[i].count + 1 \in Nat
      BY <1>2, <1>3 DEF Histories, Date, DateOrNull
    <2>2. h \in Histories
      BY <1>2, <2>1 DEF HistoryPause, Histories
    <2>3. h.from = q.from /\ h.to = q.to /\ h.refunds = history[i].refunds
      BY <1>2 DEF HistoryPause, Histories
    <2> QED
      BY <1>3, <2>2, <2>3, MembersAssumption DEF Date
  <1>7. \A j \in Ids : payments'[j].refunds = IF j = i THEN h.refunds ELSE payments[j].refunds
    BY <1>1, <1>3, <1>6 DEF IInv, RefundsBooked
  <1>8. row.status = "refunded" => h.refunds >= 1
    BY <1>2, <1>3, <1>5, <1>6 DEF IInv, RefundsBooked
  <1>9. /\ payments' \in [Ids -> [grants : Nat, refunds : Nat]]
        /\ visits' \subseteq Ids \X Date
    BY <1>1 DEF IInv, TypeOK
  <1> HIDE DEF q, i, row, h
  <1> QED
    BY <1>1, <1>3, <1>5, <1>6, <1>7, <1>8, <1>9, CommitInv

\* The transaction of an unpause leaves a period because the row is live and
\* the table accepts it.
LEMMA UnpauseInv ==
    ASSUME IInv, NEW w \in Workers, Unpause(w)
    PROVE  IInv'
  <1> DEFINE q == inflight[w]
             i == q.id
             row == Unpaused(rows[i], q.day)
             h == HistoryUnpause(history[i], q.day)
  <1>1. /\ Commit(w, "unpause", With(i, row)) /\ HasWindow(rows[i])
        /\ history' = [history EXCEPT ![i] = h]
        /\ UNCHANGED <<payments, visits>>
    BY DEF Unpause, IInv, TypeOK
  <1>2. /\ q \in Requests /\ q.op = "unpause" /\ i \in DOMAIN rows
        /\ rows[i] \in Row /\ SoundPeriod(rows[i])
        /\ history[i] \in Histories /\ Accepts(With(i, row))
    BY <1>1, CommitFacts DEF RowOps
  <1>3. i \in Ids /\ q.day \in Date
    BY <1>2, RequestShapes
  <1>4. RowOK(row)
    BY <1>2 DEF Accepts, With
  <1>5. /\ row \in Row /\ SoundPeriod(row)
        /\ ~HasWindow(row) /\ row.status # "refunded"
    BY <1>1, <1>2, <1>3, <1>4, UnpausedRow
  <1>6. h \in Histories /\ h.from = Null /\ h.to = Null /\ h.refunds = history[i].refunds
    <2>1. history[i].from # Null /\ history[i].to # Null
      BY <1>1, <1>2, <1>3 DEF IInv, HoldsLogged
    <2>2. history[i].end - (history[i].to - history[i].from) - (history[i].to - q.day) \in Date
      BY <1>2, <1>3, <2>1 DEF Histories, Date, DateOrNull
    <2>3. history[i].count + 1 \in Nat /\ Null \in DateOrNull
      BY <1>2 DEF Histories, DateOrNull
    <2> QED
      BY <1>2, <2>2, <2>3 DEF HistoryUnpause, Histories
  <1>7. \A j \in Ids : payments'[j].refunds = IF j = i THEN h.refunds ELSE payments[j].refunds
    BY <1>1, <1>3, <1>6 DEF IInv, RefundsBooked
  <1>8. /\ payments' \in [Ids -> [grants : Nat, refunds : Nat]]
        /\ visits' \subseteq Ids \X Date
    BY <1>1 DEF IInv, TypeOK
  <1> HIDE DEF q, i, row, h
  <1> QED
    BY <1>1, <1>3, <1>5, <1>6, <1>7, <1>8, CommitInv

\* The transaction of a cancellation takes back what its hold had added.
LEMMA CancelPauseInv ==
    ASSUME IInv, NEW w \in Workers, CancelPause(w)
    PROVE  IInv'
  <1> DEFINE q == inflight[w]
             i == q.id
             row == Cancelled(rows[i])
             h == HistoryCancel(history[i])
  <1>1. /\ Commit(w, "cancel_pause", With(i, row)) /\ HasWindow(rows[i])
        /\ history' = [history EXCEPT ![i] = h]
        /\ UNCHANGED <<payments, visits>>
    BY DEF CancelPause, IInv, TypeOK
  <1>2. /\ q \in Requests /\ q.op = "cancel_pause" /\ i \in DOMAIN rows
        /\ rows[i] \in Row /\ SoundPeriod(rows[i])
        /\ history[i] \in Histories
    BY <1>1, CommitFacts DEF RowOps
  <1>3. i \in Ids
    BY <1>2, RequestShapes
  <1>4. /\ row \in Row /\ SoundPeriod(row)
        /\ ~HasWindow(row) /\ row.status = rows[i].status
    BY <1>1, <1>2, CancelledRow
  <1>5. h \in Histories /\ h.from = Null /\ h.to = Null /\ h.refunds = history[i].refunds
    <2>1. history[i].from # Null /\ history[i].to # Null
      BY <1>1, <1>2, <1>3 DEF IInv, HoldsLogged
    <2>2. history[i].end - (history[i].to - history[i].from) \in Date
      BY <1>2, <2>1 DEF Histories, Date, DateOrNull
    <2>3. /\ history[i].pauses - 1 \in Int /\ history[i].count + 1 \in Nat
          /\ Null \in DateOrNull
      BY <1>2 DEF Histories, DateOrNull
    <2> QED
      BY <1>2, <2>2, <2>3 DEF HistoryCancel, Histories
  <1>6. \A j \in Ids : payments'[j].refunds = IF j = i THEN h.refunds ELSE payments[j].refunds
    BY <1>1, <1>3, <1>5 DEF IInv, RefundsBooked
  <1>7. row.status = "refunded" => h.refunds >= 1
    BY <1>2, <1>3, <1>4, <1>5 DEF IInv, RefundsBooked
  <1>8. /\ payments' \in [Ids -> [grants : Nat, refunds : Nat]]
        /\ visits' \subseteq Ids \X Date
    BY <1>1 DEF IInv, TypeOK
  <1> HIDE DEF q, i, row, h
  <1> QED
    BY <1>1, <1>3, <1>4, <1>5, <1>6, <1>7, <1>8, CommitInv

\* The transaction of a refund changes the status, the payments and the events
\* together.
LEMMA RefundInv ==
    ASSUME IInv, NEW w \in Workers, Refund(w)
    PROVE  IInv'
  <1> DEFINE q == inflight[w]
             i == q.id
             row == Refunded(rows[i])
             h == HistoryRefund(history[i])
  <1>1. /\ Commit(w, "refund", With(i, row))
        /\ history' = [history EXCEPT ![i] = h]
        /\ payments' = [payments EXCEPT ![i].refunds = @ + 1]
        /\ UNCHANGED visits
    BY DEF Refund, IInv, TypeOK
  <1>2. /\ q \in Requests /\ q.op = "refund" /\ i \in DOMAIN rows
        /\ rows[i] \in Row /\ SoundPeriod(rows[i])
        /\ history[i] \in Histories
    BY <1>1, CommitFacts DEF RowOps
  <1>3. i \in Ids
    BY <1>2, RequestShapes
  <1>4. /\ row \in Row /\ SoundPeriod(row)
        /\ HasWindow(row) <=> HasWindow(rows[i])
    BY <1>2, RefundedRow
  <1>5. /\ h \in Histories /\ h.from = history[i].from /\ h.to = history[i].to
        /\ h.refunds = history[i].refunds + 1
    <2>1. history[i].refunds + 1 \in Nat /\ history[i].count + 1 \in Nat
      BY <1>2 DEF Histories
    <2> QED
      BY <1>2, <2>1 DEF HistoryRefund, Histories
  <1>6. /\ h.from = Null <=> h.to = Null
        /\ HasWindow(row) => h.from # Null
    BY <1>2, <1>3, <1>4, <1>5 DEF IInv, HoldsLogged
  <1>7. /\ \A j \in Ids :
              payments'[j].refunds = IF j = i THEN h.refunds ELSE payments[j].refunds
        /\ payments' \in [Ids -> [grants : Nat, refunds : Nat]]
    BY <1>1, <1>3, <1>5 DEF IInv, TypeOK, RefundsBooked
  <1>8. h.refunds >= 1 /\ visits' \subseteq Ids \X Date
    BY <1>1, <1>2, <1>5 DEF IInv, TypeOK, Histories
  <1> HIDE DEF q, i, row, h
  <1> QED
    BY <1>1, <1>3, <1>4, <1>5, <1>6, <1>7, <1>8, CommitInv

\* The transaction of a check-in touches one row of the member.
LEMMA CheckInInv ==
    ASSUME IInv, NEW w \in Workers, CheckIn(w)
    PROVE  IInv'
  <1> DEFINE q == inflight[w]
             first == ~ \E v \in visits : rows[v[1]].member = q.member /\ v[2] = q.day
  <1>1. PICK i \in DOMAIN rows :
          /\ Commit(w, "check_in", With(i, Visited(rows[i], first)))
          /\ visits' = visits \cup {<<i, today>>}
          /\ UNCHANGED <<payments, history>>
    BY DEF CheckIn
  <1> DEFINE row == Visited(rows[i], first)
  <1>2. i \in Ids /\ rows[i] \in Row /\ SoundPeriod(rows[i]) /\ RowOK(rows[i])
    BY DEF IInv, TypeOK, PeriodSound, Accepts
  <1>3. /\ row \in Row /\ SoundPeriod(row)
        /\ HasWindow(row) <=> HasWindow(rows[i])
        /\ row.status = "refunded" => rows[i].status = "refunded"
    BY <1>2, VisitedRow
  <1>4. /\ history[i] \in Histories
        /\ history' = [history EXCEPT ![i] = history[i]]
        /\ history[i].from = Null <=> history[i].to = Null
        /\ HasWindow(row) => history[i].from # Null
    BY <1>1, <1>2, <1>3 DEF IInv, TypeOK, HoldsLogged
  <1>5. \A j \in Ids : payments'[j].refunds =
                          IF j = i THEN history[i].refunds ELSE payments[j].refunds
    BY <1>1, <1>2 DEF IInv, RefundsBooked
  <1>6. row.status = "refunded" => history[i].refunds >= 1
    BY <1>2, <1>3 DEF IInv, RefundsBooked
  <1>7. /\ payments' \in [Ids -> [grants : Nat, refunds : Nat]]
        /\ visits' \subseteq Ids \X Date
    BY <1>1, <1>2 DEF IInv, TypeOK
  <1>8. Commit(w, "check_in", With(i, row))
    BY <1>1
  <1> HIDE DEF q, first, row
  <1> QED
    BY <1>2, <1>3, <1>4, <1>5, <1>6, <1>7, <1>8, CommitInv

\* A statement that rewrites many rows: a bulk extension, a batch step.
LEMMA RewriteInv ==
    ASSUME IInv, TypeOK', Accepts(rows'), DOMAIN rows' = DOMAIN rows,
           UNCHANGED payments,
           \A w \in Workers : inflight'[w] \in {inflight[w], Idle},
           \A i \in DOMAIN rows :
              /\ SoundPeriod(rows'[i])
              /\ HasWindow(rows'[i]) => HasWindow(rows[i])
              /\ rows'[i].status = "refunded" => rows[i].status = "refunded",
           \A i \in Ids :
              /\ history'[i].refunds = history[i].refunds
              /\ history'[i].from = Null <=> history'[i].to = Null
              /\ history[i].from # Null => history'[i].from # Null
    PROVE  IInv'
  <1>1. Accepts(rows)'
    BY DEF Accepts, RowOK, Overlap, Live, HasWindow
  <1>2. PeriodSound'
    BY DEF PeriodSound, SoundPeriod, HasWindow, PauseLen
  <1>3. HoldsLogged'
    BY DEF IInv, TypeOK, HoldsLogged, HasWindow
  <1>4. RequestsKnown'
    BY DEF IInv, RequestsKnown
  <1>5. RefundsBooked'
    BY DEF IInv, TypeOK, RefundsBooked
  <1> QED
    BY <1>1, <1>2, <1>3, <1>4, <1>5 DEF IInv

\* The transaction of a bulk extension keeps every selected row sound.
LEMMA BulkExtendInv ==
    ASSUME IInv, NEW w \in Workers, BulkExtend(w)
    PROVE  IInv'
  <1> DEFINE q == inflight[w]
             Target(i) == i \in DOMAIN rows /\ BulkTarget(rows[i], q.branch, q.kind, deleted)
             table == [i \in DOMAIN rows |-> IF Target(i) THEN Extended(rows[i], q.days, q.day)
                                                          ELSE rows[i]]
  <1>1. /\ Commit(w, "bulk_extend", table)
        /\ history' = [i \in Ids |-> IF Target(i)
                                     THEN HistoryExtend(history[i], q.days, today)
                                     ELSE history[i]]
        /\ UNCHANGED <<payments, visits>>
    BY DEF BulkExtend
  <1>2. q \in Requests /\ q.op = "bulk_extend"
    BY <1>1, CommitFacts
  <1>3. q.days \in Nat /\ q.day \in Date
    BY <1>2, RequestShapes
  <1>4. rows' = table /\ Accepts(table) /\ inflight' = [inflight EXCEPT ![w] = Idle]
    BY <1>1 DEF Commit
  <1>5. ASSUME NEW i \in DOMAIN rows
        PROVE  /\ table[i] \in Row /\ SoundPeriod(table[i])
               /\ HasWindow(table[i]) => HasWindow(rows[i])
               /\ table[i].status = rows[i].status
    <2>1. rows[i] \in Row /\ SoundPeriod(rows[i]) /\ RowOK(rows[i])
      BY DEF IInv, TypeOK, PeriodSound, Accepts
    <2>2. LET e == Extended(rows[i], q.days, q.day) IN
          /\ e \in Row /\ SoundPeriod(e) /\ e.status = rows[i].status
          /\ HasWindow(e) <=> HasWindow(rows[i])
      BY <1>3, <2>1, ExtendedRow
    <2>3. table[i] = Extended(rows[i], q.days, q.day) \/ table[i] = rows[i]
      OBVIOUS
    <2> HIDE DEF table
    <2> QED
      BY <2>1, <2>2, <2>3
  <1>6. ASSUME NEW i \in Ids
        PROVE  LET h == HistoryExtend(history[i], q.days, today) IN
               /\ h \in Histories /\ h.refunds = history[i].refunds
               /\ h.from = Null <=> h.to = Null
               /\ history[i].from # Null => h.from # Null
    <2> DEFINE g == history[i]
    <2>1. g \in Histories /\ (g.from = Null <=> g.to = Null) /\ today \in Int
      BY DEF IInv, TypeOK, HoldsLogged, Date
    <2>2. /\ g.end + q.days \in Date /\ g.count + 1 \in Nat
          /\ g.from # Null => /\ g.from + q.days \in Int /\ g.to + q.days \in Int
      BY <1>3, <2>1 DEF Histories, Date, DateOrNull
    <2>3. HistoryExtend(g, q.days, today) \in Histories
      BY <2>1, <2>2 DEF HistoryExtend, Histories, DateOrNull
    <2>4. CASE g.from # Null /\ today <= g.to
      BY <2>1, <2>2, <2>3, <2>4, MembersAssumption DEF HistoryExtend, Histories
    <2>5. CASE ~(g.from # Null /\ today <= g.to)
      BY <2>1, <2>3, <2>5 DEF HistoryExtend, Histories
    <2> QED
      BY <2>4, <2>5
  <1>7. /\ history' \in [Ids -> Histories]
        /\ \A i \in Ids :
              /\ history'[i].refunds = history[i].refunds
              /\ history'[i].from = Null <=> history'[i].to = Null
              /\ history[i].from # Null => history'[i].from # Null
    <2>1. \A i \in Ids : \/ history'[i] = HistoryExtend(history[i], q.days, today)
                         \/ history'[i] = history[i]
      BY <1>1
    <2>2. \A i \in Ids : /\ history[i] \in Histories
                         /\ history[i].from = Null <=> history[i].to = Null
      BY DEF IInv, TypeOK, HoldsLogged
    <2>3. \A i \in Ids : history'[i] \in Histories
      BY <1>6, <2>1, <2>2
    <2>4. history' = [i \in Ids |-> history'[i]]
      BY <1>1
    <2> HIDE DEF Target, table
    <2> QED
      BY <1>6, <2>1, <2>2, <2>3, <2>4
  <1>8. TypeOK'
    <2>1. rows' \in [DOMAIN rows' -> Row] /\ DOMAIN rows' = DOMAIN rows
      BY <1>4, <1>5
    <2> QED
      BY <1>1, <1>4, <1>7, <2>1 DEF IInv, TypeOK, Commit
  <1>9. /\ DOMAIN rows' = DOMAIN rows /\ Accepts(rows')
        /\ \A v \in Workers : inflight'[v] \in {inflight[v], Idle}
    BY <1>4 DEF IInv, TypeOK
  <1> HIDE DEF table, Target
  <1> QED
    BY <1>1, <1>4, <1>5, <1>7, <1>8, <1>9, RewriteInv

\* A batch step leaves a table that the database accepts, and so it never
\* fails on the data: the three cases of BatchNeverAborts.
LEMMA BatchTables ==
    ASSUME IInv, NEW table \in {ExpireAll, ReactivateAll, ScheduleAll}
    PROVE  /\ table \in [DOMAIN rows -> Row] /\ Accepts(table)
           /\ \A i \in DOMAIN rows :
                /\ SoundPeriod(table[i])
                /\ HasWindow(table[i]) => HasWindow(rows[i])
                /\ table[i].status = "refunded" => rows[i].status = "refunded"
  <1>1. /\ today \in Date /\ rows \in [DOMAIN rows -> Row]
        /\ \A i \in DOMAIN rows : SoundPeriod(rows[i]) /\ RowOK(rows[i])
        /\ Accepts(rows)
    BY DEF IInv, TypeOK, PeriodSound, Accepts
  <1>2. DOMAIN table = DOMAIN rows /\ table = [i \in DOMAIN rows |-> table[i]]
    BY DEF ExpireAll, ReactivateAll, ScheduleAll
  <1>3. ASSUME NEW i \in DOMAIN rows
        PROVE  /\ table[i] \in Row /\ SoundPeriod(table[i]) /\ RowOK(table[i])
               /\ table[i].member = rows[i].member
               /\ table[i].start = rows[i].start /\ table[i].end = rows[i].end
               /\ Live(table[i]) => Live(rows[i])
               /\ HasWindow(table[i]) => HasWindow(rows[i])
               /\ table[i].status = "refunded" <=> rows[i].status = "refunded"
    <2>1. rows[i] \in Row /\ SoundPeriod(rows[i]) /\ RowOK(rows[i])
      BY <1>1
    <2>2. CASE table = ExpireAll
      BY <1>1, <2>1, <2>2, ExpiredRow DEF ExpireAll
    <2>3. CASE table = ReactivateAll
      BY <1>1, <2>1, <2>3, ReactivatedRow DEF ReactivateAll
    <2>4. CASE table = ScheduleAll
      BY <1>1, <2>1, <2>4, ScheduledRow DEF ScheduleAll
    <2> QED
      BY <2>2, <2>3, <2>4
  <1>4. table \in [DOMAIN rows -> Row]
    BY <1>2, <1>3
  <1>5. \A i \in DOMAIN rows : table[i].end <= rows[i].end
    BY <1>1, <1>3 DEF Row, Date
  <1>6. Accepts(table)
    BY <1>1, <1>2, <1>3, <1>4, <1>5, ShrinkingAccepted
  <1> QED
    BY <1>3, <1>4, <1>6

\* Every step of the batch, those that fail or stop it included, keeps the
\* invariant.
LEMMA BatchInv ==
    ASSUME IInv, NEW k \in Runners, Batch(k)
    PROVE  IInv'
  <1>1. run[k] \in Runs /\ run \in [Runners -> Runs] /\ today \in Date /\ ranOn \in Date
    BY DEF IInv, TypeOK
  <1>2. ASSUME NEW ok \in BOOLEAN, BatchAdvance(k, ok), run[k].step \in 1 .. 3
        PROVE  run' \in [Runners -> Runs] /\ ranOn' \in Date
    <2> DEFINE clean == ok /\ run[k].clean /\ run[k].day = today
               next  == IF run[k].step = 3 THEN NoRun
                        ELSE [step |-> run[k].step + 1, day |-> run[k].day,
                              clean |-> clean]
    <2>1. run[k].step # 3 => run[k].step + 1 \in 0 .. 3
      BY <1>2
    <2>2. clean \in BOOLEAN
      BY <1>1 DEF Runs
    <2>3. NoRun \in Runs
      BY DEF NoRun, Runs, Date
    <2>4. next \in Runs
      <3> HIDE DEF clean
      <3> QED
        BY <1>1, <2>1, <2>2, <2>3 DEF Runs
    <2>5. run' = [run EXCEPT ![k] = next] /\ ranOn' \in {today, ranOn}
      BY <1>2 DEF BatchAdvance
    <2> HIDE DEF next
    <2> QED
      BY <1>1, <2>4, <2>5
  <1>3. CASE BatchExpire(k) \/ BatchReactivate(k) \/ BatchSchedule(k)
    <2>1. PICK table \in {ExpireAll, ReactivateAll, ScheduleAll} :
            /\ rows' = table /\ BatchAdvance(k, TRUE) /\ run[k].step \in 1 .. 3
      <3>1. rows' \in {ExpireAll, ReactivateAll, ScheduleAll} /\ BatchAdvance(k, TRUE)
        BY <1>3 DEF BatchExpire, BatchReactivate, BatchSchedule, BatchStep
      <3>2. run[k].step = 1 \/ run[k].step = 2 \/ run[k].step = 3
        BY <1>3, Zenon DEF BatchExpire, BatchReactivate, BatchSchedule, BatchStep
      <3>3. run[k].step \in 1 .. 3
        BY <3>2
      <3> QED
        BY <3>1, <3>3
    <2>2. /\ table \in [DOMAIN rows -> Row] /\ Accepts(table)
          /\ \A i \in DOMAIN rows :
               /\ SoundPeriod(table[i])
               /\ HasWindow(table[i]) => HasWindow(rows[i])
               /\ table[i].status = "refunded" => rows[i].status = "refunded"
      BY BatchTables
    <2>3. UNCHANGED <<today, deleted, payments, history, visits, inflight>>
      BY <2>1 DEF BatchAdvance
    <2>4. TypeOK'
      BY <1>2, <2>1, <2>2, <2>3 DEF IInv, TypeOK
    <2>5. \A i \in Ids : history[i].from = Null <=> history[i].to = Null
      BY DEF IInv, HoldsLogged
    <2> QED
      BY <2>1, <2>2, <2>3, <2>4, <2>5, RewriteInv
  <1>4. CASE BatchStart(k)
    <2>1. [step |-> 1, day |-> today, clean |-> TRUE] \in Runs
      BY <1>1 DEF Runs
    <2>2. TypeOK'
      BY <1>4, <2>1 DEF BatchStart, IInv, TypeOK
    <2> QED
      BY <1>4, <2>2, QuietInv DEF BatchStart
  <1>5. CASE BatchStepFails(k)
    <2>1. run[k].step > 0 /\ BatchAdvance(k, FALSE) /\ UNCHANGED rows
      BY <1>5 DEF BatchStepFails
    <2>2. run[k].step \in 1 .. 3
      BY <1>1, <2>1 DEF Runs
    <2>3. TypeOK'
      BY <1>2, <2>1, <2>2 DEF BatchAdvance, IInv, TypeOK
    <2> QED
      BY <2>1, <2>3, QuietInv DEF BatchAdvance
  <1>6. CASE BatchStops(k)
    <2>1. TypeOK'
      BY <1>1, <1>6 DEF BatchStops, IInv, TypeOK, Runs, NoRun, Date
    <2> QED
      BY <1>6, <2>1, QuietInv DEF BatchStops
  <1> QED
    BY <1>3, <1>4, <1>5, <1>6 DEF Batch

(***************************************************************************)
(* The theorems.                                                           *)
(***************************************************************************)

\* Every step keeps the invariant.
THEOREM NextInv == IInv /\ [Next]_vars => IInv'
  <1> SUFFICES ASSUME IInv, [Next]_vars PROVE IInv'
    OBVIOUS
  <1>1. CASE \E w \in Workers : Handle(w)
    <2>1. PICK w \in Workers : Handle(w)
      BY <1>1
    <2>2. CASE \/ GrantCheck(w) \/ PauseCheck(w) \/ UnpauseCheck(w)
               \/ CancelPauseCheck(w) \/ RefundCheck(w) \/ BulkExtendCheck(w)
               \/ CheckInArrives(w)
      BY <2>2, ChecksInv
    <2>3. CASE Grant(w)
      BY <2>3, GrantInv
    <2>4. CASE Pause(w)
      BY <2>4, PauseInv
    <2>5. CASE Unpause(w)
      BY <2>5, UnpauseInv
    <2>6. CASE CancelPause(w)
      BY <2>6, CancelPauseInv
    <2>7. CASE Refund(w)
      BY <2>7, RefundInv
    <2>8. CASE BulkExtend(w)
      BY <2>8, BulkExtendInv
    <2>9. CASE CheckIn(w)
      BY <2>9, CheckInInv
    <2>10. CASE RequestFails(w)
      <3>1. TypeOK'
        BY <2>10 DEF RequestFails, IInv, TypeOK
      <3>2. \A v \in Workers : inflight'[v] \in {inflight[v], Idle}
        BY <2>10 DEF RequestFails, IInv, TypeOK
      <3> QED
        BY <2>10, <3>1, <3>2, QuietInv DEF RequestFails
    <2> QED
      BY <2>1, <2>2, <2>3, <2>4, <2>5, <2>6, <2>7, <2>8, <2>9, <2>10 DEF Handle
  <1>2. CASE \E k \in Runners : Batch(k)
    BY <1>2, BatchInv
  <1>3. CASE DeleteMember
    <2>1. TypeOK'
      BY <1>3 DEF DeleteMember, IInv, TypeOK
    <2> QED
      BY <1>3, <2>1, QuietInv DEF DeleteMember
  <1>4. CASE Midnight
    <2>1. TypeOK'
      BY <1>4 DEF Midnight, IInv, TypeOK, Date
    <2> QED
      BY <1>4, <2>1, QuietInv DEF Midnight
  <1>5. CASE UNCHANGED vars
    <2>1. TypeOK'
      BY <1>5 DEF vars, IInv, TypeOK
    <2> QED
      BY <1>5, <2>1, QuietInv DEF vars
  <1> QED
    BY <1>1, <1>2, <1>3, <1>4, <1>5 DEF Next

\* The inductive invariant holds in every reachable state.
THEOREM Invariance == Spec => []IInv
  BY InitInv, NextInv, PTL DEF Spec

\* Every variable keeps its type, whatever the interleaving.
THEOREM TypeCorrect == Spec => []TypeOK
  <1>1. IInv => TypeOK
    BY DEF IInv
  <1> QED
    BY <1>1, Invariance, PTL

\* Every membership keeps a period, and its hold can always be taken back.
THEOREM PeriodsStaySound == Spec => []PeriodSound
  <1>1. IInv => PeriodSound
    BY DEF IInv
  <1> QED
    BY <1>1, Invariance, PTL

\* No state the handlers can produce makes a step of the batch fail.
THEOREM BatchAlwaysApplies == Spec => []BatchNeverAborts
  <1>1. IInv => BatchNeverAborts
    BY BatchTables DEF BatchNeverAborts
  <1> QED
    BY <1>1, Invariance, PTL

\* No registered hold is one that the exclusion constraint would keep from
\* being cancelled.
THEOREM CancelAlwaysApplies == Spec => []CancelNeverConflicts
  <1>1. IInv => CancelNeverConflicts
    <2> SUFFICES ASSUME IInv, NEW i \in DOMAIN rows,
                        HasWindow(rows[i]), rows[i].status # "paused"
                 PROVE  Accepts(With(i, Cancelled(rows[i])))
      BY DEF CancelNeverConflicts
    <2> DEFINE c == Cancelled(rows[i])
               table == With(i, c)
    <2>1. /\ rows[i] \in Row /\ SoundPeriod(rows[i]) /\ RowOK(rows[i])
          /\ rows \in [DOMAIN rows -> Row] /\ Accepts(rows)
      BY DEF IInv, TypeOK, PeriodSound, Accepts
    <2>2. c \in Row /\ SoundPeriod(c) /\ c.end <= rows[i].end
      BY <2>1, CancelledRow
    <2>3. /\ c.member = rows[i].member /\ c.start = rows[i].start
          /\ c.kind = rows[i].kind /\ c.remaining = rows[i].remaining
          /\ c.status = rows[i].status
          /\ c.pauseStart = Null /\ c.pauseEnd = Null
      BY <2>1 DEF Cancelled, Row
    <2>4. RowOK(c) /\ (Live(c) => Live(rows[i]))
      BY <2>1, <2>2, <2>3 DEF RowOK, SoundPeriod, HasWindow, Live
    <2>5. /\ DOMAIN table = DOMAIN rows
          /\ \A j \in DOMAIN rows : table[j] = IF j = i THEN c ELSE rows[j]
          /\ table \in [DOMAIN rows -> Row]
      BY <2>1, <2>2 DEF With
    <2>6. \A j \in DOMAIN rows : RowOK(rows[j]) /\ rows[j].end <= rows[j].end
      BY <2>1 DEF Accepts, Row, Date
    <2> HIDE DEF c, table
    <2>7. \A j \in DOMAIN rows :
             /\ RowOK(table[j])
             /\ table[j].member = rows[j].member /\ table[j].start = rows[j].start
             /\ table[j].end <= rows[j].end
             /\ Live(table[j]) => Live(rows[j])
      BY <2>2, <2>3, <2>4, <2>5, <2>6
    <2>8. Accepts(table)
      BY <2>1, <2>5, <2>7, ShrinkingAccepted
    <2> QED
      BY <2>8 DEF table, c
  <1> QED
    BY <1>1, Invariance, PTL

\* Status, negative payments and events of refunds never come apart.
THEOREM RefundsStayBooked == Spec => []RefundsBooked
  <1>1. IInv => RefundsBooked
    BY DEF IInv
  <1> QED
    BY <1>1, Invariance, PTL

(***************************************************************************)
(* No request outlives its day (~Straddle): a request belongs to the day   *)
(* on which it was checked, and a pause begins on that day or later.       *)
(***************************************************************************)

RequestsInv == IInv /\ SameDay /\ PausesAhead

\* A request that starts is dated today, and a pause is not asked for in the
\* past.
LEMMA StartsToday ==
    ASSUME IInv, NEW w \in Workers,
           \/ GrantCheck(w) \/ PauseCheck(w) \/ UnpauseCheck(w)
           \/ CancelPauseCheck(w) \/ RefundCheck(w) \/ BulkExtendCheck(w)
           \/ CheckInArrives(w)
    PROVE  \E request : /\ Start(w, request) /\ request.day = today
                        /\ request.op = "pause" => request.from >= request.day
  <1>1. CASE PauseCheck(w)
    <2>1. PICK i \in Ids, from \in today .. today + MaxAhead, len \in 0 .. MaxHold :
            Start(w, [op |-> "pause", day |-> today, id |-> i,
                      from |-> from, to |-> from + len])
      BY <1>1 DEF PauseCheck
    <2>2. from >= today
      OBVIOUS
    <2>. QED
      BY <2>1, <2>2
  <1>2. CASE GrantCheck(w)
    <2>1. PICK q : Start(w, q) /\ q.day = today /\ q.op = "grant"
      BY <1>2 DEF GrantCheck
    <2>. QED
      BY <2>1
  <1>3. CASE UnpauseCheck(w) \/ CancelPauseCheck(w) \/ RefundCheck(w)
    <2>1. PICK op \in {"unpause", "cancel_pause", "refund"}, i \in Ids :
            Start(w, [op |-> op, day |-> today, id |-> i])
      BY <1>3 DEF UnpauseCheck, CancelPauseCheck, RefundCheck
    <2>. QED
      BY <2>1
  <1>4. CASE BulkExtendCheck(w)
    <2>1. PICK days, branch, kind :
            Start(w, [op |-> "bulk_extend", day |-> today, days |-> days,
                      branch |-> branch, kind |-> kind])
      BY <1>4 DEF BulkExtendCheck
    <2>. QED
      BY <2>1
  <1>5. CASE CheckInArrives(w)
    <2>1. PICK m : Start(w, [op |-> "check_in", day |-> today, member |-> m])
      BY <1>5 DEF CheckInArrives
    <2>. QED
      BY <2>1
  <1>. QED
    BY <1>1, <1>2, <1>3, <1>4, <1>5

\* What a step does to the requests: it starts one, ends some, or leaves them.
LEMMA RequestSteps ==
    ASSUME IInv, [Next]_vars
    PROVE  \/ \E w \in Workers : \E request :
                 /\ Start(w, request) /\ request.day = today
                 /\ request.op = "pause" => request.from >= request.day
           \/ /\ \A w \in Workers : inflight'[w] \in {inflight[w], Idle}
              /\ today' = today
           \/ Midnight
  <1>1. CASE \E w \in Workers : Handle(w)
    <2>1. PICK w \in Workers : Handle(w)
      BY <1>1
    <2>2. CASE \/ GrantCheck(w) \/ PauseCheck(w) \/ UnpauseCheck(w)
               \/ CancelPauseCheck(w) \/ RefundCheck(w) \/ BulkExtendCheck(w)
               \/ CheckInArrives(w)
      BY <2>2, StartsToday
    <2>3. CASE \/ Grant(w) \/ Pause(w) \/ Unpause(w) \/ CancelPause(w)
               \/ Refund(w) \/ BulkExtend(w) \/ CheckIn(w)
      <3>1. \E op, table : Commit(w, op, table)
        BY <2>3 DEF Grant, Pause, Unpause, CancelPause, Refund, BulkExtend, CheckIn
      <3>. QED
        BY <3>1 DEF Commit, IInv, TypeOK
    <2>4. CASE RequestFails(w)
      BY <2>4 DEF RequestFails, IInv, TypeOK
    <2>. QED
      BY <2>1, <2>2, <2>3, <2>4 DEF Handle
  <1>2. CASE \E k \in Runners : Batch(k)
    BY <1>2 DEF Batch, BatchStart, BatchExpire, BatchReactivate, BatchSchedule, BatchStep,
       BatchStepFails, BatchStops, BatchAdvance
  <1>3. CASE DeleteMember
    BY <1>3 DEF DeleteMember
  <1>4. CASE UNCHANGED vars
    BY <1>4 DEF vars
  <1>. QED
    BY <1>1, <1>2, <1>3, <1>4 DEF Next

LEMMA RequestsNext ==
    ASSUME ~Straddle, RequestsInv, [Next]_vars
    PROVE  RequestsInv'
  <1> USE DEF RequestsInv
  <1>1. IInv'
    BY NextInv
  <1>2. CASE \E w \in Workers : \E request :
                 /\ Start(w, request) /\ request.day = today
                 /\ request.op = "pause" => request.from >= request.day
    BY <1>1, <1>2 DEF Start, SameDay, PausesAhead, IInv, TypeOK
  <1>3. CASE /\ \A w \in Workers : inflight'[w] \in {inflight[w], Idle}
             /\ today' = today
    BY <1>1, <1>3 DEF SameDay, PausesAhead
  <1>4. CASE Midnight
    BY <1>1, <1>4 DEF Midnight, SameDay, PausesAhead
  <1>. QED
    BY <1>2, <1>3, <1>4, RequestSteps

LEMMA RequestsHold == ASSUME ~Straddle PROVE Spec => []RequestsInv
  <1>1. Init => RequestsInv
    BY InitInv DEF Init, RequestsInv, SameDay, PausesAhead
  <1>2. RequestsInv /\ [Next]_vars => RequestsInv'
    BY RequestsNext
  <1>. QED
    BY <1>1, <1>2, PTL DEF Spec

(***************************************************************************)
(* Row by row, what a statement and the event of its transaction do to the *)
(* dates of a hold, on a day whose batch is done.                          *)
(***************************************************************************)

\* A hold that is on time on a day was on time the day before.
LEMMA OnTimeBefore ==
    ASSUME NEW r \in Row, NEW day \in Date, RowOK(r), OnTime(r, day)
    PROVE  OnTime(r, day - 1)
  BY DEF OnTime, Starts, Ends, Row, Date, DateOrNull, RowOK, HasWindow

\* A new membership has no hold.
LEMMA GrantedOnTime ==
    ASSUME NEW r, NEW m, NEW kind, NEW start, NEW term, NEW h \in Histories, NEW day,
           r = Granted(m, kind, start, term)
    PROVE  Explained(r, HistoryGrant(h, r.end)) /\ OnTime(r, day)
  BY DEF Granted, Histories, HistoryGrant, Explained, OnTime, Starts, Ends, HasWindow

\* A pause that begins on the day is in force at once, and one that begins
\* later is still to come; the event tells the same days.
LEMMA PausedOnTime ==
    ASSUME NEW r \in Row, NEW h \in Histories, h.end = r.end,
           NEW from \in Date, NEW to \in Date, NEW day \in Date, from >= day,
           RowOK(Paused(r, from, to, day))
    PROVE  /\ Explained(Paused(r, from, to, day), HistoryPause(h, from, to))
           /\ OnTime(Paused(r, from, to, day), day)
  <1>1. PICK p : p = Paused(r, from, to, day)
    OBVIOUS
  <1>2. PICK g : g = HistoryPause(h, from, to)
    OBVIOUS
  <1>3. /\ p.end = r.end + (to - from) /\ p.pauseStart = from /\ p.pauseEnd = to
        /\ p.pauseUsed /\ p.status = (IF from <= day THEN "paused" ELSE r.status)
    BY <1>1 DEF Paused, Row
  <1>4. g.end = h.end + (to - from) /\ g.from = from /\ g.to = to
    BY <1>2 DEF HistoryPause, Histories
  <1>5. from # Null /\ to # Null
    BY MembersAssumption DEF Date
  <1>6. from <= to
    BY <1>1, <1>3, <1>5 DEF RowOK, HasWindow
  <1>7. Explained(p, g)
    BY <1>3, <1>4 DEF Explained
  <1>8. OnTime(p, day)
    BY <1>3, <1>6 DEF OnTime, Starts, Ends, Date
  <1>. QED
    BY <1>1, <1>2, <1>7, <1>8

\* An unpause takes the same days off the row and off the ledger.
LEMMA UnpausedOnTime ==
    ASSUME NEW r \in Row, NEW h \in Histories, Explained(r, h), HasWindow(r),
           NEW on \in Date, NEW day \in Date
    PROVE  /\ Explained(Unpaused(r, on), HistoryUnpause(h, on))
           /\ OnTime(Unpaused(r, on), day)
  <1>1. PICK u : u = Unpaused(r, on)
    OBVIOUS
  <1>2. PICK g : g = HistoryUnpause(h, on)
    OBVIOUS
  <1>3. /\ u.end = r.end - (r.pauseEnd - r.pauseStart) - (r.pauseEnd - on)
        /\ u.pauseStart = Null /\ u.status = "active"
    BY <1>1 DEF Unpaused, Row, PauseLen
  <1>4. g.end = h.end - (h.to - h.from) - (h.to - on)
    BY <1>2 DEF HistoryUnpause, Histories
  <1>5. h.end = r.end /\ h.from = r.pauseStart /\ h.to = r.pauseEnd
    BY DEF Explained
  <1>6. Explained(u, g)
    BY <1>3, <1>4, <1>5 DEF Explained, HasWindow
  <1>7. OnTime(u, day)
    BY <1>3 DEF OnTime, Starts, Ends, HasWindow
  <1>. QED
    BY <1>1, <1>2, <1>6, <1>7

\* A cancellation takes the same days off the row and off the ledger; it
\* cannot be of a hold in force, which the table would not accept.
LEMMA CancelledOnTime ==
    ASSUME NEW r \in Row, NEW h \in Histories, Explained(r, h), HasWindow(r),
           NEW day \in Date, RowOK(Cancelled(r))
    PROVE  /\ Explained(Cancelled(r), HistoryCancel(h))
           /\ OnTime(Cancelled(r), day)
  <1>1. PICK c : c = Cancelled(r)
    OBVIOUS
  <1>2. PICK g : g = HistoryCancel(h)
    OBVIOUS
  <1>3. c.end = r.end - (r.pauseEnd - r.pauseStart) /\ c.pauseStart = Null
    BY <1>1 DEF Cancelled, Row, PauseLen
  <1>4. g.end = h.end - (h.to - h.from)
    BY <1>2 DEF HistoryCancel, Histories
  <1>5. h.end = r.end /\ h.from = r.pauseStart /\ h.to = r.pauseEnd
    BY DEF Explained
  <1>6. Explained(c, g)
    BY <1>3, <1>4, <1>5 DEF Explained, HasWindow
  <1>7. OnTime(c, day)
    BY <1>1, <1>3 DEF OnTime, Starts, Ends, HasWindow, RowOK
  <1>. QED
    BY <1>1, <1>2, <1>6, <1>7

\* A refund moves no date.
LEMMA RefundedOnTime ==
    ASSUME NEW r \in Row, NEW h \in Histories, Explained(r, h), NEW day \in Date
    PROVE  Explained(Refunded(r), HistoryRefund(h)) /\ OnTime(Refunded(r), day)
  BY DEF Refunded, HistoryRefund, Row, Histories, Explained, OnTime, Starts, Ends, HasWindow

\* A bulk extension moves the hold of a row when, and only when, a reader of
\* the event moves it: on a day whose batch is done, no row has a hold that is
\* over.
LEMMA ExtendedOnTime ==
    ASSUME NEW r \in Row, NEW h \in Histories, Explained(r, h), RowOK(r), Live(r),
           NEW days \in Nat, NEW day \in Date, OnTime(r, day)
    PROVE  /\ Explained(Extended(r, days, day), HistoryExtend(h, days, day))
           /\ OnTime(Extended(r, days, day), day)
  <1>1. PICK e : e = Extended(r, days, day)
    OBVIOUS
  <1>2. PICK g : g = HistoryExtend(h, days, day)
    OBVIOUS
  <1>3. e.end = r.end + days /\ g.end = h.end + days /\ e.status = r.status
        /\ e.pauseUsed = r.pauseUsed
    BY <1>1, <1>2 DEF Extended, HistoryExtend, Row, Histories
  <1>4. CASE HasWindow(r)
    <2>1. /\ r.pauseStart \in Int /\ r.pauseEnd \in Int /\ r.pauseStart <= r.pauseEnd
          /\ r.pauseUsed /\ h.from = r.pauseStart /\ h.to = r.pauseEnd
      BY <1>4 DEF HasWindow, Row, DateOrNull, RowOK, Explained
    <2>2. MovesWindow(r, day)
      BY <1>4, <2>1 DEF MovesWindow, OnTime, Starts, Live, HasWindow
    <2>3. r.pauseEnd >= day
      BY <1>4, <2>1 DEF OnTime, Starts, Ends, Live, Date
    <2>4. e.pauseStart = r.pauseStart + days /\ e.pauseEnd = r.pauseEnd + days
      BY <1>1, <2>2 DEF Extended, Row
    <2>5. h.from # Null /\ day <= h.to
      BY <1>4, <2>1, <2>3 DEF HasWindow, Date
    <2>6. g.from = h.from + days /\ g.to = h.to + days
      BY <1>2, <2>5 DEF HistoryExtend, Histories
    <2>7. Explained(e, g)
      BY <1>3, <2>1, <2>4, <2>6 DEF Explained
    <2>8. OnTime(e, day)
      BY <1>3, <1>4, <2>1, <2>4 DEF OnTime, Starts, Ends, Date
    <2>. QED
      BY <1>1, <1>2, <2>7, <2>8
  <1>5. CASE ~HasWindow(r)
    <2>1. ~MovesWindow(r, day)
      BY <1>5 DEF MovesWindow, RowOK, HasWindow
    <2>2. e.pauseStart = r.pauseStart /\ e.pauseEnd = r.pauseEnd
      BY <1>1, <2>1 DEF Extended, Row
    <2>3. Explained(e, g)
      BY <1>3, <1>5, <2>2 DEF Explained, HasWindow
    <2>4. OnTime(e, day)
      BY <1>3, <1>5, <2>2 DEF OnTime, Starts, Ends, HasWindow, RowOK
    <2>. QED
      BY <1>1, <1>2, <2>3, <2>4
  <1>. QED
    BY <1>4, <1>5

\* A check-in moves no date and puts no hold in force.
LEMMA VisitedOnTime ==
    ASSUME NEW r \in Row, NEW h, Explained(r, h), NEW first \in BOOLEAN,
           NEW day \in Date, OnTime(r, day)
    PROVE  Explained(Visited(r, first), h) /\ OnTime(Visited(r, first), day)
  BY DEF Visited, Row, Explained, OnTime, Starts, Ends, HasWindow

\* The batch, row by row: it moves no date, forgets only holds that are over,
\* and its second and third step bring a row that was on time the day before
\* up to the day.
LEMMA BatchOnTime ==
    ASSUME NEW r \in Row, NEW h, Explained(r, h), RowOK(r),
           NEW now \in Date
    PROVE  /\ Explained(ExpireIfPast(r, now), h)
           /\ Explained(ReactivateIfOver(r, now), h)
           /\ Explained(PauseIfArrived(r, now), h)
           /\ \A day \in {now - 1, now} : OnTime(r, day) =>
                 /\ OnTime(ExpireIfPast(r, now), day)
                 /\ OnTime(ReactivateIfOver(r, now), day)
                 /\ OnTime(PauseIfArrived(r, now), day)
           /\ Ends(r, now) => Ends(ExpireIfPast(r, now), now)
           /\ Ends(ReactivateIfOver(r, now), now)
           /\ Ends(r, now) => Ends(PauseIfArrived(r, now), now)
           /\ Starts(r, now - 1) => Starts(PauseIfArrived(r, now), now)
  <1>1. PICK x : x = ExpireIfPast(r, now)
    OBVIOUS
  <1>2. PICK y : y = ReactivateIfOver(r, now)
    OBVIOUS
  <1>3. PICK z : z = PauseIfArrived(r, now)
    OBVIOUS
  <1>4. /\ x.end = r.end /\ x.pauseStart = r.pauseStart /\ x.pauseEnd = r.pauseEnd
        /\ x.pauseUsed = r.pauseUsed /\ x.status \in {r.status, "expired"}
    BY <1>1 DEF ExpireIfPast, Row
  <1>5. /\ y.end = r.end /\ y.pauseUsed = r.pauseUsed
        /\ IF r.status = "paused" /\ r.pauseEnd < now
           THEN y.status = "active" /\ y.pauseStart = Null /\ y.pauseEnd = Null
           ELSE y = r
    BY <1>2 DEF ReactivateIfOver, Row
  <1>6. /\ z.end = r.end /\ z.pauseStart = r.pauseStart /\ z.pauseEnd = r.pauseEnd
        /\ z.pauseUsed = r.pauseUsed
        /\ z.status = IF r.status = "active" /\ r.pauseStart = now THEN "paused" ELSE r.status
    BY <1>3 DEF PauseIfArrived, Row
  <1>7. /\ HasWindow(r) => r.pauseStart \in Int /\ r.pauseEnd \in Int
                           /\ r.pauseStart <= r.pauseEnd
        /\ r.status = "paused" => HasWindow(r)
        /\ r.pauseStart = now => HasWindow(r)
    BY MembersAssumption DEF HasWindow, Row, DateOrNull, RowOK, Date
  <1>8. Explained(x, h) /\ Explained(y, h) /\ Explained(z, h)
    BY <1>4, <1>5, <1>6 DEF Explained, HasWindow
  <1>9. ASSUME NEW day \in {now - 1, now}, OnTime(r, day)
        PROVE  OnTime(x, day) /\ OnTime(y, day) /\ OnTime(z, day)
    <2>1. OnTime(x, day)
      BY <1>4, <1>9 DEF OnTime, Starts, Ends, HasWindow
    <2>2. OnTime(y, day)
      BY <1>5, <1>9 DEF OnTime, Starts, Ends, HasWindow
    <2>3. Starts(z, day)
      BY <1>6, <1>9 DEF OnTime, Starts, HasWindow
    <2>4. Ends(z, day)
      BY <1>6, <1>7, <1>9 DEF OnTime, Ends, Date
    <2>. QED
      BY <2>1, <2>2, <2>3, <2>4 DEF OnTime
  <1>10. Ends(r, now) => Ends(x, now)
    BY <1>4 DEF Ends
  <1>11. Ends(y, now)
    BY <1>5, <1>7 DEF Ends, Date
  <1>12. Ends(r, now) => Ends(z, now)
    BY <1>6, <1>7 DEF Ends, Date
  <1>13. Starts(r, now - 1) => Starts(z, now)
    BY <1>6, <1>7 DEF Starts, Date, HasWindow
  <1>. QED
    BY <1>1, <1>2, <1>3, <1>8, <1>9, <1>10, <1>11, <1>12, <1>13

(***************************************************************************)
(* The steps, when the batch is punctual.                                  *)
(***************************************************************************)

NightInv == RequestsInv /\ PunctualInv

\* Facts about single rows that the cases below need again and again.
LEMMA RowFacts ==
    ASSUME NightInv
    PROVE  /\ today \in Date
           /\ \A i \in DOMAIN rows :
                /\ i \in Ids /\ rows[i] \in Row /\ RowOK(rows[i])
                /\ history[i] \in Histories
                /\ Explained(rows[i], history[i])
  BY DEF NightInv, RequestsInv, PunctualInv, IInv, TypeOK, Accepts

\* A step that leaves the table, the ledger, the day and the batch alone.
LEMMA QuietNight ==
    ASSUME NightInv, RequestsInv', UNCHANGED <<today, rows, history, run, ranOn>>,
           \A w \in Workers : inflight'[w] # Idle => inflight[w] # Idle \/ ranOn = today
    PROVE  PunctualInv'
  <1> USE DEF NightInv, PunctualInv
  <1>1. SameDay' /\ PausesAhead'
    BY DEF RequestsInv
  <1>2. \A w \in Workers : inflight'[w] # Idle => ranOn' = today'
    OBVIOUS
  <1>3. \A i \in DOMAIN rows' : Explained(rows'[i], history'[i])
    OBVIOUS
  <1>4. \A i \in DOMAIN rows' : OnTime(rows'[i], today' - 1)
    OBVIOUS
  <1>5. ranOn' = today' => \A i \in DOMAIN rows' : OnTime(rows'[i], today')
    OBVIOUS
  <1>6. \A k \in Runners :
           run'[k].step = 3 /\ run'[k].clean /\ run'[k].day = today'
               => \A i \in DOMAIN rows' : Ends(rows'[i], today')
    OBVIOUS
  <1>. QED
    BY <1>1, <1>2, <1>3, <1>4, <1>5, <1>6
         DEF Explained, OnTime, Starts, Ends, HasWindow

\* A transaction runs on a day whose batch is done; it is enough that it
\* leaves every row explained by its events and on time.
LEMMA CommitNight ==
    ASSUME Punctual, NightInv, RequestsInv', NEW w \in Workers, NEW op, NEW table,
           Commit(w, op, table),
           \A i \in DOMAIN table :
              Explained(table[i], history'[i]) /\ OnTime(table[i], today)
    PROVE  PunctualInv'
  <1>1. /\ rows' = table /\ ranOn = today
        /\ UNCHANGED <<today, run, ranOn>>
        /\ \A v \in Workers : inflight'[v] # Idle => inflight[v] # Idle
    BY DEF Commit, Open, NightInv, RequestsInv, IInv, TypeOK
  <1>2. today \in Date
    BY RowFacts
  <1>3. \A i \in DOMAIN table : table[i] \in Row /\ RowOK(table[i])
    <2>1. TypeOK' /\ Accepts(table)
      BY DEF RequestsInv, IInv, Commit
    <2>2. \A i \in DOMAIN rows' : rows'[i] \in Row
      BY <2>1 DEF TypeOK
    <2>. QED
      BY <1>1, <2>1, <2>2 DEF Accepts
  <1>4. \A i \in DOMAIN table : OnTime(table[i], today - 1)
    BY <1>2, <1>3, OnTimeBefore
  <1>5. SameDay' /\ PausesAhead'
    BY DEF RequestsInv
  <1>6. \A i \in DOMAIN table : Ends(table[i], today)
    BY DEF OnTime
  <1>7. \A i \in DOMAIN rows' : /\ Explained(rows'[i], history'[i])
                                /\ OnTime(rows'[i], today')
                                /\ OnTime(rows'[i], today' - 1)
                                /\ Ends(rows'[i], today')
    BY <1>1, <1>4, <1>6 DEF Explained, OnTime, Starts, Ends, HasWindow
  <1>8. \A v \in Workers : inflight'[v] # Idle => ranOn' = today'
    BY <1>1
  <1>. QED
    BY <1>5, <1>7, <1>8 DEF PunctualInv, Explained, OnTime, Starts, Ends, HasWindow

\* The same for a transaction that writes one row and its event.
LEMMA OneRowNight ==
    ASSUME Punctual, NightInv, RequestsInv', NEW w \in Workers, NEW op,
           NEW i \in Ids, NEW row, NEW h,
           Commit(w, op, With(i, row)), history' = [history EXCEPT ![i] = h],
           Explained(row, h), OnTime(row, today)
    PROVE  PunctualInv'
  <1>1. history \in [Ids -> Histories]
    BY DEF NightInv, RequestsInv, IInv, TypeOK
  <1>2. ranOn = today
    BY DEF Commit, Open
  <1>3. PICK table : table = With(i, row)
    OBVIOUS
  <1>4. /\ DOMAIN table = DOMAIN rows \cup {i}
        /\ \A j \in DOMAIN table : table[j] = IF j = i THEN row ELSE rows[j]
    BY <1>3 DEF With
  <1>5. \A j \in Ids : history'[j] = IF j = i THEN h ELSE history[j]
    BY <1>1
  <1>6. \A j \in DOMAIN rows : /\ j \in Ids
                               /\ Explained(rows[j], history[j]) /\ OnTime(rows[j], today)
    BY <1>2, RowFacts DEF NightInv, PunctualInv
  <1>7. \A j \in DOMAIN table : Explained(table[j], history'[j]) /\ OnTime(table[j], today)
    BY <1>4, <1>5, <1>6
  <1>. QED
    BY <1>3, <1>7, CommitNight

\* The transactions that write one row.
LEMMA RowNight ==
    ASSUME Punctual, NightInv, RequestsInv', NEW w \in Workers,
           \/ Grant(w) \/ Pause(w) \/ Unpause(w) \/ CancelPause(w) \/ Refund(w) \/ CheckIn(w)
    PROVE  PunctualInv'
  <1> DEFINE q == inflight[w]
  <1>0. /\ IInv /\ today \in Date /\ history \in [Ids -> Histories]
        /\ inflight[w] # Idle => inflight[w].day = today
    BY DEF NightInv, RequestsInv, IInv, TypeOK, SameDay
  <1>1. CASE Grant(w)
    <2>1. PICK i, row :
            /\ i \in Ids \ DOMAIN rows
            /\ row = Granted(q.member, q.kind, q.start, q.term)
            /\ Commit(w, "grant", With(i, row))
            /\ history' = [history EXCEPT ![i] = HistoryGrant(@, row.end)]
      BY <1>1 DEF Grant
    <2>2. history' = [history EXCEPT ![i] = HistoryGrant(history[i], row.end)]
      BY <2>1
    <2>3. Explained(row, HistoryGrant(history[i], row.end)) /\ OnTime(row, today)
      BY <1>0, <2>1, GrantedOnTime
    <2>. QED
      BY <2>1, <2>2, <2>3, OneRowNight
  <1>2. CASE Pause(w)
    <2>1. /\ Commit(w, "pause", With(q.id, Paused(rows[q.id], q.from, q.to, q.day)))
          /\ history' = [history EXCEPT ![q.id] = HistoryPause(@, q.from, q.to)]
      BY <1>2 DEF Pause
    <2>2. q \in Requests /\ q.op = "pause" /\ q.id \in DOMAIN rows
      BY <1>0, <2>1, CommitFacts DEF RowOps
    <2>3. /\ q.id \in Ids /\ q.from \in Date /\ q.to \in Date /\ q.day = today
          /\ q.from >= today
      BY <1>0, <2>1, <2>2, RequestShapes DEF NightInv, RequestsInv, PausesAhead, Commit
    <2>4. PICK r, h : r = rows[q.id] /\ h = history[q.id]
      OBVIOUS
    <2>5. r \in Row /\ h \in Histories /\ h.end = r.end
      BY <2>2, <2>4, RowFacts DEF Explained
    <2>6. PICK p : p = Paused(r, q.from, q.to, today)
      OBVIOUS
    <2>7. Commit(w, "pause", With(q.id, p)) /\ RowOK(p)
      BY <2>1, <2>3, <2>4, <2>6 DEF Commit, Accepts, With
    <2>8. Explained(p, HistoryPause(h, q.from, q.to)) /\ OnTime(p, today)
      BY <1>0, <2>3, <2>5, <2>6, <2>7, PausedOnTime
    <2>9. history' = [history EXCEPT ![q.id] = HistoryPause(h, q.from, q.to)]
      BY <2>1, <2>4
    <2>. QED
      BY <2>3, <2>7, <2>8, <2>9, OneRowNight
  <1>3. CASE Unpause(w)
    <2>1. /\ Commit(w, "unpause", With(q.id, Unpaused(rows[q.id], q.day)))
          /\ HasWindow(rows[q.id])
          /\ history' = [history EXCEPT ![q.id] = HistoryUnpause(@, q.day)]
      BY <1>3 DEF Unpause
    <2>2. q \in Requests /\ q.op = "unpause" /\ q.id \in DOMAIN rows
      BY <1>0, <2>1, CommitFacts DEF RowOps
    <2>3. q.id \in Ids /\ q.day \in Date
      BY <2>2, RequestShapes
    <2>4. PICK r, h : r = rows[q.id] /\ h = history[q.id]
      OBVIOUS
    <2>5. r \in Row /\ h \in Histories /\ Explained(r, h) /\ HasWindow(r)
      BY <2>1, <2>2, <2>4, RowFacts
    <2>6. /\ Explained(Unpaused(r, q.day), HistoryUnpause(h, q.day))
          /\ OnTime(Unpaused(r, q.day), today)
      BY <1>0, <2>3, <2>5, UnpausedOnTime
    <2>7. /\ Commit(w, "unpause", With(q.id, Unpaused(r, q.day)))
          /\ history' = [history EXCEPT ![q.id] = HistoryUnpause(h, q.day)]
      BY <2>1, <2>4
    <2>. QED
      BY <2>3, <2>6, <2>7, OneRowNight
  <1>4. CASE CancelPause(w)
    <2>1. /\ Commit(w, "cancel_pause", With(q.id, Cancelled(rows[q.id])))
          /\ HasWindow(rows[q.id])
          /\ history' = [history EXCEPT ![q.id] = HistoryCancel(@)]
      BY <1>4 DEF CancelPause
    <2>2. q \in Requests /\ q.op = "cancel_pause" /\ q.id \in DOMAIN rows
      BY <1>0, <2>1, CommitFacts DEF RowOps
    <2>3. q.id \in Ids
      BY <2>2, RequestShapes
    <2>4. PICK r, h : r = rows[q.id] /\ h = history[q.id]
      OBVIOUS
    <2>5. r \in Row /\ h \in Histories /\ Explained(r, h) /\ HasWindow(r)
      BY <2>1, <2>2, <2>4, RowFacts
    <2>6. RowOK(Cancelled(r))
      BY <2>1, <2>4 DEF Commit, Accepts, With
    <2>7. Explained(Cancelled(r), HistoryCancel(h)) /\ OnTime(Cancelled(r), today)
      BY <1>0, <2>5, <2>6, CancelledOnTime
    <2>8. /\ Commit(w, "cancel_pause", With(q.id, Cancelled(r)))
          /\ history' = [history EXCEPT ![q.id] = HistoryCancel(h)]
      BY <2>1, <2>4
    <2>. QED
      BY <2>3, <2>7, <2>8, OneRowNight
  <1>5. CASE Refund(w)
    <2>1. /\ Commit(w, "refund", With(q.id, Refunded(rows[q.id])))
          /\ history' = [history EXCEPT ![q.id] = HistoryRefund(@)]
      BY <1>5 DEF Refund
    <2>2. q \in Requests /\ q.op = "refund" /\ q.id \in DOMAIN rows
      BY <1>0, <2>1, CommitFacts DEF RowOps
    <2>3. q.id \in Ids
      BY <2>2, RequestShapes
    <2>4. PICK r, h : r = rows[q.id] /\ h = history[q.id]
      OBVIOUS
    <2>5. r \in Row /\ h \in Histories /\ Explained(r, h)
      BY <2>2, <2>4, RowFacts
    <2>6. Explained(Refunded(r), HistoryRefund(h)) /\ OnTime(Refunded(r), today)
      BY <1>0, <2>5, RefundedOnTime
    <2>7. /\ Commit(w, "refund", With(q.id, Refunded(r)))
          /\ history' = [history EXCEPT ![q.id] = HistoryRefund(h)]
      BY <2>1, <2>4
    <2>. QED
      BY <2>3, <2>6, <2>7, OneRowNight
  <1>6. CASE CheckIn(w)
    <2>1. PICK i \in DOMAIN rows, first \in BOOLEAN :
            Commit(w, "check_in", With(i, Visited(rows[i], first)))
      <3>1. PICK i \in DOMAIN rows :
              Commit(w, "check_in", With(i, Visited(rows[i],
                  ~ \E v \in visits : rows[v[1]].member = q.member /\ v[2] = q.day)))
        BY <1>6 DEF CheckIn
      <3>. QED
        BY <3>1
    <2>2. history' = history
      BY <1>6 DEF CheckIn
    <2>3. ranOn = today
      BY <2>1 DEF Commit, Open
    <2>4. PICK r, h : r = rows[i] /\ h = history[i]
      OBVIOUS
    <2>5. r \in Row /\ i \in Ids /\ Explained(r, h) /\ OnTime(r, today)
      BY <2>3, <2>4, RowFacts DEF NightInv, PunctualInv
    <2>6. Explained(Visited(r, first), h) /\ OnTime(Visited(r, first), today)
      BY <1>0, <2>5, VisitedOnTime
    <2>7. /\ Commit(w, "check_in", With(i, Visited(r, first)))
          /\ history' = [history EXCEPT ![i] = h]
      BY <1>0, <2>1, <2>2, <2>4, <2>5
    <2>. QED
      BY <2>5, <2>6, <2>7, OneRowNight
  <1>. QED
    BY <1>1, <1>2, <1>3, <1>4, <1>5, <1>6

\* A bulk extension, which dates its event with the day of its request.
LEMMA ExtendNight ==
    ASSUME Punctual, NightInv, RequestsInv', NEW w \in Workers, BulkExtend(w)
    PROVE  PunctualInv'
  <1> DEFINE q == inflight[w]
             Target(i) == i \in DOMAIN rows /\ BulkTarget(rows[i], q.branch, q.kind, deleted)
             table == [i \in DOMAIN rows |-> IF Target(i) THEN Extended(rows[i], q.days, q.day)
                                                          ELSE rows[i]]
  <1>1. /\ Commit(w, "bulk_extend", table)
        /\ history' = [i \in Ids |-> IF Target(i)
                                     THEN HistoryExtend(history[i], q.days, today)
                                     ELSE history[i]]
    BY DEF BulkExtend
  <1>2. IInv /\ q \in Requests /\ q.op = "bulk_extend"
    BY <1>1, CommitFacts DEF NightInv, RequestsInv
  <1>3. q.days \in Nat /\ q.day = today /\ today \in Date /\ ranOn = today
    BY <1>1, <1>2, RequestShapes, RowFacts
       DEF Commit, Open, NightInv, RequestsInv, SameDay
  <1>4. ASSUME NEW i \in DOMAIN rows
        PROVE  Explained(table[i], history'[i]) /\ OnTime(table[i], today)
    <2>1. PICK r, h : r = rows[i] /\ h = history[i]
      OBVIOUS
    <2>2. /\ i \in Ids /\ r \in Row /\ RowOK(r) /\ h \in Histories
          /\ Explained(r, h) /\ OnTime(r, today)
      BY <1>3, <2>1, RowFacts DEF NightInv, PunctualInv
    <2>3. CASE Target(i)
      <3>1. Live(r)
        BY <2>1, <2>3 DEF BulkTarget
      <3>2. /\ Explained(Extended(r, q.days, today), HistoryExtend(h, q.days, today))
            /\ OnTime(Extended(r, q.days, today), today)
        BY <1>3, <2>2, <3>1, ExtendedOnTime
      <3>3. /\ table[i] = Extended(r, q.days, today)
            /\ history'[i] = HistoryExtend(h, q.days, today)
        BY <1>1, <1>3, <2>1, <2>2, <2>3
      <3>. QED
        BY <3>2, <3>3
    <2>4. CASE ~Target(i)
      <3>1. table[i] = r /\ history'[i] = h
        BY <1>1, <2>1, <2>2, <2>4
      <3>. QED
        BY <2>2, <3>1
    <2>. QED
      BY <2>3, <2>4
  <1>5. DOMAIN table = DOMAIN rows
    OBVIOUS
  <1> HIDE DEF table
  <1>. QED
    BY <1>1, <1>4, <1>5, CommitNight

\* The batch's steps.  The second leaves no hold in force that is over, and a
\* third that follows it starts every hold whose day it is.
LEMMA BatchNight ==
    ASSUME NightInv, RequestsInv', NEW k \in Runners,
           BatchExpire(k) \/ BatchReactivate(k) \/ BatchSchedule(k)
    PROVE  PunctualInv'
  <1>1. /\ UNCHANGED <<today, history, inflight>>
        /\ BatchAdvance(k, TRUE)
        /\ DOMAIN rows' = DOMAIN rows
    BY DEF BatchExpire, BatchReactivate, BatchSchedule, BatchStep, BatchAdvance,
       ExpireAll, ReactivateAll, ScheduleAll
  <1>2. /\ run \in [Runners -> Runs] /\ today \in Date
        /\ \A i \in DOMAIN rows : OnTime(rows[i], today - 1)
        /\ ranOn = today => \A i \in DOMAIN rows : OnTime(rows[i], today)
        /\ \A j \in Runners : run[j].step = 3 /\ run[j].clean /\ run[j].day = today
               => \A i \in DOMAIN rows : Ends(rows[i], today)
    BY DEF NightInv, PunctualInv, RequestsInv, IInv, TypeOK
  <1>3. /\ BatchExpire(k) <=> run[k].step = 1
        /\ BatchReactivate(k) <=> run[k].step = 2
        /\ BatchSchedule(k) <=> run[k].step = 3
    <2>1. BatchExpire(k) => run[k].step = 1
      BY DEF BatchExpire, BatchStep
    <2>2. BatchReactivate(k) => run[k].step = 2
      BY DEF BatchReactivate, BatchStep
    <2>3. BatchSchedule(k) => run[k].step = 3
      BY DEF BatchSchedule, BatchStep
    <2>. QED
      BY <2>1, <2>2, <2>3
  <1>4. ASSUME NEW i \in DOMAIN rows
        PROVE  /\ Explained(rows'[i], history[i])
               /\ \A day \in {today - 1, today} : OnTime(rows[i], day) => OnTime(rows'[i], day)
               /\ Ends(rows[i], today) => Ends(rows'[i], today)
               /\ BatchReactivate(k) => Ends(rows'[i], today)
               /\ BatchSchedule(k) => Starts(rows'[i], today)
    <2>1. PICK r : r = rows[i]
      OBVIOUS
    <2>2. r \in Row /\ RowOK(r) /\ Explained(r, history[i])
      BY <2>1, RowFacts
    <2>3. OnTime(r, today - 1)
      BY <1>2, <2>1
    <2>4. Ends(r, today - 1) /\ Starts(r, today - 1)
      BY <2>3 DEF OnTime
    <2>5. BatchExpire(k) => rows'[i] = ExpireIfPast(r, today)
      BY <2>1 DEF BatchExpire, BatchStep, ExpireAll
    <2>6. BatchReactivate(k) => rows'[i] = ReactivateIfOver(r, today)
      BY <2>1 DEF BatchReactivate, BatchStep, ReactivateAll
    <2>7. BatchSchedule(k) => rows'[i] = PauseIfArrived(r, today)
      BY <2>1 DEF BatchSchedule, BatchStep, ScheduleAll
    <2>8. CASE BatchExpire(k)
      BY <1>2, <1>3, <2>1, <2>2, <2>5, <2>8, BatchOnTime
    <2>9. CASE BatchReactivate(k)
      BY <1>2, <1>3, <2>1, <2>2, <2>6, <2>9, BatchOnTime
    <2>10. CASE BatchSchedule(k)
      BY <1>2, <1>3, <2>1, <2>2, <2>4, <2>7, <2>10, BatchOnTime
    <2>. QED
      BY <2>8, <2>9, <2>10
  <1>5. \A i \in DOMAIN rows : OnTime(rows'[i], today - 1)
    BY <1>2, <1>4
  <1>6. ASSUME ranOn' = today, NEW i \in DOMAIN rows
        PROVE  OnTime(rows'[i], today)
    <2>1. CASE ranOn = today
      BY <1>2, <1>4, <2>1
    <2>2. CASE run[k].step = 3 /\ run[k].clean /\ run[k].day = today
      <3>1. BatchSchedule(k)
        BY <1>3, <2>2
      <3>2. Starts(rows'[i], today) /\ Ends(rows'[i], today)
        BY <1>2, <1>4, <2>2, <3>1
      <3>. QED
        BY <3>2 DEF OnTime
    <2>. QED
      BY <1>1, <1>6, <2>1, <2>2 DEF BatchAdvance
  <1>7. ASSUME NEW j \in Runners, run'[j].step = 3, run'[j].clean, run'[j].day = today,
               NEW i \in DOMAIN rows
        PROVE  Ends(rows'[i], today)
    <2>1. CASE j # k
      <3>1. run'[j] = run[j]
        BY <1>1, <1>2, <2>1 DEF BatchAdvance
      <3>. QED
        BY <1>2, <1>4, <1>7, <3>1
    <2>2. CASE j = k
      <3>1. run'[k] = IF run[k].step = 3 THEN NoRun
                      ELSE [step |-> run[k].step + 1, day |-> run[k].day,
                            clean |-> run[k].clean /\ run[k].day = today]
        BY <1>1, <1>2 DEF BatchAdvance
      <3>2. run[k].step \in 0 .. 3
        BY <1>2 DEF Runs
      <3>3. run[k].step = 2
        BY <1>7, <2>2, <3>1, <3>2 DEF NoRun
      <3>4. BatchReactivate(k)
        BY <1>3, <3>3
      <3>. QED
        BY <1>4, <3>4
    <2>. QED
      BY <2>1, <2>2
  <1>8. \A w \in Workers : inflight'[w] # Idle => ranOn' = today'
    BY <1>1 DEF NightInv, PunctualInv, BatchAdvance
  <1>9. SameDay' /\ PausesAhead'
    BY DEF RequestsInv
  <1>10. \A i \in DOMAIN rows' : Explained(rows'[i], history'[i])
    BY <1>1, <1>4
  <1>11. \A i \in DOMAIN rows' : OnTime(rows'[i], today' - 1)
    BY <1>1, <1>5
  <1>12. ranOn' = today' => \A i \in DOMAIN rows' : OnTime(rows'[i], today')
    BY <1>1, <1>6
  <1>13. \A j \in Runners : run'[j].step = 3 /\ run'[j].clean /\ run'[j].day = today'
             => \A i \in DOMAIN rows' : Ends(rows'[i], today')
    BY <1>1, <1>7
  <1>. QED
    BY <1>8, <1>9, <1>10, <1>11, <1>12, <1>13
       DEF PunctualInv, Explained, OnTime, Starts, Ends, HasWindow

\* A run that begins has done nothing yet, and a punctual one does not fail.
LEMMA RunNight ==
    ASSUME Punctual, NightInv, RequestsInv', NEW k \in Runners,
           BatchStart(k) \/ BatchStepFails(k) \/ BatchStops(k)
    PROVE  PunctualInv'
  <1>1. BatchStart(k)
    BY LifecycleAssumption DEF BatchStepFails, BatchStops
  <1>2. run' = [run EXCEPT ![k] = [step |-> 1, day |-> today, clean |-> TRUE]]
        /\ UNCHANGED <<today, rows, history, inflight, ranOn>>
    BY <1>1 DEF BatchStart
  <1>3. run \in [Runners -> Runs]
    BY DEF NightInv, RequestsInv, IInv, TypeOK
  <1>4. \A j \in Runners : run'[j].step = 3 => run'[j] = run[j]
    BY <1>2, <1>3
  <1>5. SameDay' /\ PausesAhead'
    BY DEF RequestsInv
  <1>6. \A i \in DOMAIN rows' : Explained(rows'[i], history'[i])
    BY <1>2 DEF NightInv, PunctualInv
  <1>7. \A i \in DOMAIN rows' : OnTime(rows'[i], today' - 1)
    BY <1>2 DEF NightInv, PunctualInv
  <1>8. ranOn' = today' => \A i \in DOMAIN rows' : OnTime(rows'[i], today')
    BY <1>2 DEF NightInv, PunctualInv
  <1>9. \A j \in Runners : run'[j].step = 3 /\ run'[j].clean /\ run'[j].day = today'
            => \A i \in DOMAIN rows' : Ends(rows'[i], today')
    BY <1>2, <1>4 DEF NightInv, PunctualInv
  <1>10. \A w \in Workers : inflight'[w] # Idle => ranOn' = today'
    BY <1>2 DEF NightInv, PunctualInv
  <1>. QED
    BY <1>5, <1>6, <1>7, <1>8, <1>9, <1>10
       DEF PunctualInv, Explained, OnTime, Starts, Ends, HasWindow

\* Midnight comes when the batch is done and nobody works: what is on time for
\* the day is one day behind on the next.
LEMMA MidnightNight ==
    ASSUME Punctual, ~Straddle, NightInv, RequestsInv', Midnight
    PROVE  PunctualInv'
  <1>1. /\ ranOn = today /\ today' = today + 1 /\ today \in Int
        /\ UNCHANGED <<rows, history, inflight, run, ranOn>>
        /\ \A k \in Runners : run[k] = NoRun
        /\ \A w \in Workers : inflight[w] = Idle
    BY RowFacts DEF Midnight, Date
  <1>2. today' - 1 = today /\ ranOn' # today'
    BY <1>1
  <1>3. \A i \in DOMAIN rows' : OnTime(rows'[i], today' - 1)
    BY <1>1, <1>2 DEF NightInv, PunctualInv
  <1>4. \A i \in DOMAIN rows' : Explained(rows'[i], history'[i])
    BY <1>1 DEF NightInv, PunctualInv
  <1>5. \A k \in Runners : run'[k].step # 3
    BY <1>1 DEF NoRun
  <1>6. SameDay' /\ PausesAhead'
    BY DEF RequestsInv
  <1>. QED
    BY <1>1, <1>2, <1>3, <1>4, <1>5, <1>6
       DEF PunctualInv, Explained, OnTime, Starts, Ends, HasWindow

LEMMA NightNext ==
    ASSUME Punctual, ~Straddle, NightInv, [Next]_vars
    PROVE  NightInv'
  <1>1. RequestsInv'
    BY RequestsNext DEF NightInv
  <1>2. IInv /\ inflight \in [Workers -> Requests \cup {Idle}]
    BY DEF NightInv, RequestsInv, IInv, TypeOK
  <1>3. CASE \E w \in Workers : Handle(w)
    <2>1. PICK w \in Workers : Handle(w)
      BY <1>3
    <2>2. CASE \/ GrantCheck(w) \/ PauseCheck(w) \/ UnpauseCheck(w)
               \/ CancelPauseCheck(w) \/ RefundCheck(w) \/ BulkExtendCheck(w)
               \/ CheckInArrives(w)
      <3>1. PICK q : Start(w, q)
        BY <1>2, <2>2, StartsToday
      <3>2. ranOn = today
        BY <3>1 DEF Start, Open
      <3>. QED
        BY <1>1, <3>1, <3>2, QuietNight DEF Start, NightInv
    <2>3. CASE \/ Grant(w) \/ Pause(w) \/ Unpause(w) \/ CancelPause(w) \/ Refund(w)
               \/ CheckIn(w)
      BY <1>1, <2>3, RowNight DEF NightInv
    <2>4. CASE BulkExtend(w)
      BY <1>1, <2>4, ExtendNight DEF NightInv
    <2>5. CASE RequestFails(w)
      <3>1. \A v \in Workers : inflight'[v] # Idle => inflight[v] # Idle
        BY <1>2, <2>5 DEF RequestFails
      <3>. QED
        BY <1>1, <2>5, <3>1, QuietNight DEF RequestFails, NightInv
    <2>. QED
      BY <2>1, <2>2, <2>3, <2>4, <2>5 DEF Handle
  <1>4. CASE \E k \in Runners : Batch(k)
    BY <1>1, <1>4, BatchNight, RunNight DEF Batch, NightInv
  <1>5. CASE DeleteMember
    BY <1>1, <1>5, QuietNight DEF DeleteMember, NightInv
  <1>6. CASE Midnight
    BY <1>1, <1>6, MidnightNight DEF NightInv
  <1>7. CASE UNCHANGED vars
    BY <1>1, <1>7, QuietNight DEF vars, NightInv
  <1>. QED
    BY <1>3, <1>4, <1>5, <1>6, <1>7 DEF Next

\* The strengthening holds in every reachable state of a punctual instance.
THEOREM PunctualInvariance ==
    ASSUME Punctual, ~Straddle
    PROVE  Spec => []PunctualInv
  <1>1. Init => NightInv
    <2> SUFFICES ASSUME Init PROVE NightInv
      OBVIOUS
    <2>1. RequestsInv
      BY InitInv DEF Init, RequestsInv, SameDay, PausesAhead
    <2>2. DOMAIN rows = {} /\ \A k \in Runners : run[k].step # 3
      BY DEF Init, NoRun
    <2>3. \A w \in Workers : inflight[w] = Idle
      BY DEF Init
    <2>4. PunctualInv
      BY <2>1, <2>2, <2>3 DEF PunctualInv, RequestsInv
    <2>. QED
      BY <2>1, <2>4 DEF NightInv
  <1>2. NightInv /\ [Next]_vars => NightInv'
    BY NightNext
  <1>3. NightInv => PunctualInv
    BY DEF NightInv
  <1>. QED
    BY <1>1, <1>2, <1>3, PTL DEF Spec

\* When every night's batch succeeds before the first request and no request
\* outlives its day, replaying the events of a membership in order gives the
\* end_date of its row.
THEOREM LedgerExplains ==
    ASSUME Punctual, ~Straddle
    PROVE  Spec => []LedgerExplainsEnd
  <1>1. PunctualInv => LedgerExplainsEnd
    BY DEF PunctualInv, Explained, LedgerExplainsEnd
  <1>. QED
    BY <1>1, PunctualInvariance, PTL

\* Under the same conditions, a batch run that is done leaves no active row
\* with a registered hold that has begun.
THEOREM HoldsStart ==
    ASSUME Punctual, ~Straddle
    PROVE  Spec => []ScheduledHoldsStart
  <1>1. PunctualInv => ScheduledHoldsStart
    BY DEF PunctualInv, OnTime, Starts, BatchDone, ScheduledHoldsStart
  <1>. QED
    BY <1>1, PunctualInvariance, PTL

(***************************************************************************)
(* Holds that end, whenever the batch runs and whatever fails in it.       *)
(***************************************************************************)

\* No statement of a transaction puts a hold in force that is over on the
\* day, or keeps one longer than it was.  A cancelled hold cannot be one in
\* force, which the table would not accept.
LEMMA StatementsEnd ==
    ASSUME NEW r \in Row, NEW day \in Date, Ends(r, day)
    PROVE  /\ \A from, to \in Date :
                 from >= day /\ RowOK(Paused(r, from, to, day))
                     => Ends(Paused(r, from, to, day), day)
           /\ \A on : Ends(Unpaused(r, on), day)
           /\ RowOK(Cancelled(r)) => Ends(Cancelled(r), day)
           /\ Ends(Refunded(r), day)
           /\ \A on : \A days \in Nat : RowOK(r) => Ends(Extended(r, days, on), day)
           /\ \A first \in BOOLEAN : Ends(Visited(r, first), day)
  <1>1. ASSUME NEW from \in Date, NEW to \in Date, from >= day,
               RowOK(Paused(r, from, to, day))
        PROVE  Ends(Paused(r, from, to, day), day)
    <2>1. PICK p : p = Paused(r, from, to, day)
      OBVIOUS
    <2>2. p.pauseStart = from /\ p.pauseEnd = to
      BY <2>1 DEF Paused, Row
    <2>3. from # Null
      BY MembersAssumption DEF Date
    <2>4. from <= to
      BY <1>1, <2>1, <2>2, <2>3 DEF RowOK, HasWindow
    <2>. QED
      BY <1>1, <2>1, <2>2, <2>4 DEF Ends, Date
  <1>2. \A on : Ends(Unpaused(r, on), day)
    BY DEF Ends, Unpaused, Row
  <1>3. ASSUME RowOK(Cancelled(r))
        PROVE  Ends(Cancelled(r), day)
    <2>1. Cancelled(r).pauseStart = Null
      BY DEF Cancelled, Row
    <2>. QED
      BY <1>3, <2>1 DEF Ends, RowOK, HasWindow
  <1>4. Ends(Refunded(r), day)
    BY DEF Ends, Refunded, Row
  <1>5. ASSUME NEW days \in Nat, NEW on, RowOK(r)
        PROVE  Ends(Extended(r, days, on), day)
    <2>1. PICK e : e = Extended(r, days, on)
      OBVIOUS
    <2>2. e.status = r.status
      BY <2>1 DEF Extended, Row
    <2>3. ASSUME r.status = "paused"
          PROVE  e.pauseEnd = r.pauseEnd + days /\ r.pauseEnd \in Int
      <3>1. MovesWindow(r, on)
        BY <2>3 DEF MovesWindow
      <3>2. e.pauseEnd = r.pauseEnd + days
        BY <2>1, <3>1 DEF Extended, Row
      <3>3. r.pauseEnd \in Int
        BY <1>5, <2>3 DEF RowOK, HasWindow, Row, DateOrNull, Date
      <3>. QED
        BY <3>2, <3>3
    <2>. QED
      BY <2>1, <2>2, <2>3 DEF Ends, Date
  <1>6. ASSUME NEW first \in BOOLEAN
        PROVE  Ends(Visited(r, first), day)
    BY DEF Ends, Visited, Row
  <1>. QED
    BY <1>1, <1>2, <1>3, <1>4, <1>5, <1>6

\* Neither does a step of the batch, and the one that reactivates leaves no
\* hold in force that is over.
LEMMA BatchEnds ==
    ASSUME NEW r \in Row, RowOK(r), NEW now \in Date
    PROVE  /\ Ends(r, now) => Ends(ExpireIfPast(r, now), now)
           /\ Ends(ReactivateIfOver(r, now), now)
           /\ Ends(r, now) => Ends(PauseIfArrived(r, now), now)
  <1>1. /\ HasWindow(r) => r.pauseStart \in Int /\ r.pauseEnd \in Int
                           /\ r.pauseStart <= r.pauseEnd
        /\ r.status = "paused" => HasWindow(r)
        /\ r.pauseStart = now => HasWindow(r)
    BY MembersAssumption DEF HasWindow, Row, DateOrNull, RowOK, Date
  <1>2. Ends(r, now) => Ends(ExpireIfPast(r, now), now)
    BY DEF Ends, ExpireIfPast, Row
  <1>3. Ends(ReactivateIfOver(r, now), now)
    <2>1. PICK y : y = ReactivateIfOver(r, now)
      OBVIOUS
    <2>2. IF r.status = "paused" /\ r.pauseEnd < now THEN y.status = "active" ELSE y = r
      BY <2>1 DEF ReactivateIfOver, Row
    <2>. QED
      BY <1>1, <2>1, <2>2 DEF Ends, Date
  <1>4. ASSUME Ends(r, now)
        PROVE  Ends(PauseIfArrived(r, now), now)
    <2>1. PICK z : z = PauseIfArrived(r, now)
      OBVIOUS
    <2>2. /\ z.pauseEnd = r.pauseEnd
          /\ z.status = IF r.status = "active" /\ r.pauseStart = now THEN "paused" ELSE r.status
      BY <2>1 DEF PauseIfArrived, Row
    <2>. QED
      BY <1>1, <1>4, <2>1, <2>2 DEF Ends, Date
  <1>. QED
    BY <1>2, <1>3, <1>4

DayInv == RequestsInv /\ HoldsInv

Swept == \A i \in DOMAIN rows : Ends(rows[i], today)

\* A transaction keeps the table swept: its request is of today.
LEMMA HandlersKeepSwept ==
    ASSUME DayInv, Swept, NEW w \in Workers,
           \/ Grant(w) \/ Pause(w) \/ Unpause(w) \/ CancelPause(w)
           \/ Refund(w) \/ BulkExtend(w) \/ CheckIn(w)
    PROVE  /\ \A i \in DOMAIN rows' : Ends(rows'[i], today)
           /\ UNCHANGED <<today, run, ranOn>>
  <1> DEFINE q == inflight[w]
  <1>1. /\ IInv /\ today \in Date
        /\ inflight[w] # Idle => q \in Requests /\ q.day = today
        /\ \A i \in DOMAIN rows : /\ rows[i] \in Row /\ RowOK(rows[i])
                                  /\ Ends(rows[i], today)
    BY DEF DayInv, RequestsInv, IInv, TypeOK, Accepts, SameDay, Swept
  <1>2. \A i, row : Ends(row, today)
            => \A j \in DOMAIN With(i, row) : Ends(With(i, row)[j], today)
    BY <1>1 DEF With
  <1>3. CASE Grant(w)
    <2>1. PICK i, row : /\ row = Granted(q.member, q.kind, q.start, q.term)
                        /\ Commit(w, "grant", With(i, row))
      BY <1>3 DEF Grant
    <2>2. Ends(row, today)
      BY <2>1 DEF Granted, Ends
    <2>. QED
      BY <1>2, <2>1, <2>2 DEF Commit
  <1>4. CASE Pause(w)
    <2>1. Commit(w, "pause", With(q.id, Paused(rows[q.id], q.from, q.to, q.day)))
      BY <1>4 DEF Pause
    <2>2. q \in Requests /\ q.op = "pause" /\ q.id \in DOMAIN rows
      BY <1>1, <2>1, CommitFacts DEF RowOps
    <2>3. q.from \in Date /\ q.to \in Date /\ q.day = today /\ q.from >= today
      BY <1>1, <2>1, <2>2, RequestShapes DEF Commit, DayInv, RequestsInv, PausesAhead
    <2>4. PICK r, p : r = rows[q.id] /\ p = Paused(r, q.from, q.to, today)
      OBVIOUS
    <2>5. Commit(w, "pause", With(q.id, p))
      BY <2>1, <2>3, <2>4
    <2>6. RowOK(p)
      BY <2>5 DEF Commit, Accepts, With
    <2>7. Ends(p, today)
      BY <1>1, <2>2, <2>3, <2>4, <2>6, StatementsEnd
    <2>. QED
      BY <1>2, <2>5, <2>7 DEF Commit
  <1>5. CASE Unpause(w)
    <2>1. Commit(w, "unpause", With(q.id, Unpaused(rows[q.id], q.day)))
      BY <1>5 DEF Unpause
    <2>2. q.id \in DOMAIN rows
      BY <1>1, <2>1, CommitFacts DEF RowOps
    <2>3. Ends(Unpaused(rows[q.id], q.day), today)
      BY <1>1, <2>2, StatementsEnd
    <2>. QED
      BY <1>2, <2>1, <2>3 DEF Commit
  <1>6. CASE CancelPause(w)
    <2>1. Commit(w, "cancel_pause", With(q.id, Cancelled(rows[q.id])))
      BY <1>6 DEF CancelPause
    <2>2. q.id \in DOMAIN rows
      BY <1>1, <2>1, CommitFacts DEF RowOps
    <2>3. RowOK(Cancelled(rows[q.id]))
      BY <2>1 DEF Commit, Accepts, With
    <2>4. Ends(Cancelled(rows[q.id]), today)
      BY <1>1, <2>2, <2>3, StatementsEnd
    <2>. QED
      BY <1>2, <2>1, <2>4 DEF Commit
  <1>7. CASE Refund(w)
    <2>1. Commit(w, "refund", With(q.id, Refunded(rows[q.id])))
      BY <1>7 DEF Refund
    <2>2. q.id \in DOMAIN rows
      BY <1>1, <2>1, CommitFacts DEF RowOps
    <2>3. Ends(Refunded(rows[q.id]), today)
      BY <1>1, <2>2, StatementsEnd
    <2>. QED
      BY <1>2, <2>1, <2>3 DEF Commit
  <1>8. CASE BulkExtend(w)
    <2> DEFINE Target(i) == i \in DOMAIN rows /\ BulkTarget(rows[i], q.branch, q.kind, deleted)
               table == [i \in DOMAIN rows |-> IF Target(i) THEN Extended(rows[i], q.days, q.day)
                                                            ELSE rows[i]]
    <2>1. Commit(w, "bulk_extend", table)
      BY <1>8 DEF BulkExtend
    <2>2. q.days \in Nat
      BY <1>1, <2>1, CommitFacts, RequestShapes
    <2>3. ASSUME NEW i \in DOMAIN rows
          PROVE  Ends(table[i], today)
      <3>1. Ends(Extended(rows[i], q.days, q.day), today)
        BY <1>1, <2>2, StatementsEnd
      <3>. QED
        BY <1>1, <3>1
    <2>4. DOMAIN table = DOMAIN rows
      OBVIOUS
    <2> HIDE DEF table
    <2>. QED
      BY <2>1, <2>3, <2>4 DEF Commit
  <1>9. CASE CheckIn(w)
    <2>1. PICK i \in DOMAIN rows, first \in BOOLEAN :
            Commit(w, "check_in", With(i, Visited(rows[i], first)))
      <3>1. PICK i \in DOMAIN rows :
              Commit(w, "check_in", With(i, Visited(rows[i],
                  ~ \E v \in visits : rows[v[1]].member = q.member /\ v[2] = q.day)))
        BY <1>9 DEF CheckIn
      <3>. QED
        BY <3>1
    <2>2. Ends(Visited(rows[i], first), today)
      BY <1>1, StatementsEnd
    <2>. QED
      BY <1>2, <2>1, <2>2 DEF Commit
  <1>. QED
    BY <1>3, <1>4, <1>5, <1>6, <1>7, <1>8, <1>9

\* A step that keeps the day, the runs and a swept table keeps the invariant.
LEMMA QuietDay ==
    ASSUME DayInv, RequestsInv', UNCHANGED <<today, run, ranOn>>,
           Swept => \A i \in DOMAIN rows' : Ends(rows'[i], today)
    PROVE  HoldsInv'
  <1>1. SameDay' /\ PausesAhead'
    BY DEF RequestsInv
  <1>2. ranOn' <= today' /\ \A k \in Runners : run'[k].step # 0 => run'[k].day <= today'
    BY DEF DayInv, HoldsInv
  <1>3. Reactivated' => Reactivated
    BY DEF Reactivated
  <1>4. Reactivated => Swept
    BY DEF DayInv, HoldsInv, Swept
  <1>5. Reactivated' => \A i \in DOMAIN rows' : Ends(rows'[i], today')
    BY <1>3, <1>4 DEF Ends
  <1>. QED
    BY <1>1, <1>2, <1>5 DEF HoldsInv, Ends

\* A step of the batch, done or failed.  A run gets past the step that
\* reactivates without a failure only by doing it on its own day.
LEMMA AdvanceDay ==
    ASSUME DayInv, RequestsInv', NEW k \in Runners,
           BatchExpire(k) \/ BatchReactivate(k) \/ BatchSchedule(k) \/ BatchStepFails(k)
    PROVE  HoldsInv'
  <1>1. /\ run \in [Runners -> Runs] /\ today \in Date /\ ranOn <= today
        /\ \A j \in Runners : run[j].step # 0 => run[j].day <= today
        /\ Reactivated => Swept
        /\ \A i \in DOMAIN rows : rows[i] \in Row /\ RowOK(rows[i])
    BY DEF DayInv, HoldsInv, RequestsInv, IInv, TypeOK, Accepts, Swept
  <1>2. PICK ok \in BOOLEAN : BatchAdvance(k, ok) /\ (ok <=> ~BatchStepFails(k))
    <2>1. BatchStepFails(k) => BatchAdvance(k, FALSE)
      BY DEF BatchStepFails
    <2>2. BatchExpire(k) \/ BatchReactivate(k) \/ BatchSchedule(k) => BatchAdvance(k, TRUE)
      BY DEF BatchExpire, BatchReactivate, BatchSchedule, BatchStep
    <2>. QED
      BY <2>1, <2>2
  <1>3. PICK clean \in BOOLEAN :
          /\ clean <=> ok /\ run[k].clean /\ run[k].day = today
          /\ run' = [run EXCEPT ![k] = IF run[k].step = 3 THEN NoRun
                                       ELSE [step |-> run[k].step + 1, day |-> run[k].day,
                                             clean |-> clean]]
          /\ ranOn' = IF run[k].step = 3 /\ clean THEN today ELSE ranOn
          /\ today' = today
    BY <1>2 DEF BatchAdvance
  <1>4. /\ DOMAIN rows' = DOMAIN rows
        /\ BatchExpire(k) => run[k].step = 1
        /\ BatchReactivate(k) => run[k].step = 2
        /\ BatchSchedule(k) => run[k].step = 3
        /\ run[k].step > 0
    <2>1. BatchExpire(k) => DOMAIN rows' = DOMAIN rows /\ run[k].step = 1
      BY DEF BatchExpire, BatchStep, ExpireAll
    <2>2. BatchReactivate(k) => DOMAIN rows' = DOMAIN rows /\ run[k].step = 2
      BY DEF BatchReactivate, BatchStep, ReactivateAll
    <2>3. BatchSchedule(k) => DOMAIN rows' = DOMAIN rows /\ run[k].step = 3
      BY DEF BatchSchedule, BatchStep, ScheduleAll
    <2>4. BatchStepFails(k) => rows' = rows /\ run[k].step > 0
      BY DEF BatchStepFails
    <2>. QED
      BY <2>1, <2>2, <2>3, <2>4
  <1>5. ASSUME NEW i \in DOMAIN rows
        PROVE  /\ Ends(rows[i], today) => Ends(rows'[i], today)
               /\ BatchReactivate(k) => Ends(rows'[i], today)
    <2>1. PICK r : r = rows[i] /\ r \in Row /\ RowOK(r)
      BY <1>1
    <2>2. BatchExpire(k) => rows'[i] = ExpireIfPast(r, today)
      BY <2>1 DEF BatchExpire, BatchStep, ExpireAll
    <2>3. BatchReactivate(k) => rows'[i] = ReactivateIfOver(r, today)
      BY <2>1 DEF BatchReactivate, BatchStep, ReactivateAll
    <2>4. BatchSchedule(k) => rows'[i] = PauseIfArrived(r, today)
      BY <2>1 DEF BatchSchedule, BatchStep, ScheduleAll
    <2>5. BatchStepFails(k) => rows'[i] = r
      BY <2>1 DEF BatchStepFails
    <2>6. /\ Ends(r, today) => Ends(ExpireIfPast(r, today), today)
          /\ Ends(ReactivateIfOver(r, today), today)
          /\ Ends(r, today) => Ends(PauseIfArrived(r, today), today)
      BY <1>1, <2>1, BatchEnds
    <2>. QED
      BY <2>1, <2>2, <2>3, <2>4, <2>5, <2>6, Zenon
  <1>6. Swept => \A i \in DOMAIN rows' : Ends(rows'[i], today)
    BY <1>4, <1>5 DEF Swept
  <1>7. BatchReactivate(k) => \A i \in DOMAIN rows' : Ends(rows'[i], today)
    BY <1>4, <1>5
  <1>8. ranOn' <= today' /\ \A j \in Runners : run'[j].step # 0 => run'[j].day <= today'
    <2>1. ranOn' <= today'
      BY <1>1, <1>3 DEF Date
    <2>2. \A j \in Runners : j # k => run'[j] = run[j]
      BY <1>1, <1>3
    <2>3. run'[k] = IF run[k].step = 3 THEN NoRun
                    ELSE [step |-> run[k].step + 1, day |-> run[k].day, clean |-> clean]
      BY <1>1, <1>3
    <2>4. run'[k].step # 0 => run'[k].day <= today
      BY <1>1, <1>4, <2>3 DEF NoRun
    <2>. QED
      BY <1>1, <1>3, <2>1, <2>2, <2>4
  <1>9. ASSUME Reactivated'
        PROVE  \A i \in DOMAIN rows' : Ends(rows'[i], today)
    <2>1. CASE ranOn' = today'
      <3>1. ranOn = today \/ (run[k].step = 3 /\ run[k].clean /\ run[k].day = today)
        BY <1>3, <2>1
      <3>. QED
        BY <1>1, <1>6, <3>1 DEF Reactivated
    <2>2. ASSUME NEW j \in Runners, run'[j].step = 3, run'[j].clean, run'[j].day = today'
          PROVE  \A i \in DOMAIN rows' : Ends(rows'[i], today)
      <3>1. CASE j # k
        <4>1. run'[j] = run[j]
          BY <1>1, <1>3, <3>1
        <4>. QED
          BY <1>1, <1>3, <1>6, <2>2, <4>1 DEF Reactivated
      <3>2. CASE j = k
        <4>1. run'[k] = IF run[k].step = 3 THEN NoRun
                        ELSE [step |-> run[k].step + 1, day |-> run[k].day, clean |-> clean]
          BY <1>1, <1>3
        <4>2. run[k].step \in 0 .. 3
          BY <1>1 DEF Runs
        <4>3. run[k].step = 2 /\ clean
          BY <2>2, <3>2, <4>1, <4>2 DEF NoRun
        <4>4. BatchReactivate(k)
          BY <1>2, <1>3, <1>4, <4>3
        <4>. QED
          BY <1>7, <4>4
      <3>. QED
        BY <3>1, <3>2
    <2>. QED
      BY <1>9, <2>1, <2>2 DEF Reactivated
  <1>10. SameDay' /\ PausesAhead'
    BY DEF RequestsInv
  <1>. QED
    BY <1>3, <1>8, <1>9, <1>10 DEF HoldsInv, Ends

\* A run that begins or is given up has not reactivated anything.
LEMMA RunsDay ==
    ASSUME DayInv, RequestsInv', NEW k \in Runners, BatchStart(k) \/ BatchStops(k)
    PROVE  HoldsInv'
  <1>1. /\ UNCHANGED <<today, rows, ranOn>>
        /\ \E new \in {NoRun, [step |-> 1, day |-> today, clean |-> TRUE]} :
              run' = [run EXCEPT ![k] = new]
    BY DEF BatchStart, BatchStops
  <1>2. PICK new \in {NoRun, [step |-> 1, day |-> today, clean |-> TRUE]} :
          run' = [run EXCEPT ![k] = new]
    BY <1>1
  <1>3. /\ run \in [Runners -> Runs] /\ today \in Date /\ ranOn <= today
        /\ \A j \in Runners : run[j].step # 0 => run[j].day <= today
        /\ Reactivated => Swept
    BY DEF DayInv, HoldsInv, RequestsInv, IInv, TypeOK, Swept
  <1>4. /\ \A j \in Runners : run'[j] = IF j = k THEN new ELSE run[j]
        /\ new.step # 3 /\ (new.step # 0 => new.day <= today)
    BY <1>2, <1>3 DEF NoRun, Date
  <1>5. Reactivated' => Reactivated
    BY <1>1, <1>4 DEF Reactivated
  <1>6. Reactivated' => \A i \in DOMAIN rows' : Ends(rows'[i], today')
    BY <1>1, <1>3, <1>5 DEF Swept, Ends
  <1>7. \A j \in Runners : run'[j].step # 0 => run'[j].day <= today'
    BY <1>1, <1>3, <1>4
  <1>8. SameDay' /\ PausesAhead' /\ ranOn' <= today'
    BY <1>1, <1>3 DEF RequestsInv
  <1>. QED
    BY <1>6, <1>7, <1>8 DEF HoldsInv, Ends

\* On a new day no run has reactivated yet.
LEMMA MidnightDay ==
    ASSUME DayInv, RequestsInv', Midnight
    PROVE  HoldsInv'
  <1>1. /\ today' = today + 1 /\ UNCHANGED <<rows, run, ranOn>>
        /\ today \in Int /\ ranOn \in Int
        /\ run \in [Runners -> Runs]
    BY DEF Midnight, DayInv, RequestsInv, IInv, TypeOK, Date
  <1>2. ranOn <= today /\ \A k \in Runners : run[k].step # 0 => run[k].day <= today
    BY DEF DayInv, HoldsInv
  <1>3. \A k \in Runners : run[k].day \in Int
    BY <1>1 DEF Runs, Date
  <1>4. ~Reactivated'
    BY <1>1, <1>2, <1>3 DEF Reactivated
  <1>5. ranOn' <= today' /\ \A k \in Runners : run'[k].step # 0 => run'[k].day <= today'
    BY <1>1, <1>2, <1>3
  <1>6. SameDay' /\ PausesAhead'
    BY DEF RequestsInv
  <1>. QED
    BY <1>4, <1>5, <1>6 DEF HoldsInv

LEMMA DayNext ==
    ASSUME ~Straddle, DayInv, [Next]_vars
    PROVE  DayInv'
  <1>1. RequestsInv'
    BY RequestsNext DEF DayInv
  <1>2. IInv
    BY DEF DayInv, RequestsInv
  <1>3. CASE \E w \in Workers : Handle(w)
    <2>1. PICK w \in Workers : Handle(w)
      BY <1>3
    <2>2. CASE \/ GrantCheck(w) \/ PauseCheck(w) \/ UnpauseCheck(w)
               \/ CancelPauseCheck(w) \/ RefundCheck(w) \/ BulkExtendCheck(w)
               \/ CheckInArrives(w)
      <3>1. PICK q : Start(w, q)
        BY <1>2, <2>2, StartsToday
      <3>. QED
        BY <1>1, <3>1, QuietDay DEF Start, Swept, DayInv
    <2>3. CASE \/ Grant(w) \/ Pause(w) \/ Unpause(w) \/ CancelPause(w) \/ Refund(w)
               \/ BulkExtend(w) \/ CheckIn(w)
      <3>1. UNCHANGED <<today, run, ranOn>>
        BY <2>3 DEF Grant, Pause, Unpause, CancelPause, Refund, BulkExtend, CheckIn, Commit
      <3>2. Swept => \A i \in DOMAIN rows' : Ends(rows'[i], today)
        BY <2>3, HandlersKeepSwept
      <3>. QED
        BY <1>1, <3>1, <3>2, QuietDay DEF DayInv
    <2>4. CASE RequestFails(w)
      BY <1>1, <2>4, QuietDay DEF RequestFails, Swept, DayInv
    <2>. QED
      BY <2>1, <2>2, <2>3, <2>4 DEF Handle
  <1>4. CASE \E k \in Runners : Batch(k)
    BY <1>1, <1>4, AdvanceDay, RunsDay DEF Batch, DayInv
  <1>5. CASE DeleteMember
    BY <1>1, <1>5, QuietDay DEF DeleteMember, Swept, DayInv
  <1>6. CASE Midnight
    BY <1>1, <1>6, MidnightDay DEF DayInv
  <1>7. CASE UNCHANGED vars
    BY <1>1, <1>7, QuietDay DEF vars, Swept, DayInv
  <1>. QED
    BY <1>3, <1>4, <1>5, <1>6, <1>7 DEF Next

\* After a batch run that did all of its steps today, no hold is in force
\* beyond its last day: whatever failed on the nights before, however many
\* processes ran the batch, and while requests are served between its steps,
\* as long as no request outlives its day.
THEOREM HoldsEndAfterBatch ==
    ASSUME ~Straddle
    PROVE  Spec => []HoldsEndOnTime
  <1>1. Init => DayInv
    <2> SUFFICES ASSUME Init PROVE DayInv
      OBVIOUS
    <2>1. RequestsInv
      BY InitInv DEF Init, RequestsInv, SameDay, PausesAhead
    <2>2. DOMAIN rows = {} /\ ranOn <= today /\ \A k \in Runners : run[k].step = 0
      BY DEF Init, NoRun
    <2>. QED
      BY <2>1, <2>2 DEF DayInv, HoldsInv, RequestsInv
  <1>2. DayInv /\ [Next]_vars => DayInv'
    BY DayNext
  <1>3. DayInv => HoldsEndOnTime
    BY DEF DayInv, HoldsInv, Reactivated, Ends, BatchDone, HoldsEndOnTime
  <1>. QED
    BY <1>1, <1>2, <1>3, PTL DEF Spec

(***************************************************************************)
(* A pass10 and its visits.                                                *)
(***************************************************************************)

\* What a statement other than a check-in leaves alone.
SameCard(r, s) == s.member = r.member /\ s.kind = r.kind /\ s.remaining = r.remaining

LEMMA SameCardRows ==
    ASSUME NEW r \in Row
    PROVE  /\ SameCard(r, r)
           /\ \A from, to, day : SameCard(r, Paused(r, from, to, day))
           /\ \A day : SameCard(r, Unpaused(r, day))
           /\ SameCard(r, Cancelled(r))
           /\ SameCard(r, Refunded(r))
           /\ \A days, day : SameCard(r, Extended(r, days, day))
           /\ \A now : /\ SameCard(r, ExpireIfPast(r, now))
                       /\ SameCard(r, ReactivateIfOver(r, now))
                       /\ SameCard(r, PauseIfArrived(r, now))
  <1> USE DEF SameCard, Row
  <1>1. \A from, to, day : SameCard(r, Paused(r, from, to, day))
    BY DEF Paused
  <1>2. \A day : SameCard(r, Unpaused(r, day))
    BY DEF Unpaused
  <1>3. SameCard(r, Cancelled(r)) /\ SameCard(r, Refunded(r))
    BY DEF Cancelled, Refunded
  <1>4. \A days, day : SameCard(r, Extended(r, days, day))
    BY DEF Extended
  <1>5. \A now : /\ SameCard(r, ExpireIfPast(r, now))
                 /\ SameCard(r, ReactivateIfOver(r, now))
                 /\ SameCard(r, PauseIfArrived(r, now))
    BY DEF ExpireIfPast, ReactivateIfOver, PauseIfArrived
  <1>6. SameCard(r, r)
    OBVIOUS
  <1>. QED
    BY <1>1, <1>2, <1>3, <1>4, <1>5, <1>6, Zenon

\* Rows stay, with their member, kind and visits left; a new pass10 has all
\* of its visits.
CardsKept ==
    /\ DOMAIN rows \subseteq DOMAIN rows'
    /\ \A i \in DOMAIN rows : SameCard(rows[i], rows'[i])
    /\ \A i \in DOMAIN rows' \ DOMAIN rows :
          rows'[i].kind = "pass10" => rows'[i].remaining = PassVisits

LEMMA OneCardKept ==
    ASSUME IInv, NEW i \in DOMAIN rows, NEW row, rows' = With(i, row),
           SameCard(rows[i], row)
    PROVE  CardsKept
  <1>1. DOMAIN rows' = DOMAIN rows
        /\ \A j \in DOMAIN rows : rows'[j] = IF j = i THEN row ELSE rows[j]
    BY DEF With
  <1>. QED
    BY <1>1 DEF CardsKept, SameCard

\* Every step but a check-in keeps the cards and the visits.
LEMMA OthersKeepCards ==
    ASSUME IInv, [Next]_vars, ~ \E w \in Workers : CheckIn(w)
    PROVE  CardsKept /\ UNCHANGED visits
  <1>0. \A i \in DOMAIN rows : rows[i] \in Row
    BY DEF IInv, TypeOK
  <1>1. ASSUME UNCHANGED rows
        PROVE  CardsKept
    BY <1>1 DEF CardsKept, SameCard
  <1>2. CASE \E w \in Workers : Handle(w)
    <2>1. PICK w \in Workers : Handle(w)
      BY <1>2
    <2> DEFINE q == inflight[w]
    <2>2. CASE \/ GrantCheck(w) \/ PauseCheck(w) \/ UnpauseCheck(w)
               \/ CancelPauseCheck(w) \/ RefundCheck(w) \/ BulkExtendCheck(w)
               \/ CheckInArrives(w)
      BY <1>1, <2>2, StartsToday DEF Start
    <2>3. CASE Grant(w)
      <3>1. PICK i \in Ids \ DOMAIN rows :
              rows' = With(i, Granted(q.member, q.kind, q.start, q.term))
        BY <2>3 DEF Grant, Commit
      <3>2. PICK row : row = Granted(q.member, q.kind, q.start, q.term)
        OBVIOUS
      <3>3. row.kind = "pass10" => row.remaining = PassVisits
        BY <3>2 DEF Granted
      <3>4. /\ DOMAIN rows' = DOMAIN rows \cup {i}
            /\ \A j \in DOMAIN rows' : rows'[j] = IF j = i THEN row ELSE rows[j]
        BY <3>1, <3>2 DEF With
      <3>5. UNCHANGED visits
        BY <2>3 DEF Grant
      <3>. QED
        BY <3>3, <3>4, <3>5 DEF CardsKept, SameCard
    <2>4. CASE Pause(w)
      <3>1. /\ Commit(w, "pause", With(q.id, Paused(rows[q.id], q.from, q.to, q.day)))
            /\ UNCHANGED visits
        BY <2>4 DEF Pause
      <3>2. q.id \in DOMAIN rows
        BY <3>1, CommitFacts DEF RowOps
      <3>3. rows' = With(q.id, Paused(rows[q.id], q.from, q.to, q.day))
        BY <3>1 DEF Commit
      <3>4. SameCard(rows[q.id], Paused(rows[q.id], q.from, q.to, q.day))
        BY <1>0, <3>2, SameCardRows
      <3>. QED
        BY <3>1, <3>2, <3>3, <3>4, OneCardKept
    <2>5. CASE Unpause(w)
      <3>1. /\ Commit(w, "unpause", With(q.id, Unpaused(rows[q.id], q.day)))
            /\ UNCHANGED visits
        BY <2>5 DEF Unpause
      <3>2. q.id \in DOMAIN rows
        BY <3>1, CommitFacts DEF RowOps
      <3>3. rows' = With(q.id, Unpaused(rows[q.id], q.day))
        BY <3>1 DEF Commit
      <3>4. SameCard(rows[q.id], Unpaused(rows[q.id], q.day))
        BY <1>0, <3>2, SameCardRows
      <3>. QED
        BY <3>1, <3>2, <3>3, <3>4, OneCardKept
    <2>6. CASE CancelPause(w)
      <3>1. /\ Commit(w, "cancel_pause", With(q.id, Cancelled(rows[q.id])))
            /\ UNCHANGED visits
        BY <2>6 DEF CancelPause
      <3>2. q.id \in DOMAIN rows
        BY <3>1, CommitFacts DEF RowOps
      <3>3. rows' = With(q.id, Cancelled(rows[q.id]))
        BY <3>1 DEF Commit
      <3>4. SameCard(rows[q.id], Cancelled(rows[q.id]))
        BY <1>0, <3>2, SameCardRows
      <3>. QED
        BY <3>1, <3>2, <3>3, <3>4, OneCardKept
    <2>7. CASE Refund(w)
      <3>1. /\ Commit(w, "refund", With(q.id, Refunded(rows[q.id])))
            /\ UNCHANGED visits
        BY <2>7 DEF Refund
      <3>2. q.id \in DOMAIN rows
        BY <3>1, CommitFacts DEF RowOps
      <3>3. rows' = With(q.id, Refunded(rows[q.id]))
        BY <3>1 DEF Commit
      <3>4. SameCard(rows[q.id], Refunded(rows[q.id]))
        BY <1>0, <3>2, SameCardRows
      <3>. QED
        BY <3>1, <3>2, <3>3, <3>4, OneCardKept
    <2>8. CASE BulkExtend(w)
      <3>1. /\ DOMAIN rows' = DOMAIN rows
            /\ \A i \in DOMAIN rows :
                  rows'[i] \in {rows[i], Extended(rows[i], q.days, q.day)}
            /\ UNCHANGED visits
        BY <2>8 DEF BulkExtend, Commit
      <3>2. \A i \in DOMAIN rows : SameCard(rows[i], rows'[i])
        BY <1>0, <3>1, SameCardRows
      <3>. QED
        BY <3>1, <3>2 DEF CardsKept
    <2>9. CASE RequestFails(w)
      BY <1>1, <2>9 DEF RequestFails
    <2>. QED
      BY <2>1, <2>2, <2>3, <2>4, <2>5, <2>6, <2>7, <2>8, <2>9 DEF Handle
  <1>3. CASE \E k \in Runners : Batch(k)
    <2>1. /\ UNCHANGED visits
          /\ rows' \in {rows, ExpireAll, ReactivateAll, ScheduleAll}
      BY <1>3 DEF Batch, BatchStart, BatchExpire, BatchReactivate, BatchSchedule, BatchStep,
         BatchStepFails, BatchStops, BatchAdvance
    <2>2. CASE rows' \in {ExpireAll, ReactivateAll, ScheduleAll}
      <3>1. /\ DOMAIN rows' = DOMAIN rows
            /\ \A i \in DOMAIN rows :
                  rows'[i] \in {ExpireIfPast(rows[i], today),
                                ReactivateIfOver(rows[i], today),
                                PauseIfArrived(rows[i], today)}
        BY <2>2 DEF ExpireAll, ReactivateAll, ScheduleAll
      <3>2. \A i \in DOMAIN rows : SameCard(rows[i], rows'[i])
        BY <1>0, <3>1, SameCardRows
      <3>. QED
        BY <2>1, <3>1, <3>2 DEF CardsKept
    <2>. QED
      BY <1>1, <2>1, <2>2
  <1>4. CASE DeleteMember \/ Midnight \/ UNCHANGED vars
    BY <1>1, <1>4 DEF DeleteMember, Midnight, vars
  <1>. QED
    BY <1>2, <1>3, <1>4 DEF Next

\* What keeps the cards and the visits keeps the charges.
LEMMA CardsKeptCharges ==
    ASSUME VisitsInv, SameDay', CardsKept, UNCHANGED visits
    PROVE  VisitsInv'
  <1>1. \A i \in Ids : DaysUsed(i)' = DaysUsed(i)
    BY DEF DaysUsed
  <1>2. \A i \in Ids : IsFiniteSet(DaysUsed(i))'
    BY <1>1 DEF VisitsInv
  <1>3. \A v \in visits' : v[1] \in DOMAIN rows'
    BY DEF VisitsInv, CardsKept
  <1>4. ASSUME NEW i \in DOMAIN rows', rows'[i].kind = "pass10"
        PROVE  Charged(i)'
    <2>1. DaysUsed(i)' = DaysUsed(i)
      BY DEF DaysUsed
    <2>2. CASE i \in DOMAIN rows
      <3>1. /\ rows'[i].member = rows[i].member /\ rows'[i].kind = rows[i].kind
            /\ rows'[i].remaining = rows[i].remaining
        BY <2>2 DEF CardsKept, SameCard
      <3>2. \A v \in visits : rows'[v[1]].member = rows[v[1]].member
        BY DEF VisitsInv, CardsKept, SameCard
      <3>3. DaysShared(i)' = DaysShared(i)
        BY <2>1, <3>1, <3>2 DEF DaysShared
      <3>4. Charged(i)
        BY <1>4, <2>2, <3>1 DEF VisitsInv
      <3>. QED
        BY <2>1, <3>1, <3>3, <3>4 DEF Charged
    <2>3. CASE i \notin DOMAIN rows
      <3>1. DaysUsed(i) = {}
        BY <2>3 DEF VisitsInv, DaysUsed
      <3>2. rows'[i].remaining = PassVisits
        BY <1>4, <2>3 DEF CardsKept
      <3>3. PassVisits - PassVisits = 0 /\ Cardinality({}) = 0
        BY TermsAssumption, FS_EmptySet
      <3>. QED
        BY <2>1, <3>1, <3>2, <3>3 DEF Charged
    <2>. QED
      BY <2>2, <2>3
  <1>. QED
    BY <1>2, <1>3, <1>4 DEF VisitsInv

\* A check-in charges the pass it takes exactly when the day is one on which
\* the member had not been in before.
LEMMA CheckInCharges ==
    ASSUME RequestsInv, VisitsInv, SameDay', NEW w \in Workers, CheckIn(w)
    PROVE  VisitsInv'
  <1> DEFINE q == inflight[w]
  <1>1. PICK c \in DOMAIN rows, first \in BOOLEAN :
          /\ first = ~ \E v \in visits : rows[v[1]].member = q.member /\ v[2] = q.day
          /\ Covers(rows[c], q.member, q.day)
          /\ rows' = With(c, Visited(rows[c], first))
          /\ visits' = visits \cup {<<c, today>>}
          /\ q.day = today
    <2>1. q.day = today
      BY DEF CheckIn, RequestsInv, SameDay
    <2>2. PICK c \in DOMAIN rows :
            /\ Covers(rows[c], q.member, q.day)
            /\ rows' = With(c, Visited(rows[c],
                   ~ \E v \in visits : rows[v[1]].member = q.member /\ v[2] = q.day))
            /\ visits' = visits \cup {<<c, today>>}
      BY DEF CheckIn, Commit
    <2>3. PICK first \in BOOLEAN :
            first = ~ \E v \in visits : rows[v[1]].member = q.member /\ v[2] = q.day
      OBVIOUS
    <2>. QED
      BY <2>1, <2>2, <2>3
  <1>2. /\ c \in Ids /\ rows[c] \in Row /\ RowOK(rows[c])
        /\ rows[c].member = q.member
        /\ \A i \in DOMAIN rows : i \in Ids /\ rows[i] \in Row
    BY <1>1 DEF RequestsInv, IInv, TypeOK, Accepts, Covers
  <1>3. PICK row : row = Visited(rows[c], first)
    OBVIOUS
  <1>4. /\ row.member = rows[c].member /\ row.kind = rows[c].kind
        /\ row.remaining = IF first /\ row.kind = "pass10" THEN rows[c].remaining - 1
                                                           ELSE rows[c].remaining
    BY <1>2, <1>3 DEF Visited, Row
  <1>5. /\ DOMAIN rows' = DOMAIN rows
        /\ \A i \in DOMAIN rows : rows'[i] = IF i = c THEN row ELSE rows[i]
    BY <1>1, <1>3 DEF With
  <1>6. \A i \in DOMAIN rows : /\ rows'[i].member = rows[i].member
                               /\ rows'[i].kind = rows[i].kind
    BY <1>4, <1>5
  <1>7. \A v \in visits' : v[1] \in DOMAIN rows'
    BY <1>1, <1>5 DEF VisitsInv
  <1>8. /\ DaysUsed(c)' = DaysUsed(c) \cup {today}
        /\ \A i \in Ids : i # c => DaysUsed(i)' = DaysUsed(i)
    <2>1. ASSUME NEW i, NEW d
          PROVE  d \in DaysUsed(i)' <=> d \in DaysUsed(i) \/ (i = c /\ d = today)
      <3>1. d \in DaysUsed(i) <=> \E v \in visits : v[1] = i /\ v[2] = d
        BY DEF DaysUsed
      <3>2. d \in DaysUsed(i)' <=> \E v \in visits' : v[1] = i /\ v[2] = d
        BY DEF DaysUsed
      <3>3. (\E v \in visits' : v[1] = i /\ v[2] = d)
              <=> \/ \E v \in visits : v[1] = i /\ v[2] = d
                  \/ i = c /\ d = today
        <4>1. PICK one : one = <<c, today>>
          OBVIOUS
        <4>2. one[1] = c /\ one[2] = today
          BY <4>1
        <4>3. \A v : v \in visits' <=> v \in visits \/ v = one
          BY <1>1, <4>1
        <4>. QED
          BY <4>2, <4>3
      <3>. QED
        BY <3>1, <3>2, <3>3
    <2>2. DaysUsed(c)' = DaysUsed(c) \cup {today}
      BY <2>1
    <2>3. ASSUME NEW i, i # c
          PROVE  DaysUsed(i)' = DaysUsed(i)
      BY <2>1, <2>3
    <2>. QED
      BY <2>2, <2>3
  <1>9. \A i \in Ids : IsFiniteSet(DaysUsed(i))'
    BY <1>8, FS_AddElement DEF VisitsInv
  <1>10. ASSUME NEW i \in DOMAIN rows
         PROVE  DaysShared(i) \subseteq DaysShared(i)'
    <2> SUFFICES ASSUME NEW d \in DaysShared(i) PROVE d \in DaysShared(i)'
      OBVIOUS
    <2>1. d \in DaysUsed(i) /\ d \in DaysUsed(i)'
      BY <1>1, <1>2, <1>8 DEF DaysShared
    <2>2. PICK v \in visits : v[1] # i /\ v[2] = d /\ rows[v[1]].member = rows[i].member
      BY DEF DaysShared
    <2>3. v \in visits' /\ rows'[v[1]].member = rows'[i].member
      BY <1>1, <1>6, <2>2 DEF VisitsInv
    <2>. QED
      BY <2>1, <2>2, <2>3 DEF DaysShared
  <1>11. ASSUME NEW i \in DOMAIN rows', rows'[i].kind = "pass10"
         PROVE  Charged(i)'
    <2>1. i \in DOMAIN rows /\ i \in Ids /\ rows[i].kind = "pass10"
      BY <1>2, <1>5, <1>6, <1>11
    <2>2. PICK days \in SUBSET DaysUsed(i) :
            /\ DaysUsed(i) \ DaysShared(i) \subseteq days
            /\ Cardinality(days) = PassVisits - rows[i].remaining
      BY <2>1 DEF VisitsInv, Charged
    <2>3. CASE i # c
      <3>1. rows'[i] = rows[i] /\ DaysUsed(i)' = DaysUsed(i)
        BY <1>5, <1>8, <2>1, <2>3
      <3>. QED
        BY <1>10, <2>1, <2>2, <3>1 DEF Charged
    <2>4. CASE i = c /\ first
      <3>1. today \notin DaysUsed(c)
        <4>1. \A v \in visits : v[1] = c => v[2] # today
          BY <1>1, <1>2, <2>4
        <4>. QED
          BY <4>1 DEF DaysUsed
      <3>2. /\ IsFiniteSet(days) /\ Cardinality(days) \in Nat /\ today \notin days
        BY <2>1, <2>2, <2>4, <3>1, FS_Subset, FS_CardinalityType DEF VisitsInv
      <3>3. Cardinality(days \cup {today}) = Cardinality(days) + 1
        BY <3>2, FS_AddElement
      <3>4. rows'[i].remaining = rows[i].remaining - 1 /\ rows[i].remaining \in Int
        BY <1>2, <1>4, <1>5, <2>1, <2>4 DEF RowOK, Row
      <3>5. Cardinality(days \cup {today}) = PassVisits - rows'[i].remaining
        BY <2>2, <3>3, <3>4, TermsAssumption
      <3>6. DaysUsed(i)' = DaysUsed(i) \cup {today}
        BY <1>8, <2>4
      <3>7. DaysUsed(i)' \ DaysShared(i)' \subseteq days \cup {today}
        BY <1>10, <2>1, <2>2, <3>6
      <3>. QED
        BY <2>2, <3>5, <3>6, <3>7 DEF Charged
    <2>5. CASE i = c /\ ~first
      <3>1. PICK v \in visits : rows[v[1]].member = q.member /\ v[2] = today
        BY <1>1, <2>5
      <3>2. rows'[i].remaining = rows[i].remaining
        BY <1>4, <1>5, <2>1, <2>5
      <3>3. DaysUsed(i)' = DaysUsed(i) \cup {today}
        BY <1>8, <2>5
      <3>4. CASE v[1] = c
        <4>1. today \in DaysUsed(i)
          BY <2>5, <3>1, <3>4 DEF DaysUsed
        <4>2. DaysUsed(i)' = DaysUsed(i)
          BY <3>3, <4>1
        <4>. QED
          BY <1>10, <2>1, <2>2, <3>2, <4>2 DEF Charged
      <3>5. CASE v[1] # c
        <4>1. v \in visits' /\ v[1] \in DOMAIN rows /\ v[1] # i
          BY <1>1, <2>5, <3>5 DEF VisitsInv
        <4>2. rows'[v[1]].member = rows'[i].member
          BY <1>2, <1>6, <2>1, <2>5, <3>1, <4>1
        <4>3. today \in DaysShared(i)'
          BY <3>1, <3>3, <4>1, <4>2 DEF DaysShared
        <4>4. DaysUsed(i)' \ DaysShared(i)' \subseteq days
          BY <1>10, <2>1, <2>2, <3>3, <4>3
        <4>5. days \in SUBSET DaysUsed(i)'
          BY <2>2, <3>3
        <4>. QED
          BY <2>2, <3>2, <4>4, <4>5 DEF Charged
      <3>. QED
        BY <3>4, <3>5
    <2>. QED
      BY <2>3, <2>4, <2>5
  <1>. QED
    BY <1>7, <1>9, <1>11 DEF VisitsInv

\* When no request outlives its day, a pass10 is charged once for each day it
\* is used, however often the member checks in and whatever else is done to
\* the membership.
THEOREM PassChargedOnce ==
    ASSUME ~Straddle
    PROVE  Spec => []OneVisitPerDay
  <1> DEFINE Both == RequestsInv /\ VisitsInv
  <1>1. Init => Both
    <2> SUFFICES ASSUME Init PROVE Both
      OBVIOUS
    <2>1. RequestsInv
      BY InitInv DEF Init, RequestsInv, SameDay, PausesAhead
    <2>2. DOMAIN rows = {} /\ \A i \in Ids : DaysUsed(i) = {}
      BY DEF Init, DaysUsed
    <2>3. VisitsInv
      BY <2>1, <2>2, FS_EmptySet DEF Init, VisitsInv, RequestsInv
    <2>. QED
      BY <2>1, <2>3
  <1>2. Both /\ [Next]_vars => Both'
    <2> SUFFICES ASSUME Both, [Next]_vars PROVE Both'
      OBVIOUS
    <2>1. RequestsInv' /\ SameDay'
      BY RequestsNext DEF RequestsInv
    <2>2. CASE \E w \in Workers : CheckIn(w)
      BY <2>1, <2>2, CheckInCharges
    <2>3. CASE ~ \E w \in Workers : CheckIn(w)
      BY <2>1, <2>3, OthersKeepCards, CardsKeptCharges DEF RequestsInv
    <2>. QED
      BY <2>1, <2>2, <2>3
  <1>3. Both => OneVisitPerDay
    <2> SUFFICES ASSUME RequestsInv, VisitsInv, NEW i \in DOMAIN rows,
                        rows[i].kind = "pass10"
                 PROVE  PassVisits - rows[i].remaining \in
                            Cardinality(DaysUsed(i) \ DaysShared(i)) .. Cardinality(DaysUsed(i))
      BY DEF OneVisitPerDay
    <2>1. PICK days \in SUBSET DaysUsed(i) :
            /\ DaysUsed(i) \ DaysShared(i) \subseteq days
            /\ Cardinality(days) = PassVisits - rows[i].remaining
      BY DEF VisitsInv, Charged
    <2>2. IsFiniteSet(DaysUsed(i)) /\ IsFiniteSet(days)
          /\ Cardinality(days) <= Cardinality(DaysUsed(i))
      BY FS_Subset DEF RequestsInv, IInv, TypeOK, VisitsInv
    <2>3. /\ IsFiniteSet(DaysUsed(i) \ DaysShared(i))
          /\ Cardinality(DaysUsed(i) \ DaysShared(i)) <= Cardinality(days)
      BY <2>1, <2>2, FS_Subset
    <2>4. /\ Cardinality(DaysUsed(i)) \in Nat /\ Cardinality(days) \in Nat
          /\ Cardinality(DaysUsed(i) \ DaysShared(i)) \in Nat
      BY <2>2, <2>3, FS_CardinalityType
    <2>. QED
      BY <2>1, <2>2, <2>3, <2>4
  <1> HIDE DEF Both
  <1>. QED
    BY <1>1, <1>2, <1>3, PTL DEF Spec
=============================================================================
