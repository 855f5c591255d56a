------------------------------- MODULE AdminLogin -------------------------------
(***************************************************************************)
(* The login of one admin: the limiter of the route, then the handler,     *)
(* which reads the clock and the row, compares the password for a long     *)
(* time and records the outcome with its clock reading.  Between each of   *)
(* these other logins record theirs, and the password is reset or changed. *)
(***************************************************************************)
EXTENDS RateLimiter

CONSTANTS
    Workers,     \* logins between the limiter and recording the outcome
    Null,
    Limit,       \* failures that lock the account (5 in the code)
    Lock,        \* ticks the lock lasts (15 minutes)
    Temp,        \* ticks a temporary password lives (24 hours)
    Lag,         \* ticks from reading the clock to the limiter's lock or to the row
    MaxAge,      \* ticks from reading the clock to recording the outcome
    MaxTime      \* bound of the clock

ASSUME LoginAssumption ==
    /\ {Lock, Temp, Lag, MaxAge, MaxTime} \subseteq Nat
    /\ Lag <= MaxAge
    /\ Limit \in Nat \ {0, 1}
    /\ Null \notin Nat
    /\ Null \notin [at : Nat, right : BOOLEAN, early : BOOLEAN]

VARIABLES
    now,         \* the clock
    buckets,     \* the limiter
    row,         \* the admin: failed_login_count, locked_until, temp_password_expires_at
    waiting,     \* workers whose login the limiter let through, with no row read yet
    calls,       \* the login each worker is in since it read the row
    debt,        \* what each bucket let through and time has not paid back
    forgiven,    \* the most that was not paid back when a bucket was dropped
    wrong        \* failures recorded since a success, a new password or a lock

vars == <<now, buckets, row, waiting, calls, debt, forgiven, wrong>>

\* early: the row was read before the lock it now has was put on it.
Call == [at : Nat, right : BOOLEAN, early : BOOLEAN]

TypeOK ==
    /\ now \in Nat
    /\ BucketMap(buckets)
    /\ row \in [count : Nat, lockedUntil : Nat \cup {Null}, tempUntil : Nat \cup {Null}]
    /\ waiting \subseteq Workers
    /\ calls \in [Workers -> Call \cup {Null}]
    /\ debt \in [Ips -> Nat]
    /\ forgiven \in Nat
    /\ wrong \in Nat

Init ==
    /\ now = 0
    /\ buckets = << >>
    /\ row = [count |-> 0, lockedUntil |-> Null, tempUntil |-> Null]
    /\ waiting = {}
    /\ calls = [w \in Workers |-> Null]
    /\ debt = [ip \in Ips |-> 0]
    /\ forgiven = 0
    /\ wrong = 0

\* What a request that reaches the limiter has read from the clock, and once more
\* what a login that reaches the row has.
Readings == {t \in 0 .. now : now - t <= Lag}

LockedAt(t) == row.lockedUntil # Null /\ row.lockedUntil > t

ExpiredAt(t) == row.tempUntil # Null /\ row.tempUntil < t

-----------------------------------------------------------------------------

\* Time passes while every login is younger than MaxAge, and pays back the
\* refill of one tick.
Tick ==
    /\ now < MaxTime
    /\ \A w \in Workers : calls[w] # Null => now - calls[w].at < MaxAge
    /\ now' = now + 1
    /\ debt' = [ip \in Ips |-> IF debt[ip] > Max THEN debt[ip] - Max ELSE 0]
    /\ UNCHANGED <<buckets, row, waiting, calls, forgiven, wrong>>

\* Allow: the answer for a reading t.  What a dropped bucket still owed is
\* forgotten with it.
Limiter(ip, t, ok) ==
    LET dropped == DOMAIN buckets \ DOMAIN Collected(buckets, t)
        lost    == {debt[i] : i \in dropped} \cup {forgiven}
        left    == [i \in Ips |-> IF i \in dropped THEN 0 ELSE debt[i]]
    IN  /\ ok = Allowed(buckets, ip, t)
        /\ buckets' = Charged(buckets, ip, t)
        /\ debt' = IF ok THEN [left EXCEPT ![ip] = @ + Window] ELSE left
        /\ forgiven' \in lost /\ \A d \in lost : d <= forgiven'

\* 429: the request never reaches the handler.
TooMany(ip) ==
    \E t \in Readings :
        /\ Limiter(ip, t, FALSE)
        /\ UNCHANGED <<now, row, waiting, calls, wrong>>

\* Another route behind the same limiter: refresh, logout, password, the kiosk's.
Elsewhere(ip) ==
    \E t \in Readings :
        /\ Limiter(ip, t, TRUE)
        /\ UNCHANGED <<now, row, waiting, calls, wrong>>

\* The limiter lets a login through.
Pass(w, ip) ==
    /\ w \notin waiting /\ calls[w] = Null
    /\ \E t \in Readings : Limiter(ip, t, TRUE)
    /\ waiting' = waiting \cup {w}
    /\ UNCHANGED <<now, row, calls, wrong>>

\* A body that is no login, a username that no admin has, or no answer from the
\* database.
Unread(w) ==
    /\ w \in waiting
    /\ waiting' = waiting \ {w}
    /\ UNCHANGED <<now, buckets, row, calls, debt, forgiven, wrong>>

\* ACCOUNT_LOCKED or TEMP_PASSWORD_EXPIRED: the password is not looked at.
Refuse(w) ==
    /\ w \in waiting
    /\ \E t \in Readings : LockedAt(t) \/ ExpiredAt(t)
    /\ waiting' = waiting \ {w}
    /\ UNCHANGED <<now, buckets, row, calls, debt, forgiven, wrong>>

\* The lock is forgotten.
WrongTry(w) ==
    /\ w \in waiting
    /\ waiting' = waiting \ {w}
    /\ \E t \in Readings, right \in BOOLEAN :
          /\ ~ExpiredAt(t)
          /\ calls' = [calls EXCEPT ![w] = [at |-> t, right |-> right, early |-> FALSE]]
    /\ UNCHANGED <<now, buckets, row, debt, forgiven, wrong>>

\* The row is read, after the clock, and lets the password be compared.
Try(w) ==
    /\ w \in waiting
    /\ waiting' = waiting \ {w}
    /\ \E t \in Readings, right \in BOOLEAN :
          /\ ~LockedAt(t) /\ ~ExpiredAt(t)
          /\ calls' = [calls EXCEPT ![w] = [at |-> t, right |-> right, early |-> FALSE]]
    /\ UNCHANGED <<now, buckets, row, debt, forgiven, wrong>>

\* A failure after the end of a lock counts on.
WrongCountAfter(t) == row.count + 1

\* One failure more, or the first after a lock that is over.
CountAfter(t) ==
    IF row.lockedUntil # Null /\ row.lockedUntil <= t /\ row.count >= Limit
    THEN 1
    ELSE row.count + 1

\* One failure more than the limit.
WrongPuts(t) == CountAfter(t) > Limit

Puts(t) == CountAfter(t) >= Limit

\* A failure that puts no lock clears the column.
WrongLockAfter(t) == IF Puts(t) THEN t + Lock ELSE Null

\* A lock ends where the last failure says, also when another one read the clock
\* later.
LockAfter(t) == IF Puts(t) THEN t + Lock ELSE row.lockedUntil

\* RecordLoginFailure, one statement.
Fail(w) ==
    /\ calls[w] # Null /\ ~calls[w].right
    /\ LET t == calls[w].at IN
       /\ row' = [row EXCEPT !.count = CountAfter(t), !.lockedUntil = LockAfter(t)]
       /\ wrong' = IF Puts(t) THEN 0 ELSE wrong + 1
       /\ calls' = [v \in Workers |->
                       IF v = w THEN Null
                       ELSE IF calls[v] = Null THEN Null
                       ELSE [calls[v] EXCEPT !.early = @ \/ Puts(t)]]
    /\ UNCHANGED <<now, buckets, waiting, debt, forgiven>>

\* RecordLoginSuccess: the counter is cleared, a lock is left as it is.
Succeed(w) ==
    /\ calls[w] # Null /\ calls[w].right
    /\ row' = [row EXCEPT !.count = 0]
    /\ wrong' = 0
    /\ calls' = [calls EXCEPT ![w] = Null]
    /\ UNCHANGED <<now, buckets, waiting, debt, forgiven>>

\* The database does not take the record.  A failure is forgotten and answered
\* as ever, a success is answered with 500.
Lose(w) ==
    /\ calls[w] # Null
    /\ calls' = [calls EXCEPT ![w] = Null]
    /\ UNCHANGED <<now, buckets, row, waiting, debt, forgiven, wrong>>

NewPassword(until) ==
    /\ row' = [count |-> 0, lockedUntil |-> Null, tempUntil |-> until]
    /\ wrong' = 0
    /\ UNCHANGED <<now, buckets, waiting, calls, debt, forgiven>>

\* A global admin hands out a temporary password.
ResetPassword == \E t \in Readings : NewPassword(t + Temp)

\* The admin changes it.
UpdatePassword == NewPassword(Null)

Next ==
    \/ Tick \/ ResetPassword \/ UpdatePassword
    \/ \E ip \in Ips : TooMany(ip) \/ Elsewhere(ip)
    \/ \E w \in Workers, ip \in Ips : Pass(w, ip)
    \/ \E w \in Workers : Unread(w) \/ Refuse(w) \/ Try(w)
    \/ \E w \in Workers : Fail(w) \/ Succeed(w) \/ Lose(w)

Spec == Init /\ [][Next]_vars

-----------------------------------------------------------------------------

\* Over any stretch of time a bucket lets its address through no more often than
\* a full bucket and the refill of that stretch allow, and of the Lag by which
\* callers may take the lock in another order than they read the clock.  This is
\* what the bucket keeps; docs/API.md:48 and docs/TESTING.md:145 promise no more
\* than Max in any Window, where it lets up to Full through and the refill beside.
RateKept == \A ip \in Ips : debt[ip] <= Full + Max * Lag

\* Dropping a bucket forgets nothing: with one clock reading per lock its address
\* owes nothing any more, and in general no more than two lags less a tick.
ForgottenIsPaid == forgiven = 0 \/ forgiven + Max <= 2 * Max * Lag

\* So many failures in a row put the lock, whatever was recorded in between and
\* by whom: none is lost.
FiveLocks == wrong < Limit

\* A lock is put on an account that had none only by that many failures in a
\* row: an old counter and an old lock never lock it again.
LockNeedsFive ==
    [][\A w \in Workers :
          (calls[w] # Null /\ calls'[w] = Null /\ row'.lockedUntil # row.lockedUntil)
              => wrong + 1 >= Limit \/ LockedAt(calls[w].at)]_vars

\* While the account is locked only logins that read it before the lock are
\* still at work.
NobodyTriesLocked ==
    LockedAt(now) => \A w \in Workers : calls[w] # Null => calls[w].early

\* Recording a login never takes a lock off the account, and moves its end back
\* at most by as much as one login read the clock before another.
LockNotCut ==
    [][calls' # calls /\ row.lockedUntil # Null
          => /\ row'.lockedUntil # Null
             /\ row'.lockedUntil >= row.lockedUntil - MaxAge]_vars
================================================================================
