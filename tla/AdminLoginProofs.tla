---------------------------- MODULE AdminLoginProofs ----------------------------
(***************************************************************************)
(* The lock of an account and the rate of its route, for any number of     *)
(* addresses and logins and any limits.  Accounts needs only the counter,  *)
(* its lock and the age of the calls; Buckets weighs what an address was   *)
(* let through against what its bucket holds and has regained.             *)
(***************************************************************************)
EXTENDS AdminLogin, TLAPS

\* The refill of a ticks.
Paid(a) == Max * a

LEMMA PaidSum ==
    ASSUME NEW a \in Int, NEW b \in Int
    PROVE  Paid(a + b) = Paid(a) + Paid(b)
  BY LimiterAssumption DEF Paid, LimiterAssumption

LEMMA PaidBetween ==
    ASSUME NEW a \in Int, NEW b \in Int, NEW c \in Int
    PROVE  Paid(c - a) = Paid(b - a) + Paid(c - b)
  BY LimiterAssumption DEF Paid, LimiterAssumption

LEMMA PaidInt == ASSUME NEW a \in Int PROVE Paid(a) \in Int
  BY LimiterAssumption DEF Paid, LimiterAssumption

LEMMA PaidNat ==
    ASSUME NEW a \in Nat
    PROVE  Paid(a) \in Nat
  BY LimiterAssumption DEF Paid, LimiterAssumption

LEMMA PaidMono ==
    ASSUME NEW a \in Int, NEW b \in Int, a <= b
    PROVE  Paid(a) <= Paid(b)
  <1>1. b - a \in Nat /\ b = a + (b - a)
    OBVIOUS
  <1>2. Paid(b) = Paid(a) + Paid(b - a)
    BY <1>1, PaidSum
  <1>. QED
    BY <1>1, <1>2, PaidNat, PaidInt

LEMMA PaidOne == Paid(1) = Max /\ Max \in Nat /\ Max > 0 /\ Paid(Window) = Full
  BY LimiterAssumption DEF Paid, LimiterAssumption, Full

LEMMA FullNat == Full \in Nat /\ Window \in Nat /\ Window > 0 /\ Window <= Full
  <1>1. Window \in Nat /\ Window > 0 /\ Max \in Nat /\ Max > 0
    BY LimiterAssumption DEF LimiterAssumption
  <1>2. Full \in Nat
    BY <1>1 DEF Full
  <1>3. Max - 1 \in Nat /\ Max * Window = (Max - 1) * Window + Window
    BY <1>1
  <1>4. (Max - 1) * Window \in Nat
    BY <1>1, <1>3
  <1>. QED
    BY <1>1, <1>2, <1>3, <1>4 DEF Full

-----------------------------------------------------------------------------
(* The account                                                               *)

Counter ==
    /\ row.count < Limit => wrong = row.count
    /\ row.count >= Limit => wrong = 0 /\ row.lockedUntil # Null

Ages == \A w \in Workers : calls[w] # Null =>
            calls[w].at <= now /\ now <= calls[w].at + MaxAge

LockEnd == row.lockedUntil # Null => row.lockedUntil <= now + Lock

Early == \A w \in Workers : calls[w] # Null /\ row.lockedUntil # Null =>
             calls[w].early \/ row.lockedUntil <= calls[w].at

RowType == row \in [count : Nat, lockedUntil : Nat \cup {Null}, tempUntil : Nat \cup {Null}]

CallType == calls \in [Workers -> Call \cup {Null}]

Accounts ==
    /\ now \in Nat /\ wrong \in Nat /\ RowType /\ CallType
    /\ Counter /\ Ages /\ LockEnd /\ Early

LEMMA Constants ==
    /\ Lock \in Nat /\ Temp \in Nat /\ Lag \in Nat /\ MaxAge \in Nat /\ Lag <= MaxAge
    /\ Limit \in Nat /\ Limit > 1 /\ Null \notin Nat /\ Null \notin Call
  BY LoginAssumption DEF LoginAssumption, Call

LEMMA AccountsInit == Init => Accounts
  <1>1. ASSUME Init PROVE Accounts
    <2>1. now = 0 /\ wrong = 0 /\ calls = [w \in Workers |-> Null]
          /\ row = [count |-> 0, lockedUntil |-> Null, tempUntil |-> Null]
      BY <1>1 DEF Init
    <2>2. RowType /\ CallType
      BY <2>1 DEF RowType, CallType
    <2>. QED
      BY <2>1, <2>2, Constants DEF Accounts, Counter, Ages, LockEnd, Early
  <1>. QED
    BY <1>1

\* What a recorded failure does to the row.
LEMMA FailRow ==
    ASSUME Accounts, NEW w \in Workers, Fail(w)
    PROVE  /\ calls[w] \in Call /\ calls[w].at \in Nat /\ now' = now
           /\ row'.count = CountAfter(calls[w].at) /\ row'.count \in Nat
           /\ row'.lockedUntil = LockAfter(calls[w].at)
           /\ RowType'
           /\ wrong' = IF Puts(calls[w].at) THEN 0 ELSE wrong + 1
  <1>1. calls[w] \in Call /\ calls[w].at \in Nat /\ now' = now
    BY DEF Fail, Accounts, CallType, Call
  <1>2. row.count \in Nat
    BY DEF Accounts, RowType
  <1>3. CountAfter(calls[w].at) \in Nat
    BY <1>2 DEF CountAfter
  <1>4. LockAfter(calls[w].at) \in Nat \cup {Null}
    BY <1>1, Constants DEF LockAfter, Accounts, RowType
  <1>5. row' = [row EXCEPT !.count = CountAfter(calls[w].at),
                           !.lockedUntil = LockAfter(calls[w].at)]
    BY DEF Fail
  <1>6. wrong' = IF Puts(calls[w].at) THEN 0 ELSE wrong + 1
    BY DEF Fail
  <1>. QED
    BY <1>1, <1>3, <1>4, <1>5, <1>6 DEF Accounts, RowType

\* When a failure puts the lock, the counter was at its last step or the account
\* was locked already.
LEMMA PutsWhen ==
    ASSUME Accounts, NEW t \in Nat, Puts(t)
    PROVE  row.count >= Limit - 1
           /\ (row.count >= Limit => row.lockedUntil # Null /\ row.lockedUntil > t)
  <1>1. row.count \in Nat /\ row.lockedUntil \in Nat \cup {Null}
    BY DEF Accounts, RowType
  <1>2. row.count >= Limit => row.lockedUntil # Null
    BY DEF Accounts, Counter
  <1>. QED
    BY <1>1, <1>2, Constants DEF Puts, CountAfter

LEMMA FailCalls ==
    ASSUME CallType, NEW w \in Workers, Fail(w)
    PROVE  /\ CallType' /\ calls'[w] = Null
           /\ \A v \in Workers : calls'[v] # Null =>
                 /\ calls[v] # Null /\ calls'[v].at = calls[v].at
                 /\ calls'[v].early = (calls[v].early \/ Puts(calls[w].at))
           /\ \A v \in Workers : v # w /\ calls[v] # Null => calls'[v] # Null
  <1>1. Puts(calls[w].at) \in BOOLEAN
    BY DEF Puts
  <1>2. calls' = [v \in Workers |->
                       IF v = w THEN Null
                       ELSE IF calls[v] = Null THEN Null
                       ELSE [calls[v] EXCEPT !.early = calls[v].early \/ Puts(calls[w].at)]]
    BY DEF Fail
  <1>3. ASSUME NEW v \in Workers, v # w, calls[v] # Null
        PROVE  /\ calls'[v] \in Call /\ calls'[v].at = calls[v].at
               /\ calls'[v].early = (calls[v].early \/ Puts(calls[w].at))
    <2>1. calls[v] \in Call
      BY <1>3 DEF CallType
    <2>2. calls'[v] = [calls[v] EXCEPT !.early = calls[v].early \/ Puts(calls[w].at)]
      BY <1>2, <1>3
    <2>3. (calls[v].early \/ Puts(calls[w].at)) \in BOOLEAN
      OBVIOUS
    <2>. QED
      BY <2>1, <2>2, <2>3 DEF Call
  <1>4. \A v \in Workers : v = w \/ calls[v] = Null => calls'[v] = Null
    BY <1>2
  <1>5. CallType'
    BY <1>2, <1>3, <1>4 DEF CallType
  <1>. QED
    BY <1>3, <1>4, <1>5, Constants

LEMMA AccountsFail ==
    ASSUME Accounts, NEW w \in Workers, Fail(w)
    PROVE  Accounts'
  <1> DEFINE t == calls[w].at
  <1>1. /\ calls[w] \in Call /\ t \in Nat /\ now' = now
        /\ row'.count = CountAfter(t) /\ row'.count \in Nat
        /\ row'.lockedUntil = LockAfter(t)
        /\ RowType'
        /\ wrong' = IF Puts(t) THEN 0 ELSE wrong + 1
    BY FailRow
  <1>2. CallType
    BY DEF Accounts
  <1>3. /\ CallType' /\ calls'[w] = Null
        /\ \A v \in Workers : calls'[v] # Null =>
              /\ calls[v] # Null /\ calls'[v].at = calls[v].at
              /\ calls'[v].early = (calls[v].early \/ Puts(t))
    BY <1>2, FailCalls
  <1>4. row.count \in Nat /\ row.lockedUntil \in Nat \cup {Null} /\ wrong \in Nat /\ now \in Nat
    BY DEF Accounts, RowType
  <1>5. t <= now
    BY <1>1, Constants DEF Accounts, Ages, Fail
  <1> HIDE DEF t
  <1>6. wrong' \in Nat
    BY <1>1, <1>4
  <1>7. Counter'
    <2>1. CASE Puts(t)
      BY <2>1, <1>1, <1>4, Constants DEF Puts, LockAfter, Counter
    <2>2. CASE ~Puts(t)
      <3>1. CountAfter(t) < Limit
        BY <2>2, <1>1, Constants DEF Puts
      <3>2. CountAfter(t) = wrong + 1
        BY <3>1, <1>4, Constants DEF CountAfter, Accounts, Counter
      <3>. QED
        BY <2>2, <3>1, <3>2, <1>1, Constants DEF Counter
    <2>. QED
      BY <2>1, <2>2
  <1>8. Ages'
    BY <1>1, <1>3 DEF Accounts, Ages
  <1>9. LockEnd'
    BY <1>1, <1>4, <1>5, Constants DEF Accounts, LockEnd, LockAfter
  <1>10. Early'
    <2>1. ASSUME NEW v \in Workers, calls'[v] # Null, row'.lockedUntil # Null
          PROVE  calls'[v].early \/ row'.lockedUntil <= calls'[v].at
      <3>1. CASE Puts(t)
        BY <2>1, <3>1, <1>3
      <3>2. CASE ~Puts(t)
        BY <2>1, <3>2, <1>1, <1>3 DEF Accounts, Early, LockAfter
      <3>. QED
        BY <3>1, <3>2
    <2>. QED
      BY <2>1 DEF Early
  <1>. QED
    BY <1>1, <1>3, <1>4, <1>6, <1>7, <1>8, <1>9, <1>10 DEF Accounts

\* A login that is let in has read no lock that is still to end.
LEMMA AccountsTry ==
    ASSUME Accounts, NEW w \in Workers, Try(w)
    PROVE  Accounts'
  <1>1. PICK t \in Readings, right \in BOOLEAN :
           /\ ~LockedAt(t)
           /\ calls' = [calls EXCEPT ![w] = [at |-> t, right |-> right, early |-> FALSE]]
           /\ UNCHANGED <<now, row, wrong>>
    BY DEF Try
  <1>2. now \in Nat /\ CallType /\ row.lockedUntil \in Nat \cup {Null}
    BY DEF Accounts, RowType
  <1>3. t \in Nat /\ t <= now /\ now <= t + MaxAge
    BY <1>2, Constants DEF Readings
  <1>4. [at |-> t, right |-> right, early |-> FALSE] \in Call
    BY <1>3 DEF Call
  <1>5. CallType'
    BY <1>1, <1>2, <1>4 DEF CallType
  <1>6. /\ calls'[w] = [at |-> t, right |-> right, early |-> FALSE]
        /\ \A v \in Workers \ {w} : calls'[v] = calls[v]
    BY <1>1, <1>2 DEF CallType
  <1>7. Ages'
    BY <1>1, <1>3, <1>6 DEF Accounts, Ages
  <1>8. Early'
    BY <1>1, <1>2, <1>3, <1>6 DEF Accounts, Early, LockedAt
  <1>. QED
    BY <1>1, <1>5, <1>7, <1>8 DEF Accounts, RowType, Counter, LockEnd

\* What takes tokens, or waits in front of the row and leaves without it.
Outside ==
    \/ \E ip \in Ips : TooMany(ip) \/ Elsewhere(ip)
    \/ \E w \in Workers, ip \in Ips : Pass(w, ip)
    \/ \E w \in Workers : Unread(w) \/ Refuse(w)

LEMMA OutsideKeeps ==
    ASSUME Outside
    PROVE  UNCHANGED <<now, row, calls, wrong>>
  BY DEF Outside, TooMany, Elsewhere, Pass, Unread, Refuse

LEMMA AccountsNext ==
    ASSUME Accounts, [Next]_vars
    PROVE  Accounts'
  <1>1. ASSUME NEW w \in Workers, Fail(w) PROVE Accounts'
    BY <1>1, AccountsFail
  <1>2. ASSUME NEW w \in Workers, Try(w) PROVE Accounts'
    BY <1>2, AccountsTry
  <1>3. ASSUME NEW w \in Workers, Succeed(w) \/ Lose(w) PROVE Accounts'
    <2>1. /\ calls' = [calls EXCEPT ![w] = Null] /\ now' = now
          /\ \/ row' = row /\ wrong' = wrong
             \/ row' = [row EXCEPT !.count = 0] /\ wrong' = 0
      BY <1>3 DEF Succeed, Lose
    <2>2. /\ CallType'
          /\ \A v \in Workers : calls'[v] # Null => calls'[v] = calls[v]
      BY <2>1 DEF Accounts, CallType
    <2>3. Ages'
      BY <2>1, <2>2 DEF Accounts, Ages
    <2>4. /\ RowType' /\ row'.lockedUntil = row.lockedUntil
          /\ \/ row'.count = row.count /\ wrong' = wrong
             \/ row'.count = 0 /\ wrong' = 0
      <3>1. RowType
        BY DEF Accounts
      <3>2. CASE row' = row /\ wrong' = wrong
        BY <3>1, <3>2 DEF RowType
      <3>3. CASE row' = [row EXCEPT !.count = 0] /\ wrong' = 0
        BY <3>1, <3>3 DEF RowType
      <3>. QED
        BY <2>1, <3>2, <3>3
    <2>. QED
      BY <2>1, <2>2, <2>3, <2>4, Constants DEF Accounts, Counter, LockEnd, Early
  <1>4. CASE ResetPassword \/ UpdatePassword
    <2>1. PICK until \in Nat \cup {Null} : NewPassword(until)
      <3>1. ASSUME NEW t \in Readings PROVE t + Temp \in Nat
        <4>1. t \in Nat
          BY DEF Readings, Accounts
        <4>. QED
          BY <4>1, Constants
      <3>2. CASE ResetPassword
        BY <3>1, <3>2 DEF ResetPassword
      <3>3. CASE UpdatePassword
        BY <3>3 DEF UpdatePassword
      <3>. QED
        BY <1>4, <3>2, <3>3
    <2>2. /\ row' = [count |-> 0, lockedUntil |-> Null, tempUntil |-> until]
          /\ wrong' = 0 /\ UNCHANGED <<now, calls>>
      BY <2>1 DEF NewPassword
    <2>. QED
      BY <2>2, Constants DEF Accounts, RowType, CallType, Counter, Ages, LockEnd, Early
  <1>5. CASE Tick
    <2>1. /\ now' = now + 1 /\ UNCHANGED <<row, calls, wrong>>
          /\ \A w \in Workers : calls[w] # Null => now - calls[w].at < MaxAge
      BY <1>5 DEF Tick
    <2>2. \A w \in Workers : calls[w] # Null => calls[w].at \in Nat
      BY DEF Accounts, CallType, Call
    <2>3. row.lockedUntil \in Nat \cup {Null} /\ now \in Nat
      BY DEF Accounts, RowType
    <2>4. Ages'
      BY <2>1, <2>2, <2>3, Constants DEF Accounts, Ages
    <2>5. LockEnd'
      BY <2>1, <2>3, Constants DEF Accounts, LockEnd
    <2>. QED
      BY <2>1, <2>3, <2>4, <2>5 DEF Accounts, RowType, CallType, Counter, Early
  <1>6. CASE Outside
    <2>1. UNCHANGED <<now, row, calls, wrong>>
      BY <1>6, OutsideKeeps
    <2>. QED
      BY <2>1 DEF Accounts, RowType, CallType, Counter, Ages, LockEnd, Early
  <1>7. CASE UNCHANGED vars
    BY <1>7 DEF vars, Accounts, RowType, CallType, Counter, Ages, LockEnd, Early
  <1>. QED
    BY <1>1, <1>2, <1>3, <1>4, <1>5, <1>6, <1>7 DEF Next, Outside

LEMMA AccountsInductive == Spec => []Accounts
  BY AccountsInit, AccountsNext, PTL DEF Spec

\* No failure in a row is lost, whatever logins overlap.
THEOREM NoFailureLost == Spec => []FiveLocks
  <1>1. Accounts => FiveLocks
    BY Constants DEF Accounts, RowType, Counter, FiveLocks
  <1>. QED
    BY <1>1, AccountsInductive, PTL

\* While the account is locked, only logins from before the lock go on.
THEOREM LockKeepsLoginsOut == Spec => []NobodyTriesLocked
  <1>1. ASSUME Accounts PROVE NobodyTriesLocked
    <2>1. ASSUME LockedAt(now), NEW w \in Workers, calls[w] # Null PROVE calls[w].early
      <3>1. calls[w].at \in Nat /\ row.lockedUntil \in Nat /\ now \in Nat
        BY <1>1, <2>1 DEF Accounts, CallType, Call, RowType, LockedAt
      <3>2. calls[w].at <= now
        BY <1>1, <2>1 DEF Accounts, Ages
      <3>3. calls[w].early \/ row.lockedUntil <= calls[w].at
        BY <1>1, <2>1 DEF Accounts, Early, LockedAt
      <3>. QED
        BY <2>1, <3>1, <3>2, <3>3 DEF LockedAt
    <2>. QED
      BY <2>1 DEF NobodyTriesLocked
  <1>. QED
    BY <1>1, AccountsInductive, PTL

\* An account that was not locked is locked by that many failures in a row only.
THEOREM OnlyFailuresLock == Spec => LockNeedsFive
  <1>1. ASSUME Accounts, [Next]_vars
        PROVE  [\A w \in Workers :
                  (calls[w] # Null /\ calls'[w] = Null /\ row'.lockedUntil # row.lockedUntil)
                      => wrong + 1 >= Limit \/ LockedAt(calls[w].at)]_vars
    <2> SUFFICES ASSUME NEW w \in Workers, calls[w] # Null, calls'[w] = Null,
                        row'.lockedUntil # row.lockedUntil
                 PROVE  wrong + 1 >= Limit \/ LockedAt(calls[w].at)
      OBVIOUS
    <2>1. CallType /\ RowType
      BY <1>1 DEF Accounts
    <2>2. PICK v \in Workers : Fail(v)
      <3>1. ~Tick /\ ~ResetPassword /\ ~UpdatePassword /\ vars' # vars /\ ~Outside
        BY OutsideKeeps DEF Tick, ResetPassword, UpdatePassword, NewPassword, vars
      <3>2. \A v \in Workers : ~Try(v)
        BY DEF Try
      <3>3. \A v \in Workers : ~Succeed(v) /\ ~Lose(v)
        BY <2>1 DEF Succeed, Lose, RowType
      <3>. QED
        BY <1>1, <3>1, <3>2, <3>3 DEF Next, Outside
    <2>3. v = w
      BY <2>1, <2>2, FailCalls
    <2>4. calls[w].at \in Nat /\ Puts(calls[w].at)
      BY <1>1, <2>2, <2>3, FailRow DEF LockAfter
    <2>5. row.count >= Limit - 1
          /\ (row.count >= Limit => row.lockedUntil # Null /\ row.lockedUntil > calls[w].at)
      BY <1>1, <2>4, PutsWhen
    <2>. QED
      BY <1>1, <2>1, <2>5, Constants DEF Accounts, RowType, Counter, LockedAt
  <1>. QED
    BY <1>1, AccountsInductive, PTL DEF Spec, LockNeedsFive

\* No recorded login takes the lock off or brings its end forward by more than
\* the age a login may have.
THEOREM LockStands == Spec => LockNotCut
  <1>1. ASSUME Accounts, [Next]_vars
        PROVE  [calls' # calls /\ row.lockedUntil # Null
                  => /\ row'.lockedUntil # Null
                     /\ row'.lockedUntil >= row.lockedUntil - MaxAge]_vars
    <2> SUFFICES ASSUME calls' # calls, row.lockedUntil # Null
                 PROVE  /\ row'.lockedUntil # Null
                        /\ row'.lockedUntil >= row.lockedUntil - MaxAge
      OBVIOUS
    <2>1. row.lockedUntil \in Nat /\ now \in Nat /\ RowType
      BY <1>1 DEF Accounts, RowType
    <2>2. ASSUME NEW w \in Workers, Fail(w)
          PROVE  /\ row'.lockedUntil # Null
                 /\ row'.lockedUntil >= row.lockedUntil - MaxAge
      <3>1. calls[w].at \in Nat /\ row'.lockedUntil = LockAfter(calls[w].at)
        BY <1>1, <2>2, FailRow
      <3>2. now <= calls[w].at + MaxAge /\ row.lockedUntil <= now + Lock
        BY <1>1, <2>2 DEF Accounts, Ages, LockEnd, Fail
      <3>. QED
        BY <2>1, <3>1, <3>2, Constants DEF LockAfter
    <2>3. CASE row'.lockedUntil = row.lockedUntil
      BY <2>1, <2>3, Constants
    <2>4. \/ row'.lockedUntil = row.lockedUntil
          \/ \E w \in Workers : Fail(w)
      <3>1. ~Tick /\ ~ResetPassword /\ ~UpdatePassword /\ vars' # vars /\ ~Outside
        BY OutsideKeeps DEF Tick, ResetPassword, UpdatePassword, NewPassword, vars
      <3>2. \A v \in Workers : Try(v) => row' = row
        BY DEF Try
      <3>3. \A v \in Workers : Succeed(v) \/ Lose(v) => row'.lockedUntil = row.lockedUntil
        BY <2>1 DEF Succeed, Lose, RowType
      <3>. QED
        BY <1>1, <3>1, <3>2, <3>3 DEF Next, Outside
    <2>. QED
      BY <2>2, <2>3, <2>4
  <1>. QED
    BY <1>1, AccountsInductive, PTL DEF Spec, LockNotCut

-----------------------------------------------------------------------------
(* The buckets                                                               *)

BucketType == BucketMap(buckets) /\ debt \in [Ips -> Nat] /\ forgiven \in Nat /\ now \in Nat

\* What an address got through is covered by what its bucket lacks and has
\* regained, up to the lag between two readings of the clock.
Owes == \A ip \in DOMAIN buckets :
            /\ buckets[ip].lastRefill <= now
            /\ debt[ip] = 0 \/ debt[ip] + buckets[ip].tokens
                                 + Paid(now - buckets[ip].lastRefill) <= Full + Paid(Lag)

\* The same against the last time the address was seen.
Idle == \A ip \in DOMAIN buckets :
            debt[ip] = 0 \/ debt[ip] + Paid(now - buckets[ip].lastSeen)
                               <= Full + 2 * Paid(Lag)

\* Who has no bucket owes nothing.
Absent == \A ip \in Ips : ip \notin DOMAIN buckets => debt[ip] = 0

Forgotten == forgiven = 0 \/ forgiven + Max <= 2 * Paid(Lag)

Limits == BucketType /\ Owes /\ Idle /\ Absent /\ Forgotten

LEMMA LimitsInit == Init => Limits
  <1>1. ASSUME Init PROVE Limits
    <2>1. DOMAIN buckets = {} /\ buckets = << >>
      BY <1>1 DEF Init
    <2>2. BucketMap(buckets)
      BY <2>1 DEF BucketMap
    <2>3. debt = [ip \in Ips |-> 0] /\ forgiven = 0 /\ now = 0
      BY <1>1 DEF Init
    <2>. QED
      BY <2>1, <2>2, <2>3 DEF Limits, BucketType, Owes, Idle, Absent, Forgotten
  <1>. QED
    BY <1>1

\* The buckets that are kept, and those that are not.
LEMMA CollectedFacts ==
    ASSUME BucketType, NEW t \in Nat
    PROVE  /\ DOMAIN Collected(buckets, t) \subseteq DOMAIN buckets
           /\ \A i \in DOMAIN Collected(buckets, t) : Collected(buckets, t)[i] = buckets[i]
           /\ \A i \in DOMAIN buckets :
                 i \notin DOMAIN Collected(buckets, t) => t - buckets[i].lastSeen > Window
  <1>1. \A i \in DOMAIN buckets : buckets[i].lastSeen \in Nat
    BY DEF BucketType, BucketMap, Bucket
  <1>. QED
    BY <1>1, FullNat DEF Collected

\* The bucket a caller finds: nobody gains by reading the clock, except that a
\* new bucket is full.
LEMMA FoundFacts ==
    ASSUME Limits, NEW ip \in Ips, NEW t \in Readings,
           NEW f, f = Found(Collected(buckets, t), ip, t)
    PROVE  /\ f \in Bucket
           /\ f.lastRefill <= now /\ now - f.lastRefill <= Lag
           /\ ip \in DOMAIN Collected(buckets, t) =>
                 f.tokens + Paid(now - f.lastRefill)
                     <= buckets[ip].tokens + Paid(now - buckets[ip].lastRefill)
  <1>1. now \in Nat /\ t \in Nat /\ t <= now /\ now - t <= Lag
    BY DEF Limits, BucketType, Readings
  <1>2. BucketType
    BY DEF Limits
  <1>3. CASE ip \notin DOMAIN Collected(buckets, t)
    <2>1. f = [tokens |-> Full, lastRefill |-> t, lastSeen |-> t]
      BY <1>3 DEF Found
    <2>. QED
      BY <1>1, <1>3, <2>1, FullNat DEF Bucket
  <1>4. CASE ip \in DOMAIN Collected(buckets, t)
    <2> DEFINE b == buckets[ip]
    <2>1. ip \in DOMAIN buckets /\ f = Refilled(b, t)
      BY <1>1, <1>2, <1>4, CollectedFacts DEF Found
    <2>2. b \in Bucket /\ b.lastRefill <= now
      BY <1>2, <2>1 DEF BucketType, BucketMap, Limits, Owes
    <2>3. b.tokens \in 0 .. Full /\ b.lastRefill \in Nat /\ b.lastSeen \in Nat
      BY <2>2 DEF Bucket
    <2> HIDE DEF b
    <2>4. CASE t > b.lastRefill
      <3> DEFINE sum == b.tokens + Max * (t - b.lastRefill)
                 u   == IF sum < Full THEN sum ELSE Full
      <3>1. t - b.lastRefill \in Nat /\ now - t \in Int /\ now - b.lastRefill \in Int
        BY <1>1, <2>3, <2>4
      <3>2. sum = b.tokens + Paid(t - b.lastRefill) /\ Paid(t - b.lastRefill) \in Nat
        BY <3>1, PaidNat DEF Paid
      <3>3. u \in 0 .. Full /\ u <= sum
        BY <3>2, <2>3, FullNat
      <3>4. f = [b EXCEPT !.tokens = u, !.lastRefill = t]
        BY <2>1, <2>4 DEF Refilled
      <3> HIDE DEF u
      <3>5. f.tokens = u /\ f.lastRefill = t /\ f \in Bucket
        BY <1>1, <2>2, <3>3, <3>4 DEF Bucket
      <3>6. Paid(now - b.lastRefill) = Paid(t - b.lastRefill) + Paid(now - t)
        <4>1. b.lastRefill \in Int /\ t \in Int /\ now \in Int
          BY <1>1, <2>3
        <4>. QED
          BY <4>1, PaidBetween
      <3>7. Paid(now - t) \in Int /\ u \in Int /\ sum \in Int
        BY <3>1, <3>2, <3>3, <2>3, FullNat, PaidInt
      <3>8. u + Paid(now - t) <= b.tokens + Paid(now - b.lastRefill)
        BY <2>3, <3>2, <3>3, <3>6, <3>7
      <3>. QED
        BY <1>1, <3>5, <3>8 DEF b
    <2>5. CASE ~(t > b.lastRefill)
      <3>1. f = b
        BY <2>1, <2>5 DEF Refilled
      <3>2. now - b.lastRefill <= Lag
        BY <1>1, <2>3, <2>5, Constants
      <3>3. b.tokens \in Int /\ Paid(now - b.lastRefill) \in Int
        BY <1>1, <2>3, PaidInt, FullNat
      <3>. QED
        BY <2>2, <3>1, <3>2, <3>3 DEF b
    <2>. QED
      BY <2>4, <2>5
  <1>. QED
    BY <1>3, <1>4

\* The buckets after the call.
LEMMA ChargedFacts ==
    ASSUME Limits, NEW ip \in Ips, NEW t \in Readings,
           NEW ok \in BOOLEAN, Limiter(ip, t, ok),
           NEW f, f = Found(Collected(buckets, t), ip, t)
    PROVE  /\ BucketMap(buckets')
           /\ DOMAIN buckets' = DOMAIN Collected(buckets, t) \cup {ip}
           /\ \A i \in DOMAIN Collected(buckets, t) : i # ip => buckets'[i] = buckets[i]
           /\ buckets'[ip].lastRefill = f.lastRefill /\ buckets'[ip].lastSeen = t
           /\ buckets'[ip].tokens = IF ok THEN f.tokens - Window ELSE f.tokens
  <1> DEFINE kept  == Collected(buckets, t)
             found == [f EXCEPT !.lastSeen = t]
             spent == IF Allowed(buckets, ip, t) THEN Window ELSE 0
             new   == [found EXCEPT !.tokens = found.tokens - spent]
  <1>1. buckets' = [i \in DOMAIN kept \cup {ip} |-> IF i = ip THEN new ELSE kept[i]]
    BY DEF Limiter, Charged
  <1>2. f \in Bucket /\ BucketType /\ t \in Nat
    BY FoundFacts DEF Limits, BucketType, Readings
  <1>3. /\ DOMAIN kept \subseteq DOMAIN buckets
        /\ \A i \in DOMAIN kept : kept[i] = buckets[i]
    BY <1>2, CollectedFacts
  <1>4. Allowed(buckets, ip, t) <=> f.tokens >= Window
    BY DEF Allowed
  <1>5. f.tokens \in 0 .. Full /\ f.tokens - spent \in 0 .. Full
    <2>1. f.tokens \in 0 .. Full
      BY <1>2 DEF Bucket
    <2>. QED
      BY <1>4, <2>1, FullNat
  <1>6. found \in Bucket /\ found.tokens = f.tokens /\ found.lastRefill = f.lastRefill
        /\ found.lastSeen = t
    BY <1>2 DEF Bucket
  <1>7. ok = Allowed(buckets, ip, t)
    BY DEF Limiter
  <1> HIDE DEF spent, found
  <1>8. new \in Bucket /\ new.lastRefill = f.lastRefill /\ new.lastSeen = t
        /\ new.tokens = f.tokens - spent
    BY <1>5, <1>6 DEF Bucket
  <1>9. f.tokens - spent = IF ok THEN f.tokens - Window ELSE f.tokens
    BY <1>5, <1>7, FullNat DEF spent
  <1> HIDE DEF new, kept
  <1>10. /\ DOMAIN buckets' = DOMAIN kept \cup {ip} /\ buckets'[ip] = new
         /\ \A i \in DOMAIN kept : i # ip => buckets'[i] = buckets[i]
    BY <1>1, <1>3
  <1>11. BucketMap(buckets')
    BY <1>1, <1>2, <1>3, <1>8, <1>10 DEF BucketMap, BucketType
  <1>. QED
    BY <1>8, <1>9, <1>10, <1>11 DEF kept

\* A call of the limiter with a reading of the clock.
LEMMA LimiterStep ==
    ASSUME Limits, NEW ip \in Ips, NEW t \in Readings, NEW ok \in BOOLEAN,
           Limiter(ip, t, ok), now' = now
    PROVE  Limits'
  <1> DEFINE kept == Collected(buckets, t)
             f    == Found(kept, ip, t)
             left == [i \in Ips |-> IF i \in DOMAIN buckets \ DOMAIN kept THEN 0 ELSE debt[i]]
             lost == {debt[i] : i \in DOMAIN buckets \ DOMAIN kept} \cup {forgiven}
  <1>1. now \in Nat /\ t \in Nat /\ t <= now /\ now - t <= Lag /\ Lag \in Nat
        /\ now - t \in Nat
    BY Constants DEF Limits, BucketType, Readings
  <1>2. BucketType /\ debt \in [Ips -> Nat]
    BY DEF Limits, BucketType
  <1>3. /\ DOMAIN kept \subseteq DOMAIN buckets
        /\ \A i \in DOMAIN buckets : i \notin DOMAIN kept => t - buckets[i].lastSeen > Window
    BY <1>1, <1>2, CollectedFacts
  <1>4. /\ f \in Bucket
        /\ f.lastRefill <= now /\ now - f.lastRefill <= Lag
        /\ ip \in DOMAIN kept =>
              f.tokens + Paid(now - f.lastRefill)
                  <= buckets[ip].tokens + Paid(now - buckets[ip].lastRefill)
    BY FoundFacts
  <1>5. /\ BucketMap(buckets')
        /\ DOMAIN buckets' = DOMAIN kept \cup {ip}
        /\ \A i \in DOMAIN kept : i # ip => buckets'[i] = buckets[i]
        /\ buckets'[ip].lastRefill = f.lastRefill /\ buckets'[ip].lastSeen = t
        /\ buckets'[ip].tokens = IF ok THEN f.tokens - Window ELSE f.tokens
    BY ChargedFacts
  <1>6. /\ debt' = IF ok THEN [left EXCEPT ![ip] = left[ip] + Window] ELSE left
        /\ forgiven' \in lost
    BY DEF Limiter
  <1> HIDE DEF kept, f
  <1>7. left \in [Ips -> Nat] /\ DOMAIN buckets \subseteq Ips
    BY <1>2 DEF BucketType, BucketMap
  <1>8. /\ \A i \in DOMAIN kept : i # ip => debt'[i] = debt[i]
        /\ \A i \in Ips : i \notin DOMAIN kept /\ i # ip => debt'[i] = 0
        /\ debt'[ip] = IF ok THEN left[ip] + Window ELSE left[ip]
        /\ left[ip] = 0 \/ (ip \in DOMAIN kept /\ left[ip] = debt[ip])
        /\ debt' \in [Ips -> Nat]
    <2>1. \A i \in Ips : i \notin DOMAIN buckets => debt[i] = 0
      BY DEF Limits, Absent
    <2>. QED
      BY <1>2, <1>3, <1>6, <1>7, <2>1, FullNat
  <1>9. \A i \in DOMAIN buckets : debt[i] \in Nat /\ buckets[i] \in Bucket
    BY <1>2, <1>7 DEF BucketType, BucketMap
  <1>10. f.tokens \in 0 .. Full /\ f.lastRefill \in Nat /\ left[ip] \in Nat
         /\ now - f.lastRefill \in Nat
    BY <1>1, <1>4, <1>7 DEF Bucket
  <1>11. /\ Paid(now - f.lastRefill) \in Nat /\ Paid(now - f.lastRefill) <= Paid(Lag)
         /\ Paid(Lag) \in Nat /\ Paid(now - t) \in Nat /\ Paid(now - t) <= Paid(Lag)
    BY <1>1, <1>4, <1>10, PaidNat, PaidMono
  <1>12. Absent'
    BY <1>5, <1>8 DEF Absent
  <1>13. debt'[ip] = 0 \/ debt'[ip] + buckets'[ip].tokens + Paid(now - f.lastRefill)
                             <= Full + Paid(Lag)
    <2>1. CASE left[ip] = 0
      BY <2>1, <1>5, <1>8, <1>10, <1>11, FullNat
    <2>2. CASE left[ip] # 0
      <3>1. ip \in DOMAIN kept /\ left[ip] = debt[ip]
        BY <2>2, <1>8
      <3>2. buckets[ip].tokens \in Int /\ Paid(now - buckets[ip].lastRefill) \in Int
        <4>1. buckets[ip].tokens \in 0 .. Full /\ buckets[ip].lastRefill \in Nat
          BY <3>1, <1>3, <1>9 DEF Bucket
        <4>2. now - buckets[ip].lastRefill \in Int
          BY <1>1, <4>1
        <4>. QED
          BY <4>1, <4>2, PaidInt, FullNat
      <3>3. debt[ip] + buckets[ip].tokens + Paid(now - buckets[ip].lastRefill)
              <= Full + Paid(Lag)
        BY <2>2, <3>1, <1>3 DEF Limits, Owes
      <3>. QED
        BY <3>1, <3>2, <3>3, <1>4, <1>5, <1>8, <1>10, <1>11, FullNat
    <2>. QED
      BY <2>1, <2>2
  <1>14. Owes'
    <2>1. ASSUME NEW i \in DOMAIN buckets'
          PROVE  /\ buckets'[i].lastRefill <= now
                 /\ debt'[i] = 0 \/ debt'[i] + buckets'[i].tokens
                                     + Paid(now - buckets'[i].lastRefill) <= Full + Paid(Lag)
      <3>1. CASE i = ip
        BY <3>1, <1>4, <1>5, <1>13
      <3>2. CASE i # ip
        <4>1. i \in DOMAIN kept /\ i \in DOMAIN buckets
              /\ buckets'[i] = buckets[i] /\ debt'[i] = debt[i]
          BY <2>1, <3>2, <1>3, <1>5, <1>8
        <4>. QED
          BY <4>1 DEF Limits, Owes
      <3>. QED
        BY <3>1, <3>2
    <2>. QED
      BY <2>1 DEF Owes
  <1>15. Idle'
    <2>1. ASSUME NEW i \in DOMAIN buckets'
          PROVE  debt'[i] = 0 \/ debt'[i] + Paid(now - buckets'[i].lastSeen)
                                    <= Full + 2 * Paid(Lag)
      <3>1. CASE i = ip
        <4>1. debt'[ip] \in Nat /\ buckets'[ip].tokens \in Nat
          <5>1. buckets'[ip].tokens \in 0 .. Full
            BY <1>5 DEF BucketMap, Bucket
          <5>. QED
            BY <1>8, <5>1, FullNat
        <4>2. debt'[ip] <= Full + Paid(Lag)
          BY <4>1, <1>11, <1>13, FullNat
        <4>. QED
          BY <3>1, <4>1, <4>2, <1>5, <1>11, FullNat
      <3>2. CASE i # ip
        <4>1. i \in DOMAIN kept /\ i \in DOMAIN buckets
              /\ buckets'[i] = buckets[i] /\ debt'[i] = debt[i]
          BY <2>1, <3>2, <1>3, <1>5, <1>8
        <4>. QED
          BY <4>1 DEF Limits, Idle
      <3>. QED
        BY <3>1, <3>2
    <2>. QED
      BY <2>1 DEF Idle
  <1>16. Forgotten' /\ forgiven' \in Nat
    <2>1. CASE forgiven' = forgiven
      BY <2>1, <1>2 DEF Limits, BucketType, Forgotten
    <2>2. CASE \E i \in DOMAIN buckets : i \notin DOMAIN kept /\ forgiven' = debt[i]
      <3>1. PICK i \in DOMAIN buckets : i \notin DOMAIN kept /\ forgiven' = debt[i]
        BY <2>2
      <3>2. debt[i] \in Nat /\ buckets[i].lastSeen \in Nat
        BY <1>9 DEF Bucket
      <3>3. t - buckets[i].lastSeen > Window
        BY <1>3, <3>1
      <3>4. Window + 1 <= now - buckets[i].lastSeen /\ now - buckets[i].lastSeen \in Int
        BY <1>1, <3>2, <3>3, FullNat
      <3>5. Paid(Window + 1) <= Paid(now - buckets[i].lastSeen)
        BY <3>4, PaidMono, FullNat
      <3>6. Paid(Window + 1) = Full + Max
        BY PaidSum, PaidOne, FullNat
      <3>7. Paid(now - buckets[i].lastSeen) \in Int
        BY <3>4, PaidInt
      <3>8. debt[i] = 0 \/ debt[i] + Paid(now - buckets[i].lastSeen) <= Full + 2 * Paid(Lag)
        BY DEF Limits, Idle
      <3>. QED
        BY <3>1, <3>2, <3>5, <3>6, <3>7, <3>8, <1>11, FullNat, PaidOne DEF Forgotten
    <2>. QED
      BY <1>6, <2>1, <2>2
  <1>. QED
    BY <1>1, <1>5, <1>8, <1>12, <1>14, <1>15, <1>16 DEF Limits, BucketType

LEMMA LimitsTick ==
    ASSUME Limits, Tick
    PROVE  Limits'
  <1>1. /\ now' = now + 1 /\ UNCHANGED <<buckets, forgiven>>
        /\ debt' = [ip \in Ips |-> IF debt[ip] > Max THEN debt[ip] - Max ELSE 0]
    BY DEF Tick
  <1>2. now \in Nat /\ debt \in [Ips -> Nat] /\ BucketMap(buckets)
    BY DEF Limits, BucketType
  <1>3. debt' \in [Ips -> Nat]
    BY <1>1, <1>2, PaidOne
  <1>4. ASSUME NEW a \in Nat, a <= now
        PROVE  Paid(now' - a) = Paid(now - a) + Max /\ Paid(now - a) \in Nat
    <2>1. now - a \in Nat /\ now' - a = (now - a) + 1
      BY <1>1, <1>2, <1>4
    <2>2. Paid((now - a) + 1) = Paid(now - a) + Paid(1)
      BY <2>1, PaidSum
    <2>. QED
      BY <2>1, <2>2, PaidNat, PaidOne
  <1>5. ASSUME NEW ip \in Ips
        PROVE  debt'[ip] = 0 \/ (debt'[ip] = debt[ip] - Max /\ debt[ip] # 0 /\ debt[ip] \in Nat)
    BY <1>1, <1>2, PaidOne
  <1>6. \A ip \in DOMAIN buckets : ip \in Ips /\ buckets[ip].tokens \in Int
            /\ buckets[ip].lastRefill \in Nat /\ buckets[ip].lastSeen \in Nat
    BY <1>2, FullNat DEF BucketMap, Bucket
  <1>7. Paid(Lag) \in Nat
    BY Constants, PaidNat
  <1>8. Owes'
    <2> SUFFICES ASSUME NEW ip \in DOMAIN buckets
                 PROVE  /\ buckets[ip].lastRefill <= now'
                        /\ debt'[ip] = 0 \/ debt'[ip] + buckets[ip].tokens
                              + Paid(now' - buckets[ip].lastRefill) <= Full + Paid(Lag)
      BY <1>1 DEF Owes
    <2>1. /\ buckets[ip].lastRefill <= now
          /\ debt[ip] = 0 \/ debt[ip] + buckets[ip].tokens
                               + Paid(now - buckets[ip].lastRefill) <= Full + Paid(Lag)
      BY DEF Limits, Owes
    <2>2. /\ Paid(now' - buckets[ip].lastRefill) = Paid(now - buckets[ip].lastRefill) + Max
          /\ Paid(now - buckets[ip].lastRefill) \in Nat
      BY <1>4, <1>6, <2>1
    <2>. QED
      BY <1>1, <1>2, <1>5, <1>6, <1>7, <2>1, <2>2, PaidOne, FullNat
  <1>9. Idle'
    <2> SUFFICES ASSUME NEW ip \in DOMAIN buckets
                 PROVE  debt'[ip] = 0 \/ debt'[ip] + Paid(now' - buckets[ip].lastSeen)
                                           <= Full + 2 * Paid(Lag)
      BY <1>1 DEF Idle
    <2>1. debt[ip] = 0 \/ debt[ip] + Paid(now - buckets[ip].lastSeen)
                            <= Full + 2 * Paid(Lag)
      BY DEF Limits, Idle
    <2>2. /\ Paid(now' - buckets[ip].lastSeen) = Paid(now - buckets[ip].lastSeen) + Max
          /\ Paid(now - buckets[ip].lastSeen) \in Int
      <3>1. now - buckets[ip].lastSeen \in Int
            /\ now' - buckets[ip].lastSeen = (now - buckets[ip].lastSeen) + 1
        <4>1. buckets[ip].lastSeen \in Int
          BY <1>6
        <4>. QED
          BY <1>1, <1>2, <4>1
      <3>2. PICK idle \in Int : idle = now - buckets[ip].lastSeen
        BY <3>1
      <3>3. Paid(idle + 1) = Paid(idle) + Paid(1)
        BY PaidSum
      <3>4. Paid(idle) \in Int
        BY PaidInt
      <3>5. now' - buckets[ip].lastSeen = idle + 1
        BY <3>1, <3>2
      <3>6. Paid(now' - buckets[ip].lastSeen) = Paid(idle) + Max
        BY <3>3, <3>5, PaidOne, Zenon
      <3>. QED
        BY <3>2, <3>4, <3>6
    <2>. QED
      BY <1>5, <1>6, <1>7, <2>1, <2>2, PaidOne, FullNat
  <1>10. Absent'
    BY <1>1, <1>2, PaidOne DEF Limits, Absent
  <1>. QED
    BY <1>1, <1>2, <1>3, <1>8, <1>9, <1>10 DEF Limits, BucketType, Forgotten

LEMMA LimitsNext ==
    ASSUME Limits, [Next]_vars
    PROVE  Limits'
  <1>1. CASE Tick
    BY <1>1, LimitsTick
  <1>2. ASSUME NEW ip \in Ips, TooMany(ip) \/ Elsewhere(ip) PROVE Limits'
    <2>1. PICK t \in Readings, ok \in BOOLEAN : Limiter(ip, t, ok) /\ now' = now
      BY <1>2 DEF TooMany, Elsewhere
    <2>. QED
      BY <2>1, LimiterStep
  <1>3. ASSUME NEW w \in Workers, NEW ip \in Ips, Pass(w, ip) PROVE Limits'
    <2>1. PICK t \in Readings : Limiter(ip, t, TRUE) /\ now' = now
      BY <1>3 DEF Pass
    <2>. QED
      BY <2>1, LimiterStep
  <1>4. CASE UNCHANGED <<now, buckets, debt, forgiven>>
    BY <1>4 DEF Limits, BucketType, BucketMap, Owes, Idle, Absent, Forgotten
  <1>5. ASSUME NEW w \in Workers,
               Unread(w) \/ Refuse(w) \/ Try(w) \/ Fail(w) \/ Succeed(w) \/ Lose(w)
        PROVE  Limits'
    BY <1>4, <1>5 DEF Unread, Refuse, Try, Fail, Succeed, Lose
  <1>6. CASE ResetPassword \/ UpdatePassword \/ UNCHANGED vars
    BY <1>4, <1>6 DEF ResetPassword, UpdatePassword, NewPassword, vars
  <1>. QED
    BY <1>1, <1>2, <1>3, <1>5, <1>6 DEF Next

LEMMA LimitsInductive == Spec => []Limits
  BY LimitsInit, LimitsNext, PTL DEF Spec

Waits == waiting \subseteq Workers

LEMMA WaitingInductive == Spec => []Waits
  <1>1. Init => Waits
    BY DEF Init, Waits
  <1>2. ASSUME Waits, [Next]_vars PROVE Waits'
    <2> USE DEF Waits
    <2>1. ASSUME NEW w \in Workers, NEW ip \in Ips, Pass(w, ip)
          PROVE  Waits'
      BY <1>2, <2>1 DEF Pass
    <2>2. ASSUME NEW w \in Workers, Unread(w) \/ Refuse(w) \/ Try(w)
          PROVE  Waits'
      BY <1>2, <2>2 DEF Unread, Refuse, Try
    <2>3. ASSUME NEW w \in Workers, Fail(w) \/ Succeed(w) \/ Lose(w)
          PROVE  Waits'
      BY <1>2, <2>3 DEF Fail, Succeed, Lose
    <2>4. ASSUME NEW ip \in Ips, TooMany(ip) \/ Elsewhere(ip)
          PROVE  Waits'
      BY <1>2, <2>4 DEF TooMany, Elsewhere
    <2>5. CASE Tick \/ ResetPassword \/ UpdatePassword \/ UNCHANGED vars
      BY <1>2, <2>5 DEF Tick, ResetPassword, UpdatePassword, NewPassword, vars
    <2>. QED
      BY <1>2, <2>1, <2>2, <2>3, <2>4, <2>5 DEF Next
  <1>. QED
    BY <1>1, <1>2, PTL DEF Spec

\* Both halves keep their types.
THEOREM TypeCorrect == Spec => []TypeOK
  <1>1. Accounts /\ Limits /\ Waits => TypeOK
    BY DEF Accounts, Limits, BucketType, RowType, CallType, Waits, TypeOK
  <1>. QED
    BY <1>1, AccountsInductive, LimitsInductive, WaitingInductive, PTL

\* No stretch of time lets an address through more often than its bucket allows.
THEOREM RateIsKept == Spec => []RateKept
  <1>1. ASSUME Limits PROVE RateKept
    <2>1. Paid(Lag) \in Nat /\ Max * Lag = Paid(Lag)
      BY Constants, PaidNat DEF Paid
    <2> SUFFICES ASSUME NEW ip \in Ips PROVE debt[ip] <= Full + Paid(Lag)
      BY <2>1 DEF RateKept
    <2>2. debt[ip] \in Nat
      BY <1>1 DEF Limits, BucketType
    <2>3. CASE debt[ip] = 0
      BY <2>1, <2>3, FullNat
    <2>4. CASE debt[ip] # 0
      <3>1. ip \in DOMAIN buckets
        BY <1>1, <2>4 DEF Limits, Absent
      <3>2. buckets[ip].tokens \in 0 .. Full /\ buckets[ip].lastRefill \in Nat
            /\ buckets[ip].lastRefill <= now /\ now \in Nat
        BY <1>1, <3>1 DEF Limits, BucketType, BucketMap, Bucket, Owes
      <3>3. Paid(now - buckets[ip].lastRefill) \in Nat
        BY <3>2, PaidNat
      <3>4. debt[ip] + buckets[ip].tokens + Paid(now - buckets[ip].lastRefill)
              <= Full + Paid(Lag)
        BY <1>1, <2>4, <3>1 DEF Limits, Owes
      <3>. QED
        BY <2>1, <2>2, <3>2, <3>3, <3>4, FullNat
    <2>. QED
      BY <2>3, <2>4
  <1>. QED
    BY <1>1, LimitsInductive, PTL

\* Dropping idle buckets gives nobody a second full bucket.
THEOREM NothingForgotten == Spec => []ForgottenIsPaid
  <1>1. ASSUME Limits PROVE ForgottenIsPaid
    <2>1. 2 * Max * Lag = 2 * Paid(Lag)
      BY Constants, PaidOne DEF Paid
    <2>. QED
      BY <1>1, <2>1 DEF Limits, Forgotten, ForgottenIsPaid
  <1>. QED
    BY <1>1, LimitsInductive, PTL
================================================================================
