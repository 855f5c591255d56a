------------------------------ MODULE RateLimiter ------------------------------
(***************************************************************************)
(* The token buckets in front of the login, session and kiosk routes, one  *)
(* for each address that was seen lately.  A token is Window units, so     *)
(* that the refill of one tick, Max / Window tokens, is Max units and      *)
(* nothing is rounded.                                                     *)
(***************************************************************************)
EXTENDS Integers, FiniteSets

CONSTANTS
    Ips,         \* client addresses
    Max,         \* tokens of a full bucket
    Window,      \* ticks in which an empty bucket fills up
    GcAbove      \* buckets kept before idle ones are dropped (4 * Max in the code)

ASSUME LimiterAssumption ==
    /\ {Max, Window} \subseteq Nat \ {0}
    /\ GcAbove \in Nat

Full == Max * Window

Bucket == [tokens : 0 .. Full, lastRefill : Nat, lastSeen : Nat]

\* The map of the limiter: only some addresses have a bucket.
BucketMap(buckets) ==
    DOMAIN buckets \subseteq Ips /\ buckets \in [DOMAIN buckets -> Bucket]

\* A bucket that is idle for half the window is dropped.
WrongCollected(buckets, t) ==
    IF Cardinality(DOMAIN buckets) > GcAbove
    THEN [ip \in {i \in DOMAIN buckets : 2 * (t - buckets[i].lastSeen) <= Window}
              |-> buckets[ip]]
    ELSE buckets

\* gcLocked drops what was not seen for a whole window.
Collected(buckets, t) ==
    IF Cardinality(DOMAIN buckets) > GcAbove
    THEN [ip \in {i \in DOMAIN buckets : t - buckets[i].lastSeen <= Window}
              |-> buckets[ip]]
    ELSE buckets

\* The refill forgets to move its own date.
WrongRefilled(b, t) ==
    IF t > b.lastRefill
    THEN LET sum == b.tokens + Max * (t - b.lastRefill)
         IN  [b EXCEPT !.tokens = IF sum < Full THEN sum ELSE Full]
    ELSE b

\* The credit for the time since the last refill; a caller that read the clock
\* before another one took the lock finds no time passed and gets none.
Refilled(b, t) ==
    IF t > b.lastRefill
    THEN LET sum == b.tokens + Max * (t - b.lastRefill)
         IN  [b EXCEPT !.tokens = IF sum < Full THEN sum ELSE Full,
                       !.lastRefill = t]
    ELSE b

Found(buckets, ip, t) ==
    IF ip \in DOMAIN buckets
    THEN Refilled(buckets[ip], t)
    ELSE [tokens |-> Full, lastRefill |-> t, lastSeen |-> t]

\* Allow for a caller that read the clock at t: its answer, and the buckets
\* afterwards.
Allowed(buckets, ip, t) == Found(Collected(buckets, t), ip, t).tokens >= Window

Charged(buckets, ip, t) ==
    LET kept  == Collected(buckets, t)
        found == [Found(kept, ip, t) EXCEPT !.lastSeen = t]
        spent == IF Allowed(buckets, ip, t) THEN Window ELSE 0
    IN  [i \in DOMAIN kept \cup {ip} |->
            IF i = ip THEN [found EXCEPT !.tokens = @ - spent] ELSE kept[i]]
================================================================================
