----------------------------- MODULE KioskCheckIn -----------------------------
(***************************************************************************)
(* POST /api/check-ins and the five-second LRU cache in front of it.  A    *)
(* request looks its member up in the cache, runs the check-in transaction *)
(* on a miss, and puts the answer into the cache after the commit; other   *)
(* requests and the clock come between.  What the transaction does to the  *)
(* membership is MembershipLifecycle's.                                    *)
(*                                                                         *)
(* The cache key is the pair of member and branch.  A check-in for a       *)
(* branch that is not the member's finds no membership and is not cached,  *)
(* so a member stands for its key.                                         *)
(***************************************************************************)
EXTENDS Integers, Sequences, FiniteSets

CONSTANTS
    Callers,    \* requests being handled at a time
    Members,    \* cache keys
    TTL,        \* five seconds, in ticks of the clock
    MaxEntries, \* capacity of the cache
    Null,
    Impatient,  \* members sent again before their request was answered
    Restarts,   \* the process may stop and start with an empty cache
    MaxTime,    \* bound of the clock
    MaxVisits   \* bound on the check-ins committed

ASSUME KioskAssumption ==
    /\ TTL \in Nat \ {0} /\ MaxEntries \in Nat \ {0}
    /\ MaxTime \in Nat /\ MaxVisits \in Nat
    /\ Impatient \subseteq Members /\ Restarts \in BOOLEAN

VARIABLES
    now,
    visits,     \* check_ins, in the order of commits
    cache,      \* the entries, most recently used first
    calls,      \* the request each caller is in, Null when it is in none
    last,       \* what was last put into the cache for a member: for the properties
    since       \* members served since a member was: for the properties

vars == <<now, visits, cache, calls, last, since>>

Entry == [key : Members, visit : Nat, expires : Nat]

\* Visit 0 is an answer without a check-in.
Call == [stage : {"commit", "set", "answered"}, member : Members, visit : Nat]

TypeOK ==
    /\ now \in Nat
    /\ visits \in Seq([member : Members, at : Nat])
    /\ cache \in Seq(Entry)
    /\ Len(cache) <= MaxEntries
    /\ \A i, j \in DOMAIN cache : cache[i].key = cache[j].key => i = j
    /\ calls \in [Callers -> Call \cup {Null}]
    /\ last \in [Members -> Entry \cup {Null}]
    /\ since \in [Members -> SUBSET Members]

Init ==
    /\ now = 0
    /\ visits = << >>
    /\ cache = << >>
    /\ calls = [c \in Callers |-> Null]
    /\ last = [m \in Members |-> Null]
    /\ since = [m \in Members |-> {}]

Cached(m) == \E i \in DOMAIN cache : cache[i].key = m

\* The cache with the entry of a member removed, if there is one.
Without(m) ==
    IF Cached(m)
    THEN LET at == CHOOSE i \in DOMAIN cache : cache[i].key = m
         IN  [i \in 1 .. Len(cache) - 1 |-> cache[IF i < at THEN i ELSE i + 1]]
    ELSE cache

EntryOf(m) == CHOOSE e \in {cache[i] : i \in DOMAIN cache} : e.key = m

Used(m) == since' = [n \in Members |-> IF n = m THEN {} ELSE since[n] \cup {m}]

Working(c) == calls[c] # Null /\ calls[c].stage \in {"commit", "set"}

Waits(m) == m \in Impatient \/ ~ \E c \in Callers : Working(c) /\ calls[c].member = m

-----------------------------------------------------------------------------

\* An entry expires one tick too early.
WrongFresh(e) == now < e.expires - 1

\* The clock is before the expiry of the entry.
Fresh(e) == now < e.expires

\* Get leaves the entry where it is.
WrongHit(c) ==
    \E m \in Members :
        /\ calls[c] = Null /\ Waits(m)
        /\ Cached(m) /\ Fresh(EntryOf(m))
        /\ calls' = [calls EXCEPT ![c] = [stage |-> "answered", member |-> m,
                                          visit |-> EntryOf(m).visit]]
        /\ Used(m)
        /\ UNCHANGED <<now, visits, cache, last>>

\* Get finds a fresh entry, moves it to the front, and its answer goes out.
Hit(c) ==
    \E m \in Members :
        /\ calls[c] = Null /\ Waits(m)
        /\ Cached(m) /\ Fresh(EntryOf(m))
        /\ calls' = [calls EXCEPT ![c] = [stage |-> "answered", member |-> m,
                                          visit |-> EntryOf(m).visit]]
        /\ cache' = <<EntryOf(m)>> \o Without(m)
        /\ Used(m)
        /\ UNCHANGED <<now, visits, last>>

\* Get finds nothing, or an expired entry, which it removes.
Miss(c) ==
    \E m \in Members :
        /\ calls[c] = Null /\ Waits(m)
        /\ ~(Cached(m) /\ Fresh(EntryOf(m)))
        /\ calls' = [calls EXCEPT ![c] = [stage |-> "commit", member |-> m,
                                          visit |-> 0]]
        /\ cache' = Without(m)
        /\ UNCHANGED <<now, visits, last, since>>

\* The check-in transaction commits.
CheckIn(c) ==
    /\ calls[c] # Null /\ calls[c].stage = "commit"
    /\ Len(visits) < MaxVisits
    /\ visits' = Append(visits, [member |-> calls[c].member, at |-> now])
    /\ calls' = [calls EXCEPT ![c] = [stage |-> "set", member |-> calls[c].member,
                                      visit |-> Len(visits')]]
    /\ UNCHANGED <<now, cache, last, since>>

\* No membership covers the day, or the database failed: nothing is cached.
Refused(c) ==
    /\ calls[c] # Null /\ calls[c].stage = "commit"
    /\ calls' = [calls EXCEPT ![c].stage = "answered"]
    /\ UNCHANGED <<now, visits, cache, last, since>>

\* The entry of a member that is already there is left as it was.
WrongPut(e) ==
    LET entries == IF Cached(e.key) THEN cache ELSE <<e>> \o cache
    IN  SubSeq(entries, 1, IF Len(entries) > MaxEntries THEN MaxEntries ELSE Len(entries))

\* Set: the new entry is at the front, in the place of the member's old one,
\* and the least recently used one goes when there are too many.
Put(e) ==
    LET entries == <<e>> \o Without(e.key)
    IN  SubSeq(entries, 1, IF Len(entries) > MaxEntries THEN MaxEntries ELSE Len(entries))

\* The answer is cached and goes out.
Answer(c) ==
    /\ calls[c] # Null /\ calls[c].stage = "set"
    /\ LET e == [key |-> calls[c].member, visit |-> calls[c].visit,
                 expires |-> now + TTL]
       IN  /\ cache' = Put(e)
           /\ last' = [last EXCEPT ![e.key] = e]
    /\ calls' = [calls EXCEPT ![c].stage = "answered"]
    /\ Used(calls[c].member)
    /\ UNCHANGED <<now, visits>>

Leave(c) ==
    /\ calls[c] # Null /\ calls[c].stage = "answered"
    /\ calls' = [calls EXCEPT ![c] = Null]
    /\ UNCHANGED <<now, visits, cache, last, since>>

\* The cache is in memory; so are the requests.
Restart ==
    /\ Restarts
    /\ cache' = << >>
    /\ calls' = [c \in Callers |-> Null]
    /\ last' = [m \in Members |-> Null]
    /\ UNCHANGED <<now, visits, since>>

Tick ==
    /\ now < MaxTime
    /\ now' = now + 1
    /\ UNCHANGED <<visits, cache, calls, last, since>>

Handle(c) == Hit(c) \/ Miss(c) \/ CheckIn(c) \/ Refused(c) \/ Answer(c) \/ Leave(c)

Next == (\E c \in Callers : Handle(c)) \/ Restart \/ Tick

Spec == Init /\ [][Next]_vars

-----------------------------------------------------------------------------

\* The cache never tells an old story: what it holds for a member, fresh or
\* not, is what was last put there, though requests that overlap put in
\* different orders than they commit.
CacheHoldsLatest ==
    \A i \in DOMAIN cache : cache[i] = last[cache[i].key]

\* An answer that is still fresh is missing from the cache only when as many
\* other members as the cache has room for were served since the member was.
FreshAnswerKept ==
    \A m \in Members :
        last[m] # Null /\ Fresh(last[m]) /\ ~Cached(m)
            => Cardinality(since[m]) >= MaxEntries

\* A double tap makes one check-in.  A member that waited for its answer is
\* not checked in again within five seconds of the check-in the answer was
\* about, unless so many other members were served meanwhile that the cache
\* had to drop the answer.
Debounced ==
    [][\A c \in Callers :
          CheckIn(c) =>
              LET m == calls[c].member IN
              \/ m \in Impatient
              \/ last[m] = Null
              \/ now - visits[last[m].visit].at >= TTL
              \/ Cardinality(since[m]) >= MaxEntries]_vars
=============================================================================
