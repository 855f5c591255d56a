-------------------------- MODULE KioskCheckInProofs ---------------------------
(***************************************************************************)
(* The kiosk's cache for any number of requests and members, any capacity  *)
(* and any TTL.  The entries of the cache stand in the order of their last *)
(* use, which Recent relates to the members served since: the entry that   *)
(* goes leaves as many others in front of it as the cache has room for.    *)
(***************************************************************************)
EXTENDS KioskCheckIn, FiniteSetTheorems, SequenceTheorems, TLAPS

Distinct(s) == \A i, j \in DOMAIN s : s[i].key = s[j].key => i = j

\* Whoever stands further in front was served later.
Recent(s, u) == \A i, j \in DOMAIN s : i < j => s[i].key \in u[s[j].key]

Known(s) == \A i \in DOMAIN s : s[i] = last[s[i].key]

-----------------------------------------------------------------------------
(* The operations on the cache                                               *)

LEMMA WithoutCached ==
    ASSUME cache \in Seq(Entry), Distinct(cache), NEW m \in Members, Cached(m)
    PROVE  \E at \in 1 .. Len(cache) :
              /\ cache[at].key = m
              /\ \A i \in 1 .. Len(cache) : cache[i].key = m => i = at
              /\ EntryOf(m) = cache[at]
              /\ Without(m) = [i \in 1 .. Len(cache) - 1 |->
                                  cache[IF i < at THEN i ELSE i + 1]]
  <1> DEFINE at == CHOOSE i \in DOMAIN cache : cache[i].key = m
             found == {cache[i] : i \in DOMAIN cache}
  <1>1. DOMAIN cache = 1 .. Len(cache)
    BY LenProperties
  <1>2. at \in DOMAIN cache /\ cache[at].key = m
    BY DEF Cached
  <1>3. \A i \in 1 .. Len(cache) : cache[i].key = m => i = at
    BY <1>1, <1>2 DEF Distinct
  <1>4. EntryOf(m) = cache[at]
    <2>1. \E e \in found : e.key = m
      BY <1>2
    <2>2. EntryOf(m) \in found /\ EntryOf(m).key = m
      BY <2>1 DEF EntryOf
    <2>3. PICK i \in DOMAIN cache : EntryOf(m) = cache[i]
      BY <2>2
    <2>. QED
      BY <1>1, <1>3, <2>2, <2>3
  <1>5. Without(m) = [i \in 1 .. Len(cache) - 1 |-> cache[IF i < at THEN i ELSE i + 1]]
    BY DEF Without
  <1>. QED
    BY <1>1, <1>2, <1>3, <1>4, <1>5

LEMMA WithoutKeeps ==
    ASSUME cache \in Seq(Entry), Distinct(cache), NEW m \in Members
    PROVE  /\ Without(m) \in Seq(Entry)
           /\ Len(Without(m)) <= Len(cache)
           /\ Cached(m) => Len(Without(m)) = Len(cache) - 1
           /\ Distinct(Without(m))
           /\ \A i \in DOMAIN Without(m) : Without(m)[i].key # m
           /\ \A i \in DOMAIN Without(m) : \E k \in DOMAIN cache : Without(m)[i] = cache[k]
           /\ \A k \in DOMAIN cache :
                 cache[k].key # m => \E i \in DOMAIN Without(m) : Without(m)[i] = cache[k]
           /\ \A u : Recent(cache, u) => Recent(Without(m), u)
  <1>1. Len(cache) \in Nat /\ DOMAIN cache = 1 .. Len(cache)
    BY LenProperties
  <1>2. CASE ~Cached(m)
    <2>1. Without(m) = cache
      BY <1>2 DEF Without
    <2>2. \A i \in DOMAIN cache : cache[i].key # m
      BY <1>2 DEF Cached
    <2>3. \A u : Recent(cache, u) => Recent(Without(m), u)
      BY <2>1
    <2>4. Len(Without(m)) <= Len(cache)
      BY <1>1, <2>1
    <2>. QED
      BY <1>2, <2>1, <2>2, <2>3, <2>4, Zenon
  <1>3. CASE Cached(m)
    <2> DEFINE w == Without(m)
    <2>1. PICK at \in 1 .. Len(cache) :
              /\ cache[at].key = m
              /\ \A i \in 1 .. Len(cache) : cache[i].key = m => i = at
              /\ w = [i \in 1 .. Len(cache) - 1 |-> cache[IF i < at THEN i ELSE i + 1]]
      BY <1>3, WithoutCached
    <2> DEFINE place(i) == IF i < at THEN i ELSE i + 1
    <2>2. DOMAIN w = 1 .. Len(cache) - 1
          /\ \A i \in 1 .. Len(cache) - 1 : w[i] = cache[place(i)]
      BY <2>1
    <2> HIDE DEF w
    <2>3. \A i \in 1 .. Len(cache) - 1 : place(i) \in 1 .. Len(cache) /\ place(i) # at
      BY <1>1
    <2>4. \A i, j \in 1 .. Len(cache) - 1 :
              (i < j => place(i) < place(j)) /\ (place(i) = place(j) => i = j)
      BY <1>1
    <2>5. \A k \in 1 .. Len(cache) :
              k # at => \E i \in 1 .. Len(cache) - 1 : place(i) = k
      <3> SUFFICES ASSUME NEW k \in 1 .. Len(cache), k # at
                   PROVE  \E i \in 1 .. Len(cache) - 1 : place(i) = k
        OBVIOUS
      <3>1. CASE k < at
        <4>1. k \in 1 .. Len(cache) - 1 /\ place(k) = k
          BY <1>1, <3>1
        <4>. QED
          BY <4>1
      <3>2. CASE k > at
        <4>1. k - 1 \in 1 .. Len(cache) - 1 /\ place(k - 1) = k
          BY <1>1, <3>2
        <4>. QED
          BY <4>1
      <3>. QED
        BY <1>1, <3>1, <3>2
    <2> HIDE DEF place
    <2>6. w \in Seq(Entry) /\ Len(w) = Len(cache) - 1
      <3>1. Len(cache) - 1 \in Nat
        BY <1>1
      <3>2. \A i \in 1 .. Len(cache) - 1 : cache[place(i)] \in Entry
        BY <2>3, ElementOfSeq
      <3>3. w = [i \in 1 .. Len(cache) - 1 |-> cache[place(i)]]
        BY <2>1 DEF place
      <3>. QED
        BY <3>1, <3>2, <3>3, SMT
    <2>7. Distinct(w)
      BY <1>1, <2>2, <2>3, <2>4 DEF Distinct
    <2>8. \A i \in DOMAIN w : w[i].key # m
      BY <2>1, <2>2, <2>3
    <2>9. \A i \in DOMAIN w : \E k \in DOMAIN cache : w[i] = cache[k]
      BY <1>1, <2>2, <2>3
    <2>10. \A k \in DOMAIN cache : cache[k].key # m => \E i \in DOMAIN w : w[i] = cache[k]
      <3> SUFFICES ASSUME NEW k \in 1 .. Len(cache), cache[k].key # m
                   PROVE  \E i \in DOMAIN w : w[i] = cache[k]
        BY <1>1
      <3>1. k # at
        BY <2>1
      <3>2. PICK i \in 1 .. Len(cache) - 1 : place(i) = k
        BY <2>5, <3>1
      <3>. QED
        BY <2>2, <3>2
    <2>11. \A u : Recent(cache, u) => Recent(w, u)
      BY <1>1, <2>2, <2>3, <2>4 DEF Recent
    <2>. QED
      BY <1>1, <2>6, <2>7, <2>8, <2>9, <2>10, <2>11 DEF w
  <1>. QED
    BY <1>2, <1>3

\* An entry is put before others of other members, and its member is the one just
\* served.
LEMMA InFront ==
    ASSUME NEW w \in Seq(Entry), Distinct(w), NEW e \in Entry,
           \A i \in DOMAIN w : w[i].key # e.key,
           since \in [Members -> SUBSET Members], Recent(w, since), Used(e.key)
    PROVE  /\ <<e>> \o w \in Seq(Entry)
           /\ Len(<<e>> \o w) = Len(w) + 1
           /\ (<<e>> \o w)[1] = e
           /\ \A i \in DOMAIN w : (<<e>> \o w)[i + 1] = w[i]
           /\ \A i \in 2 .. Len(w) + 1 : i - 1 \in DOMAIN w /\ (<<e>> \o w)[i] = w[i - 1]
           /\ Distinct(<<e>> \o w)
           /\ Recent(<<e>> \o w, since')
  <1> DEFINE t == <<e>> \o w
  <1>1. Len(w) \in Nat /\ DOMAIN w = 1 .. Len(w)
    BY LenProperties
  <1>2. <<e>> \in Seq(Entry) /\ Len(<<e>>) = 1 /\ <<e>>[1] = e
    OBVIOUS
  <1>3. t \in Seq(Entry) /\ Len(t) = Len(w) + 1
        /\ \A i \in 1 .. Len(w) + 1 : t[i] = IF i <= 1 THEN <<e>>[i] ELSE w[i - 1]
    BY <1>1, <1>2, ConcatProperties
  <1>4. DOMAIN t = 1 .. Len(w) + 1
    BY <1>3, LenProperties
  <1> HIDE DEF t
  <1>5. t[1] = e /\ \A i \in DOMAIN w : t[i + 1] = w[i]
    BY <1>1, <1>2, <1>3
  <1>6. \A i \in 2 .. Len(w) + 1 : i - 1 \in DOMAIN w /\ t[i] = w[i - 1]
    BY <1>1, <1>3
  <1>7. \A i \in DOMAIN t : i = 1 \/ i \in 2 .. Len(w) + 1
    BY <1>1, <1>4
  <1>8. Distinct(t)
    <2> SUFFICES ASSUME NEW i \in DOMAIN t, NEW j \in DOMAIN t, t[i].key = t[j].key
                 PROVE  i = j
      BY DEF Distinct
    <2>1. CASE i = 1 /\ j = 1
      BY <2>1
    <2>2. CASE i = 1 /\ j \in 2 .. Len(w) + 1
      BY <2>2, <1>5, <1>6
    <2>3. CASE j = 1 /\ i \in 2 .. Len(w) + 1
      BY <2>3, <1>5, <1>6
    <2>4. CASE i \in 2 .. Len(w) + 1 /\ j \in 2 .. Len(w) + 1
      <3>1. i - 1 = j - 1
        BY <2>4, <1>6 DEF Distinct
      <3>. QED
        BY <3>1, <2>4
    <2>. QED
      BY <1>7, <2>1, <2>2, <2>3, <2>4
  <1>9. Recent(t, since')
    <2> SUFFICES ASSUME NEW i \in DOMAIN t, NEW j \in DOMAIN t, i < j
                 PROVE  t[i].key \in since'[t[j].key]
      BY DEF Recent
    <2>1. j \in 2 .. Len(w) + 1
      BY <1>1, <1>4, <1>7
    <2>2. j - 1 \in DOMAIN w /\ t[j] = w[j - 1] /\ t[j].key # e.key
      BY <2>1, <1>6
    <2>3. t[j].key \in Members
      <3>1. t[j] \in Entry
        BY <1>3, <1>4, ElementOfSeq
      <3>. QED
        BY <3>1 DEF Entry
    <2>4. since'[t[j].key] = since[t[j].key] \cup {e.key}
      BY <2>2, <2>3 DEF Used
    <2>5. CASE i = 1
      BY <2>4, <2>5, <1>5
    <2>6. CASE i \in 2 .. Len(w) + 1
      <3>1. i - 1 \in DOMAIN w /\ t[i] = w[i - 1] /\ i - 1 < j - 1
        BY <2>6, <1>6, <2>1
      <3>2. w[i - 1].key \in since[w[j - 1].key]
        BY <3>1, <2>2 DEF Recent
      <3>. QED
        BY <3>1, <3>2, <2>2, <2>4
    <2>. QED
      BY <1>7, <2>5, <2>6
  <1>. QED
    BY <1>3, <1>5, <1>6, <1>8, <1>9 DEF t

\* An entry with n others in front of it has had n other members served since.
LEMMA AsManySince ==
    ASSUME NEW s \in Seq(Entry), Distinct(s), NEW u, Recent(s, u),
           NEW n \in Nat, n + 1 \in DOMAIN s, IsFiniteSet(u[s[n + 1].key])
    PROVE  Cardinality(u[s[n + 1].key]) >= n
  <1> DEFINE S == u[s[n + 1].key]
             f == [i \in 1 .. n |-> s[i].key]
  <1>1. DOMAIN s = 1 .. Len(s) /\ Len(s) \in Nat
    BY LenProperties
  <1>2. \A i \in 1 .. n : i \in DOMAIN s /\ i < n + 1
    BY <1>1
  <1>3. f \in [1 .. n -> S]
    BY <1>2 DEF Recent
  <1>4. f \in Injection(1 .. n, S)
    BY <1>2, <1>3 DEF Injection, IsInjective, Distinct
  <1>5. Cardinality(1 .. n) = n
    BY FS_Interval
  <1>6. Cardinality(1 .. n) <= Cardinality(S)
    BY <1>4, FS_Injection
  <1>7. Cardinality(S) \in Nat
    BY FS_CardinalityType
  <1>. QED
    BY <1>5, <1>6, <1>7

\* Serving a member only adds to the members served since the others were.
LEMMA SinceGrows ==
    ASSUME since \in [Members -> SUBSET Members],
           \A n \in Members : IsFiniteSet(since[n]), NEW m \in Members, Used(m)
    PROVE  /\ since' \in [Members -> SUBSET Members]
           /\ \A n \in Members : IsFiniteSet(since'[n])
           /\ \A n \in Members : n # m =>
                 \A k \in Nat : Cardinality(since[n]) >= k => Cardinality(since'[n]) >= k
  <1>1. \A n \in Members : since'[n] = IF n = m THEN {} ELSE since[n] \cup {m}
    BY DEF Used
  <1>2. since' \in [Members -> SUBSET Members]
    BY DEF Used
  <1>3. \A n \in Members : IsFiniteSet(since'[n])
    <2> SUFFICES ASSUME NEW n \in Members PROVE IsFiniteSet(since'[n])
      OBVIOUS
    <2>1. IsFiniteSet({}) /\ IsFiniteSet(since[n] \cup {m})
      BY FS_EmptySet, FS_AddElement
    <2>. QED
      BY <1>1, <2>1
  <1>4. ASSUME NEW n \in Members, n # m, NEW k \in Nat, Cardinality(since[n]) >= k
        PROVE  Cardinality(since'[n]) >= k
    <2>1. since[n] \subseteq since'[n]
      BY <1>1, <1>4
    <2>2. Cardinality(since[n]) <= Cardinality(since'[n])
      BY <1>3, <2>1, FS_Subset
    <2>3. Cardinality(since[n]) \in Nat /\ Cardinality(since'[n]) \in Nat
      BY <1>3, FS_CardinalityType
    <2>. QED
      BY <1>4, <2>2, <2>3
  <1>. QED
    BY <1>2, <1>3, <1>4

\* The cache after its entry for a member went to, or was made at, the front.
LEMMA OnTop ==
    ASSUME TypeOK, Recent(cache, since), NEW e \in Entry, Used(e.key)
    PROVE  LET t == <<e>> \o Without(e.key) IN
           /\ t \in Seq(Entry)
           /\ Len(t) \in 1 .. Len(cache) + 1
           /\ Cached(e.key) => Len(t) = Len(cache)
           /\ t[1] = e
           /\ Distinct(t)
           /\ Recent(t, since')
           /\ \A i \in DOMAIN t :
                 t[i] = e \/ (t[i].key # e.key /\ \E k \in DOMAIN cache : t[i] = cache[k])
           /\ \A k \in DOMAIN cache :
                 cache[k].key # e.key => \E i \in DOMAIN t : t[i] = cache[k]
  <1> DEFINE t == <<e>> \o Without(e.key)
  <1> DEFINE w == Without(e.key)
  <1>1. cache \in Seq(Entry) /\ Distinct(cache) /\ e.key \in Members
        /\ since \in [Members -> SUBSET Members]
    BY DEF TypeOK, Distinct, Entry
  <1>2. /\ w \in Seq(Entry)
        /\ Len(w) <= Len(cache)
        /\ Cached(e.key) => Len(w) = Len(cache) - 1
        /\ Distinct(w)
        /\ \A i \in DOMAIN w : w[i].key # e.key
        /\ \A i \in DOMAIN w : \E k \in DOMAIN cache : w[i] = cache[k]
        /\ \A k \in DOMAIN cache : cache[k].key # e.key => \E i \in DOMAIN w : w[i] = cache[k]
        /\ Recent(w, since)
    BY <1>1, WithoutKeeps
  <1> HIDE DEF w
  <1>3. /\ t \in Seq(Entry)
        /\ Len(t) = Len(w) + 1
        /\ t[1] = e
        /\ \A i \in DOMAIN w : t[i + 1] = w[i]
        /\ \A i \in 2 .. Len(w) + 1 : i - 1 \in DOMAIN w /\ t[i] = w[i - 1]
        /\ Distinct(t)
        /\ Recent(t, since')
    BY <1>1, <1>2, InFront DEF w
  <1> HIDE DEF t
  <1>4. Len(w) \in Nat /\ Len(cache) \in Nat /\ DOMAIN w = 1 .. Len(w)
        /\ DOMAIN t = 1 .. Len(w) + 1
    BY <1>1, <1>2, <1>3, LenProperties
  <1>5. \A i \in DOMAIN t : i = 1 \/ i \in 2 .. Len(w) + 1
    BY <1>4
  <1>6. \A i \in DOMAIN w : i + 1 \in DOMAIN t
    BY <1>4
  <1>7. ASSUME NEW i \in DOMAIN t
        PROVE  t[i] = e \/ (t[i].key # e.key /\ \E k \in DOMAIN cache : t[i] = cache[k])
    <2>1. CASE i = 1
      BY <1>3, <2>1
    <2>2. CASE i \in 2 .. Len(w) + 1
      BY <1>2, <1>3, <2>2
    <2>. QED
      BY <1>5, <2>1, <2>2
  <1>8. ASSUME NEW k \in DOMAIN cache, cache[k].key # e.key
        PROVE  \E i \in DOMAIN t : t[i] = cache[k]
    <2>1. PICK i \in DOMAIN w : w[i] = cache[k]
      BY <1>2, <1>8
    <2>. QED
      BY <1>3, <1>6, <2>1
  <1>9. Len(t) \in 1 .. Len(cache) + 1 /\ (Cached(e.key) => Len(t) = Len(cache))
    BY <1>2, <1>3, <1>4
  <1>. QED
    BY <1>3, <1>7, <1>8, <1>9 DEF t

-----------------------------------------------------------------------------
(* The inductive invariant                                                   *)

FiniteSince == \A m \in Members : IsFiniteSet(since[m])

\* What was cached is about a check-in not later than the time it expires from.
LastKnown ==
    \A m \in Members :
        last[m] # Null =>
            /\ last[m].visit \in 1 .. Len(visits)
            /\ visits[last[m].visit].at + TTL <= last[m].expires

CallsKnown ==
    \A c \in Callers :
        calls[c] # Null /\ calls[c].stage = "set" =>
            /\ calls[c].visit \in 1 .. Len(visits)
            /\ visits[calls[c].visit].at <= now

OneAtATime ==
    \A c, d \in Callers :
        /\ Working(c) /\ Working(d)
        /\ calls[c].member = calls[d].member
        /\ calls[c].member \notin Impatient
        => c = d

Overtaken(m) == \/ last[m] = Null
                \/ now >= last[m].expires
                \/ Cardinality(since[m]) >= MaxEntries

MissedRightly ==
    \A c \in Callers :
        /\ calls[c] # Null /\ calls[c].stage = "commit"
        /\ calls[c].member \notin Impatient
        => Overtaken(calls[c].member)

IInv ==
    /\ TypeOK
    /\ CacheHoldsLatest
    /\ FreshAnswerKept
    /\ Recent(cache, since)
    /\ FiniteSince
    /\ LastKnown
    /\ CallsKnown
    /\ OneAtATime
    /\ MissedRightly

LEMMA InitIInv == Init => IInv
  <1> SUFFICES ASSUME Init PROVE IInv
    OBVIOUS
  <1> USE DEF Init
  <1>1. TypeOK
    BY KioskAssumption DEF TypeOK
  <1>2. CacheHoldsLatest /\ FreshAnswerKept /\ Recent(cache, since)
    BY DEF CacheHoldsLatest, FreshAnswerKept, Recent
  <1>3. FiniteSince
    BY FS_EmptySet DEF FiniteSince
  <1>4. LastKnown /\ CallsKnown /\ OneAtATime /\ MissedRightly
    BY DEF LastKnown, CallsKnown, OneAtATime, Working, MissedRightly
  <1>. QED
    BY <1>1, <1>2, <1>3, <1>4 DEF IInv

-----------------------------------------------------------------------------
(* One lemma for each action                                                 *)

LEMMA HitStep ==
    ASSUME IInv, NEW c \in Callers, Hit(c)
    PROVE  IInv'
  <1> USE DEF IInv
  <1>1. PICK m \in Members :
            /\ calls[c] = Null /\ Waits(m)
            /\ Cached(m) /\ Fresh(EntryOf(m))
            /\ calls' = [calls EXCEPT ![c] = [stage |-> "answered", member |-> m,
                                              visit |-> EntryOf(m).visit]]
            /\ cache' = <<EntryOf(m)>> \o Without(m)
            /\ Used(m)
            /\ UNCHANGED <<now, visits, last>>
    BY DEF Hit
  <1>2. PICK e \in Entry : e = EntryOf(m) /\ e.key = m /\ e = last[m]
    <2>1. PICK at \in 1 .. Len(cache) : cache[at].key = m /\ EntryOf(m) = cache[at]
      BY <1>1, WithoutCached DEF TypeOK, Distinct
    <2>2. cache \in Seq(Entry)
      BY DEF TypeOK
    <2>. QED
      BY <2>1, <2>2, ElementOfSeq, LenProperties DEF CacheHoldsLatest
  <1>3. cache' = <<e>> \o Without(e.key) /\ Used(e.key) /\ Cached(e.key)
    BY <1>1, <1>2
  <1>4. e.key = m /\ e = last[m]
    BY <1>2
  <1>5. /\ cache' \in Seq(Entry)
        /\ Len(cache') = Len(cache) /\ Len(cache') \in 1 .. Len(cache) + 1
        /\ cache'[1] = e
        /\ Distinct(cache')
        /\ Recent(cache', since')
        /\ \A i \in DOMAIN cache' :
              cache'[i] = e
              \/ (cache'[i].key # e.key /\ \E k \in DOMAIN cache : cache'[i] = cache[k])
        /\ \A k \in DOMAIN cache :
              cache[k].key # e.key => \E i \in DOMAIN cache' : cache'[i] = cache[k]
    <2> DEFINE t == <<e>> \o Without(e.key)
    <2>1. /\ t \in Seq(Entry)
          /\ Len(t) \in 1 .. Len(cache) + 1
          /\ Cached(e.key) => Len(t) = Len(cache)
          /\ t[1] = e
          /\ Distinct(t)
          /\ Recent(t, since')
          /\ \A i \in DOMAIN t :
                t[i] = e \/ (t[i].key # e.key /\ \E k \in DOMAIN cache : t[i] = cache[k])
          /\ \A k \in DOMAIN cache :
                cache[k].key # e.key => \E i \in DOMAIN t : t[i] = cache[k]
      BY <1>3, OnTop
    <2>2. cache' = t
      BY <1>3
    <2> HIDE DEF t
    <2>3. cache' \in Seq(Entry)
      BY <2>1, <2>2
    <2>4. Len(cache') = Len(cache) /\ Len(cache') \in 1 .. Len(cache) + 1
      BY <1>3, <2>1, <2>2
    <2>5. cache'[1] = e
      BY <2>1, <2>2
    <2>6. Distinct(cache')
      BY <2>1, <2>2 DEF Distinct
    <2>7. Recent(cache', since')
      BY <2>1, <2>2 DEF Recent
    <2>8. \A i \in DOMAIN cache' :
              cache'[i] = e
              \/ (cache'[i].key # e.key /\ \E k \in DOMAIN cache : cache'[i] = cache[k])
      BY <2>1, <2>2
    <2>9. \A k \in DOMAIN cache :
              cache[k].key # e.key => \E i \in DOMAIN cache' : cache'[i] = cache[k]
      BY <2>1, <2>2
    <2>. QED
      BY <2>3, <2>4, <2>5, <2>6, <2>7, <2>8, <2>9
  <1>6. /\ since' \in [Members -> SUBSET Members]
        /\ FiniteSince'
        /\ \A n \in Members : n # m =>
              \A k \in Nat : Cardinality(since[n]) >= k => Cardinality(since'[n]) >= k
    BY <1>1, SinceGrows DEF TypeOK, FiniteSince
  <1>7. DOMAIN cache' = 1 .. Len(cache')
    BY <1>5, LenProperties
  <1>8. TypeOK'
    <2>1. calls' \in [Callers -> Call \cup {Null}]
      BY <1>1, <1>2 DEF TypeOK, Call, Entry
    <2>. QED
      BY <1>1, <1>5, <1>6, <2>1 DEF TypeOK, Distinct
  <1>9. CacheHoldsLatest'
    <2> SUFFICES ASSUME NEW i \in DOMAIN cache' PROVE cache'[i] = last[cache'[i].key]
      BY <1>1 DEF CacheHoldsLatest
    <2>1. CASE cache'[i] = e
      BY <1>4, <2>1
    <2>2. CASE \E k \in DOMAIN cache : cache'[i] = cache[k]
      BY <2>2 DEF CacheHoldsLatest
    <2>. QED
      BY <1>5, <2>1, <2>2
  <1>10. FreshAnswerKept'
    <2> SUFFICES ASSUME NEW n \in Members,
                        last[n] # Null, Fresh(last[n]), ~Cached(n)'
                 PROVE  Cardinality(since'[n]) >= MaxEntries
      BY <1>1 DEF FreshAnswerKept, Fresh
    <2>1. n # m
      BY <1>4, <1>5, <1>7 DEF Cached
    <2>2. ~Cached(n)
      BY <1>4, <1>5, <2>1 DEF Cached
    <2>. QED
      BY <1>6, <2>1, <2>2, KioskAssumption DEF FreshAnswerKept
  <1>11. LastKnown' /\ CallsKnown'
    BY <1>1 DEF LastKnown, CallsKnown, TypeOK
  <1>12. OneAtATime'
    BY <1>1 DEF OneAtATime, Working, TypeOK
  <1>13. MissedRightly'
    <2> SUFFICES ASSUME NEW d \in Callers, calls'[d] # Null, calls'[d].stage = "commit",
                        calls'[d].member \notin Impatient
                 PROVE  Overtaken(calls[d].member)'
      BY DEF MissedRightly
    <2>1. d # c /\ calls'[d] = calls[d]
      BY <1>1 DEF TypeOK
    <2>2. calls[d].member # m /\ calls[d].member \in Members
      BY <1>1, <2>1 DEF Waits, Working, TypeOK, Call
    <2>3. Overtaken(calls[d].member)
      BY <2>1 DEF MissedRightly
    <2>. QED
      BY <1>1, <1>6, <2>1, <2>2, <2>3, KioskAssumption DEF Overtaken
  <1>. QED
    BY <1>5, <1>6, <1>8, <1>9, <1>10, <1>11, <1>12, <1>13

LEMMA MissStep ==
    ASSUME IInv, NEW c \in Callers, Miss(c)
    PROVE  IInv'
  <1> USE DEF IInv
  <1>1. PICK m \in Members :
            /\ calls[c] = Null /\ Waits(m)
            /\ ~(Cached(m) /\ Fresh(EntryOf(m)))
            /\ calls' = [calls EXCEPT ![c] = [stage |-> "commit", member |-> m,
                                              visit |-> 0]]
            /\ cache' = Without(m)
            /\ UNCHANGED <<now, visits, last, since>>
    BY DEF Miss
  <1>2. /\ cache' \in Seq(Entry)
        /\ Len(cache') <= Len(cache)
        /\ Distinct(cache')
        /\ \A i \in DOMAIN cache' : cache'[i].key # m
        /\ \A i \in DOMAIN cache' : \E k \in DOMAIN cache : cache'[i] = cache[k]
        /\ \A k \in DOMAIN cache :
              cache[k].key # m => \E i \in DOMAIN cache' : cache'[i] = cache[k]
        /\ Recent(cache, since) => Recent(cache', since)
    BY <1>1, WithoutKeeps DEF TypeOK, Distinct
  <1>3. Overtaken(m)
    <2>1. CASE Cached(m)
      <3>1. PICK at \in 1 .. Len(cache) : cache[at].key = m /\ EntryOf(m) = cache[at]
        BY <2>1, WithoutCached DEF TypeOK, Distinct
      <3>2. cache \in Seq(Entry) /\ at \in DOMAIN cache
        BY <3>1, LenProperties DEF TypeOK
      <3>3. cache[at] \in Entry /\ cache[at] = last[m]
        BY <3>1, <3>2, ElementOfSeq DEF CacheHoldsLatest
      <3>. QED
        BY <1>1, <2>1, <3>1, <3>3 DEF Overtaken, Fresh, Entry, TypeOK
    <2>2. CASE ~Cached(m)
      <3>1. CASE last[m] = Null
        BY <3>1 DEF Overtaken
      <3>2. CASE last[m] # Null
        <4>1. last[m] \in Entry
          BY <3>2 DEF TypeOK
        <4>. QED
          BY <2>2, <3>2, <4>1 DEF Overtaken, FreshAnswerKept, Fresh, Entry, TypeOK
      <3>. QED
        BY <3>1, <3>2
    <2>. QED
      BY <2>1, <2>2
  <1>4. TypeOK'
    <2>1. calls' \in [Callers -> Call \cup {Null}]
      BY <1>1 DEF TypeOK, Call
    <2>2. Len(cache) \in Nat /\ Len(cache') \in Nat
      BY <1>2, LenProperties DEF TypeOK
    <2>. QED
      BY <1>1, <1>2, <2>1, <2>2, KioskAssumption DEF TypeOK, Distinct
  <1>5. CacheHoldsLatest'
    BY <1>1, <1>2 DEF CacheHoldsLatest
  <1>6. FreshAnswerKept'
    <2> SUFFICES ASSUME NEW n \in Members,
                        last[n] # Null, Fresh(last[n]), ~Cached(n)'
                 PROVE  Cardinality(since[n]) >= MaxEntries
      BY <1>1 DEF FreshAnswerKept, Fresh
    <2>1. CASE n # m
      <3>1. ~Cached(n)
        BY <1>2, <2>1 DEF Cached
      <3>. QED
        BY <3>1 DEF FreshAnswerKept
    <2>2. CASE n = m
      <3>1. last[m] \in Entry
        BY <2>2 DEF TypeOK
      <3>. QED
        BY <1>3, <2>2, <3>1 DEF Overtaken, Fresh, Entry, TypeOK
    <2>. QED
      BY <2>1, <2>2
  <1>7. LastKnown' /\ CallsKnown' /\ FiniteSince' /\ Recent(cache, since)'
    BY <1>1, <1>2 DEF LastKnown, CallsKnown, FiniteSince, TypeOK
  <1>8. OneAtATime'
    <2> SUFFICES ASSUME NEW d \in Callers, NEW f \in Callers,
                        Working(d)', Working(f)', calls'[d].member = calls'[f].member,
                        calls'[d].member \notin Impatient
                 PROVE  d = f
      BY DEF OneAtATime
    <2>1. \A g \in Callers : g # c => calls'[g] = calls[g]
      BY <1>1 DEF TypeOK
    <2>2. calls'[c].member = m
      BY <1>1 DEF TypeOK
    <2>3. CASE d # c /\ f # c
      BY <2>1, <2>3 DEF OneAtATime, Working
    <2>4. CASE d = c /\ f # c
      BY <1>1, <2>1, <2>2, <2>4 DEF Waits, Working
    <2>5. CASE d # c /\ f = c
      BY <1>1, <2>1, <2>2, <2>5 DEF Waits, Working
    <2>. QED
      BY <2>3, <2>4, <2>5
  <1>9. MissedRightly'
    BY <1>1, <1>3 DEF MissedRightly, Overtaken, TypeOK
  <1>. QED
    BY <1>4, <1>5, <1>6, <1>7, <1>8, <1>9

LEMMA CheckInStep ==
    ASSUME IInv, NEW c \in Callers, CheckIn(c)
    PROVE  IInv'
  <1> USE DEF IInv
  <1> DEFINE v == [member |-> calls[c].member, at |-> now]
  <1>1. /\ calls[c] # Null /\ calls[c].stage = "commit"
        /\ visits' = Append(visits, v)
        /\ calls' = [calls EXCEPT ![c] = [stage |-> "set", member |-> calls[c].member,
                                          visit |-> Len(visits')]]
        /\ UNCHANGED <<now, cache, last, since>>
    BY DEF CheckIn
  <1>2. calls[c] \in Call /\ visits \in Seq([member : Members, at : Nat]) /\ now \in Nat
    BY <1>1 DEF TypeOK
  <1>3. v \in [member : Members, at : Nat]
    BY <1>2 DEF Call
  <1>4. /\ visits' \in Seq([member : Members, at : Nat])
        /\ Len(visits') = Len(visits) + 1 /\ Len(visits) \in Nat
        /\ \A i \in 1 .. Len(visits) : visits'[i] = visits[i]
        /\ visits'[Len(visits) + 1] = v
    BY <1>1, <1>2, <1>3, AppendProperties, LenProperties
  <1> HIDE DEF v
  <1>5. /\ \A d \in Callers : d # c => calls'[d] = calls[d]
        /\ calls'[c].stage = "set" /\ calls'[c].visit = Len(visits) + 1
        /\ calls'[c].member = calls[c].member
        /\ calls' \in [Callers -> Call \cup {Null}]
    BY <1>1, <1>2, <1>4 DEF TypeOK, Call
  <1>6. TypeOK'
    BY <1>1, <1>4, <1>5 DEF TypeOK
  <1>7. CacheHoldsLatest' /\ FreshAnswerKept' /\ Recent(cache, since)' /\ FiniteSince'
    BY <1>1 DEF CacheHoldsLatest, FreshAnswerKept, Fresh, Cached, Recent, FiniteSince
  <1>8. LastKnown'
    BY <1>1, <1>4 DEF LastKnown
  <1>9. CallsKnown'
    <2> SUFFICES ASSUME NEW d \in Callers, calls'[d] # Null, calls'[d].stage = "set"
                 PROVE  /\ calls'[d].visit \in 1 .. Len(visits')
                        /\ visits'[calls'[d].visit].at <= now'
      BY DEF CallsKnown
    <2>1. CASE d = c
      BY <1>1, <1>2, <1>4, <1>5, <2>1 DEF v
    <2>2. CASE d # c
      BY <1>1, <1>4, <1>5, <2>2 DEF CallsKnown
    <2>. QED
      BY <2>1, <2>2
  <1>10. OneAtATime'
    <2>1. \A d \in Callers : Working(d)' => Working(d)
      BY <1>1, <1>5 DEF Working
    <2>2. \A d \in Callers : calls'[d].member = calls[d].member
      BY <1>5
    <2>. QED
      BY <2>1, <2>2 DEF OneAtATime
  <1>11. MissedRightly'
    BY <1>1, <1>5 DEF MissedRightly, Overtaken
  <1>. QED
    BY <1>6, <1>7, <1>8, <1>9, <1>10, <1>11

\* Answering a caller touches its own request only, and leaves it a request.
LEMMA Answered ==
    ASSUME calls \in [Callers -> Call \cup {Null}],
           NEW c \in Callers, calls[c] # Null,
           calls' = [calls EXCEPT ![c].stage = "answered"]
    PROVE  /\ \A d \in Callers : d # c => calls'[d] = calls[d]
           /\ calls'[c].stage = "answered"
           /\ calls' \in [Callers -> Call \cup {Null}]
  <1>1. PICK x \in Call : x = calls[c]
    OBVIOUS
  <1>2. PICK y : y = [x EXCEPT !.stage = "answered"]
    OBVIOUS
  <1>3. y \in Call /\ y.stage = "answered"
    BY <1>2 DEF Call
  <1>4. calls' = [calls EXCEPT ![c] = y]
    BY <1>1, <1>2
  <1> HIDE DEF Call
  <1>5. \A d \in Callers : calls'[d] = IF d = c THEN y ELSE calls[d]
    BY <1>4
  <1>6. calls' \in [Callers -> Call \cup {Null}]
    BY <1>3, <1>4
  <1>. QED
    BY <1>3, <1>5, <1>6

\* A caller whose request is answered is out of the way of the others.
LEMMA Aside ==
    ASSUME IInv, NEW c \in Callers, UNCHANGED <<now, visits>>,
           \A d \in Callers : d # c => calls'[d] = calls[d],
           calls'[c] = Null \/ calls'[c].stage = "answered"
    PROVE  /\ CallsKnown'
           /\ OneAtATime'
           /\ \A d \in Callers : calls'[d] # Null /\ calls'[d].stage = "commit" =>
                 d # c /\ calls'[d] = calls[d]
  <1> USE DEF IInv
  <1>1. CallsKnown'
    BY DEF CallsKnown
  <1>2. \A d \in Callers : Working(d)' => Working(d) /\ calls'[d] = calls[d]
    BY DEF Working
  <1>3. OneAtATime'
    BY <1>2 DEF OneAtATime
  <1>. QED
    BY <1>1, <1>3

LEMMA RefusedStep ==
    ASSUME IInv, NEW c \in Callers, Refused(c)
    PROVE  IInv'
  <1> USE DEF IInv
  <1>1. /\ calls[c] # Null /\ calls[c].stage = "commit"
        /\ calls' = [calls EXCEPT ![c].stage = "answered"]
        /\ UNCHANGED <<now, visits, cache, last, since>>
    BY DEF Refused
  <1>2. /\ \A d \in Callers : d # c => calls'[d] = calls[d]
        /\ calls'[c].stage = "answered"
        /\ calls' \in [Callers -> Call \cup {Null}]
    BY <1>1, Answered DEF TypeOK
  <1>3. TypeOK'
    BY <1>1, <1>2 DEF TypeOK
  <1>4. CacheHoldsLatest' /\ FreshAnswerKept' /\ Recent(cache, since)' /\ FiniteSince'
    BY <1>1 DEF CacheHoldsLatest, FreshAnswerKept, Fresh, Cached, Recent, FiniteSince
  <1>5. LastKnown'
    BY <1>1 DEF LastKnown
  <1>6. CallsKnown' /\ OneAtATime'
        /\ \A d \in Callers : calls'[d] # Null /\ calls'[d].stage = "commit" =>
              d # c /\ calls'[d] = calls[d]
    BY <1>1, <1>2, Aside
  <1>7. MissedRightly'
    BY <1>1, <1>6 DEF MissedRightly, Overtaken
  <1>. QED
    BY <1>3, <1>4, <1>5, <1>6, <1>7

LEMMA AnswerStep ==
    ASSUME IInv, NEW c \in Callers, Answer(c)
    PROVE  IInv'
  <1> USE DEF IInv
  <1>1. PICK e : e = [key |-> calls[c].member, visit |-> calls[c].visit,
                      expires |-> now + TTL]
    OBVIOUS
  <1>2. /\ calls[c] # Null /\ calls[c].stage = "set"
        /\ cache' = Put(e)
        /\ last' = [last EXCEPT ![e.key] = e]
        /\ calls' = [calls EXCEPT ![c].stage = "answered"]
        /\ Used(calls[c].member)
        /\ UNCHANGED <<now, visits>>
    BY <1>1 DEF Answer
  <1>3. /\ e \in Entry
        /\ e.key = calls[c].member /\ e.visit = calls[c].visit
        /\ e.expires = now + TTL
        /\ Used(e.key)
    BY <1>1, <1>2, KioskAssumption DEF Entry, TypeOK, Call
  <1>4. /\ \A d \in Callers : d # c => calls'[d] = calls[d]
        /\ calls'[c].stage = "answered"
        /\ calls' \in [Callers -> Call \cup {Null}]
    BY <1>2, Answered DEF TypeOK
  <1>5. PICK t :
            /\ t = <<e>> \o Without(e.key)
            /\ t \in Seq(Entry)
            /\ Len(t) \in 1 .. Len(cache) + 1
            /\ t[1] = e
            /\ Distinct(t)
            /\ Recent(t, since')
            /\ \A i \in DOMAIN t :
                  t[i] = e \/ (t[i].key # e.key /\ \E k \in DOMAIN cache : t[i] = cache[k])
            /\ \A k \in DOMAIN cache :
                  cache[k].key # e.key => \E i \in DOMAIN t : t[i] = cache[k]
    <2> DEFINE u == <<e>> \o Without(e.key)
    <2>1. /\ u \in Seq(Entry)
          /\ Len(u) \in 1 .. Len(cache) + 1
          /\ u[1] = e
          /\ Distinct(u)
          /\ Recent(u, since')
          /\ \A i \in DOMAIN u :
                u[i] = e \/ (u[i].key # e.key /\ \E k \in DOMAIN cache : u[i] = cache[k])
          /\ \A k \in DOMAIN cache :
                cache[k].key # e.key => \E i \in DOMAIN u : u[i] = cache[k]
      BY <1>3, OnTop
    <2>2. \E t : t = u
      OBVIOUS
    <2> HIDE DEF u
    <2>3. PICK t : t = u
      BY <2>2
    <2>. QED
      BY <2>1, <2>3, Zenon DEF u
  <1>6. PICK n \in 1 .. Len(t) :
            /\ cache' = SubSeq(t, 1, n)
            /\ n <= MaxEntries
            /\ n < Len(t) => Len(t) = MaxEntries + 1 /\ n = MaxEntries
    <2> DEFINE k == IF Len(t) > MaxEntries THEN MaxEntries ELSE Len(t)
    <2>1. cache' = SubSeq(t, 1, k)
      BY <1>2, <1>5 DEF Put
    <2>2. Len(cache) \in Nat /\ Len(cache) <= MaxEntries
      BY LenProperties DEF TypeOK
    <2>3. k \in 1 .. Len(t) /\ k <= MaxEntries
          /\ (k < Len(t) => Len(t) = MaxEntries + 1 /\ k = MaxEntries)
      BY <1>5, <2>2, KioskAssumption
    <2>. QED
      BY <2>1, <2>3
  <1>7. DOMAIN t = 1 .. Len(t) /\ Len(t) \in Nat
    BY <1>5, LenProperties
  <1>8. /\ cache' \in Seq(Entry)
        /\ Len(cache') = n
        /\ DOMAIN cache' = 1 .. n
        /\ \A i \in 1 .. n : i \in DOMAIN t /\ cache'[i] = t[i]
    <2>1. \A i \in 1 .. n : t[i] \in Entry
      BY <1>5, <1>7, ElementOfSeq
    <2>2. cache' \in Seq(Entry) /\ Len(cache') = n /\ \A i \in 1 .. n : cache'[i] = t[i]
      BY <1>5, <1>6, <1>7, SubSeqProperties
    <2>. QED
      BY <1>7, <2>2, LenProperties
  <1>9. /\ since' \in [Members -> SUBSET Members]
        /\ \A m \in Members : IsFiniteSet(since'[m])
        /\ \A m \in Members : m # e.key =>
              \A k \in Nat : Cardinality(since[m]) >= k => Cardinality(since'[m]) >= k
    BY <1>2, <1>3, SinceGrows DEF TypeOK, FiniteSince, Entry
  <1>10. e.key \in Members /\ last'[e.key] = e
         /\ \A m \in Members : m # e.key => last'[m] = last[m]
    BY <1>2, <1>3 DEF TypeOK, Entry
  <1>11. TypeOK'
    <2>1. ASSUME NEW i \in DOMAIN cache', NEW j \in DOMAIN cache',
                 cache'[i].key = cache'[j].key
          PROVE  i = j
      <3>1. i \in DOMAIN t /\ j \in DOMAIN t /\ t[i].key = t[j].key
        BY <1>8, <2>1
      <3>. QED
        BY <1>5, <3>1 DEF Distinct
    <2>2. now' \in Nat /\ visits' \in Seq([member : Members, at : Nat])
      BY <1>2 DEF TypeOK
    <2>3. Len(cache') <= MaxEntries
      BY <1>6, <1>8
    <2>4. \A i, j \in DOMAIN cache' : cache'[i].key = cache'[j].key => i = j
      BY <2>1
    <2>5. cache' \in Seq(Entry)
      BY <1>8
    <2>6. calls' \in [Callers -> Call \cup {Null}]
      BY <1>4
    <2>7. last' \in [Members -> Entry \cup {Null}]
      BY <1>2, <1>3 DEF TypeOK
    <2>8. since' \in [Members -> SUBSET Members]
      BY <1>9
    <2>. QED
      BY <2>2, <2>3, <2>4, <2>5, <2>6, <2>7, <2>8, Zenon DEF TypeOK
  <1>12. CacheHoldsLatest'
    <2> SUFFICES ASSUME NEW i \in DOMAIN cache'
                 PROVE  cache'[i] = last'[cache'[i].key]
      BY DEF CacheHoldsLatest
    <2>1. CASE t[i] = e
      BY <1>8, <1>10, <2>1
    <2>2. CASE t[i].key # e.key /\ \E k \in DOMAIN cache : t[i] = cache[k]
      <3>1. t[i].key \in Members
        <4>1. t[i] \in Entry
          BY <1>5, <1>8, ElementOfSeq, <1>7
        <4>. QED
          BY <4>1 DEF Entry
      <3>. QED
        BY <1>8, <1>10, <2>2, <3>1 DEF CacheHoldsLatest
    <2>. QED
      BY <1>5, <1>8, <2>1, <2>2
  <1>13. FreshAnswerKept'
    <2> SUFFICES ASSUME NEW m \in Members, last'[m] # Null, Fresh(last'[m]),
                        \A i \in DOMAIN cache' : cache'[i].key # m
                 PROVE  Cardinality(since'[m]) >= MaxEntries
      BY <1>2 DEF FreshAnswerKept, Fresh, Cached
    <2>1. m # e.key /\ last'[m] = last[m]
      <3>1. 1 \in DOMAIN cache' /\ cache'[1] = e
        BY <1>5, <1>6, <1>7, <1>8
      <3>. QED
        BY <1>10, <3>1
    <2>2. CASE Cached(m)
      <3>1. PICK i \in DOMAIN t : t[i].key = m
        BY <1>5, <2>1, <2>2 DEF Cached
      <3>2. i \notin 1 .. n
        <4>1. \A k \in 1 .. n : t[k].key # m
          BY <1>8
        <4>. QED
          BY <3>1, <4>1
      <3>3. i = MaxEntries + 1 /\ MaxEntries \in Nat
        <4>1. n \in Nat /\ i \in 1 .. Len(t) /\ n < i
          BY <1>6, <1>7, <3>2
        <4>2. n < Len(t)
          BY <1>7, <4>1
        <4>. QED
          BY <1>6, <1>7, <4>1, <4>2, KioskAssumption
      <3>4. MaxEntries + 1 \in DOMAIN t /\ t[MaxEntries + 1].key = m
        BY <3>1, <3>3
      <3>5. IsFiniteSet(since'[t[MaxEntries + 1].key])
        BY <1>9, <3>4
      <3>6. Cardinality(since'[t[MaxEntries + 1].key]) >= MaxEntries
        BY <1>5, <3>3, <3>4, <3>5, AsManySince
      <3>. QED
        BY <3>4, <3>6
    <2>3. CASE ~Cached(m)
      BY <1>9, <2>1, <2>3, KioskAssumption DEF FreshAnswerKept
    <2>. QED
      BY <2>2, <2>3
  <1>14. Recent(cache, since)'
    <2>1. ASSUME NEW i \in 1 .. n, NEW j \in 1 .. n, i < j
          PROVE  cache'[i].key \in since'[cache'[j].key]
      <3>1. i \in DOMAIN t /\ cache'[i] = t[i]
        BY <1>8
      <3>2. j \in DOMAIN t /\ cache'[j] = t[j]
        BY <1>8
      <3>3. t[i].key \in since'[t[j].key]
        BY <1>5, <2>1, <3>1, <3>2 DEF Recent
      <3>. QED
        BY <3>1, <3>2, <3>3
    <2>2. DOMAIN cache' = 1 .. n
      BY <1>8
    <2>. QED
      BY <2>1, <2>2 DEF Recent
  <1>15. FiniteSince'
    BY <1>9 DEF FiniteSince
  <1>16. LastKnown'
    <2> SUFFICES ASSUME NEW m \in Members, last'[m] # Null
                 PROVE  /\ last'[m].visit \in 1 .. Len(visits)
                        /\ visits[last'[m].visit].at + TTL <= last'[m].expires
      BY <1>2 DEF LastKnown
    <2>1. CASE m = e.key
      <3>1. e.visit \in 1 .. Len(visits) /\ visits[e.visit].at <= now
        BY <1>2, <1>3 DEF CallsKnown
      <3>2. visits[e.visit].at \in Nat /\ now \in Nat
        <4>1. visits[e.visit] \in [member : Members, at : Nat]
          BY <3>1, ElementOfSeq DEF TypeOK
        <4>. QED
          BY <4>1 DEF TypeOK
      <3>3. visits[e.visit].at + TTL <= e.expires
        BY <1>3, <3>1, <3>2, KioskAssumption
      <3>. QED
        BY <1>10, <2>1, <3>1, <3>3
    <2>2. CASE m # e.key
      BY <1>10, <2>2 DEF LastKnown
    <2>. QED
      BY <2>1, <2>2
  <1>17. CallsKnown' /\ OneAtATime'
         /\ \A d \in Callers : calls'[d] # Null /\ calls'[d].stage = "commit" =>
               d # c /\ calls'[d] = calls[d]
    BY <1>2, <1>4, Aside
  <1>18. MissedRightly'
    <2> SUFFICES ASSUME NEW d \in Callers, calls'[d] # Null, calls'[d].stage = "commit",
                        calls'[d].member \notin Impatient
                 PROVE  Overtaken(calls[d].member)'
      BY <1>17 DEF MissedRightly
    <2>1. d # c /\ calls'[d] = calls[d]
      BY <1>17
    <2>2. calls[d].member # e.key
      BY <1>2, <1>3, <2>1 DEF OneAtATime, Working
    <2>3. calls[d].member \in Members
      BY <2>1 DEF TypeOK, Call
    <2>4. Overtaken(calls[d].member)
      BY <2>1 DEF MissedRightly
    <2>5. last'[calls[d].member] = last[calls[d].member]
      BY <1>10, <2>2, <2>3
    <2>. QED
      BY <1>2, <1>9, <2>1, <2>2, <2>3, <2>4, <2>5, KioskAssumption DEF Overtaken
  <1>. QED
    BY <1>11, <1>12, <1>13, <1>14, <1>15, <1>16, <1>17, <1>18

LEMMA LeaveStep ==
    ASSUME IInv, NEW c \in Callers, Leave(c)
    PROVE  IInv'
  <1> USE DEF IInv
  <1>1. /\ calls' = [calls EXCEPT ![c] = Null]
        /\ UNCHANGED <<now, visits, cache, last, since>>
    BY DEF Leave
  <1>2. /\ \A d \in Callers : d # c => calls'[d] = calls[d]
        /\ calls'[c] = Null
        /\ calls' \in [Callers -> Call \cup {Null}]
    BY <1>1 DEF TypeOK
  <1>3. TypeOK'
    BY <1>1, <1>2 DEF TypeOK
  <1>4. CacheHoldsLatest' /\ FreshAnswerKept' /\ Recent(cache, since)' /\ FiniteSince'
    BY <1>1 DEF CacheHoldsLatest, FreshAnswerKept, Fresh, Cached, Recent, FiniteSince
  <1>5. LastKnown'
    BY <1>1 DEF LastKnown
  <1>6. CallsKnown' /\ OneAtATime'
        /\ \A d \in Callers : calls'[d] # Null /\ calls'[d].stage = "commit" =>
              d # c /\ calls'[d] = calls[d]
    BY <1>1, <1>2, Aside
  <1>7. MissedRightly'
    BY <1>1, <1>6 DEF MissedRightly, Overtaken
  <1>. QED
    BY <1>3, <1>4, <1>5, <1>6, <1>7

LEMMA RestartStep ==
    ASSUME IInv, Restart
    PROVE  IInv'
  <1> USE DEF IInv, Restart
  <1>1. TypeOK'
    BY KioskAssumption DEF TypeOK
  <1>2. CacheHoldsLatest' /\ FreshAnswerKept' /\ Recent(cache, since)' /\ FiniteSince'
    BY DEF CacheHoldsLatest, FreshAnswerKept, Recent, FiniteSince
  <1>3. LastKnown' /\ CallsKnown' /\ OneAtATime' /\ MissedRightly'
    BY DEF LastKnown, CallsKnown, OneAtATime, Working, MissedRightly
  <1>. QED
    BY <1>1, <1>2, <1>3

LEMMA TickStep ==
    ASSUME IInv, Tick
    PROVE  IInv'
  <1> USE DEF IInv
  <1>1. now' = now + 1 /\ now \in Nat /\ UNCHANGED <<visits, cache, calls, last, since>>
    BY DEF Tick, TypeOK
  <1>2. TypeOK'
    BY <1>1 DEF TypeOK
  <1>3. CacheHoldsLatest' /\ Recent(cache, since)' /\ FiniteSince' /\ LastKnown' /\ OneAtATime'
    BY <1>1 DEF CacheHoldsLatest, Recent, FiniteSince, LastKnown, OneAtATime, Working
  <1>4. \A m \in Members : last[m] # Null => last[m].expires \in Nat
    BY DEF TypeOK, Entry
  <1>5. FreshAnswerKept'
    BY <1>1, <1>4 DEF FreshAnswerKept, Fresh, Cached
  <1>6. CallsKnown'
    <2> SUFFICES ASSUME NEW c \in Callers, calls[c] # Null, calls[c].stage = "set"
                 PROVE  /\ calls[c].visit \in 1 .. Len(visits)
                        /\ visits[calls[c].visit].at <= now'
      BY <1>1 DEF CallsKnown
    <2>1. calls[c].visit \in 1 .. Len(visits) /\ visits[calls[c].visit].at <= now
      BY DEF CallsKnown
    <2>2. visits[calls[c].visit] \in [member : Members, at : Nat]
      BY <2>1, ElementOfSeq DEF TypeOK
    <2>. QED
      BY <1>1, <2>1, <2>2
  <1>7. MissedRightly'
    <2> SUFFICES ASSUME NEW c \in Callers, calls[c] # Null, calls[c].stage = "commit",
                        calls[c].member \notin Impatient
                 PROVE  Overtaken(calls[c].member)'
      BY <1>1 DEF MissedRightly
    <2>1. Overtaken(calls[c].member) /\ calls[c].member \in Members
      BY DEF MissedRightly, TypeOK, Call
    <2>. QED
      BY <1>1, <1>4, <2>1 DEF Overtaken
  <1>. QED
    BY <1>2, <1>3, <1>5, <1>6, <1>7

LEMMA StepIInv == IInv /\ [Next]_vars => IInv'
  <1> SUFFICES ASSUME IInv, [Next]_vars PROVE IInv'
    OBVIOUS
  <1>1. CASE \E c \in Callers : Handle(c)
    BY <1>1, HitStep, MissStep, CheckInStep, RefusedStep, AnswerStep, LeaveStep DEF Handle
  <1>2. CASE Restart
    BY <1>2, RestartStep
  <1>3. CASE Tick
    BY <1>3, TickStep
  <1>4. CASE UNCHANGED vars
    BY <1>4 DEF vars, IInv, TypeOK, CacheHoldsLatest, FreshAnswerKept, Fresh, Cached,
                Recent, FiniteSince, LastKnown, CallsKnown, OneAtATime, Working,
                MissedRightly, Overtaken
  <1>. QED
    BY <1>1, <1>2, <1>3, <1>4 DEF Next

LEMMA Invariance == Spec => []IInv
  BY InitIInv, StepIInv, PTL DEF Spec

-----------------------------------------------------------------------------
(* The results                                                               *)

\* The cache never holds two entries of a member and never more entries than it
\* has room for; LRU.Set and LRU.Get keep both through any interleaving.
THEOREM TypeCorrect == Spec => []TypeOK
  <1>1. IInv => TypeOK
    BY DEF IInv
  <1>. QED
    BY <1>1, Invariance, PTL

\* What the cache holds for a member is what was put there last (LRU.Set).
THEOREM CacheIsLatest == Spec => []CacheHoldsLatest
  <1>1. IInv => CacheHoldsLatest
    BY DEF IInv
  <1>. QED
    BY <1>1, Invariance, PTL

\* A fresh answer is only evicted when as many other members as the cache has
\* room for were served since (removeOldest, and Get's move to the front).
THEOREM FreshAnswersKept == Spec => []FreshAnswerKept
  <1>1. IInv => FreshAnswerKept
    BY DEF IInv
  <1>. QED
    BY <1>1, Invariance, PTL

\* A member that waits for its answers is checked in again within the TTL of a
\* check-in only when the cache had to drop the answer about it
\* (CheckInHandlers.Create).
THEOREM TapsDebounced == Spec => Debounced
  <1> DEFINE Bounced(c) ==
                 LET m == calls[c].member IN
                 \/ m \in Impatient
                 \/ last[m] = Null
                 \/ now - visits[last[m].visit].at >= TTL
                 \/ Cardinality(since[m]) >= MaxEntries
  <1>1. ASSUME IInv, NEW c \in Callers, CheckIn(c)
        PROVE  Bounced(c)
    <2> DEFINE m == calls[c].member
    <2>1. calls[c] # Null /\ calls[c].stage = "commit"
      BY <1>1 DEF CheckIn
    <2>2. m \in Members
      BY <1>1, <2>1 DEF IInv, TypeOK, Call
    <2>3. CASE m \in Impatient
      BY <2>3
    <2>4. CASE m \notin Impatient
      <3>1. Overtaken(m)
        BY <1>1, <2>1, <2>4 DEF IInv, MissedRightly
      <3>2. ASSUME last[m] # Null, now >= last[m].expires
            PROVE  now - visits[last[m].visit].at >= TTL
        <4>1. last[m].visit \in 1 .. Len(visits)
              /\ visits[last[m].visit].at + TTL <= last[m].expires
          BY <1>1, <2>2, <3>2 DEF IInv, LastKnown
        <4>2. visits[last[m].visit] \in [member : Members, at : Nat]
          BY <1>1, <4>1, ElementOfSeq DEF IInv, TypeOK
        <4>3. last[m].expires \in Nat /\ now \in Nat
          BY <1>1, <2>2, <3>2 DEF IInv, TypeOK, Entry
        <4>4. PICK since0 \in Nat : since0 = visits[last[m].visit].at
          BY <4>2
        <4>5. PICK until \in Nat : until = last[m].expires
          BY <4>3
        <4>6. since0 + TTL <= until /\ now >= until
          BY <3>2, <4>1, <4>4, <4>5
        <4>7. now - since0 >= TTL
          BY <4>3, <4>6, KioskAssumption
        <4>. QED
          BY <4>4, <4>7
      <3>3. CASE last[m] = Null \/ Cardinality(since[m]) >= MaxEntries
        BY <3>3
      <3>4. CASE last[m] # Null /\ now >= last[m].expires
        BY <3>2, <3>4
      <3>. QED
        BY <3>1, <3>3, <3>4, Zenon DEF Overtaken
    <2>. QED
      BY <2>3, <2>4
  <1>2. IInv /\ [Next]_vars => [\A c \in Callers : CheckIn(c) => Bounced(c)]_vars
    BY <1>1
  <1> HIDE DEF Bounced
  <1>3. Spec => [][\A c \in Callers : CheckIn(c) => Bounced(c)]_vars
    BY <1>2, Invariance, PTL DEF Spec
  <1>. QED
    BY <1>3 DEF Debounced, Bounced
================================================================================
