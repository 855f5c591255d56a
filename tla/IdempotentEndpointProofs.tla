---------------------- MODULE IdempotentEndpointProofs ----------------------
(***************************************************************************)
(* Theorems about IdempotentEndpoint: its types, for any constants, and    *)
(* that it implements OncePerKey under the assumptions named Calm.         *)
(***************************************************************************)
EXTENDS IdempotentEndpoint, TLAPS

\* Appending leaves the operations that are there in their places.
LEMMA Appended ==
    ASSUME NEW op \in Operation, log \in Seq(Operation)
    PROVE  /\ Append(log, op) \in Seq(Operation)
           /\ DOMAIN Append(log, op) = DOMAIN log \cup {Len(log) + 1}
           /\ Len(log) + 1 \notin DOMAIN log
           /\ \A i \in DOMAIN log : Append(log, op)[i] = log[i] /\ i <= Len(log)
           /\ Append(log, op)[Len(log) + 1] = op
           /\ Len(Append(log, op)) = Len(log) + 1
  OBVIOUS

\* The row that Store leaves under a key is the old one or the new one.
LEMMA StoredRows ==
    ASSUME TypeOK, NEW k \in Keys, NEW row \in StoredAnswer
    PROVE  /\ DOMAIN Stored(k, row) = DOMAIN rows \cup {k}
           /\ Stored(k, row) \in [DOMAIN rows \cup {k} -> StoredAnswer]
           /\ \A j \in DOMAIN rows : Stored(k, row)[j] = rows[j]
           /\ k \notin DOMAIN rows => Stored(k, row)[k] = row
  <1> USE DEF TypeOK, Stored
  <1>1. CASE k \in DOMAIN rows
    BY <1>1
  <1>2. CASE k \notin DOMAIN rows
    BY <1>2
  <1> QED
    BY <1>1, <1>2

-----------------------------------------------------------------------------
(***************************************************************************)
(* Types, for any constants.  A caller that is about to store has an       *)
(* answer.                                                                 *)
(***************************************************************************)

TInv ==
    /\ TypeOK
    /\ \A c \in Callers :
          calls[c] # Null /\ calls[c].stage = "save" => calls[c].response \in Nat

\* Every step keeps the types.
LEMMA TypesKept == TInv /\ [Next]_vars => TInv'
  <1> SUFFICES ASSUME TInv, [Next]_vars PROVE TInv'
    OBVIOUS
  <1> USE DEF TInv, TypeOK
  <1>1. CASE \E c \in Callers : Handle(c)
    <2>1. PICK c \in Callers : Handle(c)
      BY <1>1
    <2>2. ASSUME NEW k \in Keys, NEW b \in Bodies,
                 NEW stage \in {"execute", "answered"},
                 NEW response \in Nat \cup {Null},
                 Arrives(c, k, b, stage, response)
          PROVE  TInv'
      <3>1. [stage |-> stage, key |-> k, body |-> b,
             response |-> response] \in Call
        BY DEF Call
      <3> QED
        BY <3>1, <2>2 DEF Arrives
    <2>3. CASE Misses(c)
      BY <2>2, <2>3 DEF Misses
    <2>4. CASE Conflicts(c)
      BY <2>2, <2>4 DEF Conflicts
    <2>5. CASE Replays(c)
      <3>1. PICK k \in Keys, b \in Bodies :
              Fresh(k) /\ Arrives(c, k, b, "answered", rows[k].response)
        BY <2>5 DEF Replays
      <3>2. rows[k].response \in Nat
        BY <3>1 DEF Fresh, StoredAnswer
      <3> QED
        BY <2>2, <3>1, <3>2
    <2>6. CASE Performs(c)
      <3> DEFINE op == [key |-> calls[c].key, body |-> calls[c].body, at |-> now]
      <3>1. calls[c] \in Call /\ op \in Operation
        BY <2>6, EndpointAssumption DEF Performs, Call, Operation
      <3>2. log' \in Seq(Operation) /\ Len(log') \in Nat
        BY <2>6, <3>1 DEF Performs
      <3>3. calls' = [calls EXCEPT ![c] = [calls[c] EXCEPT !.stage = "save",
                                                           !.response = Len(log')]]
        BY <2>6 DEF Performs
      <3>4. [calls[c] EXCEPT !.stage = "save", !.response = Len(log')] \in Call
        BY <3>1, <3>2 DEF Call
      <3> QED
        BY <2>6, <3>1, <3>2, <3>3, <3>4 DEF Performs, Call
    <2>7. CASE Refuses(c)
      <3>1. calls[c] \in Call
        BY <2>7, EndpointAssumption DEF Refuses
      <3> QED
        BY <2>7, <3>1 DEF Refuses, Call
    <2>8. CASE Saves(c)
      <3>1. calls[c] \in Call
        BY <2>8 DEF Saves
      <3> DEFINE row == [body |-> calls[c].body, response |-> calls[c].response,
                         at |-> now]
      <3>2. calls[c].key \in Keys /\ row \in StoredAnswer
        <4>1. calls[c].response \in Nat
          BY <2>8 DEF Saves
        <4>2. calls[c].key \in Keys /\ calls[c].body \in Bodies
          BY <3>1 DEF Call
        <4> QED
          BY <4>1, <4>2 DEF StoredAnswer
      <3>3. DOMAIN rows' \subseteq Keys /\ rows' \in [DOMAIN rows' -> StoredAnswer]
        <4>1. rows' = Stored(calls[c].key, row)
          BY <2>8 DEF Saves
        <4>2. /\ DOMAIN Stored(calls[c].key, row) = DOMAIN rows \cup {calls[c].key}
              /\ Stored(calls[c].key, row)
                    \in [DOMAIN rows \cup {calls[c].key} -> StoredAnswer]
          BY <3>2, StoredRows
        <4>3. DOMAIN rows \subseteq Keys
          OBVIOUS
        <4> QED
          BY <3>2, <4>1, <4>2, <4>3
      <3> QED
        BY <2>8, <3>1, <3>3 DEF Saves, Call
    <2>9. CASE SaveFails(c)
      BY <2>9 DEF SaveFails, Call
    <2>10. CASE Errs(c) \/ Dies(c) \/ Leaves(c)
      BY <2>10 DEF Errs, Dies, Leaves
    <2> QED
      BY <2>1, <2>3, <2>4, <2>5, <2>6, <2>7, <2>8, <2>9, <2>10 DEF Handle
  <1>2. CASE CleanUp
    BY <1>2 DEF CleanUp
  <1>3. CASE Tick
    BY <1>3 DEF Tick
  <1>4. CASE UNCHANGED vars
    BY <1>4 DEF vars
  <1> QED
    BY <1>1, <1>2, <1>3, <1>4 DEF Next

\* Whatever overlaps and fails, rows, operations and requests keep their
\* types; in particular every stored response is one that was computed.
THEOREM EndpointTypes == Spec => []TypeOK
  <1>1. Init => TInv
    BY DEF Init, TInv, TypeOK
  <1>2. TInv => TypeOK
    BY DEF TInv
  <1> QED
    BY <1>1, <1>2, TypesKept, PTL DEF Spec

\* The two comparisons agree, also on the row that is exactly as old as the window.
LEMMA OldIsStale ==
    ASSUME TypeOK, NEW k \in DOMAIN rows
    PROVE  Old(k) <=> ~Fresh(k)
  <1>1. rows[k].at \in Nat /\ now \in Nat /\ Window \in Nat
    BY EndpointAssumption DEF TypeOK, StoredAnswer, EndpointAssumption
  <1> QED
    BY <1>1 DEF Old, Fresh

\* Store never overwrites and the clean-up takes stale rows only, so a fresh
\* answer stays, whatever else happens.
THEOREM StoredAnswersStand == Spec => StoredAnswerStands
  <1>1. TInv /\ [Next]_vars =>
          [\A k \in Keys : Fresh(k) => k \in DOMAIN rows' /\ rows'[k] = rows[k]]_vars
    <2> SUFFICES ASSUME TInv, [Next]_vars, NEW k \in Keys, Fresh(k)
                 PROVE  k \in DOMAIN rows' /\ rows'[k] = rows[k]
      OBVIOUS
    <2>1. k \in DOMAIN rows
      BY DEF Fresh
    <2>2. ASSUME NEW c \in Callers, Saves(c)
          PROVE  k \in DOMAIN rows' /\ rows'[k] = rows[k]
      BY <2>1, <2>2 DEF Saves, Stored
    <2>3. ASSUME UNCHANGED rows
          PROVE  k \in DOMAIN rows' /\ rows'[k] = rows[k]
      BY <2>1, <2>3
    <2>4. CASE CleanUp
      <3>1. ~Old(k)
        BY <2>1, OldIsStale DEF TInv
      <3> QED
        BY <2>1, <2>4, <3>1 DEF CleanUp
    <2>5. CASE \E c \in Callers : Handle(c) /\ ~Saves(c)
      <3>1. UNCHANGED rows
        BY <2>5 DEF Handle, Misses, Conflicts, Replays, Arrives, Performs, Refuses,
                    Errs, SaveFails, Dies, Leaves
      <3> QED
        BY <2>3, <3>1
    <2>6. CASE Tick \/ UNCHANGED vars
      BY <2>3, <2>6 DEF Tick, vars
    <2> QED
      BY <2>2, <2>4, <2>5, <2>6 DEF Next
  <1>2. Init => TInv
    BY DEF Init, TInv, TypeOK
  <1> QED
    BY <1>1, <1>2, TypesKept, PTL DEF Spec, StoredAnswerStands

\* What rows and callers tell is the operation of their key and body.
TellsOf(n, k, b) ==
    n \in Nat /\ n # 0 => n \in DOMAIN log /\ log[n].key = k /\ log[n].body = b

MInv ==
    /\ TInv
    /\ \A k \in DOMAIN rows : TellsOf(rows[k].response, k, rows[k].body)
    /\ \A c \in Callers :
          calls[c] # Null => TellsOf(calls[c].response, calls[c].key, calls[c].body)

\* Every step keeps it: responses are copied, and operations stay where
\* they are in the log.
LEMMA MatchKept == MInv /\ [Next]_vars => MInv'
  <1> SUFFICES ASSUME MInv, [Next]_vars PROVE MInv'
    OBVIOUS
  <1>1. TInv'
    BY TypesKept DEF MInv
  <1>2. /\ calls \in [Callers -> Call \cup {Null}] /\ log \in Seq(Operation)
        /\ rows \in [DOMAIN rows -> StoredAnswer] /\ DOMAIN rows \subseteq Keys
        /\ TypeOK
    BY DEF MInv, TInv, TypeOK
  <1>3. ASSUME UNCHANGED log, NEW c \in Callers,
               \A d \in Callers \ {c} : calls'[d] = calls[d],
               calls'[c] # Null => TellsOf(calls'[c].response, calls'[c].key, calls'[c].body),
               \A k \in DOMAIN rows' : TellsOf(rows'[k].response, k, rows'[k].body)
        PROVE  MInv'
    BY <1>1, <1>3 DEF MInv, TellsOf
  <1>4. CASE \E c \in Callers : Handle(c)
    <2>1. PICK c \in Callers : Handle(c)
      BY <1>4
    <2>2. CASE Misses(c) \/ Conflicts(c)
      <3>1. PICK k \in Keys, b \in Bodies, stage \in {"execute", "answered"} :
              Arrives(c, k, b, stage, Null)
        BY <2>2 DEF Misses, Conflicts
      <3>2. /\ calls'[c].response = Null /\ UNCHANGED <<log, rows>>
            /\ \A d \in Callers \ {c} : calls'[d] = calls[d]
        BY <1>2, <3>1 DEF Arrives
      <3> QED
        BY <1>3, <3>2, EndpointAssumption DEF MInv, TellsOf
    <2>3. CASE Replays(c)
      <3>1. PICK k \in Keys, b \in Bodies :
              /\ Fresh(k) /\ rows[k].body = b
              /\ Arrives(c, k, b, "answered", rows[k].response)
        BY <2>3 DEF Replays
      <3>2. /\ calls'[c].response = rows[k].response /\ calls'[c].key = k
            /\ calls'[c].body = rows[k].body /\ UNCHANGED <<log, rows>>
            /\ \A d \in Callers \ {c} : calls'[d] = calls[d]
        BY <1>2, <3>1 DEF Arrives
      <3>3. TellsOf(rows[k].response, k, rows[k].body)
        BY <3>1 DEF MInv, Fresh
      <3> QED
        BY <1>3, <3>2, <3>3 DEF MInv
    <2>4. CASE Performs(c)
      <3> DEFINE op == [key |-> calls[c].key, body |-> calls[c].body, at |-> now]
      <3>1. calls[c] \in Call /\ now \in Nat
        BY <1>2, <2>4 DEF Performs, TypeOK
      <3>2. op \in Operation
        BY <3>1 DEF Call, Operation
      <3>3. log' = Append(log, op) /\ UNCHANGED rows
        BY <2>4 DEF Performs
      <3>4. /\ DOMAIN log' = DOMAIN log \cup {Len(log) + 1} /\ log'[Len(log) + 1] = op
            /\ \A i \in DOMAIN log : log'[i] = log[i]
            /\ Len(log') = Len(log) + 1
        <4> HIDE DEF op
        <4> QED
          BY <1>2, <3>2, <3>3, Appended
      <3>5. \A n, k, b : TellsOf(n, k, b) => TellsOf(n, k, b)'
        BY <3>4 DEF TellsOf
      <3>6. /\ \A d \in Callers \ {c} : calls'[d] = calls[d]
            /\ calls'[c] = [calls[c] EXCEPT !.stage = "save", !.response = Len(log')]
        BY <1>2, <2>4 DEF Performs
      <3>7. /\ calls'[c].response = Len(log) + 1 /\ calls'[c].key = calls[c].key
            /\ calls'[c].body = calls[c].body
        BY <3>1, <3>4, <3>6 DEF Call
      <3>8. log'[Len(log) + 1].key = calls[c].key /\ log'[Len(log) + 1].body = calls[c].body
        BY <3>4
      <3>9. \A n, k, b : n = Len(log) + 1 /\ k = calls[c].key /\ b = calls[c].body
                           => TellsOf(n, k, b)'
        <4>1. Len(log) + 1 \in DOMAIN log'
          BY <3>4
        <4> HIDE DEF op
        <4> QED
          BY <4>1, <3>8 DEF TellsOf
      <3>10. \A k \in DOMAIN rows' : TellsOf(rows[k].response, k, rows[k].body)'
        BY <3>3, <3>5 DEF MInv
      <3>11. \A d \in Callers : calls'[d] # Null =>
                TellsOf(calls[d].response, calls[d].key, calls[d].body)'
        BY <3>5, <3>6, <3>7, <3>9 DEF MInv
      <3> QED
        BY <1>1, <3>10, <3>11 DEF MInv
    <2>5. CASE Refuses(c) \/ SaveFails(c)
      <3>1. calls[c] \in Call /\ calls[c] # Null
        BY <1>2, <2>5 DEF Refuses, SaveFails
      <3>2. /\ UNCHANGED <<log, rows>> /\ \A d \in Callers \ {c} : calls'[d] = calls[d]
            /\ calls'[c].response \in {0, calls[c].response}
            /\ calls'[c].key = calls[c].key /\ calls'[c].body = calls[c].body
        BY <1>2, <2>5, <3>1 DEF Refuses, SaveFails, Call
      <3>3. TellsOf(calls[c].response, calls[c].key, calls[c].body)
        BY <3>1 DEF MInv
      <3> QED
        BY <1>3, <3>2, <3>3 DEF MInv, TellsOf
    <2>6. CASE Errs(c) \/ Dies(c) \/ Leaves(c)
      <3>1. /\ UNCHANGED <<log, rows>> /\ calls'[c] = Null
            /\ \A d \in Callers \ {c} : calls'[d] = calls[d]
        BY <1>2, <2>6 DEF Errs, Dies, Leaves
      <3> QED
        BY <1>3, <3>1 DEF MInv
    <2>7. CASE Saves(c)
      <3> DEFINE row == [body |-> calls[c].body, response |-> calls[c].response,
                         at |-> now]
      <3>1. calls[c] \in Call /\ calls[c] # Null /\ calls[c].stage = "save"
        BY <1>2, <2>7 DEF Saves
      <3>2. TellsOf(calls[c].response, calls[c].key, calls[c].body)
        BY <3>1 DEF MInv
      <3>3. /\ UNCHANGED log /\ \A d \in Callers \ {c} : calls'[d] = calls[d]
            /\ calls'[c].response = calls[c].response
            /\ calls'[c].key = calls[c].key /\ calls'[c].body = calls[c].body
        BY <1>2, <2>7, <3>1 DEF Saves, Call
      <3>4. rows' = Stored(calls[c].key, row)
        BY <2>7 DEF Saves
      <3>5. \A k \in DOMAIN rows' :
              \/ rows'[k] = row /\ k = calls[c].key
              \/ k \in DOMAIN rows /\ rows'[k] = rows[k]
        BY <3>4 DEF Stored
      <3>6. \A k \in DOMAIN rows' : TellsOf(rows'[k].response, k, rows'[k].body)
        BY <3>2, <3>5 DEF MInv
      <3> QED
        BY <1>3, <3>2, <3>3, <3>6
    <2> QED
      BY <2>1, <2>2, <2>3, <2>4, <2>5, <2>6, <2>7 DEF Handle
  <1>5. CASE CleanUp
    BY <1>1, <1>5 DEF CleanUp, MInv, TellsOf
  <1>6. CASE Tick \/ UNCHANGED vars
    BY <1>1, <1>6 DEF Tick, vars, MInv, TellsOf
  <1> QED
    BY <1>4, <1>5, <1>6 DEF Next

\* However requests overlap and fail, nobody is told of an operation of
\* another key or another body.
THEOREM AnswersAlwaysMatch == Spec => []AnswersMatch
  <1>1. Init => MInv
    BY DEF Init, MInv, TInv, TypeOK
  <1>2. MInv => AnswersMatch
    BY DEF MInv, TInv, TypeOK, Call, AnswersMatch, Told, TellsOf
  <1> QED
    BY <1>1, <1>2, MatchKept, PTL DEF Spec

-----------------------------------------------------------------------------
(***************************************************************************)
(* The promise, under Calm.                                                *)
(***************************************************************************)

\* What the initial state and the constants give.
LEMMA InitIInv == Init => IInv
  BY DEF Init, IInv, TypeOK, Alone, CallersKnow, RowsKnow, Remembered, Working, Operation

\* Lookup lets a request through only when its key is free and spent.
LEMMA MissesInv ==
    ASSUME Calm, IInv, NEW c \in Callers, Misses(c)
    PROVE  IInv'
  <1>1. PICK k \in Keys, b \in Bodies :
          ~Fresh(k) /\ Arrives(c, k, b, "execute", Null)
    BY DEF Misses
  <1> DEFINE call == [stage |-> "execute", key |-> k, body |-> b,
                      response |-> Null]
  <1>2. /\ calls[c] = Null /\ ~InFlight(k) /\ k \notin DOMAIN rows
        /\ UNCHANGED <<now, rows, log>> /\ calls' = [calls EXCEPT ![c] = call]
    BY <1>1 DEF Arrives, Calm
  <1>3. call \in Call /\ calls \in [Callers -> Call \cup {Null}]
    BY DEF Call, IInv, TypeOK
  <1>4. Promise!Spent(k)
    BY <1>2 DEF IInv, Remembered, InFlight, Promise!Spent
  <1>5. calls'[c] = call /\ \A d \in Callers \ {c} : calls'[d] = calls[d]
    BY <1>2, <1>3
  <1>6. call # Null
    BY <1>3, EndpointAssumption DEF Call
  <1>7. TypeOK'
    BY <1>2, <1>3 DEF IInv, TypeOK
  <1>8. Alone'
    BY <1>2, <1>5, <1>6 DEF IInv, Alone, Working, InFlight
  <1>9. CallersKnow'
    BY <1>2, <1>4, <1>5, <1>6
       DEF IInv, CallersKnow, Working, Promise!Spent, Promise!Latest
  <1>10. RowsKnow' /\ (\A i \in DOMAIN log : log[i].at <= now)'
    BY <1>2 DEF IInv, RowsKnow, Promise!Latest
  <1>11. Remembered'
    BY <1>2, <1>5 DEF IInv, Remembered, Working
  <1> QED
    BY <1>7, <1>8, <1>9, <1>10, <1>11 DEF IInv

\* A caller that starts with its answer, or that ends, works under no key; it
\* may end work that has performed nothing.
LEMMA IdleInv ==
    ASSUME IInv, NEW c \in Callers, UNCHANGED <<now, rows, log>>, TypeOK',
           \A d \in Callers \ {c} : calls'[d] = calls[d],
           ~Working(c)',
           ~(Working(c) /\ calls[c].stage = "save")
    PROVE  IInv'
  <1>1. Alone'
    BY DEF IInv, Alone, Working
  <1>2. CallersKnow'
    BY DEF IInv, CallersKnow, Working, Promise!Spent, Promise!Latest
  <1>3. RowsKnow' /\ (\A i \in DOMAIN log : log[i].at <= now)'
    BY DEF IInv, RowsKnow, Promise!Latest
  <1>4. Remembered'
    BY DEF IInv, Remembered, Working
  <1> QED
    BY <1>1, <1>2, <1>3, <1>4 DEF IInv

\* The committed operation is the latest of its key, which nobody else uses.
LEMMA PerformsInv ==
    ASSUME Calm, IInv, TypeOK', NEW c \in Callers, Performs(c)
    PROVE  IInv' /\ Promise!Spent(calls[c].key)
  <1> DEFINE k == calls[c].key
             n == Len(log) + 1
             op == [key |-> k, body |-> calls[c].body, at |-> now]
  <1>1. /\ calls[c] # Null /\ calls[c].stage = "execute" /\ calls[c] \in Call
        /\ log' = Append(log, op) /\ UNCHANGED <<now, rows>>
        /\ now \in Nat
    BY DEF Performs, IInv, TypeOK
  <1>2. op \in Operation /\ k \in Keys
    BY <1>1 DEF Call, Operation
  <1>3. /\ DOMAIN log' = DOMAIN log \cup {n} /\ n \notin DOMAIN log /\ log'[n] = op
        /\ \A i \in DOMAIN log : log'[i] = log[i] /\ i <= n
        /\ Len(log') = n /\ n \in Nat /\ n # 0
    <2>1. log \in Seq(Operation)
      BY DEF IInv, TypeOK
    <2> HIDE DEF op
    <2> QED
      BY <1>1, <1>2, <2>1, Appended
  <1>4. /\ calls'[c] # Null /\ calls'[c].stage = "save" /\ calls'[c].response = n
        /\ calls'[c].key = k /\ calls'[c].body = calls[c].body
        /\ \A d \in Callers \ {c} : calls'[d] = calls[d]
    <2>1. calls' = [calls EXCEPT ![c] = [calls[c] EXCEPT !.stage = "save",
                                                        !.response = Len(log')]]
      BY DEF Performs
    <2>2. calls \in [Callers -> Call \cup {Null}] /\ calls' \in [Callers -> Call \cup {Null}]
      BY DEF IInv, TypeOK
    <2>3. calls'[c] = [calls[c] EXCEPT !.stage = "save", !.response = n]
      BY <2>1, <2>2, <1>3
    <2>4. calls'[c] \in Call
      BY <2>3, <1>1, <1>3 DEF Call
    <2> QED
      BY <2>1, <2>2, <2>3, <2>4, <1>1, EndpointAssumption DEF Call
  <1>5. /\ k \notin DOMAIN rows /\ Promise!Spent(k)
        /\ \A d \in Callers \ {c} : Working(d) => calls[d].key # k
    BY <1>1 DEF IInv, Alone, CallersKnow, Working
  <1>6. log'[n].key = k /\ log'[n].body = calls[c].body /\ log'[n].at = now
    BY <1>3
  <1> HIDE DEF n, k
  <1>7. \A j, m : j # k /\ Promise!Latest(j, m) => Promise!Latest(j, m)'
    BY <1>3, <1>6 DEF Promise!Latest
  <1>8. \A j \in Keys : j # k /\ Promise!Spent(j) => Promise!Spent(j)'
    BY <1>1, <1>3, <1>6 DEF Promise!Spent
  <1>9. \A j, m : j = k /\ m = n => Promise!Latest(j, m)'
    BY <1>3, <1>6 DEF Promise!Latest
  <1>10. (\A i \in DOMAIN log : log[i].at <= now)'
    BY <1>1, <1>3, <1>6 DEF IInv
  <1>11. Alone'
    BY <1>1, <1>4, <1>5 DEF IInv, Alone, Working
  <1>12. CallersKnow'
    <2> SUFFICES ASSUME NEW d \in Callers, Working(d)'
                 PROVE  IF calls'[d].stage = "save" /\ calls'[d].response # 0
                        THEN /\ Promise!Latest(calls[d].key, calls[d].response)'
                             /\ (log[calls[d].response].body = calls[d].body)'
                        ELSE Promise!Spent(calls[d].key)'
      BY DEF CallersKnow
    <2>1. CASE d = c
      BY <2>1, <1>3, <1>4, <1>6, <1>9 DEF Promise!Latest
    <2>2. CASE d # c
      <3>1. calls'[d] = calls[d] /\ Working(d) /\ calls[d].key # k
        BY <2>2, <1>4, <1>5 DEF Working
      <3>2. calls[d] \in Call
        BY <3>1 DEF IInv, TypeOK, Working
      <3>3. calls[d].key \in Keys
        BY <3>2 DEF Call
      <3>4. CASE calls[d].stage = "save" /\ calls[d].response # 0
        <4>1. /\ Promise!Latest(calls[d].key, calls[d].response)
              /\ log[calls[d].response].body = calls[d].body
          BY <3>1, <3>4 DEF IInv, CallersKnow
        <4>2. calls[d].response \in DOMAIN log
          BY <4>1 DEF Promise!Latest
        <4> QED
          BY <3>1, <3>3, <3>4, <4>1, <4>2, <1>3, <1>7 DEF Promise!Latest
      <3>5. CASE ~(calls[d].stage = "save" /\ calls[d].response # 0)
        BY <3>1, <3>3, <3>5, <1>8 DEF IInv, CallersKnow, Promise!Spent
      <3> QED
        BY <3>4, <3>5
    <2> QED
      BY <2>1, <2>2
  <1>13. RowsKnow'
    <2> SUFFICES ASSUME NEW j \in DOMAIN rows
                 PROVE  /\ rows[j].at <= now
                        /\ \A i \in DOMAIN log' : log'[i].key = j =>
                              IF rows[j].response = 0
                              THEN rows[j].at - log'[i].at > Window
                              ELSE log'[i].at <= rows[j].at
                        /\ rows[j].response # 0 =>
                              /\ Promise!Latest(j, rows[j].response)'
                              /\ log'[rows[j].response].body = rows[j].body
      BY <1>1 DEF RowsKnow, Promise!Latest
    <2>1. j # k /\ j \in Keys
      BY <1>5 DEF IInv, TypeOK
    <2>2. rows[j].response # 0 =>
            /\ Promise!Latest(j, rows[j].response)
            /\ rows[j].response \in DOMAIN log
            /\ log[rows[j].response].body = rows[j].body
      BY DEF IInv, RowsKnow, Promise!Latest
    <2>3. rows[j].response # 0 =>
            /\ Promise!Latest(j, rows[j].response)'
            /\ log'[rows[j].response].body = rows[j].body
      BY <2>1, <2>2, <1>1, <1>3, <1>7
    <2>4. rows[j].at <= now /\ \A i \in DOMAIN log' : log'[i].key = j =>
                              IF rows[j].response = 0
                              THEN rows[j].at - log'[i].at > Window
                              ELSE log'[i].at <= rows[j].at
      BY <2>1, <1>3, <1>6 DEF IInv, RowsKnow
    <2> QED
      BY <2>3, <2>4
  <1>14. Remembered'
    <2> SUFFICES ASSUME NEW i \in DOMAIN log'
                 PROVE  \/ now - log'[i].at > Window
                        \/ log'[i].key \in DOMAIN rows
                        \/ \E d \in Callers :
                              /\ Working(d)' /\ calls'[d].key = log'[i].key
                              /\ calls'[d].stage = "save" /\ calls'[d].response # 0
      BY <1>1 DEF Remembered
    <2>1. CASE i = n
      BY <2>1, <1>3, <1>4, <1>6 DEF Working
    <2>2. CASE i \in DOMAIN log
      BY <2>2, <1>1, <1>3, <1>4 DEF IInv, Remembered, Working
    <2> QED
      BY <2>1, <2>2, <1>3
  <1> QED
    BY <1>5, <1>10, <1>11, <1>12, <1>13, <1>14 DEF IInv, k

\* A refusal performs nothing, and its key stays spent on nothing else.
LEMMA RefusesInv ==
    ASSUME IInv, TypeOK', NEW c \in Callers, Refuses(c)
    PROVE  IInv'
  <1>1. /\ calls[c] # Null /\ calls[c].stage = "execute" /\ calls[c] \in Call
        /\ UNCHANGED <<now, rows, log>>
    BY DEF Refuses, IInv, TypeOK
  <1>2. /\ calls'[c] # Null /\ calls'[c].stage = "save" /\ calls'[c].response = 0
        /\ calls'[c].key = calls[c].key
        /\ \A d \in Callers \ {c} : calls'[d] = calls[d]
    <2>1. [calls[c] EXCEPT !.stage = "save", !.response = 0] \in Call
      BY <1>1 DEF Call
    <2> QED
      BY <1>1, <2>1, EndpointAssumption DEF Refuses, IInv, TypeOK, Call
  <1>3. Alone'
    BY <1>1, <1>2 DEF IInv, Alone, Working
  <1>4. CallersKnow'
    BY <1>1, <1>2 DEF IInv, CallersKnow, Working, Promise!Spent, Promise!Latest
  <1>5. RowsKnow' /\ (\A i \in DOMAIN log : log[i].at <= now)'
    BY <1>1 DEF IInv, RowsKnow, Promise!Latest
  <1>6. Remembered'
    BY <1>1, <1>2 DEF IInv, Remembered, Working
  <1> QED
    BY <1>3, <1>4, <1>5, <1>6 DEF IInv

\* The stored row tells what its caller knew.
LEMMA SavesInv ==
    ASSUME IInv, TypeOK', NEW c \in Callers, Saves(c)
    PROVE  IInv'
  <1> DEFINE k == calls[c].key
             row == [body |-> calls[c].body, response |-> calls[c].response,
                     at |-> now]
  <1>1. /\ calls[c] # Null /\ calls[c].stage = "save" /\ calls[c] \in Call
        /\ UNCHANGED <<now, log>> /\ rows' = Stored(k, row) /\ now \in Nat
    BY DEF Saves, IInv, TypeOK
  <1>2. k \notin DOMAIN rows /\ \A d \in Callers \ {c} : Working(d) => calls[d].key # k
    BY <1>1 DEF IInv, Alone, Working
  <1>3. IF calls[c].response # 0
        THEN Promise!Latest(k, calls[c].response)
             /\ log[calls[c].response].body = calls[c].body
        ELSE Promise!Spent(k)
    BY <1>1 DEF IInv, CallersKnow, Working
  <1>4. k \in Keys /\ row \in StoredAnswer
    <2>1. calls[c].response \in Nat
      BY <1>3, <1>1 DEF Promise!Latest, IInv, TypeOK
    <2>2. calls[c].key \in Keys /\ calls[c].body \in Bodies
      BY <1>1 DEF Call
    <2> QED
      BY <2>1, <2>2, <1>1 DEF StoredAnswer
  <1>5. /\ DOMAIN rows' = DOMAIN rows \cup {k} /\ rows'[k] = row
        /\ \A j \in DOMAIN rows : rows'[j] = rows[j]
    <2>1. TypeOK
      BY DEF IInv
    <2> HIDE DEF row, k
    <2> QED
      BY <1>1, <1>2, <1>4, <2>1, StoredRows
  <1>6. /\ rows'[k].body = calls[c].body /\ rows'[k].at = now
        /\ rows'[k].response = calls[c].response
    BY <1>5
  <1>7. ~Working(c)' /\ \A d \in Callers \ {c} : calls'[d] = calls[d]
    <2>1. [calls[c] EXCEPT !.stage = "answered"] \in Call
      BY <1>1 DEF Call
    <2> QED
      BY <1>1, <2>1 DEF Saves, IInv, TypeOK, Working, Call
  <1> HIDE DEF k, row
  <1>8. Alone'
    BY <1>2, <1>5, <1>7 DEF IInv, Alone, Working
  <1>9. CallersKnow'
    BY <1>1, <1>7 DEF IInv, CallersKnow, Working, Promise!Spent, Promise!Latest
  <1>10. RowsKnow'
    <2> SUFFICES ASSUME NEW j \in DOMAIN rows'
                 PROVE  /\ rows'[j].at <= now
                        /\ \A i \in DOMAIN log : log[i].key = j =>
                              IF rows'[j].response = 0
                              THEN rows'[j].at - log[i].at > Window
                              ELSE log[i].at <= rows'[j].at
                        /\ rows'[j].response # 0 =>
                              /\ Promise!Latest(j, rows'[j].response)
                              /\ log[rows'[j].response].body = rows'[j].body
      BY <1>1 DEF RowsKnow, Promise!Latest
    <2>1. CASE j = k
      BY <2>1, <1>1, <1>3, <1>6 DEF IInv, Promise!Spent
    <2>2. CASE j # k
      BY <2>2, <1>5 DEF IInv, RowsKnow
    <2> QED
      BY <2>1, <2>2
  <1>11. Remembered'
    <2> SUFFICES ASSUME NEW i \in DOMAIN log
                 PROVE  \/ now - log[i].at > Window
                        \/ log[i].key \in DOMAIN rows'
                        \/ \E d \in Callers :
                              /\ Working(d)' /\ calls'[d].key = log[i].key
                              /\ calls'[d].stage = "save" /\ calls'[d].response # 0
      BY <1>1 DEF Remembered
    <2>1. CASE log[i].key = k
      BY <2>1, <1>5
    <2>2. CASE log[i].key # k
      BY <2>2, <1>5, <1>7 DEF IInv, Remembered, Working, k
    <2> QED
      BY <2>1, <2>2
  <1>12. (\A i \in DOMAIN log : log[i].at <= now)'
    BY <1>1 DEF IInv
  <1> QED
    BY <1>8, <1>9, <1>10, <1>11, <1>12 DEF IInv

\* Operations and rows carry an hour.
LEMMA Times ==
    ASSUME IInv
    PROVE  /\ \A i \in DOMAIN log : log[i].at \in Nat
           /\ \A k \in DOMAIN rows : rows[k].at \in Nat
  <1>1. \A i \in DOMAIN log : log[i] \in Operation
    <2>1. log \in Seq(Operation)
      BY DEF IInv, TypeOK
    <2> QED
      BY <2>1
  <1>2. \A k \in DOMAIN rows : rows[k] \in StoredAnswer
    BY DEF IInv, TypeOK
  <1> QED
    BY <1>1, <1>2 DEF Operation, StoredAnswer

\* The clean-up drops rows whose operations are out of the window.
LEMMA CleanUpInv ==
    ASSUME IInv, TypeOK', CleanUp
    PROVE  IInv'
  <1>1. /\ UNCHANGED <<now, log, calls>>
        /\ DOMAIN rows' = {k \in DOMAIN rows : Fresh(k)}
        /\ \A k \in DOMAIN rows' : rows'[k] = rows[k]
    <2>1. \A k \in DOMAIN rows : Old(k) <=> ~Fresh(k)
      BY OldIsStale DEF IInv
    <2> QED
      BY <2>1 DEF CleanUp
  <1>2. \A k \in DOMAIN rows, i \in DOMAIN log :
           ~Fresh(k) /\ log[i].key = k => now - log[i].at > Window
    <2> SUFFICES ASSUME NEW k \in DOMAIN rows, NEW i \in DOMAIN log,
                        ~Fresh(k), log[i].key = k
                 PROVE  now - log[i].at > Window
      OBVIOUS
    <2>1. rows[k].at \in Nat /\ log[i].at \in Nat /\ now \in Nat /\ Window \in Nat
      BY EndpointAssumption, Times DEF IInv, TypeOK
    <2>2. ~(now - rows[k].at <= Window)
      BY DEF Fresh
    <2>3. \/ rows[k].at - log[i].at > Window /\ rows[k].at <= now
          \/ log[i].at <= rows[k].at
      BY DEF IInv, RowsKnow
    <2> QED
      BY <2>1, <2>2, <2>3
  <1>3. Alone' /\ CallersKnow' /\ (\A i \in DOMAIN log : log[i].at <= now)'
    BY <1>1 DEF IInv, Alone, CallersKnow, Working, Promise!Spent, Promise!Latest
  <1>4. RowsKnow'
    BY <1>1 DEF IInv, RowsKnow, Promise!Latest
  <1>5. Remembered'
    BY <1>1, <1>2 DEF IInv, Remembered, Working
  <1> QED
    BY <1>3, <1>4, <1>5 DEF IInv

\* An hour passes: what was out of the window stays out of it.
LEMMA TickInv ==
    ASSUME IInv, TypeOK', Tick
    PROVE  IInv'
  <1>1. UNCHANGED <<rows, log, calls>> /\ now' = now + 1 /\ now \in Nat
    BY DEF Tick, IInv, TypeOK
  <1>2. \A i \in DOMAIN log : log[i].at \in Nat
    BY Times
  <1>3. \A k \in DOMAIN rows : rows[k].at \in Nat
    BY Times
  <1>4. Window \in Nat
    BY EndpointAssumption
  <1>5. \A i \in DOMAIN log : now - log[i].at > Window => now' - log[i].at > Window
    BY <1>1, <1>2, <1>4
  <1>6. Alone' /\ (\A i \in DOMAIN log : log[i].at <= now)'
    BY <1>1, <1>2 DEF IInv, Alone, Working
  <1>7. CallersKnow'
    BY <1>1, <1>5 DEF IInv, CallersKnow, Working, Promise!Spent, Promise!Latest
  <1>8. RowsKnow'
    BY <1>1, <1>3 DEF IInv, RowsKnow, Promise!Latest
  <1>9. Remembered'
    BY <1>1, <1>5 DEF IInv, Remembered, Working
  <1> QED
    BY <1>6, <1>7, <1>8, <1>9 DEF IInv

\* The invariant knows more of the types than TypeOK does.
LEMMA IInvTypes == IInv => TInv
  <1> SUFFICES ASSUME IInv, NEW c \in Callers,
                      calls[c] # Null, calls[c].stage = "save"
               PROVE  calls[c].response \in Nat
    BY DEF IInv, TInv
  <1>1. CASE calls[c].response = 0
    BY <1>1
  <1>2. CASE calls[c].response # 0
    <2>1. calls[c].response \in DOMAIN log /\ log \in Seq(Operation)
      BY <1>2 DEF IInv, CallersKnow, Working, Promise!Latest, TypeOK
    <2> QED
      BY <2>1
  <1> QED
    BY <1>1, <1>2

\* Every step keeps the invariant.
LEMMA IInvKept ==
    ASSUME Calm
    PROVE  IInv /\ [Next]_vars => IInv'
  <1> SUFFICES ASSUME IInv, [Next]_vars PROVE IInv'
    OBVIOUS
  <1>1. TypeOK'
    <2>1. TInv'
      BY IInvTypes, TypesKept
    <2> QED
      BY <2>1 DEF TInv
  <1>2. CASE \E c \in Callers : Handle(c)
    <2>1. PICK c \in Callers : Handle(c)
      BY <1>2
    <2>2. calls \in [Callers -> Call \cup {Null}]
      BY DEF IInv, TypeOK
    <2>3. CASE Misses(c)
      BY <2>3, MissesInv
    <2>4. CASE Conflicts(c) \/ Replays(c)
      <3>1. PICK k \in Keys, b \in Bodies :
              \E response : Arrives(c, k, b, "answered", response)
        BY <2>4 DEF Conflicts, Replays
      <3>2. ~Working(c) /\ ~Working(c)' /\ UNCHANGED <<now, rows, log>>
            /\ \A d \in Callers \ {c} : calls'[d] = calls[d]
        BY <2>2, <3>1 DEF Arrives, Working
      <3> QED
        BY <3>2, <1>1, IdleInv
    <2>5. CASE Performs(c)
      BY <2>5, <1>1, PerformsInv
    <2>6. CASE Refuses(c)
      BY <2>6, <1>1, RefusesInv
    <2>7. CASE Errs(c) \/ Leaves(c)
      <3>1. ~(Working(c) /\ calls[c].stage = "save")
        BY <2>7 DEF Errs, Leaves, Working
      <3>2. ~Working(c)' /\ UNCHANGED <<now, rows, log>>
            /\ \A d \in Callers \ {c} : calls'[d] = calls[d]
        BY <2>2, <2>7 DEF Errs, Leaves, Working
      <3> QED
        BY <3>1, <3>2, <1>1, IdleInv
    <2>8. CASE Saves(c)
      BY <2>8, <1>1, SavesInv
    <2>9. CASE SaveFails(c) \/ Dies(c)
      BY <2>9 DEF Calm, SaveFails, Dies
    <2> QED
      BY <2>1, <2>3, <2>4, <2>5, <2>6, <2>7, <2>8, <2>9 DEF Handle
  <1>3. CASE CleanUp
    BY <1>1, <1>3, CleanUpInv
  <1>4. CASE Tick
    BY <1>1, <1>4, TickInv
  <1>5. CASE UNCHANGED vars
    BY <1>1, <1>5 DEF vars, IInv, Alone, CallersKnow, RowsKnow, Remembered,
                      Working, Promise!Spent, Promise!Latest
  <1> QED
    BY <1>2, <1>3, <1>4, <1>5 DEF Next

\* A caller that is told something hears one answer; the others hear what
\* they heard.
LEMMA Hears ==
    ASSUME NEW c \in Callers, \A d \in Callers \ {c} : calls'[d] = calls[d]
    PROVE  /\ Told(c)' => Heard' = [Heard EXCEPT ![c] =
                 [key |-> calls'[c].key, body |-> calls'[c].body,
                  response |-> calls'[c].response]]
           /\ ~Told(c)' => Heard' = [Heard EXCEPT ![c] = Null]
           /\ ~Told(c) => Heard[c] = Null
           /\ ~Told(c)' /\ ~Told(c) => Heard' = Heard
  BY DEF Heard, Told

\* Every step of the endpoint is a step of the promise or a stutter.
LEMMA StepsKeepPromise ==
    ASSUME Calm
    PROVE  IInv /\ IInv' /\ [Next]_vars => [Promise!Next]_(Promise!vars)
  <1> SUFFICES ASSUME IInv, IInv', [Next]_vars
               PROVE  Promise!Next \/ UNCHANGED <<now, log, Heard>>
    BY DEF Promise!vars
  <1>1. CASE \E c \in Callers : Handle(c)
    <2>1. PICK c \in Callers : Handle(c)
      BY <1>1
    <2>2. /\ calls \in [Callers -> Call \cup {Null}] /\ log \in Seq(Operation)
          /\ Len(log) \in Nat /\ DOMAIN log = 1 .. Len(log)
      BY DEF IInv, TypeOK
    <2>3. CASE Misses(c) \/ Conflicts(c) \/ Refuses(c) \/ Errs(c)
      <3>1. ~Told(c) /\ ~Told(c)' /\ UNCHANGED <<now, log>>
            /\ \A d \in Callers \ {c} : calls'[d] = calls[d]
        <4>1. CASE Misses(c) \/ Conflicts(c) \/ Errs(c)
          BY <2>2, <4>1 DEF Misses, Conflicts, Errs, Arrives, Told
        <4>2. CASE Refuses(c)
          <5>1. calls[c] \in Call
            BY <2>2, <4>2 DEF Refuses
          <5> QED
            BY <2>2, <4>2, <5>1 DEF Refuses, Told, Call
        <4> QED
          BY <2>3, <4>1, <4>2
      <3> QED
        BY <3>1, Hears
    <2>4. CASE Performs(c)
      <3>1. ~Told(c) /\ ~Told(c)' /\ \A d \in Callers \ {c} : calls'[d] = calls[d]
        BY <2>2, <2>4 DEF Performs, Told
      <3>2. Heard' = Heard
        BY <3>1, Hears
      <3>3. calls[c] \in Call
        BY <2>2, <2>4 DEF Performs
      <3>4. calls[c].key \in Keys /\ calls[c].body \in Bodies
        BY <3>3 DEF Call
      <3>5. Promise!Spent(calls[c].key)
        BY <2>4, PerformsInv DEF IInv
      <3>6. Promise!Perform
        <4>1. /\ UNCHANGED now
              /\ log' = Append(log, [key |-> calls[c].key,
                                     body |-> calls[c].body, at |-> now])
          BY <2>4 DEF Performs
        <4> QED
          BY <3>2, <3>4, <3>5, <4>1 DEF Promise!Perform
      <3> QED
        BY <3>6 DEF Promise!Next
    <2>5. CASE Leaves(c)
      <3>1. ~Told(c)' /\ UNCHANGED <<now, log>>
            /\ \A d \in Callers \ {c} : calls'[d] = calls[d]
        BY <2>2, <2>5 DEF Leaves, Told
      <3>2. Promise!Forget(c)
        BY <3>1, Hears DEF Promise!Forget
      <3> QED
        BY <3>2 DEF Promise!Next
    <2>6. ASSUME NEW k \in Keys, NEW b \in Bodies, NEW n \in Nat,
                 IF n # 0 THEN Promise!Latest(k, n) /\ log[n].body = b
                          ELSE Promise!Spent(k),
                 Heard' = [Heard EXCEPT ![c] = [key |-> k, body |-> b, response |-> n]],
                 UNCHANGED <<now, log>>
          PROVE  Promise!Next
      <3>1. n \in 0 .. Len(log)
        BY <2>2, <2>6 DEF Promise!Latest
      <3>2. Promise!Tell(c)
        BY <2>6, <3>1 DEF Promise!Tell
      <3> QED
        BY <3>2 DEF Promise!Next
    <2>7. CASE Replays(c)
      <3>1. PICK k \in Keys, b \in Bodies :
              /\ Fresh(k) /\ rows[k].body = b
              /\ Arrives(c, k, b, "answered", rows[k].response)
        BY <2>7 DEF Replays
      <3>2. k \in DOMAIN rows /\ rows[k] \in StoredAnswer
        BY <3>1 DEF Fresh, IInv, TypeOK
      <3>3. rows[k].response \in Nat /\ rows[k].response # Null
        BY <3>2, EndpointAssumption DEF StoredAnswer
      <3>4. /\ calls'[c] = [stage |-> "answered", key |-> k, body |-> b,
                          response |-> rows[k].response]
            /\ \A d \in Callers \ {c} : calls'[d] = calls[d]
            /\ UNCHANGED <<now, log>>
        BY <2>2, <3>1 DEF Arrives
      <3>5. calls'[c] # Null
        BY <3>3, <3>4, EndpointAssumption
      <3>6. Heard' = [Heard EXCEPT ![c] = [key |-> k, body |-> b,
                                           response |-> rows[k].response]]
        BY <3>3, <3>4, <3>5, Hears DEF Told
      <3>7. IF rows[k].response # 0
            THEN Promise!Latest(k, rows[k].response) /\ log[rows[k].response].body = b
            ELSE Promise!Spent(k)
        <4>1. CASE rows[k].response # 0
          BY <4>1, <3>1, <3>2 DEF IInv, RowsKnow
        <4>2. CASE rows[k].response = 0
          <5> SUFFICES ASSUME NEW i \in DOMAIN log, log[i].key = k
                       PROVE  now - log[i].at > Window
            BY <4>2 DEF Promise!Spent
          <5>1. rows[k].at <= now /\ rows[k].at - log[i].at > Window
            BY <3>2, <4>2 DEF IInv, RowsKnow
          <5>2. rows[k].at \in Nat /\ log[i].at \in Nat /\ now \in Nat /\ Window \in Nat
            BY <3>2, Times, EndpointAssumption DEF IInv, TypeOK
          <5> QED
            BY <5>1, <5>2
        <4> QED
          BY <4>1, <4>2
      <3> QED
        BY <2>6, <3>3, <3>4, <3>6, <3>7
    <2>8. CASE Saves(c)
      <3>1. calls[c] \in Call /\ calls[c] # Null /\ calls[c].stage = "save"
        BY <2>2, <2>8 DEF Saves
      <3>2. calls[c].key \in Keys /\ calls[c].body \in Bodies /\ calls[c].response \in Nat
        BY <3>1, IInvTypes DEF Call, TInv
      <3>3. [calls[c] EXCEPT !.stage = "answered"] \in Call
        BY <3>1 DEF Call
      <3>4. /\ calls'[c] # Null /\ calls'[c].stage = "answered"
            /\ calls'[c].key = calls[c].key /\ calls'[c].body = calls[c].body
            /\ calls'[c].response = calls[c].response
            /\ \A d \in Callers \ {c} : calls'[d] = calls[d]
            /\ UNCHANGED <<now, log>>
        BY <2>2, <2>8, <3>1, <3>3, EndpointAssumption DEF Saves, Call
      <3>5. Told(c)'
        BY <3>2, <3>4, EndpointAssumption DEF Told
      <3>6. Heard' = [Heard EXCEPT ![c] = [key |-> calls[c].key, body |-> calls[c].body,
                                           response |-> calls[c].response]]
        BY <3>4, <3>5, Hears
      <3>7. IF calls[c].response # 0
            THEN /\ Promise!Latest(calls[c].key, calls[c].response)
                 /\ log[calls[c].response].body = calls[c].body
            ELSE Promise!Spent(calls[c].key)
        BY <3>1 DEF IInv, CallersKnow, Working
      <3> QED
        BY <2>6, <3>2, <3>4, <3>6, <3>7
    <2>9. CASE SaveFails(c) \/ Dies(c)
      BY <2>9 DEF Calm, SaveFails, Dies
    <2> QED
      BY <2>1, <2>3, <2>4, <2>5, <2>7, <2>8, <2>9 DEF Handle
  <1>2. CASE CleanUp
    BY <1>2 DEF CleanUp, Heard, Told
  <1>3. CASE Tick
    <2>1. Promise!Pass
      BY <1>3 DEF Tick, Promise!Pass, Heard, Told
    <2> QED
      BY <2>1 DEF Promise!Next
  <1>4. CASE UNCHANGED vars
    BY <1>4 DEF vars, Heard, Told
  <1> QED
    BY <1>1, <1>2, <1>3, <1>4 DEF Next

\* A client that waits for its answers and does not reuse a key between its
\* becoming stale and the clean-up has every operation performed at most
\* once per key and window, and is told of that operation whenever it asks.
THEOREM PromiseKept ==
    ASSUME Calm
    PROVE  Spec => KeepsPromise
  <1>1. Init => Promise!Init
    BY DEF Init, Promise!Init, Heard, Told
  <1>2. Spec => []IInv
    BY InitIInv, IInvKept, PTL DEF Spec
  <1>3. IInv /\ IInv' /\ [Next]_vars => [Promise!Next]_(Promise!vars)
    BY StepsKeepPromise
  <1> QED
    BY <1>1, <1>2, <1>3, PTL DEF Spec, KeepsPromise, Promise!Spec
=============================================================================
