-------------------------- MODULE IdempotentEndpoint --------------------------
(***************************************************************************)
(* The Idempotency-Key protocol of the three endpoints that grant, refund  *)
(* and extend: look the key up, perform the operation in a transaction,    *)
(* store the answer, answer.  Nothing ties the three database accesses     *)
(* together, so other callers, the nightly clean-up, the clock and         *)
(* failures come between them.                                             *)
(*                                                                         *)
(* `body` stands for everything Lookup compares: the hash of the body, the *)
(* admin and the endpoint label, which has no :id in it.                   *)
(***************************************************************************)
EXTENDS Integers, Sequences

CONSTANTS
    Callers,     \* requests being handled at a time
    Keys,        \* values of the Idempotency-Key header
    Bodies,      \* what Lookup compares
    Window,      \* hours after which a row is stale (24 in the code)
    Null,
    Overlap,     \* a key may be sent again before its request was answered
    Faults,      \* a request may end without storing its answer
    ReuseStale,  \* a key may be used again while its stale row is still there
    MaxTime,     \* bound of the clock
    MaxLog       \* bound on the operations performed

ASSUME EndpointAssumption ==
    /\ Window \in Nat /\ MaxTime \in Nat /\ MaxLog \in Nat
    /\ Overlap \in BOOLEAN /\ Faults \in BOOLEAN /\ ReuseStale \in BOOLEAN
    /\ Null \notin [stage : {"execute", "save", "answered"}, key : Keys,
                    body : Bodies, response : Nat \cup {Null}]
    /\ Null \notin Nat

VARIABLES
    now,         \* hours, the clock of server and database
    rows,        \* idempotency_keys, by key
    log,         \* the operations committed, in order
    calls        \* the request each caller is in, Null when it is in none

vars == <<now, rows, log, calls>>

Operation == [key : Keys, body : Bodies, at : Nat]

\* A response is the number of the operation it tells of, or 0 for a stored
\* refusal; a caller that is answered with a conflict has Null.
Call == [stage : {"execute", "save", "answered"}, key : Keys,
         body : Bodies, response : Nat \cup {Null}]

StoredAnswer == [body : Bodies, response : Nat, at : Nat]

TypeOK ==
    /\ now \in Nat
    /\ DOMAIN rows \subseteq Keys
    /\ rows \in [DOMAIN rows -> StoredAnswer]
    /\ log \in Seq(Operation)
    /\ calls \in [Callers -> Call \cup {Null}]

Init ==
    /\ now = 0
    /\ rows = << >>
    /\ log = << >>
    /\ calls = [c \in Callers |-> Null]

Working(c) == calls[c] # Null /\ calls[c].stage \in {"execute", "save"}

InFlight(k) == \E c \in Callers : Working(c) /\ calls[c].key = k

-----------------------------------------------------------------------------

\* FindIdempotencyKey returns the row when it is no older than the window.
Fresh(k) == k \in DOMAIN rows /\ now - rows[k].at <= Window

Arrives(c, k, b, stage, response) ==
    /\ calls[c] = Null
    /\ Overlap \/ ~InFlight(k)
    /\ ReuseStale \/ k \notin DOMAIN rows \/ Fresh(k)
    /\ calls' = [calls EXCEPT ![c] =
                    [stage |-> stage, key |-> k, body |-> b,
                     response |-> response]]
    /\ UNCHANGED <<now, rows, log>>

\* The three outcomes of Lookup: no row, a row for another body, the answer.
Misses(c) ==
    \E k \in Keys, b \in Bodies :
        ~Fresh(k) /\ Arrives(c, k, b, "execute", Null)

Conflicts(c) ==
    \E k \in Keys, b \in Bodies :
        /\ Fresh(k) /\ rows[k].body # b
        /\ Arrives(c, k, b, "answered", Null)

\* The body is not compared.
WrongReplays(c) ==
    \E k \in Keys, b \in Bodies :
        Fresh(k) /\ Arrives(c, k, b, "answered", rows[k].response)

Replays(c) ==
    \E k \in Keys, b \in Bodies :
        /\ Fresh(k) /\ rows[k].body = b
        /\ Arrives(c, k, b, "answered", rows[k].response)

\* The transaction of the operation commits.
Performs(c) ==
    /\ calls[c] # Null /\ calls[c].stage = "execute"
    /\ Len(log) < MaxLog
    /\ log' = Append(log, [key |-> calls[c].key, body |-> calls[c].body, at |-> now])
    /\ calls' = [calls EXCEPT ![c].stage = "save", ![c].response = Len(log')]
    /\ UNCHANGED <<now, rows>>

\* A bulk extension that meets the exclusion constraint stores its 409.
Refuses(c) ==
    /\ calls[c] # Null /\ calls[c].stage = "execute"
    /\ calls' = [calls EXCEPT ![c].stage = "save", ![c].response = 0]
    /\ UNCHANGED <<now, rows, log>>

\* Every other error is answered and not stored.
Errs(c) ==
    /\ calls[c] # Null /\ calls[c].stage = "execute"
    /\ calls' = [calls EXCEPT ![c] = Null]
    /\ UNCHANGED <<now, rows, log>>

\* ON CONFLICT (key) DO UPDATE.
WrongStored(k, row) == [j \in DOMAIN rows \cup {k} |-> IF j = k THEN row ELSE rows[j]]

\* ON CONFLICT (key) DO NOTHING: whatever row is there stays, stale or not.
Stored(k, row) ==
    IF k \in DOMAIN rows
    THEN rows
    ELSE [j \in DOMAIN rows \cup {k} |-> IF j = k THEN row ELSE rows[j]]

\* The answer is the caller's own, also when the row of another caller stays.
Saves(c) ==
    /\ calls[c] # Null /\ calls[c].stage = "save"
    /\ rows' = Stored(calls[c].key,
                      [body |-> calls[c].body, response |-> calls[c].response,
                       at |-> now])
    /\ calls' = [calls EXCEPT ![c].stage = "answered"]
    /\ UNCHANGED <<now, log>>

\* Store's error is ignored and the answer goes out.
SaveFails(c) ==
    /\ Faults
    /\ calls[c] # Null /\ calls[c].stage = "save"
    /\ calls' = [calls EXCEPT ![c].stage = "answered"]
    /\ UNCHANGED <<now, rows, log>>

\* The process stops, the client goes away and its context is cancelled, or
\* the re-read after the commit fails.
Dies(c) ==
    /\ Faults
    /\ Working(c)
    /\ calls' = [calls EXCEPT ![c] = Null]
    /\ UNCHANGED <<now, rows, log>>

Leaves(c) ==
    /\ calls[c] # Null /\ calls[c].stage = "answered"
    /\ calls' = [calls EXCEPT ![c] = Null]
    /\ UNCHANGED <<now, rows, log>>

\* The row of exactly the window's age goes too.
WrongOld(k) == rows[k].at <= now - Window

\* What the clean-up deletes, by a comparison of its own.
Old(k) == rows[k].at < now - Window

\* CleanupIdempotencyKeys, a step of the nightly batch.
CleanUp ==
    /\ \E k \in DOMAIN rows : Old(k)
    /\ rows' = [k \in {j \in DOMAIN rows : ~Old(j)} |-> rows[k]]
    /\ UNCHANGED <<now, log, calls>>

Tick ==
    /\ now < MaxTime
    /\ now' = now + 1
    /\ UNCHANGED <<rows, log, calls>>

Handle(c) ==
    \/ Misses(c) \/ Conflicts(c) \/ Replays(c)
    \/ Performs(c) \/ Refuses(c) \/ Errs(c)
    \/ Saves(c) \/ SaveFails(c) \/ Dies(c) \/ Leaves(c)

Next == (\E c \in Callers : Handle(c)) \/ CleanUp \/ Tick

Spec == Init /\ [][Next]_vars

-----------------------------------------------------------------------------

\* Once an answer is stored it is the answer of its key until it is stale:
\* racing callers, the clean-up and failures never replace or drop it.
StoredAnswerStands ==
    [][\A k \in Keys : Fresh(k) => k \in DOMAIN rows' /\ rows'[k] = rows[k]]_vars

Told(c) == calls[c] # Null /\ calls[c].stage = "answered" /\ calls[c].response # Null

\* Whatever raced, a caller is only ever told of an operation that was
\* performed under its own key for its own body.
AnswersMatch ==
    \A c \in Callers :
        Told(c) /\ calls[c].response > 0 =>
            LET op == log[calls[c].response]
            IN  op.key = calls[c].key /\ op.body = calls[c].body

-----------------------------------------------------------------------------
(***************************************************************************)
(* When clients wait for their answer, nothing fails between the commit    *)
(* and the store, and a key is not used in the hours between its becoming  *)
(* stale and the clean-up, the protocol keeps the promise.                 *)
(***************************************************************************)

Heard ==
    [c \in Callers |->
        IF Told(c)
        THEN [key |-> calls[c].key, body |-> calls[c].body,
              response |-> calls[c].response]
        ELSE Null]

Calm == ~Overlap /\ ~Faults /\ ~ReuseStale

Promise == INSTANCE OncePerKey WITH heard <- Heard

\* Every behaviour of the endpoint is one that OncePerKey allows.
KeepsPromise == Promise!Spec

(***************************************************************************)
(* The inductive invariant behind it.                                      *)
(***************************************************************************)

\* One caller at a time works under a key, and finds the key free.
Alone ==
    \A c \in Callers : Working(c) =>
        /\ calls[c].key \notin DOMAIN rows
        /\ \A d \in Callers : Working(d) /\ calls[d].key = calls[c].key => c = d

\* A caller that has performed nothing holds a key that is not spent on
\* something else; one that has holds the latest operation of its key.
CallersKnow ==
    \A c \in Callers : Working(c) =>
        IF calls[c].stage = "save" /\ calls[c].response # 0
        THEN /\ Promise!Latest(calls[c].key, calls[c].response)
             /\ log[calls[c].response].body = calls[c].body
        ELSE Promise!Spent(calls[c].key)

\* A row tells of the latest operation of its key, or that there was none in
\* the window before it was stored.
RowsKnow ==
    \A k \in DOMAIN rows :
        /\ rows[k].at <= now
        /\ \A i \in DOMAIN log : log[i].key = k =>
              IF rows[k].response = 0
              THEN rows[k].at - log[i].at > Window
              ELSE log[i].at <= rows[k].at
        /\ rows[k].response # 0 =>
              /\ Promise!Latest(k, rows[k].response)
              /\ log[rows[k].response].body = rows[k].body

\* An operation is forgotten only after the window.
Remembered ==
    \A i \in DOMAIN log :
        \/ now - log[i].at > Window
        \/ log[i].key \in DOMAIN rows
        \/ \E c \in Callers : Working(c) /\ calls[c].key = log[i].key
                               /\ calls[c].stage = "save" /\ calls[c].response # 0

IInv ==
    /\ TypeOK
    /\ \A i \in DOMAIN log : log[i].at <= now
    /\ Alone
    /\ CallersKnow
    /\ RowsKnow
    /\ Remembered
=============================================================================
