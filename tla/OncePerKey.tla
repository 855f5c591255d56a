------------------------------ MODULE OncePerKey ------------------------------
(***************************************************************************)
(* What the Idempotency-Key header promises a client: within Window hours  *)
(* of an operation that was performed under a key, the key performs        *)
(* nothing else, and everybody who asks under it is told of that           *)
(* operation.  IdempotentEndpoint implements this when a client waits for  *)
(* an answer before it asks again.                                         *)
(***************************************************************************)
EXTENDS Integers, Sequences

CONSTANTS
    Callers,   \* requests that may be waiting for an answer at a time
    Keys,      \* values of the Idempotency-Key header
    Bodies,    \* canonical request bodies
    Window,    \* hours for which a key counts (24 in the code)
    Null

VARIABLES
    now,       \* hours
    log,       \* the operations performed, in order
    heard      \* what each caller has been told, Null before

vars == <<now, log, heard>>

Init ==
    /\ now = 0
    /\ log = <<>>
    /\ heard = [c \in Callers |-> Null]

Spent(k) == \A i \in DOMAIN log : log[i].key = k => now - log[i].at > Window

Latest(k, n) ==
    /\ n \in DOMAIN log /\ log[n].key = k
    /\ \A i \in DOMAIN log : log[i].key = k => i <= n

Perform ==
    \E k \in Keys, b \in Bodies :
        /\ Spent(k)
        /\ log' = Append(log, [key |-> k, body |-> b, at |-> now])
        /\ UNCHANGED <<now, heard>>

\* Response 0 is a refusal: nothing was performed.
Tell(c) ==
    \E k \in Keys, b \in Bodies, n \in 0 .. Len(log) :
        /\ \/ n = 0 /\ Spent(k)
           \/ Latest(k, n) /\ log[n].body = b
        /\ heard' = [heard EXCEPT ![c] = [key |-> k, body |-> b, response |-> n]]
        /\ UNCHANGED <<now, log>>

Forget(c) ==
    /\ heard' = [heard EXCEPT ![c] = Null]
    /\ UNCHANGED <<now, log>>

Pass ==
    /\ now' = now + 1
    /\ UNCHANGED <<log, heard>>

Next ==
    \/ Perform
    \/ \E c \in Callers : Tell(c) \/ Forget(c)
    \/ Pass

Spec == Init /\ [][Next]_vars
=============================================================================
