------------------------------- MODULE ServerRun -------------------------------
(***************************************************************************)
(* One life of the server process: start, the goroutines it runs (the HTTP *)
(* listener, the handlers, the cron job), the pool of connections they     *)
(* share, and the shutdown that takes them down in order: cron, HTTP,      *)
(* pool.  A handler is reduced to what the order matters to: one WithTx    *)
(* with its retries, then the statements on the pool that follow it.       *)
(***************************************************************************)
EXTENDS Integers, FiniteSets

CONSTANTS
    Requests,    \* requests that may reach the server
    Batch,       \* the cron job, as a holder of connections
    MaxConns,    \* size of the pool (25 in the code)
    Attempts,    \* len(retryBackoffs), 3 in the code
    Steps,       \* steps of RunExpiry, 6 in the code
    MaxNights    \* bound on the times cron fires

ASSUME ServerAssumption ==
    /\ Batch \notin Requests
    /\ {MaxConns, Attempts, Steps} \subseteq Nat \ {0}
    /\ MaxNights \in Nat

VARIABLES
    main,        \* where run() is
    cause,       \* what ended its select: "none", "signal" or "listener"
    listener,    \* "off", "up", "dead" or "closed"
    graceOver,   \* Shutdown gave up waiting for handlers
    cron,        \* Scheduler: started and not stopped
    nights,      \* times the job was triggered
    job,         \* [left, late]: steps not yet run, and jobCtx timed out
    pool,        \* "none", "open" or "closed"
    holders,     \* who has a connection of the pool
    req          \* the requests

mainVars == <<main, cause, listener, graceOver>>
jobVars  == <<cron, nights, job>>
vars     == <<mainVars, jobVars, pool, holders, req>>

Stages == {"none", "begin", "tx", "backoff", "after", "done", "panicked"}

\* effects: commits that took place.  refused: the pool was closed under it.
Request == [stage : Stages, attempt : Nat, effects : Nat,
            answer : {"none", "ok", "error"}, refused : BOOLEAN]

TypeOK ==
    /\ main \in {"boot", "serve", "stop cron", "stop http", "close pool", "exited"}
    /\ cause \in {"none", "signal", "listener"}
    /\ listener \in {"off", "up", "dead", "closed"}
    /\ graceOver \in BOOLEAN /\ cron \in BOOLEAN
    /\ nights \in Nat
    /\ job \in [left : Nat, late : BOOLEAN]
    /\ pool \in {"none", "open", "closed"}
    /\ holders \subseteq Requests \cup {Batch}
    /\ req \in [Requests -> Request]

Init ==
    /\ main = "boot" /\ cause = "none" /\ listener = "off" /\ graceOver = FALSE
    /\ cron = FALSE /\ nights = 0 /\ job = [left |-> 0, late |-> FALSE]
    /\ pool = "none" /\ holders = {}
    /\ req = [r \in Requests |-> [stage |-> "none", attempt |-> 0, effects |-> 0,
                                  answer |-> "none", refused |-> FALSE]]

Alive == main # "exited"

Running == job.left > 0

InFlight(r) == req[r].stage \notin {"none", "done", "panicked"}

\* A waiter gets a connection when one is free and the pool is not closed.
CanAcquire == pool = "open" /\ Cardinality(holders) < MaxConns

-----------------------------------------------------------------------------
(* run(): start                                                              *)

\* The pool opens, the job is registered, cron and the listener start.
Boot ==
    /\ main = "boot"
    /\ main' = "serve" /\ pool' = "open" /\ cron' = TRUE /\ listener' = "up"
    /\ UNCHANGED <<cause, graceOver, nights, job, holders, req>>

\* No configuration, no database, or, with the pool left open, no proxies or no
\* secrets.
BootFails ==
    /\ main = "boot"
    /\ main' = "exited"
    /\ pool' \in {"none", "open"}
    /\ UNCHANGED <<cause, listener, graceOver, jobVars, holders, req>>

\* A cron spec that does not parse: here the pool is closed first.
RegisterFails ==
    /\ main = "boot"
    /\ main' = "exited" /\ pool' = "closed"
    /\ UNCHANGED <<cause, listener, graceOver, jobVars, holders, req>>

-----------------------------------------------------------------------------
(* A handler: WithTx, then statements on the pool                            *)

\* A connection once accepted brings requests also when the listener is dead, and
\* one that has brought none yet while Shutdown waits.
Arrive(r) ==
    /\ Alive /\ (listener \in {"up", "dead"} \/ main = "stop http")
    /\ req[r].stage = "none"
    /\ req' = [req EXCEPT ![r].stage = "begin"]
    /\ UNCHANGED <<mainVars, jobVars, pool, holders>>

BeginTx(r) ==
    /\ Alive /\ CanAcquire
    /\ req[r].stage = "begin"
    /\ holders' = holders \cup {r}
    /\ req' = [req EXCEPT ![r].stage = "tx", ![r].attempt = @ + 1]
    /\ UNCHANGED <<mainVars, jobVars, pool>>

\* Acquire fails at once on a closed pool; for BeginTx that is no conflict, so
\* there is no retry, and after the commit the answer becomes an error unless
\* the statement was one whose failure is ignored.
ClosedPool(r) ==
    /\ Alive /\ pool = "closed"
    /\ req[r].stage \in {"begin", "after"}
    /\ \E answer \in {"ok", "error"} :
          /\ answer = "ok" => req[r].stage = "after"
          /\ req' = [req EXCEPT ![r].stage = "done", ![r].answer = answer,
                                ![r].refused = TRUE]
    /\ UNCHANGED <<mainVars, jobVars, pool, holders>>

\* The connection is kept for the statements after the commit.
WrongCommit(r) ==
    /\ Alive /\ req[r].stage = "tx"
    /\ req' = [req EXCEPT ![r].stage = "after", ![r].effects = @ + 1]
    /\ UNCHANGED <<mainVars, jobVars, pool, holders>>

Commit(r) ==
    /\ Alive /\ req[r].stage = "tx"
    /\ holders' = holders \ {r}
    /\ req' = [req EXCEPT ![r].stage = "after", ![r].effects = @ + 1]
    /\ UNCHANGED <<mainVars, jobVars, pool>>

\* 40001 or 40P01: nothing took effect, roll back and wait.
Conflict(r) ==
    /\ Alive /\ req[r].stage = "tx"
    /\ holders' = holders \ {r}
    /\ req' = [req EXCEPT ![r].stage = "backoff"]
    /\ UNCHANGED <<mainVars, jobVars, pool>>

\* A lost connection is retried like a conflict.
WrongCommitLost(r) ==
    /\ Alive /\ req[r].stage = "tx"
    /\ holders' = holders \ {r}
    /\ \E e \in {0, 1} :
          req' = [req EXCEPT ![r].stage = "backoff", ![r].effects = @ + e]
    /\ UNCHANGED <<mainVars, jobVars, pool>>

\* The connection breaks while the commit is under way: it may have taken
\* effect.  The error is no PgError and is not retried.
CommitLost(r) ==
    /\ Alive /\ req[r].stage = "tx"
    /\ holders' = holders \ {r}
    /\ \E e \in {0, 1} :
          req' = [req EXCEPT ![r].stage = "done", ![r].answer = "error",
                             ![r].effects = @ + e]
    /\ UNCHANGED <<mainVars, jobVars, pool>>

\* An error that is not retried leaves the transaction open.
WrongGiveUp(r) ==
    /\ Alive /\ req[r].stage \in {"begin", "tx", "backoff"}
    /\ req' = [req EXCEPT ![r].stage = "done", ![r].answer = "error"]
    /\ UNCHANGED <<mainVars, jobVars, pool, holders>>

\* fn fails for good, or the client goes away and its context with it.
GiveUp(r) ==
    /\ Alive /\ req[r].stage \in {"begin", "tx", "backoff"}
    /\ holders' = holders \ {r}
    /\ req' = [req EXCEPT ![r].stage = "done", ![r].answer = "error"]
    /\ UNCHANGED <<mainVars, jobVars, pool>>

\* fn panics: runOnce's deferred function sees no error and does not roll back,
\* Recovery answers 500, and nobody gives the connection back.
Panic(r) ==
    /\ Alive /\ req[r].stage = "tx"
    /\ req' = [req EXCEPT ![r].stage = "panicked", ![r].answer = "error"]
    /\ UNCHANGED <<mainVars, jobVars, pool, holders>>

\* The wait is over, also the one after the last attempt.
Backoff(r) ==
    /\ Alive /\ req[r].stage = "backoff"
    /\ req' = IF req[r].attempt < Attempts
              THEN [req EXCEPT ![r].stage = "begin"]
              ELSE [req EXCEPT ![r].stage = "done", ![r].answer = "error"]
    /\ UNCHANGED <<mainVars, jobVars, pool, holders>>

\* Audit, stored answer or re-read: single statements, their connection is back
\* when they return.
Afterwards(r) ==
    /\ Alive /\ CanAcquire
    /\ req[r].stage = "after"
    /\ \E answer \in {"ok", "error"} :
          req' = [req EXCEPT ![r].stage = "done", ![r].answer = answer]
    /\ UNCHANGED <<mainVars, jobVars, pool, holders>>

-----------------------------------------------------------------------------
(* The cron job                                                              *)

CronFires ==
    /\ Alive /\ cron /\ ~Running /\ nights < MaxNights
    /\ nights' = nights + 1
    /\ job' = [left |-> Steps, late |-> FALSE]
    /\ UNCHANGED <<mainVars, cron, pool, holders, req>>

BatchBegin ==
    /\ Alive /\ CanAcquire
    /\ Running /\ ~job.late /\ Batch \notin holders
    /\ holders' = holders \cup {Batch}
    /\ UNCHANGED <<mainVars, jobVars, pool, req>>

\* A step ends, well or not: it is counted or noted, and the next one follows.
BatchStep ==
    /\ Alive /\ Batch \in holders
    /\ holders' = holders \ {Batch}
    /\ job' = [job EXCEPT !.left = @ - 1]
    /\ UNCHANGED <<mainVars, cron, nights, pool, req>>

BatchTimeout ==
    /\ Alive /\ Running /\ ~job.late
    /\ job' = [job EXCEPT !.late = TRUE]
    /\ UNCHANGED <<mainVars, cron, nights, pool, holders, req>>

\* Between two steps ctx.Err() breaks the loop; in one, the statement or the
\* wait for a connection is cancelled and the loop breaks after it.
BatchCutShort ==
    /\ Alive /\ Running /\ job.late
    /\ holders' = holders \ {Batch}
    /\ job' = [job EXCEPT !.left = 0]
    /\ UNCHANGED <<mainVars, cron, nights, pool, req>>

-----------------------------------------------------------------------------
(* Shutdown                                                                  *)

ListenerDies ==
    /\ Alive /\ listener = "up"
    /\ listener' = "dead"
    /\ UNCHANGED <<main, cause, graceOver, jobVars, pool, holders, req>>

\* The select of run() takes what is ready; either way sched.Stop is next.
\* It keeps cron from firing and waits for the job.
StopCron ==
    /\ main = "serve"
    /\ \/ cause' = "signal"
       \/ cause' = "listener" /\ listener = "dead"
    /\ main' = "stop cron"
    /\ cron' = FALSE
    /\ UNCHANGED <<listener, graceOver, nights, job, pool, holders, req>>

\* sched.Stop returns without waiting for the job.
WrongCronStopped ==
    /\ main = "stop cron"
    /\ IF cause = "signal"
       THEN main' = "stop http" /\ listener' = "closed" /\ UNCHANGED pool
       ELSE main' = "close pool" /\ pool' = "closed" /\ UNCHANGED listener
    /\ UNCHANGED <<cause, graceOver, jobVars, holders, req>>

\* After a signal srv.Shutdown closes the listener; a server whose listener
\* died goes straight to pool.Close.
CronStopped ==
    /\ main = "stop cron" /\ ~Running
    /\ IF cause = "signal"
       THEN main' = "stop http" /\ listener' = "closed" /\ UNCHANGED pool
       ELSE main' = "close pool" /\ pool' = "closed" /\ UNCHANGED listener
    /\ UNCHANGED <<cause, graceOver, jobVars, holders, req>>

\* The pool is closed although handlers are left.
WrongDrained ==
    /\ main = "stop http"
    /\ main' = "close pool" /\ pool' = "closed"
    /\ UNCHANGED <<cause, listener, graceOver, jobVars, holders, req>>

\* Shutdown has seen every connection idle.
Drained ==
    /\ main = "stop http" /\ \A r \in Requests : ~InFlight(r)
    /\ main' = "close pool" /\ pool' = "closed"
    /\ UNCHANGED <<cause, listener, graceOver, jobVars, holders, req>>

\* Thirty seconds later it gives up; the error is logged.
GraceOver ==
    /\ main = "stop http"
    /\ graceOver' = TRUE
    /\ main' = "close pool" /\ pool' = "closed"
    /\ UNCHANGED <<cause, listener, jobVars, holders, req>>

\* The process ends with the pool still in use.
WrongExit ==
    /\ main = "close pool"
    /\ main' = "exited"
    /\ UNCHANGED <<cause, listener, graceOver, jobVars, pool, holders, req>>

\* pool.Close returns when every connection is back, and the process ends with
\* whatever handlers it still has.
Exit ==
    /\ main = "close pool" /\ holders = {}
    /\ main' = "exited"
    /\ UNCHANGED <<cause, listener, graceOver, jobVars, pool, holders, req>>

-----------------------------------------------------------------------------

Handle(r) ==
    \/ Arrive(r) \/ BeginTx(r) \/ ClosedPool(r) \/ Commit(r) \/ Conflict(r)
    \/ CommitLost(r) \/ GiveUp(r) \/ Panic(r) \/ Backoff(r) \/ Afterwards(r)

Job == CronFires \/ BatchBegin \/ BatchStep \/ BatchTimeout \/ BatchCutShort

Main ==
    \/ Boot \/ BootFails \/ RegisterFails \/ ListenerDies \/ StopCron \/ CronStopped
    \/ Drained \/ GraceOver \/ Exit

Next == Job \/ Main \/ \E r \in Requests : Handle(r)

Spec == Init /\ [][Next]_vars

\* A statement returns or its connection breaks; timers fire; whoever can go on
\* does.  The pool serves its waiters in turn, so one that is let in again and
\* again gets a connection in the end.
Returns(r) == Commit(r) \/ Conflict(r) \/ CommitLost(r) \/ GiveUp(r) \/ Panic(r)

Fairness ==
    /\ WF_vars(CronStopped) /\ WF_vars(Drained \/ GraceOver) /\ WF_vars(Exit)
    /\ WF_vars(BatchStep) /\ WF_vars(BatchTimeout) /\ WF_vars(BatchCutShort)
    /\ \A r \in Requests :
          /\ WF_vars(req[r].stage = "tx" /\ Returns(r))
          /\ WF_vars(ClosedPool(r)) /\ WF_vars(Backoff(r))
          /\ SF_vars(BeginTx(r)) /\ SF_vars(Afterwards(r))

FairSpec == Spec /\ Fairness

-----------------------------------------------------------------------------

\* A batch that runs has an open pool until it is through: the order that the
\* comment in run() fixes, cron before the pool, on both ways out.
BatchKeepsPool == Running => pool = "open"

\* A handler finds the pool closed only after the thirty seconds, or when the
\* listener died and nobody waits for handlers.
ClosedOnlyAfterGrace ==
    \A r \in Requests : req[r].refused => graceOver \/ cause = "listener"

\* The process never ends inside a transaction, neither a handler's nor the
\* batch's.
NothingCutOff ==
    main = "exited" => /\ ~Running
                       /\ \A r \in Requests : req[r].stage # "tx"

\* However often WithTx tries, what it does takes effect at most once, and a
\* caller told so has had it done.
OneEffect ==
    \A r \in Requests :
        /\ req[r].effects <= 1
        /\ req[r].answer = "ok" => req[r].effects = 1
        /\ req[r].attempt <= Attempts

\* A handler panicked in its transaction and its connection is lost.
Leaked == \E r \in Requests : req[r].stage = "panicked"

\* Once sched.Stop is called the process ends, unless a panic has kept a
\* connection: the job has its timeout, Shutdown its thirty seconds, and
\* pool.Close waits only for statements.
ShutdownEnds == main = "stop cron" ~> (main = "exited" \/ Leaked)

\* Every request is answered, however small the pool and whatever else runs,
\* unless the process ends before or a panic has kept a connection: nobody asks
\* for a second connection while holding one.
RequestsAnswered ==
    \A r \in Requests :
        InFlight(r) ~> (~InFlight(r) \/ main = "exited" \/ Leaked)
================================================================================
