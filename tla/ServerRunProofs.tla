---------------------------- MODULE ServerRunProofs ----------------------------
(***************************************************************************)
(* The safety properties of ServerRun for any number of requests, any size *)
(* of the pool, any number of attempts, steps and nights.  The invariant   *)
(* has three parts: Order, where run() is and what it has closed; Holding, *)
(* who must have a connection; Counted, what a request has done at each    *)
(* stage.                                                                  *)
(***************************************************************************)
EXTENDS ServerRun, TLAPS

Order ==
    /\ main = "boot" =>
          /\ pool = "none" /\ listener = "off" /\ ~cron /\ ~Running /\ holders = {}
          /\ \A r \in Requests : req[r].stage = "none"
    /\ \A r \in Requests : req[r].refused => pool = "closed"
    /\ cron => main = "serve"
    /\ main \in {"serve", "stop cron", "stop http"} => pool = "open"
    /\ Running => main \in {"serve", "stop cron"}
    /\ main = "stop cron" => cause # "none"
    /\ main = "stop http" => listener = "closed"
    /\ main = "exited" => holders = {}
    /\ main = "close pool" =>
          \/ graceOver \/ cause = "listener"
          \/ listener = "closed" /\ \A r \in Requests : ~InFlight(r)

Holding ==
    /\ Batch \in holders => Running
    /\ \A r \in Requests : req[r].stage = "tx" => r \in holders

Counted(r) ==
    /\ req[r].stage = "none" => req[r].attempt = 0
    /\ req[r].stage = "begin" => req[r].attempt < Attempts
    /\ req[r].stage \in {"none", "begin", "tx", "backoff", "panicked"} =>
          req[r].effects = 0 /\ req[r].answer # "ok"
    /\ req[r].stage = "after" => req[r].effects = 1
    /\ req[r].effects <= 1
    /\ req[r].answer = "ok" => req[r].effects = 1
    /\ req[r].attempt <= Attempts

IInv ==
    /\ TypeOK /\ Order /\ Holding
    /\ ClosedOnlyAfterGrace
    /\ \A r \in Requests : Counted(r)

-----------------------------------------------------------------------------
(* What the groups of actions leave alone                                    *)

\* A request can arrive.
Open == listener \in {"up", "dead"} \/ main = "stop http"

\* A handler never touches what run() and cron own.
LEMMA HandleFrame ==
    ASSUME NEW r \in Requests, Handle(r)
    PROVE  UNCHANGED <<mainVars, jobVars, pool>>
  BY DEF Handle, Arrive, BeginTx, ClosedPool, Commit, Conflict, CommitLost, GiveUp,
         Panic, Backoff, Afterwards, mainVars, jobVars

\* A handler changes its own request and nobody else's connection.
LEMMA HandleOwn ==
    ASSUME TypeOK, NEW r \in Requests, Handle(r)
    PROVE  /\ \A q \in Requests \ {r} : req'[q] = req[q]
           /\ \A h \in (Requests \cup {Batch}) \ {r} : h \in holders' <=> h \in holders
           /\ holders' \subseteq Requests \cup {Batch}
  BY DEF Handle, Arrive, BeginTx, ClosedPool, Commit, Conflict, CommitLost, GiveUp,
         Panic, Backoff, Afterwards, TypeOK

\* The steps of a request, by the stage it is in.
LEMMA HandleStage ==
    ASSUME TypeOK, NEW r \in Requests, Handle(r), Counted(r)
    PROVE  /\ req' \in [Requests -> Request]
           /\ Counted(r)'
           /\ req'[r].stage = "tx" => r \in holders'
           /\ Alive
           /\ ~InFlight(r) => Open /\ req[r].stage = "none"
           /\ req'[r].refused => req[r].refused \/ (pool = "closed" /\ InFlight(r))
  <1>1. req \in [Requests -> Request] /\ req[r] \in Request
    BY DEF TypeOK
  <1>2. Attempts \in Nat /\ Attempts > 0
    BY ServerAssumption DEF ServerAssumption
  <1>3. CASE Arrive(r)
    <2>1. req' = [req EXCEPT ![r] = [req[r] EXCEPT !.stage = "begin"]]
      BY <1>3 DEF Arrive
    <2>. QED
      <3>1. Alive /\ Open /\ req[r].stage = "none"
        BY <1>3 DEF Arrive, Open
      <3>2. /\ req' \in [Requests -> Request]
            /\ req'[r] = [req[r] EXCEPT !.stage = "begin"]
        BY <1>1, <2>1 DEF Request, Stages
      <3>3. Counted(r)'
        BY <1>1, <1>2, <3>1, <3>2 DEF Counted, Request
      <3>. QED
        BY <1>1, <3>1, <3>2, <3>3 DEF Request
  <1>4. CASE BeginTx(r)
    <2>1. req' = [req EXCEPT ![r] = [req[r] EXCEPT !.stage = "tx", !.attempt = req[r].attempt + 1]]
      BY <1>4 DEF BeginTx
    <2>. QED
      BY <1>1, <1>2, <1>4, <2>1 DEF BeginTx, Counted, Request, Stages, InFlight
  <1>5. CASE ClosedPool(r)
    <2>1. PICK answer \in {"ok", "error"} :
             /\ answer = "ok" => req[r].stage = "after"
             /\ req' = [req EXCEPT ![r] = [req[r] EXCEPT !.stage = "done", !.answer = answer,
                                        !.refused = TRUE]]
      BY <1>5 DEF ClosedPool
    <2>. QED
      BY <1>1, <1>2, <1>5, <2>1 DEF ClosedPool, Counted, Request, Stages, InFlight
  <1>6. CASE Commit(r)
    <2>1. req' = [req EXCEPT ![r] = [req[r] EXCEPT !.stage = "after", !.effects = req[r].effects + 1]]
      BY <1>6 DEF Commit
    <2>. QED
      BY <1>1, <1>2, <1>6, <2>1 DEF Commit, Counted, Request, Stages, InFlight
  <1>7. CASE Conflict(r)
    <2>1. req' = [req EXCEPT ![r] = [req[r] EXCEPT !.stage = "backoff"]]
      BY <1>7 DEF Conflict
    <2>. QED
      BY <1>1, <1>2, <1>7, <2>1 DEF Conflict, Counted, Request, Stages, InFlight
  <1>8. CASE CommitLost(r)
    <2>1. PICK e \in {0, 1} :
             req' = [req EXCEPT ![r] = [req[r] EXCEPT !.stage = "done", !.answer = "error",
                                        !.effects = req[r].effects + e]]
      BY <1>8 DEF CommitLost
    <2>2. req[r].stage = "tx" /\ req[r].effects = 0 /\ Alive
      BY <1>8 DEF CommitLost, Counted
    <2>3. req[r].effects + e \in {0, 1} /\ req[r].effects + e \in Nat
      BY <2>2
    <2>4. req' \in [Requests -> Request]
      BY <1>1, <2>1, <2>3 DEF Request, Stages
    <2>. QED
      <3>1. /\ req'[r].stage = "done" /\ req'[r].answer = "error"
            /\ req'[r].effects \in {0, 1} /\ req'[r].attempt = req[r].attempt
            /\ req'[r].refused = req[r].refused
        BY <1>1, <2>1, <2>3 DEF Request
      <3>. QED
        BY <2>2, <2>4, <3>1 DEF Counted, InFlight
  <1>9. CASE GiveUp(r)
    <2>1. req' = [req EXCEPT ![r] = [req[r] EXCEPT !.stage = "done", !.answer = "error"]]
      BY <1>9 DEF GiveUp
    <2>. QED
      BY <1>1, <1>2, <1>9, <2>1 DEF GiveUp, Counted, Request, Stages, InFlight
  <1>10. CASE Panic(r)
    <2>1. req' = [req EXCEPT ![r] = [req[r] EXCEPT !.stage = "panicked", !.answer = "error"]]
      BY <1>10 DEF Panic
    <2>. QED
      BY <1>1, <1>2, <1>10, <2>1 DEF Panic, Counted, Request, Stages, InFlight
  <1>11. CASE Backoff(r)
    <2>1. CASE req[r].attempt < Attempts
      <3>1. req' = [req EXCEPT ![r] = [req[r] EXCEPT !.stage = "begin"]]
        BY <1>11, <2>1 DEF Backoff
      <3>. QED
        BY <1>1, <1>2, <1>11, <2>1, <3>1 DEF Backoff, Counted, Request, Stages, InFlight
    <2>2. CASE ~(req[r].attempt < Attempts)
      <3>1. req' = [req EXCEPT ![r] = [req[r] EXCEPT !.stage = "done", !.answer = "error"]]
        BY <1>11, <2>2 DEF Backoff
      <3>. QED
        BY <1>1, <1>2, <1>11, <2>2, <3>1 DEF Backoff, Counted, Request, Stages, InFlight
    <2>. QED
      BY <2>1, <2>2
  <1>12. CASE Afterwards(r)
    <2>1. PICK answer \in {"ok", "error"} :
             req' = [req EXCEPT ![r] = [req[r] EXCEPT !.stage = "done", !.answer = answer]]
      BY <1>12 DEF Afterwards
    <2>. QED
      BY <1>1, <1>2, <1>12, <2>1 DEF Afterwards, Counted, Request, Stages, InFlight
  <1>. QED
    BY <1>3, <1>4, <1>5, <1>6, <1>7, <1>8, <1>9, <1>10, <1>11, <1>12 DEF Handle

-----------------------------------------------------------------------------
(* The invariant                                                             *)

LEMMA Initially ==
    ASSUME Init
    PROVE  IInv
  <1>1. Attempts \in Nat /\ Attempts > 0
    BY ServerAssumption DEF ServerAssumption
  <1>2. TypeOK
    BY DEF Init, TypeOK, Request, Stages
  <1>3. Order
    BY DEF Init, Order, Running, InFlight
  <1>4. Holding /\ ClosedOnlyAfterGrace
    BY DEF Init, Holding, ClosedOnlyAfterGrace
  <1>5. \A r \in Requests : Counted(r)
    BY <1>1 DEF Init, Counted
  <1>. QED
    BY <1>2, <1>3, <1>4, <1>5 DEF IInv

\* A step of a handler.
LEMMA HandlePreserves ==
    ASSUME IInv, NEW r \in Requests, Handle(r)
    PROVE  IInv'
  <1> USE DEF IInv
  <1>1. UNCHANGED <<mainVars, jobVars, pool>>
    BY HandleFrame
  <1>2. /\ \A q \in Requests \ {r} : req'[q] = req[q]
        /\ \A h \in (Requests \cup {Batch}) \ {r} : h \in holders' <=> h \in holders
        /\ holders' \subseteq Requests \cup {Batch}
    BY HandleOwn
  <1>3. /\ req' \in [Requests -> Request]
        /\ Counted(r)'
        /\ req'[r].stage = "tx" => r \in holders'
        /\ Alive
        /\ ~InFlight(r) => Open /\ req[r].stage = "none"
        /\ req'[r].refused => req[r].refused \/ (pool = "closed" /\ InFlight(r))
    BY HandleStage
  <1>4. TypeOK'
    BY <1>1, <1>2, <1>3 DEF TypeOK, mainVars, jobVars
  <1>5. Order'
    <2>1. main # "boot"
      <3>1. SUFFICES ASSUME main = "boot" PROVE FALSE
        OBVIOUS
      <3>2. listener = "off" /\ req[r].stage = "none"
        BY <3>1 DEF Order
      <3>. QED
        BY <1>3, <3>1, <3>2 DEF InFlight, Open
    <2>2. main # "exited"
      BY <1>3 DEF Alive
    <2>3. \A q \in Requests : req'[q].refused => pool = "closed"
      BY <1>2, <1>3 DEF Order
    <2>4. main = "close pool" => graceOver \/ cause = "listener"
      <3>1. ASSUME main = "close pool", ~graceOver, cause # "listener" PROVE FALSE
        <4>1. listener = "closed" /\ ~InFlight(r)
          BY <3>1 DEF Order
        <4>. QED
          BY <1>3, <3>1, <4>1 DEF Open
      <3>. QED
        BY <3>1
    <2>. QED
      BY <1>1, <2>1, <2>2, <2>3, <2>4 DEF Order, mainVars, jobVars, Running
  <1>6. Holding'
    BY <1>1, <1>2, <1>3, ServerAssumption DEF Holding, ServerAssumption, jobVars, Running
  <1>7. ClosedOnlyAfterGrace'
    BY <1>1, <1>2, <1>3 DEF ClosedOnlyAfterGrace, Order, Alive, mainVars, TypeOK, InFlight
  <1>8. \A q \in Requests : Counted(q)'
    BY <1>2, <1>3 DEF Counted
  <1>. QED
    BY <1>4, <1>5, <1>6, <1>7, <1>8

\* A step of the cron job.
LEMMA JobPreserves ==
    ASSUME IInv, Job
    PROVE  IInv'
  <1> USE DEF IInv
  <1>1. UNCHANGED <<mainVars, pool, cron, req>> /\ Alive
    BY DEF Job, CronFires, BatchBegin, BatchStep, BatchTimeout, BatchCutShort, jobVars
  <1>2. /\ nights' \in Nat /\ job' \in [left : Nat, late : BOOLEAN]
        /\ holders' \subseteq Requests \cup {Batch}
        /\ Running' => Running \/ cron
        /\ Batch \in holders' => Running'
        /\ \A r \in Requests : r \in holders => r \in holders'
    <2>0. Steps \in Nat /\ Steps > 0 /\ Batch \notin Requests
      BY ServerAssumption DEF ServerAssumption
    <2>1. CASE CronFires
      <3>1. job' = [left |-> Steps, late |-> FALSE] /\ holders' = holders
        BY <2>1 DEF CronFires
      <3>2. nights' \in Nat
        <4>1. nights' = nights + 1
          BY <2>1 DEF CronFires
        <4>2. nights \in Nat
          BY DEF TypeOK
        <4>. QED
          BY <4>1, <4>2
      <3>3. job' \in [left : Nat, late : BOOLEAN] /\ Running'
        BY <2>0, <3>1 DEF Running
      <3>4. Running' => Running \/ cron
        BY <2>1 DEF CronFires
      <3>5. holders \subseteq Requests \cup {Batch}
        BY DEF TypeOK
      <3>. QED
        BY <3>1, <3>2, <3>3, <3>4, <3>5
    <2>2. CASE BatchBegin
      BY <2>2 DEF BatchBegin, TypeOK, Running, jobVars
    <2>3. CASE BatchStep
      <3>1. job.left \in Nat /\ job.left > 0
        BY <2>3 DEF BatchStep, Holding, Running, TypeOK
      <3>. QED
        <4>1. job' = [job EXCEPT !.left = job.left - 1] /\ job \in [left : Nat, late : BOOLEAN]
          BY <2>3 DEF BatchStep, TypeOK
        <4>2. job' \in [left : Nat, late : BOOLEAN]
          BY <3>1, <4>1
        <4>3. holders' = holders \ {Batch} /\ nights' = nights /\ Running
          BY <2>3, <3>1 DEF BatchStep, Running
        <4>. QED
          BY <2>0, <4>2, <4>3 DEF TypeOK
    <2>4. CASE BatchTimeout
      BY <2>4 DEF BatchTimeout, TypeOK, Running, Holding
    <2>5. CASE BatchCutShort
      BY <2>0, <2>5 DEF BatchCutShort, TypeOK, Running
    <2>. QED
      BY <2>1, <2>2, <2>3, <2>4, <2>5 DEF Job
  <1>3. TypeOK'
    BY <1>1, <1>2 DEF TypeOK, mainVars
  <1>4. Order'
    <2>1. main # "boot"
      <3>1. SUFFICES ASSUME main = "boot" PROVE FALSE
        OBVIOUS
      <3>2. ~cron /\ ~Running /\ holders = {}
        BY <3>1 DEF Order
      <3>3. pool # "open"
        BY <3>1 DEF Order
      <3>. QED
        BY <3>2, <3>3 DEF Job, CronFires, BatchBegin, BatchStep, BatchTimeout,
           BatchCutShort, CanAcquire
    <2>. QED
      BY <1>1, <1>2, <2>1 DEF Order, mainVars, InFlight, Alive
  <1>5. Holding'
    BY <1>1, <1>2 DEF Holding
  <1>6. ClosedOnlyAfterGrace' /\ \A r \in Requests : Counted(r)'
    BY <1>1 DEF ClosedOnlyAfterGrace, Counted, mainVars
  <1>. QED
    BY <1>3, <1>4, <1>5, <1>6

\* A step of run(), or the end of the listener.
LEMMA MainPreserves ==
    ASSUME IInv, Main
    PROVE  IInv'
  <1> USE DEF IInv
  <1>1. UNCHANGED <<nights, job, holders, req>>
    BY DEF Main, Boot, BootFails, RegisterFails, ListenerDies, StopCron, CronStopped,
           Drained, GraceOver, Exit, jobVars
  <1>2. TypeOK'
    <2> USE <1>1 DEF TypeOK, jobVars
    <2>1. CASE Boot
      BY <2>1 DEF Boot
    <2>2. CASE BootFails
      BY <2>2 DEF BootFails
    <2>3. CASE ListenerDies
      BY <2>3 DEF ListenerDies
    <2>4. CASE StopCron
      BY <2>4 DEF StopCron
    <2>5. CASE CronStopped
      BY <2>5 DEF CronStopped
    <2>6. CASE Drained
      BY <2>6 DEF Drained
    <2>7. CASE GraceOver
      BY <2>7 DEF GraceOver
    <2>8. CASE Exit
      BY <2>8 DEF Exit
    <2>9. CASE RegisterFails
      BY <2>9 DEF RegisterFails
    <2>. QED
      BY <2>1, <2>2, <2>3, <2>4, <2>5, <2>6, <2>7, <2>8, <2>9 DEF Main
  <1>3. Holding' /\ \A r \in Requests : Counted(r)'
    BY <1>1 DEF Holding, Counted, Running
  <1>4. Order' /\ ClosedOnlyAfterGrace'
    <2> USE <1>1 DEF Order, ClosedOnlyAfterGrace, InFlight, Running, TypeOK
    <2>1. CASE Boot
      BY <2>1 DEF Boot
    <2>2. CASE BootFails
      BY <2>2 DEF BootFails, jobVars
    <2>3. CASE ListenerDies
      BY <2>3 DEF ListenerDies, jobVars, Alive
    <2>4. CASE StopCron
      BY <2>4 DEF StopCron
    <2>5. CASE CronStopped
      BY <2>5 DEF CronStopped, jobVars
    <2>6. CASE Drained
      BY <2>6 DEF Drained, jobVars
    <2>7. CASE GraceOver
      BY <2>7 DEF GraceOver, jobVars
    <2>8. CASE Exit
      BY <2>8 DEF Exit, jobVars
    <2>9. CASE RegisterFails
      BY <2>9 DEF RegisterFails, jobVars
    <2>. QED
      BY <2>1, <2>2, <2>3, <2>4, <2>5, <2>6, <2>7, <2>8, <2>9 DEF Main
  <1>. QED
    BY <1>2, <1>3, <1>4

LEMMA Inductive == Spec => []IInv
  <1>1. Init => IInv
    BY Initially
  <1>2. IInv /\ [Next]_vars => IInv'
    <2> SUFFICES ASSUME IInv, [Next]_vars PROVE IInv'
      OBVIOUS
    <2>1. CASE UNCHANGED vars
      <3> USE <2>1 DEF IInv, vars, mainVars, jobVars
      <3>1. TypeOK'
        BY DEF TypeOK
      <3>2. Order'
        BY DEF Order, Running, InFlight
      <3>3. Holding' /\ ClosedOnlyAfterGrace'
        BY DEF Holding, ClosedOnlyAfterGrace, Running
      <3>4. \A r \in Requests : Counted(r)'
        BY DEF Counted
      <3>. QED
        BY <3>1, <3>2, <3>3, <3>4
    <2>2. CASE Job
      BY <2>2, JobPreserves
    <2>3. CASE Main
      BY <2>3, MainPreserves
    <2>4. CASE \E r \in Requests : Handle(r)
      BY <2>4, HandlePreserves
    <2>. QED
      BY <2>1, <2>2, <2>3, <2>4 DEF Next
  <1>. QED
    BY <1>1, <1>2, PTL DEF Spec

-----------------------------------------------------------------------------
(* The theorems                                                              *)

\* The state stays of its type.
THEOREM TypeCorrect == Spec => []TypeOK
  <1>1. IInv => TypeOK
    BY DEF IInv
  <1>. QED
    BY <1>1, Inductive, PTL

\* The batch never runs without the pool: sched.Stop waits for it and comes first.
THEOREM BatchAlwaysHasPool == Spec => []BatchKeepsPool
  <1>1. IInv => BatchKeepsPool
    BY DEF IInv, Order, BatchKeepsPool
  <1>. QED
    BY <1>1, Inductive, PTL

\* A handler meets the closed pool only when Shutdown gave up on it, or when the
\* listener had died.
THEOREM PoolClosesLast == Spec => []ClosedOnlyAfterGrace
  <1>1. IInv => ClosedOnlyAfterGrace
    BY DEF IInv
  <1>. QED
    BY <1>1, Inductive, PTL

\* pool.Close waits for everyone who has a connection, so that the process ends
\* inside no transaction.
THEOREM EndsOutsideTransactions == Spec => []NothingCutOff
  <1>1. IInv => NothingCutOff
    <2>1. ASSUME IInv, main = "exited", NEW r \in Requests, req[r].stage = "tx"
          PROVE  FALSE
      BY <2>1 DEF IInv, Holding, Order
    <2>. QED
      BY <2>1 DEF IInv, Order, NothingCutOff
  <1>. QED
    BY <1>1, Inductive, PTL

\* WithTx takes effect at most once in any number of attempts.
THEOREM RetriesTakeEffectOnce == Spec => []OneEffect
  <1>1. IInv => OneEffect
    BY DEF IInv, Counted, OneEffect
  <1>. QED
    BY <1>1, Inductive, PTL
================================================================================
