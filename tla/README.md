# Verification of gym-check-in

TLA+ models of the gym check-in backend (`src/backend`, Go, PostgreSQL), the TLC
runs that check them on small instances and the TLAPS proofs about them. Line
references are to this repository; `PROJECT.json` maps every definition to the lines
it models.

## 1. The system

Branches of a gym have members; members buy memberships (`monthly`, or `pass10` with
ten visits); a kiosk checks members in; admins grant, pause, unpause, refund and
extend memberships; a batch at 00:01 KST moves memberships from one status to
another. One Go process serves HTTP (Gin) over a pgx pool; PostgreSQL keeps all
durable state and enforces some invariants itself.

| Component | State | Operations | What is hard | What makes it correct |
|---|---|---|---|---|
| Membership lifecycle (`http/memberships.go`, `repo/memberships_repo.go`) | `memberships`, `payments`, `membership_events` | grant, pause, unpause, cancel-pause, refund | a handler checks a row outside its transaction and updates it by id inside | dates stay periods; money, ledger and rows agree |
| Bulk extension (`http/bulk_extend.go`) | the same | extend every row a filter selects, atomically | moves holds too; may hit the exclusion constraint half-way | all or nothing; the ledger explains the result |
| Daily batch (`batch/`, `repo/maintenance_repo.go`) | the same and the cleaned tables | six steps, a transaction each | failed, missed, repeated and concurrent runs; the order of the steps | no row makes a step fail; what is due is done, late if need be |
| Kiosk check-in (`http/checkins.go`, `repo/checkins_repo.go`, `cache/lru.go`) | `check_ins`, the 5 s LRU | check-in, search, today's count | date resolved before the transaction; cached answers | one charge a day; a double tap makes one visit |
| Idempotency (`idempotency/`, `repo/idempotency_repo.go`) | `idempotency_keys` | look up, store, clean up | look-up and store are not atomic with the operation they guard | an operation per key; answers belong to their requests |
| Authentication (`auth/`, `http/admins_auth.go`, `middleware/auth.go`) | `admins`, `revoked_refresh_tokens`, tokens held by clients | login, refresh, logout, change and reset of passwords | tokens outlive what they were issued from | an accepted token tells what the row says; ended sessions stay ended |
| Login lockout (`repo/admins_repo.go` 139-184) | `failed_login_count`, `locked_until`, the temporary password's expiry | failed and successful logins | concurrent failures, an old lock time | five failures lock, and nothing else does |
| Branches, members, admins (`http/branches.go`, `members.go`, `admins.go`) | `branches`, `members`, `admins` | create, update, soft delete | a delete checks for use, then deletes; others look up, then insert | nobody is left in a deleted branch |
| Rate limiter (`middleware/ratelimit.go`) | token buckets by address | allow, collect idle buckets | continuous refill, a cap, lazy collection | collection never gives a client more than a kept bucket would |
| Transactions (`repo/tx.go`) | none | run with up to three attempts | a retried function must not have done its work | at most one attempt commits |
| Server (`cmd/server/main.go`) | scheduler, listener, pool | start, shut down | the order of shutting down | nothing uses what is already closed |
| Sales summary (`http/sales.go`, `repo/payments_repo.go`) | none | three queries | they are not one snapshot | the parts add up |
| Lists (`http/cursor.go`) | none | pages by cursor | rows come and go between pages | no row twice, none skipped |
| Step executor (`scripts/execute.py`) | a phase's step files | run, retry, gate | interruption between two writes | a step is done once |
| Audit, errors, configuration, CORS, logging, prototype | none | formatting | | |

How they interact: the handlers call the repository layer on one pool; the batch
writes the same rows on its own connections; the kiosk's cache is filled and read
by handlers only; every authenticated request reads the admin's row once
(`RequireAuth`) and trusts the claims of the token for role and branch; the client
is the only one to retry a request, and the idempotency key is how it may.

The hazards, with the line where each bites and the properties that watch it, are
in `PROJECT.json`.

## 2. Modules

Definitions named `Wrong...` are not the program: they are plausible slips in the
definition they precede, and every checked property is known to fail with one.

### Memberships

`MembershipTable` is the table as data: a row, the constraints PostgreSQL enforces
(`RowOK`, `Overlap`), and what every UPDATE of the repository layer does to a row
(`Paused`, `Unpaused`, `Cancelled`, `Extended`, `ExpireIfPast`, ...). It has no
state.

`MembershipLifecycle` is the state machine. A handler is two actions: `...Check`
resolves the KST date, reads the row outside any transaction and leaves a request in
`inflight`; the action named after the operation is its transaction. Between them
other handlers, the batch and midnight may pass. A transaction is one step: it takes
its row locks before it writes and is committed whole or not at all; a statement that
breaks a constraint (`Accepts`) is not enabled, and the request fails
(`RequestFails`). A bulk extension updates row after row and could fail on an
intermediate table, but it only moves ends forward, so an overlap on the way is an
overlap at the end. The batch is three steps of its own (`BatchExpire`,
`BatchReactivate`, `BatchSchedule`), each a transaction, each of which may fail
(`BatchStepFails`), with the process stopping anywhere (`BatchStops`). `history` is
`membership_events` as a reader replays it.

`MembershipClaims` states what a document says and the code does not do.
`MCMembershipLifecycle` gives the constants of the TLC instances;
`MembershipLifecycleProofs` holds the theorems.

### Idempotency

`IdempotentEndpoint` is one of the endpoints with an `Idempotency-Key`: a request
arrives, misses, conflicts or replays (`Lookup`), performs or refuses its operation
(`Performs`, `Refuses`), saves the answer (`Saves`, with `SaveFails` because the
handlers ignore `Store`'s error) and leaves; it may end after the commit and before
the store (`Dies`), or with an error (`Errs`). `CleanUp` is the batch's, with a
comparison of its own (`Old`) beside that of the look-up (`Fresh`). `log` is what was
performed; it is not in the program.

`OncePerKey` is what the header promises a client. `KeepsPromise` says that the
endpoint implements it, with `heard` mapped to what the callers were answered.

### Kiosk

`KioskCheckIn` has the 5-second LRU in front of the check-in: `Hit` and `Miss` are
`LRU.Get`, `CheckIn` the transaction of `DoCheckIn`, `Answer` the `Set` that follows
it. The cache is a sequence, most recently used first. `last` (what was last put
there for a member) and `since` (who was served since a member was) are history
variables for the properties. The transaction itself, with its effect on passes, is
`CheckIn` of `MembershipLifecycle`.

### Sessions

`AdminSession` has the row of one admin, the tokens issued to it and the list of
revoked refresh tokens. A request is one action per database access: Login reads the
row and issues (`LoginRead`, `LoginIssue`); Refresh parses the token, looks at the
list, reads the row and issues (four actions); Logout parses and revokes; each of
the four changes of the row begins with the check or read of its handler and ends
with `Commit`. Time is in seconds, because `iat` is. Access tokens carry
`view`, the row as the handler read it. Whether a password is right is left open
(the request may `GiveUp` anywhere).

### Branches

`BranchDirectory` has the branches and the members and admins in them. The deletion
of a branch is a transaction of four statements under READ COMMITTED, each a step of
its own, since nothing it does makes the others wait; a creation, or a move of an
admin to another branch, is the look-up of the branch and a later write. `since`, the
time a row got its branch, is there for the property only.

### Server

`ServerRun` is one life of the process. `main` is where `run()` is: it boots, serves,
waits in `sched.Stop` for the job, in `srv.Shutdown` for the handlers or thirty
seconds, in `pool.Close` for the connections, and ends; a listener that died takes the
short way that leaves `srv.Shutdown` out. Starting may fail before the pool is open,
after it, without closing it (`BootFails`), or at the registration of the job
(`RegisterFails`). Requests arrive while the listener is up; on connections it had
accepted they also do once it is dead and while `srv.Shutdown` waits. A handler is reduced to what that order
matters to: one `WithTx` (`BeginTx`, `Commit`, `Conflict` and `Backoff`, `CommitLost`,
`GiveUp`, `Panic`), then the statements after it (`Afterwards`), which fail when the
pool is closed (`ClosedPool`). The batch is a third kind of holder, a connection for
each step, cut short by its own timeout. `holders` is who has a connection: a handler
never asks for a second one. What the transactions do is the other modules' matter;
`effects` counts those that took effect.

### Login and limiter

`RateLimiter` is the table of token buckets as data: what `Allow` finds, answers and
leaves for a caller that read the clock at `t`. A token is `Window` units, so the
continuous refill of the code is exact in whole numbers.

`AdminLogin` puts it in front of the row of an admin. `Pass` is the limiter, with a
clock reading of its own; `Try` is the reading Login takes, the read of the row and the
two checks; the comparison of the password takes the time until `Fail`, `Succeed` or
`Lose`, each one UPDATE with the time the login read. Anything may happen between
these three. `TooMany` (429), `Unread` (no body, no such admin, no database) and
`Refuse` (locked, expired) are the ways not to get there, `Elsewhere` the other routes
behind the limiter, `ResetPassword` and `UpdatePassword` the handlers that write the
same columns. `debt` (what a bucket let through and time has not paid back),
`forgiven` and `wrong` (failures in a row) are there for the properties.

### Reads of several statements

`CursorPaging` is the walk of a client through the members or the raw check-ins, page
by page. A row is stamped when its transaction begins, numbered when it is inserted
and seen when the transaction commits, so rows appear out of order behind and ahead of
the cursor. `SalesSummary` has the three statements of a summary, over payments that
grants and refunds add between them, with the cast to `int4` that makes a
statement fail; it may also fail for any other reason (`Fail`). Both are reads whose statements are no snapshot; `MCPoolReads` runs them side by
side, since neither touches the other's state.

## 3. What is checked

A bound is small where two of a thing already show the interaction. The clocks are
bounded in the guards of `Midnight` and `Tick`.

| Run | Instance | What it shows |
|---|---|---|
| `lifecycle_races` | one membership, two handlers at a time, a batch with failures, two days, requests across midnight | `PeriodSound`, `RefundsBooked`, `BatchNeverAborts`: no interleaving of a check, a transaction and a batch step yields an inverted period, a refund in one table and not in another, or a row that would abort a batch step |
| `lifecycle_punctual` | two memberships of one member, a batch every night, four days, no request across midnight | `LedgerExplainsEnd`, `ScheduledHoldsStart`, `HoldsEndOnTime`, `OneVisitPerDay`, `CancelNeverConflicts`: what the ledger, the holds and the passes promise in ordinary operation |
| `lifecycle_catch_up` | one membership, failing and missed batches, three days, fairness | `HoldsEnd`, `PastEndExpires`: what is due is eventually done |
| `idem_races` | two callers, two keys, two bodies, overlaps, failures, stale keys used again | `AnswersMatch`, `StoredAnswerStands` |
| `idem_calm` | the same with clients that wait, four hours, window of one | `KeepsPromise`: the refinement of `OncePerKey` |
| `kiosk_cache` | three members, a cache of two, overlapping taps of one of them, restarts | `CacheHoldsLatest`, `FreshAnswerKept`, `Debounced` |
| `session_tokens` | two requests at a time, two grants, one session, access tokens of two seconds and refresh tokens of four | `TokensCurrent`, `SessionEnds`, `LogoutEnds` |
| `branch_deletion` | two requests at a time, two branches, a member, an admin | `StrandedByRaceOnly` |
| `server_run` | two requests, one connection, three attempts, a batch of two steps on one night, a signal or a dead listener at any moment, fairness | `BatchKeepsPool`, `ClosedOnlyAfterGrace`, `NothingCutOff`: the order of the shutdown; `OneEffect`: retries; `ShutdownEnds`, `RequestsAnswered`: the shutdown ends and requests are answered unless a panic has kept a connection |
| `admin_login` | two logins at a time from two addresses, a limit of two failures, locks of two ticks, five ticks, buckets of one token | `RateKept`, `ForgottenIsPaid`: the limiter; `FiveLocks`, `LockNeedsFive`, `NobodyTriesLocked`, `LockNotCut`: the lock |
| `pool_reads` | a walk by pages of two over four rows of two transactions at a time, with deletions; a summary over two memberships with refunds, two days, a largest integer of three | `NoRowTwice`, `NoRowSkipped`, `LaterRowsStayOut`; `PartsGrow`, `QuietPartsAgree`, `RefundsMirrorGrants`: how the parts of an answer relate; `QuietRangeFits`: a range too large for `int4` is refused by the first statement, not after it |
| `claim_refund_final` | the smallest instance that shows it | a statement of the documents that a behaviour of the code breaks; see section 6 |

Why the bounds are enough. The lifecycle needs two handlers, because every race in it
is between a check and one other transaction, and a day before and after a hold,
because every rule compares with today; a hold of two days has a first, a last and
a day on neither side. Terms are one or two days and passes have one or two visits:
the code treats all terms alike. The cache needs as many members as it has room for
and one more. The sessions need tokens that expire within the run, a revocation that
is cleaned up within it, and two requests, since a property relates one reader to
one change; a second session would only be independent of the first. One connection makes
two requests and the batch compete for the pool as more would for more; three attempts
are the code's. A login lock needs two logins past the check together and a second
lock after the first is over; two addresses with room for one idle bucket bring the
collection about. A walk needs a page that is full, one that is not, and rows that
share a stamp; a summary needs a grant and a refund on either side of its range and a
sum above the largest integer. Where a larger instance would be convincing, the theorem
of section 5 has none of the bounds.

A type invariant that is proved for all constants is not listed in a run.

Symmetry is declared for sets whose members no definition tells apart (workers,
sessions, grants, keys, ...), in runs that check safety only; the liveness runs have
none.

Deadlock is checked where the clock is not what stops the system. In
`MembershipLifecycle`, `AdminSession` and `BranchDirectory` the calendar ends and
everything may be done (`CHECK_DEADLOCK FALSE`). So it is in `AdminLogin`; in
`pool_reads` the walk and the summary come to their end, and `ServerRun` ends when the
process does, or waits for ever in `pool.Close` after a panic, which `ShutdownEnds`
excuses and names.

## 4. Assumptions

Fairness of `lifecycle_catch_up`. `Scheduler` assumes that one runner starts
batch runs again and again (cron, `batch/scheduler.go`) and that a step which can
succeed again and again does eventually (SF): a failed step is logged and tried
again the next night, and nothing in the code makes one fail for ever. Handlers
have no fairness.

Fairness of `server_run`. A statement returns or its connection breaks, timers fire and
goroutines that can go on do (WF on the returns of a transaction, the wait between
attempts, the steps and the timeout of the batch, and the three waits of the shutdown).
A request that wants a connection gets one when it is free again and again (SF on
`BeginTx` and `Afterwards`), since the pool serves those who wait in the order they
came. Neither clients, nor cron, nor signals are fair: a shutdown that is never asked
for is not promised. A panic inside a transaction keeps its connection for good
(section 6), so both properties say "or a handler panicked".

`Lag` and `MaxAge`. The limiter reads the clock before it takes its lock, a login reads
it before the row, and compares the password after that. `Lag` is the longest the
first two take, `MaxAge` the longest from a login's reading to its record. `AdminLogin` bounds both delays; the properties
and theorems are in terms of the bounds, for any values.

Punctuality. `lifecycle_punctual` assumes `Punctual`, `~Faults` and `~Straddle`: the
batch succeeds before the day's first request and no request spans midnight. Only
`LedgerExplainsEnd` and `ScheduledHoldsStart` need all of it, and TLC finds them
violated when a batch may fail or come late; that is what the documents' recovery
procedures are about, and section 6 names one thing they do not recover.
`HoldsEndOnTime` and `OneVisitPerDay` need `~Straddle` alone, and are proved from it;
a request that outlives its day breaks `HoldsEndOnTime` by putting a hold in force
that was over at midnight. `CancelNeverConflicts` needs nothing and is proved so.

`MaxRequest`. `AdminSession` and `BranchDirectory` bound the length of a request.
The code sets no deadline on a handler (the server's timeouts, `main.go:289`, end
connections, not handlers); the bound states the properties relative to whatever
requests last in operation. The clocks of the server and of the database agree.

`Overlap`. `TokensCurrent` assumes that no two changes of one admin are in progress
together; `SessionEnds` and `LogoutEnds` do not.

One batch process at a time is not assumed; `Runners` may have more members. The
theorems hold for any number.

## 5. What is proved

Every theorem holds for all constants that satisfy the named assumptions of its
module; `PROJECT.json` lists the theorems. The proofs are checked to the last leaf.

`MembershipLifecycleProofs`. `IInv` is inductive: types, `Accepts(rows)` (every
reachable table satisfies the constraints, or the transaction would not have
committed), `PeriodSound`, `HoldsLogged` (a hold has an event), `RequestsKnown` (a
request names a row that exists, though the row may have changed since the check) and
`RefundsBooked`. `PeriodSound` is not inductive alone: taking a hold back is sound
only because `ApplyPause` moved the end by the length of the hold, which is its second
half, and the pause overwriting an earlier hold keeps it. `BatchNeverAborts` follows
because expiry and reactivation only leave the set of rows the exclusion constraint
looks at or keep their dates, and `CancelNeverConflicts` because a shortened period
stays inside the old one.

Three more invariants carry the properties that need a request to end on its day;
`RequestsInv` (each request is of today, each pause begins no earlier) is their common
part, and the theorems have `~Straddle`, the first two also `Punctual`, as hypotheses.
`PunctualInv` is behind `LedgerExplainsEnd` and `ScheduledHoldsStart`. A row is
`Explained` by its events: not only its end, but its hold, for the next event is
applied to the hold the reader knows. That the two agree on whether a bulk extension
moves a hold is true only of rows that are `OnTime`, so the invariant also says how
late a row can be: by one day at the most while the night's batch runs, by none once
it is done, with what the second step has done already in between. `HoldsInv` is
behind `HoldsEndOnTime` and needs no punctual batch: a run that is past the step that
reactivates without a failure, on one day, has left no hold in force that is over
(`Reactivated`), no statement makes or keeps one on that day (`StatementsEnd`,
`BatchEnds`), and midnight ends the claim; runs of several processes, failures and
requests between the steps are all allowed. `VisitsInv` is behind `OneVisitPerDay`: the
visits taken off a pass are the size of a set of days (`Charged`) that has all days on
which only this pass was used and no day on which it was not. The set is needed
because the number alone does not tell whether the day of the next check-in is in it.

`IdempotentEndpointProofs`. `StoredAnswerStands` and `AnswersMatch` need only what is
true in every interleaving: a response that is known anywhere is an index of the log
with the same key and body. The refinement `PromiseKept` needs `Calm` and the stronger
`IInv`: `Alone` (one request works under a key, and the key is free), `CallersKnow`,
`RowsKnow` (a row tells of the latest operation of its key) and `Remembered` (an
operation is forgotten only after the window, for which the comparison of the
clean-up must agree with that of the look-up, `OldIsStale`). Each step of the endpoint maps to
`Perform`, `Tell`, `Forget`, `Pass` or a stutter.

`AdminSessionProofs`. `Times` orders all times (a request begins before now and ends
within `MaxRequest`; a revocation is not older than its token). `LogoutIsFinal` adds
that a session that was logged out is on the list or has expired, and that a refresh
past the list began before the logout or outlasted the token. `ChangesEndSessions`
adds that a refresh that found an older row began within `MaxRequest` of the cutoff;
it survives the cutoff moving back. `AcceptedTokensCurrent` assumes `~Overlap`: then
an update decides on the row it writes (`OneChange`), and what is being carried is the
row or was read before the last change.

`BranchDirectoryProofs`. `OnlyRacesStrand` relates three facts about a deletion in
progress: who was counted, when it began, and how long a look-up can be old.

`KioskCheckInProofs`. The entries of the cache stand in the order of their last use:
`Recent` says that whoever stands further in front is among those served since. The
entry that is evicted has as many others in front of it as the cache has room for, and
they are different members, so at least that many were served since (`AsManySince`).
For `TapsDebounced` the invariant adds that one request of a patient member works at a
time (`OneAtATime`), that a request past the look-up had a reason to miss
(`MissedRightly`, which outlasts whatever is served meanwhile), and that what was
cached is about a check-in no later than its time of caching (`LastKnown`).

`ServerRunProofs`. The invariant has three parts. `Order`: for each place of `run()`,
what has ended; a job runs only while the process serves or waits in `sched.Stop`, and
the pool is open until the place it is closed at. `Holding`: a transaction, or a step
of the batch, has a connection. `Counted`: at each stage of a request how often it took
effect; one that is waiting to try again has had none.

`AdminLoginProofs`. `Accounts` is about the row: below the limit the counter counts
exactly the failures in a row, and at the limit there is a lock (`Counter`); a login
that read the row before its lock is marked (`Early`). `Limits` is about the buckets:
what an address was let through is covered by what its bucket lacks and has regained,
up to the lag (`Owes`), and the same against the last time it was seen (`Idle`), which
is what a collection forgets.

`PoolReadsProofs`, the lists. `Parted`: while a walk goes on, the cursor stands between what was
shown and what is to come, and rows of transactions begun since the first page are on
the side of what was shown, inserted or not. `Bounded` and `Fresh` keep the clock and
the sequence ahead of every row.

`PoolReadsProofs`, the summary. The sums of `SalesSummary` are folds over finite sets,
which the prover cannot expand; the module first proves what is needed of them, for
any summed function: a sum grows by what an added element brings (`TotalStep`), is
monotone in the set and in the function (`TotalPart`, `TotalCompare`), splits over
disjoint sets and over groups (`TotalUnion`, `TotalByGroup`), and is no larger
over a set whose elements each have a match of their own in the other, worth as much
(`TotalMatched`). Each is an induction over finite
sets, written as one: a minimal counterexample of the subset order
(`SetInduction`) would have an element to take away. `SalesInv` then says of each part
of an answer that it is the sum over a table between the one before it and the
present one (`PartsRead`), of every refund that a grant of its membership, method
and amount stands beside it (`Mirrored`), and of totals that were answered that they
fit (`TotalFits`); what the later statements select is a part of what was summed there
(`PartFits`), which gives `QuietRangeFits`.

Every invariant and every action property the runs check is stated by a theorem.
Only model-checked are the liveness properties (`HoldsEnd`, `PastEndExpires`,
`ShutdownEnds`, `RequestsAnswered`): fairness and ENABLED are outside the prover's
reach. The run of section 6 that finds a violation has nothing to prove.

## 6. Disagreements between documents and code

With a run: a refunded membership can be paused and comes back
(`claim_refund_final`), quoted in `PROJECT.json` under `findings`.

Observed while modelling, without a run of its own:

- A hold whose first day had no batch never starts: the step selects by equality
  (`maintenance_repo.go:60`), while `docs/OPERATIONS.md:117` and `docs/ROADMAP.md:201`
  say that a batch run later makes up for a missed one.
- Two requests under one key that both miss perform twice (`bulk_extend.go:129`);
  `docs/TESTING.md:365` expects one. `idem_calm` assumes clients that wait.
- A member created while a branch is being deleted stays in the deleted branch
  (`branches.go:186`); the comment at `:168` says the transaction rules it out.
- `cursor.go:24` says that rows inserted while a client pages stay out of later pages;
  this is so for rows whose transaction began after the first page
  (`LaterRowsStayOut`), not for one that was open then.
- A list of exactly `limit` rows has no next cursor (`members_repo.go:268`);
  `docs/TESTING.md:139` expects one.
- A panic inside a transaction keeps its connection (`tx.go:72`: the deferred function
  sees no error and does not roll back), and `pool.Close` then waits for ever.
- A membership can be refunded more than once, and the parts of one sales summary can
  differ by payments committed while it is put together (`payments_repo.go:147`). A
  range whose sum `int4` does not hold is answered with 500.
- `payments_repo.go:99-101` says of a bucket that all three values are non-negative;
  `net_total` is negative for a range that holds a refund and not its grant, as the
  formula of `docs/TESTING.md:301` has it. `Bucket` types it so.
- `docs/API.md:546` and `docs/TESTING.md:299` have a sales range over 92 days answered
  with 400 `RANGE_TOO_LARGE`; `sales.go` has no such limit (its comment at `:72` says
  that `API.md` pins none).
- `docs/API.md:48` and `docs/TESTING.md:145` allow an address 60 requests in 15
  minutes. The limiter refills continuously (`ratelimit.go:77`), so a window that begins
  with a full bucket lets the bucket through and its refill, up to twice as many;
  `TestRateLimit_PartialRefill` takes some 90 in seven and a half minutes. `RateKept`
  states what the bucket does keep.
- Unpausing before the last day of a hold leaves an end before the original one
  (`memberships_repo.go:282`); `docs/TESTING.md:344` says this does not happen.
- A key used again after 24 hours and before the clean-up performs, but its answer
  is not stored (`idempotency_repo.go:65`), so a third request performs again;
  `docs/API.md:44` promises the first answer for 24 hours.
- A PATCH of an admin that overlaps another one decides on a row that is no longer
  there (`admins.go:249`), so role or branch can change without the stamp that
  `admins_repo.go:384` says every such change makes. `AdminSession` with `Overlap`
  has the behaviour; `TokensCurrent` is stated without it.
- `password_updated_at` can move back when two changes overlap, each stamped with a
  time read before its transaction.
- Two refunds that both read `active` book two negative payments; two pauses that
  both read `pause_used=false` extend twice.
- The endpoint label of an idempotency key holds `:id` literally
  (`memberships.go:58`), so one key and body sent for two members compare equal.
- Simultaneous taps on the kiosk miss the cache together (`docs/ROADMAP.md:220`
  knows of it); `Debounced` is about members that wait for their answer.
- The date of the same-day test of a check-in is the handler's, that of the visit
  the database's (`checkins_repo.go:101`).

## 7. What is not modelled

Formatting, parsing, audit records, logging, CORS and headers, configuration,
password hashing, single reads (search, today's count, the list of admins) and the
static prototype: they have no control of their own. PATCH of members and branches
writes columns nothing else reads. Methods and memos of payments except in
`SalesSummary`. The bodies of statements are modelled by what they do to the columns a
property mentions. Clock differences between server and database. The development
tooling under `scripts/` is no part of the running system.

## 8. What is left

1. The safety half of the liveness properties as theorems: for `ShutdownEnds`, that
   every step of the shutdown moves it forward; for `PastEndExpires`, that nothing but
   a statement that moves the end takes a row that is past it back into its period.
2. `StepExecutor` (`scripts/execute.py`): the statuses of a phase's steps across
   retries, gates and interruptions.
