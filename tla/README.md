# A TLA+ verification of worklease

worklease hands out time-bounded leases on units of work. A *work ID* names a unit of work; a *holder* acquires its lease, renews it from a background goroutine while it works, stores checkpoints, and releases it with a declared *exit mode*. If it dies, the lease runs out and a successor takes over, reads the last checkpoint and how its predecessor left. A *fencing token* drawn for every grant makes the storage refuse whatever an old holder still sends.

On top of the lease client sit a `Runner` that wraps one run of a work function, `Elect` that wraps one term of a leader, and a `Pool` that runs many work IDs.

This directory models that system in TLA+, checks the models with TLC on small instances, and proves with TLAPS, for every size, the safety properties of the two backends, of the lease client with its renewal goroutine, of the runner, of leader election, of the pool and of an application over them.

## Inventory

| part | state | operations | interacts through |
|---|---|---|---|
| backend contract, `backend/backend.go`, `errors.go` | exit modes, records, sentinel errors | the `Backend` interface | called by the lease client and the vacuum |
| memory backend, `backend/memory/memory.go` | map of records, a mutex, a fencing counter, a clock | Acquire, Checkpoint, Renew, Release, ReadCheckpoint, Forget, Sweep | one mutex |
| PostgreSQL backend, `backend/postgres/postgres.go`, `schema.sql` | one table, one sequence, the server's clock | the same, one SQL statement each, and a second one to explain a write that changed nothing | rows and row locks under READ COMMITTED |
| lease client, `worklease.go`, `acquire.go` | none of its own; a `Token` per grant | Acquire (with polling), Checkpoint, Renew, Release, ReadCheckpoint, Forget | the backend; local clock |
| renewal, `renewal.go` | per token: lease window, published window, stop channel, cancel cause, Renew call in flight | StartRenewal, stopRenewal, LeaseWindow, the goroutine's three selects | channels, contexts, an atomic pointer, the backend |
| vacuum, `vacuum.go` | none | Sweep | the backend |
| worker, `worker/runner.go` | one run's local state | Run | the lease client |
| leader, `leader/leader.go` | one election's local state | Elect, three callbacks | the lease client |
| pool, `pool/pool.go` | active set, dead counter, run context | Run, ActiveSlots | one Runner per slot |
| options, `lease.go` | the resolved acquire and renewal options | `WithRenewalInterval`, `WithRenewalBackoff`, `HasWaitForLease` and others | read by Acquire, StartRenewal and `pool.New` |
| conformance suite, `backend/conformance` | none | one spec per promise of the interface | calls a backend |
| codec, `checkpoint/codec.go` | none | Encode, Decode | called by work functions |
| examples, `examples/` | an application's cursor | work functions | Runner, Pool, the lease client |
| observers, mocks | none | event callbacks | called by all of the above |

What is hard in this code:

- **Concurrency.** The renewal goroutine, the goroutine of each Renew call, the caller's thread and other processes all act on one row. `stopRenewal` does not wait for a Renew call in flight.
- **Time.** The client bounds its own belief by a local clock, the storage decides by its own, and they differ by an unknown offset. Replies may be slow; in PostgreSQL a statement decides by the time its transaction began, and may write much later.
- **Failure.** A holder may die at any point; a reply may be lost after the call took effect; a Renew call may hang for ever.
- **Cleanup.** Run, Elect and Pool.Run end with several calls on a context that outlives the caller's; each may fail before or after its effect, while the lease may be lost at any moment, and the error they return has to agree with what a successor will read.
- **Deletion.** Forget and Sweep remove rows, so nothing about fencing may live in the row alone.

What makes each part correct:

- *backend*: tokens fence for good; a released lease is free at once and stays so; a declared exit is final; a successor reads the true exit, holder and state of its predecessors.
- *client and renewal*: while a session's lease window is open, the stored lease is its own and lasts at least as long, so no two windows are open at once; a cancellation cause is true; stopping and losing a lease do not hang on a call.
- *worker, leader, pool*: the recorded exit and the returned error agree with what happened; callbacks tell the truth; a retirement is never lost or invented; shutdown waits for cleanup and terminates.
- *an application over all of it*: what a stored cursor claims was done, and nothing that it claims is done again.

`PROJECT.json` lists the hazards line by line, with the properties that cover each.

## Modules

| module | models |
|---|---|
| `Backend` | exit modes, results and records shared by all backends |
| `LeaseContract` | the abstract specification: a ledger of tenures, without clocks or rows |
| `MemoryBackend` | the memory backend; refines `LeaseContract` |
| `MemoryBackendProofs` | theorems about `MemoryBackend` |
| `PostgresBackend` | the PostgreSQL backend, statement by statement; refines `LeaseContract` if statements are prompt |
| `PostgresBackendProofs` | theorems about `PostgresBackend` |
| `LeaseClient` | sessions, renewal goroutines and Renew calls over `MemoryBackend`, which it instantiates |
| `LeaseService` | the lease client as its callers meet it: every call over `LeaseContract`, with failures |
| `Runner` | `worker.Runner.Run`, over `LeaseService` |
| `Leader` | `leader.Elect`, over `LeaseService` |
| `Pool` | `pool.Pool.Run`: slots that call `Runner` again and again |
| `LeaseClientProofs` | theorems about `LeaseClient`, on top of `MemoryBackendProofs` |
| `LeaseServiceProofs` | lemmas about the calls of `LeaseService`, shared by the next four |
| `RunnerProofs`, `LeaderProofs` | theorems about `Runner` and `Leader` |
| `PoolProofs` | theorems about `Pool`, on top of `RunnerProofs` |
| `MigrationProofs` | theorems about `Migration`, on top of `RunnerProofs` |
| `Conformance` | the conformance suite, run against `MemoryBackend` |
| `Migration` | an application: the cross-tenant migration example, over `Runner`, with the codec |
| `MC...` | the instances TLC checks |

Each definition keeps the name of the function, query or field it stands for where TLA+ allows; `PROJECT.json` maps it to its lines. Operators whose comment begins with *Mutant* are deliberate bugs: each property is known to fail when its mutant replaces the definition below it.

### LeaseContract

`ledger` maps each grant to a tenure: its work ID, holder, declared exit, saved state and whether its row was deleted. The newest tenure of a work ID, while stored and undeclared, may save and declare an exit, once. `TruePrevExit` and `TrueState` say what the holder of a tenure must be told about those before it: the immediate predecessor's exit and holder (`expired` if it declared none), and the last state saved by anyone, over any number of silent holders, but nothing from before a deletion.

### MemoryBackend

`records`, `seq` and `now` are the struct's map, counter and clock. Each method is one action since it runs under the mutex; `XResult` is its chain of early returns and `X` its effect when the result is `OK`. The mutex does not stop the clock: a method decides on one reading and stores `expiresAt` and `updatedAt` from two later ones, at most `MaxStall` apart (`Readings`). `ledger` is a history variable, and also supplies the records callers pass back (`Issued`): every record ever returned may come back at any time, in any order.

### LeaseClient

A session is one use of the library by one process: `AcquireBegin` reads the local start, `AcquireTakesEffect` is the backend's part (its reply may be lost), `StartRenewal` is the return, or `AcquireRefused` with or without polling. `ren` is the position of the renewal goroutine: in the outer `select`, about to launch a call, waiting on it (`attempt`), in a backoff, about to publish a window, or exited. All three selects have the same stop, parent and window cases, so one action each (`SeesStop`, `SeesParentDone`, `SeesWindowClosed`) serves them all. Which ready case a select takes is left open, as in Go. The Renew call has its own position (`callAt`), looks at its context once on entry, takes effect later, and is discarded if nobody waits for it. The clock of the sessions is `now + Offset`. Ticker and backoff lengths are left open: those timers may fire at any moment. A crash may happen wherever the session is; a call already sent may still take effect. `WindowOpen`, and so `WindowWithinExpiry` and `OneOpenWindow`, speak of the time until the session's own Release or Forget: `LeaseWindow` (`renewal.go:129-145`) goes on reporting the window after those, and a caller that has given its lease up must not rely on it.

### PostgresBackend

`NOW()` is the start of the transaction, so a statement begins (`...Begin`, fixing `at`), and at some later moment writes (`...Writes`), evaluating its WHERE clause on the row as it then is, but with its own `at`. PostgreSQL evaluates the clause on a snapshot and again on the latest row version after waiting for its lock; as the snapshot may be any taken since the statement began, this amounts to: the row changes at a moment when the clause holds, and no row changes if at some moment it does not (`ZeroRows`). `Acquire` draws the token of its `VALUES` row (`AcquireDraws`) before it inserts, and a second one if it updates. A write of no row is classified by a later statement (`Classify`). `MaxDelay` bounds the time between a statement's `NOW()` and its write. `grants` is the history, in the order in which the lease was granted.

### LeaseService

`Runner`, `Leader` and `Pool` see the client through the results of its calls, so for them it is the ledger of `LeaseContract` and one operator per call. `AcquireCall`, `CheckpointCall` and `ReleaseCall` either take effect and return `OK`, take effect and return an error (a lost reply), or return an error without effect; sentinels are returned only where the contract allows them. There is no clock: a lease may lapse and a competitor be granted the next tenure at any moment, a Release may find the lease expired whenever it is called, and the window may be exhausted at any moment. That the backends keep the contract is the subject of `MemoryBackend` and `PostgresBackend`, that the renewal goroutine reports only true losses that of `LeaseClient` (`CauseIsTrue`); `RenewalLoss` rests on it.

### Runner, Leader and Pool

`pc` follows the numbered steps of `Run` and `Elect`; each step that reads or changes something others can change is an action. `cause` is the cause of the renewal context, set by `LoseLease` until stopRenewal has returned; `cancelled` is the caller's context. What a work function returns is left open, within `Finals` and `WorkErrs` (a nil final state, `NoState`, is not stored; an empty one, `EmptyFinal`, clears the checkpoint); it may save state at any time, and panic. It returns `ErrFenced` only if a call of its own did. `Leader` splits the two context reads of step 6, as either context may end between them.

In `Pool` a slot is a run of `Runner` that is called again and again (`CallsAgain`); `slot` is the position of its goroutine around Run. The decision after Run is split where it reads the run context, as that may end right after. The increment of the dead counter and the cancellation that may follow it are two steps. Runs that are no slots of the pool belong to other processes.

### Conformance

A spec of the suite is a sequence of calls with the outcomes it expects, as data; the actions `Call` and `TimePasses` run it on an instance of `MemoryBackend`. The suite uses the wall clock and never waits, so between two calls the clock may stand still or move past a whole TTL. `Outcome` passes each call through the backend's check of its context (`MemoryBackend!CheckContext`), `Passes` is what the matchers of the call accept, and a call that does not pass ends the spec. `SuiteSucceeds` states the condition under which a spec passes, in both directions: it must take less than `normalTTL`, and where a Sweep with `Retention: time.Nanosecond` is expected to delete a row (`conformance.go:364`, `547`, `580`, `649`) the clock must have moved by more than a nanosecond since that row was written. On a clock of coarse resolution those four specs fail although the backend is right; beyond these two conditions nothing in the suite depends on the clock.

### Migration

`at` is the position of the work function, `progress` its cursor; `migrated` is the effect on the outside world, per tenant the tokens under which it was migrated. `Replaced` ends a coordinator at any step and starts the next one: a crash and a restart. PrevExit comes from `TruePrevExit` of the contract.

## Runs

| run | instance | checks |
|---|---|---|
| `memory_handoff` | 1 work ID, 3 grants, clock to 2, readings 1 apart | `ReadsAreTrue`, `HandoffIsImmediate`, `FencedForever`, `ImplementsContract` |
| `client_safety` | 2 sessions with one holder ID, TTL 2, offset 3, clock to 3, 2 grants | `WindowWithinExpiry`, `OneOpenWindow`, `CauseIsTrue`, `ReleasedStaysFree` |
| `client_liveness` | 1 session, clock to 4 | `StopRenewalReturns`, `LossIsSignalled` |
| `postgres_handoff` | 2 connections, 2 holders, delay at most the grace period, 3 tokens | `HandoffIsImmediate`, `ShortfallIsBounded`, `AnswersAreTrue`, `ReadsAreTrue`, `ImplementsContract` |
| `postgres_answers` | 2 connections, delay beyond the grace period, lapses, Forget and Sweep, 3 tokens | `AnswersAreTrue`, `ReadsAreTrue` |
| `postgres_late_renew` | 2 connections, delay 3 | `HandoffIsImmediate`, violated: see Findings |
| `runner_outcomes` | 2 runs, 1 work ID, 2 grants, 1 state | `NilMeansRecorded`, `RecordedSuccessIsComplete`, `LostRunsDeclareNothing`, `FencedIsTrue`, `WorkErrorSurvives` |
| `leader_callbacks` | 2 calls of Elect, 2 grants | `RelinquishedIsRecorded`, `LostIsTrue`, `LossIsAnnounced`, `ElectReturns` |
| `pool_slots` | a pool of 2 slots, 2 grants | `ResultIsTrue`, `RetiredIsRecorded`, `RunWaitsForCleanup` |
| `pool_returns` | a pool of 1 slot and another process on its work ID, 2 grants | `PoolReturns`, `SlotTriesAgain` |
| `conformance_suite` | 50 call sequences of 49 specs, gaps of 0, 1 and 2 retentions and of a TTL | `SuiteSucceeds` |
| `migration_resumes` | 2 tenants, 2 coordinators at a time, 2 grants | `CursorIsTrue`, `RetiredIsComplete`, `ListedIsNotRedone` |

`TypeOK` is checked in one run of each module that has one, that of `Runner` as part of `PoolTypeOK`. All runs but `postgres_late_renew` pass.

Bounds. One work ID suffices where nothing relates two of them. Three grants allow a silent holder between the one that stored a state and the one that reads it, and a deletion with a fresh row after it. In `memory_handoff` all callers use one holder ID, the harder case, since only the token tells them apart; `conformance_suite` and `postgres_handoff` have several, and the theorems hold for any number. The clock runs long enough for a lease to run out and be taken over, and for a sweep's retention to pass. In `client_safety` the offset exceeds the TTL. In `conformance_suite` the clock reaches twice a TTL, so that each condition of `SuiteSucceeds` is met and missed. TLC stops at these bounds (`MaxTime`, `MaxSeq`, `MaxStall`, `MaxDelay`), so reaching one is not an error: deadlock is not checked. Symmetry among holders, sessions, connections or runs is used in safety runs only; no definition orders them.

For `Runner` and `Leader` two grants are enough for the one case that matters to a run, being overtaken by a successor, at every step; a third tenure would meet the second as the second meets the first. In `pool_slots` two slots with a work ID each make the difference between some and all dead; once the two grants are used up a slot keeps being refused. In `migration_resumes` the second tenant gives cursors in the middle of the list, and the second tenure takes over from one that crashed, was overtaken, abandoned or retired. `Run` treats every error but `ErrFenced` and, in `Pool`, `ErrLeaseHeld` and permanent ones alike, so one driver error stands for all others there; `Elect` tells context errors apart.

In `PostgresBackend` time is counted in microseconds and durations in nanoseconds, with `Unit` nanoseconds to the microsecond, so that rounding of a TTL and of a retention is part of the model. `Ops` names the methods callers use besides Acquire, and `Modes` the exit modes they pass to Release; the two passing runs divide them up: declared exits and takeovers after them in `postgres_handoff`, lapses and deletions in `postgres_answers`, where Release is only called with an invalid mode. A takeover uses up two tokens, as the code draws one before it finds the conflict.

Fairness. In `client_liveness`: `WF` on a renewal goroutine: the Go scheduler runs a goroutine that can run. `SF` on its taking a closed stop channel: a select picks uniformly among its ready cases, so it does not prefer others for ever. `WF` on the return of `stopRenewal` once the goroutine has exited. Nothing is assumed of the backend: a Renew call may hang for ever, and time may stop. In `leader_callbacks` and `pool_returns`: `WF` on the calls of the lease client, since each runs under a context or a cleanup timeout and a backend returns once that is done; `WF` on a work function's return once its renewal context is done, which the docs of `WorkFn` and `Elect` require (nothing is assumed of it before); `WF` on the steps of the goroutines and on timers.

## Findings

1. `postgres_late_renew`. A Renew that began more than 1 ms before a Release, and writes after it, finds `expires_at` still greater than its own `NOW()`. It revives the released lease for a full TTL, which `docs/ARCHITECTURE.md` and ADR-0004 rule out. It needs a statement to be delayed, by the network between protocol messages, by a lock or by the scheduler, which is rare and hard to provoke in a test; the memory backend has no such case. `postgres_handoff` shows the exact condition under which the promise holds: no statement writes later than the grace period after its `NOW()`. A guard `exit_mode IS NULL` in `queryRenew` would remove the condition.

The modules define five more properties that a document of the repository states and the code does not keep. No run lists them; each is reproduced by checking it instead of the properties of the configuration named.

2. `PostgresBackend!ExitIsFinal`, in `PostgresLateRenew.cfg` with `Ops = {"release"}` and `Modes = {"retired", "finished"}`. In the same way a Release overwrites a declared exit; `docs/ARCHITECTURE.md:699` says "A second `Release` cannot overwrite the first."
3. `PostgresBackend!ExpiryCoversWindow`, in `PostgresLateRenew.cfg`. A Checkpoint that began before a Renew and writes after it moves the stored expiry back, below the window the client reports (`renewal.go:124-126`). `ShortfallIsBounded` says by how much: never more than the delay.
4. `PostgresBackend!TokensGrow`, in `PostgresLateRenew.cfg`. A delayed insert, after another grant was made and forgotten, grants the lease under a smaller token than the earlier grant, against ADR-0016. The library's own fencing compares for equality and is unaffected (`AnswersAreTrue`).
5. `Leader!LossIsReported`, in `Leader.cfg`. `Elect` looks at the renewal context before it stops renewal and acts on its cause after. A loss in between is acted upon (no Release, `ErrFenced` or the exhausted window is returned) but not reported to `OnLost`, whose doc comment (`leader/leader.go:91-92`) knows no such exception; the comment of step 6 (`leader/leader.go:197`) is narrower. `LossIsAnnounced` shows that a loss before that look is reported, and `LostIsTrue` the converse: `OnLost` is never called without a loss. Calling it after stopRenewal, on the cause, would close the gap.
6. `Pool!PermanentIsNotRerun`, in `PoolSlots.cfg`. A `PermanentError` of a work function is replaced by `ErrFenced` if the lease turns out to be lost during cleanup, and the slot then reacquires and runs the work function again, against `docs/ARCHITECTURE.md:1294` and `pool/pool.go:66-67`.

## Proofs

Each theorem has the form `Spec => []P`, an action property or a refinement, for every value of the constants that satisfies the named assumptions. Each follows from an inductive invariant, and TLC checked each of these invariants on the instance of the component's run before it was proved.

| module | theorem | states |
|---|---|---|
| `MemoryBackendProofs` | `TypeCorrect` | `[]TypeOK` |
| | `SuccessorsReadTheTruth` | `[]ReadsAreTrue` |
| | `ReleaseFreesTheLease` | `[]HandoffIsImmediate` |
| | `DeclaredExitIsFinal` | `ExitIsFinal` |
| | `FencingIsForever` | `FencedForever` |
| | `MemoryImplementsContract` | `ImplementsContract`, the refinement |
| `PostgresBackendProofs` | `TypeCorrect` | `[]TypeOK` |
| | `SuccessorsReadTheTruth` | `[]ReadsAreTrue` |
| | `CallersAreToldTheTruth` | `[]AnswersAreTrue` |
| | `FencingIsForever` | a record that does not match never matches again |
| | `WindowIsCoveredButForDelay` | `[]ShortfallIsBounded` |
| | `ReleaseFreesTheLease` | `[]HandoffIsImmediate`, if `MaxDelay <= Grace` |
| | `DeclaredExitIsFinal` | `ExitIsFinal`, if `MaxDelay <= Grace` |
| | `PostgresImplementsContract` | `ImplementsContract`, the refinement, if `MaxDelay <= Grace` |
| `LeaseClientProofs` | `ClientTypeCorrect` | `[]TypeOK` |
| | `WindowsArePromises` | `[]WindowWithinExpiry` |
| | `WindowsExclude` | `[]OneOpenWindow` |
| | `CausesAreTrue` | `[]CauseIsTrue` |
| | `ReleaseOutlivesLateCalls` | `[]ReleasedStaysFree` |
| | `ClientImplementsBackend` | `B!Spec`: the client's calls are calls `MemoryBackend` allows |
| `RunnerProofs` | `TypeCorrect` | `[]TypeOK` |
| | `NilResultIsRecorded` | `[]NilMeansRecorded` |
| | `RecordedIsComplete` | `[]RecordedSuccessIsComplete` |
| | `LostDeclaresNothing` | `[]LostRunsDeclareNothing` |
| | `FencedResultIsTrue` | `[]FencedIsTrue` |
| | `WorkErrorIsReturned` | `[]WorkErrorSurvives` |
| | `TokensNeverShared` | `[]TokensAreOwn` |
| `LeaderProofs` | `TypeCorrect` | `[]TypeOK` |
| | `RelinquishedIsTrue` | `[]RelinquishedIsRecorded` |
| | `LossReportIsTrue` | `[]LostIsTrue` |
| | `FencedResultIsTrue` | `[]FencedIsTrue` |
| | `TokensNeverShared` | `[]TokensAreOwn` |
| `PoolProofs` | `PoolTypeCorrect` | `[]PoolTypeOK` |
| | `PoolResultIsTrue` | `[]ResultIsTrue` |
| | `RetirementIsRecorded` | `[]RetiredIsRecorded` |
| | `RunWaits` | `[]RunWaitsForCleanup` |
| | `PoolRecordsCompletely` | `[]RecordedSuccessIsComplete`, with runs called again |
| `MigrationProofs` | `StoredCursorIsTrue` | `[]CursorIsTrue` |
| | `RetirementIsComplete` | `[]RetiredIsComplete` |
| | `NothingListedIsRedone` | `[]ListedIsNotRedone` |

### MemoryBackend

For any sets of work IDs, holders and states, any TTLs, retentions, clock stalls and bounds (`MemoryAssumption`, `NamesAssumption`). The theorems rest on `Invariance`, `Spec => []Inv`, with

    Inv == TypeOK /\ RowsMatch /\ GoneIsErased /\ ExitedIsExpired /\ RowsAreTrue

`RowsMatch` ties each row to the tenure of its token: same work ID, holder and exit, newest of its work ID, not deleted. `GoneIsErased` says that a work ID without a row has its newest tenure marked deleted; without it a fresh Acquire could not be shown to inherit nothing. `ExitedIsExpired` says that a declared exit comes with an expiry in the past, which is why Renew and Release, which check expiry and not the exit, never touch such a row. `RowsAreTrue` says that each row stores what the contract says a reader must be told; it is `ReadsAreTrue` without the detour through a caller's record. There is one preservation lemma per method; `OtherWorkFrame` and `RowFrame` carry the statements about the history over steps on other work IDs.

### PostgresBackend

For any connections, work IDs, holders and states, any TTL, retention, grace interval and delay, any set of methods in use, and any rounding unit (`PostgresAssumption`, `NamesAssumption`). There are three invariants, each on top of the one before.

*Types and tokens.* `TypeInv` says what each connection may be doing (`ConnsOK`): a statement that has not written is at most `MaxDelay` old, and a holder's statement carries a record that was issued. It says that no two grants have the same token (`TokensDiffer`), and that a token which is drawn but not yet inserted belongs to no grant and to no other connection (`DrawnAreFresh`). The latter is what takes the place of growing tokens, which do not hold here (finding 4): a record names one tenure for good because tokens are distinct (`IndexIsUnique`).

*Rows and history.* `Inv` adds that each row belongs to a current tenure and stores what its reader must be told (`RowsOK`), that a work ID without a row has a deleted tenure at its end (`GoneIsErased`), that the answers given, and those a second statement is about to give, are true (`AnswersOK`), that no client's window ends later than a TTL from now (`PromisesOK`), and `ShortfallIsBounded` itself. `AnswersAreTrue` alone is not inductive: between the statement that changed no row and the one that explains it, a Checkpoint has to remember that its record did not match or that its exit was declared. Both are final, since no step undoes them (`NothingReturns`, which every step satisfies and which gives `FencingIsForever`). `PromisesOK` is needed because a Renew stores an expiry that may be earlier than the one it replaces; it then still covers all that was ever promised, but for the age of the statement. No bound on the delay is needed for any of this.

*Prompt statements.* Under `MaxDelay <= Grace`, `ExitedIsExpired` is an invariant too: a row with a declared exit expired at least `Grace` ago. A Renew or Release compares the expiry with a `NOW()` that is at most `MaxDelay` old, so it finds such a row expired (`UnexpiredIsOpen`) and leaves it alone. The hypothesis is needed: `postgres_late_renew` shows what happens without it. `HandoffIsImmediate`, `ExitIsFinal` and the refinement follow from it. In the refinement each write is one step of the contract (`GrantImplemented`, `SaveImplemented`, `DeclareImplemented`, `EraseImplemented`), and a Renew is none (`TenuresKept`). The contract numbers tenures in the order in which they were granted; that the numbers stay within `1 .. MaxSeq` is the pigeonhole principle, as each grant uses up a token of its own (`GrantsFitTheSequence`).

### LeaseClient

For any number of sessions with any holder IDs, any TTL, clock offset, clock stall and retentions (`ClientAssumption`, `NamesAssumption`). The proof has three layers.

*The backend.* `M` is `MemoryBackendProofs` for the one TTL of the client. `BackendStep` shows that each step of the client is a step of the backend or leaves it alone: whoever passes a token back has one that was issued to it (`TokenIssued`). So `M!Inv` is kept, and what is proved of the backend holds under the client.

*What a call can do to the stored lease.* `AcquireEffect`, `ExtendEffect`, `EndEffect`, `SweepEffect` and `TickEffect` say of each method that an old token never comes back (`StoreAges`) and that a lease which has not run out stays, with its exit, until it would have run out or for a TTL from now (`LeaseKept`); only Release and Forget may end one, that of their own token. The second alternative is all that Checkpoint and Renew need to guarantee: they overwrite the expiry without comparing it with the stored one.

*What a session knows.* `Backed(s, W)` says that while `W` lies ahead of the local clock, the stored lease is that of `s`, undeclared, and lasts until `W`. `SessionInv` says it of both windows, the goroutine's and the published one; of `start + TTL` while a granted Acquire has not yet returned; and of `callStart + TTL` while a successful Renew has not yet been taken. The last two are what makes a slow reply harmless, and they are what `WindowWithinExpiry` lacks to be inductive. Further: no window exceeds a TTL from now, which is why `LeaseKept` suffices to keep it backed; an answer `ErrLeaseExpired` means that the window has closed, because the lease it was backed by has run out; the goroutine, the call and the thread are where they can be together (`Positions`). `OneOpenWindow` then follows since no two sessions share a token (`TokensAreOwn`). `UntouchedKeeps` is the frame: a session that a step does not touch keeps all it knows. `QuietKeeps`, `AcquireKeeps`, `RenewKeeps` and `LeaveKeeps` treat the session that moves.

### Runner and Leader

For any number of runs or elections, any work IDs, holders, states and tokens (`RunnerAssumption`, `LeaderAssumption`, `NamesAssumption`). The invariants are stated run by run: a run without a token never got beyond Acquire (`Tokenless`); its tenure has no exit before Release (`Progress`); a fencing that was met is real and stays so (`LossIsTrue`, with `FencedStays`); what cleanup is about to declare and to return agree with what the work function returned, and a success is declared only with the final state stored (`Decided`); what is recorded, told and returned (`Recorded`, `Told`, `Answered`). `Recorded` speaks of the tenure and not of the result, as the reply to a Release may be lost. `LeaseServiceProofs` says once, per call, what it may write to the ledger: only the caller's own tenure (`WritesKept` of all others), and nothing is undone (`LedgerAges`). With `TokensAreOwn` a step of one run disturbs nothing another run knows (`OthersKept`), and one lemma per step remains.

### Pool

For any finite set of slots with distinct work IDs among any runs of other processes (`PoolAssumption`). `PoolInv` contains the invariant of the runner, which `ResetPreserves` carries over a slot's next call of Run; it says that the counter is the number of goroutines that have counted themselves dead (`DeadIsCounted`), that each slot is where the result of its last Run sent it (`SlotInv`), and that Run read the counter after the last goroutine had gone (`ReturnedAfterAll`). That the counter equals the number of slots just if all are dead is the cardinality of finite sets.

### Migration

For any list of distinct tenants and any number of coordinators (`MigrationAssumption`, `RunnerAssumption`). The cursors are the prefixes of the list, so two of them are comparable. `MigrationInv` says that what a tenure stored was migrated (`TenureTrue`); that a cursor lists at least what each earlier cursor that reaches it lists (`CursorsGrow`), and no tenure migrated such a tenant again (`NotRedone`); and the same of what a coordinator has in its hands (`KnowsTrue`, `KnowsEarlier`). `ListedIsNotRedone` relates tenures that may be far apart, so the step from one to the next needs that a tenure has a predecessor (`HasPredecessor`, `HasNewest`), which holds since tokens are granted in order.

## Only model-checked

- Liveness under fairness is out of the prover's reach: `StopRenewalReturns`, `LossIsSignalled`, `ElectReturns`, `LossIsAnnounced`, `PoolReturns`, `SlotTriesAgain`. That a call on a cleanup context ends with its timeout is part of the fairness; the properties show that nothing else stands in the way.
- `Conformance`: `SuiteSucceeds` is about the given list of specs, each run to its end on a bounded clock; there is nothing to generalise.

## Not modelled

- Observers, logging and metrics: they receive events and change nothing that the library reads.
- The validation in constructors (`NewRunner`, `pool.New`), nil checks and the refusal of an empty work ID: they change no state. `Pool` assumes what `pool.New` ensures, distinct work IDs.
- The lengths of tickers, backoffs and waits (the options of `lease.go` that choose them; `WithWaitForLease`, which changes control, is in `LeaseClient`; `backoffWait`, `nextBackoff`, `jitterWait`): the models let every timer fire at any moment.
- Defensive copies of byte slices, and the two conformance specs about them: a state is a value here.
- The generated mocks of `internal/testutil`, and the scripted scenarios of the examples.
- Codec errors: a work function decodes only what the same program encoded.
- A panic of a work function inside a pool ends the whole process and is covered by `Runner`'s `WorkPanics` and `Crash`.

## Plan

1. *Done:* `Backend`, `LeaseContract`, `MemoryBackend`; `LeaseClient`; `PostgresBackend`; `LeaseService`, `Runner`, `Leader`, `Pool`; the conformance suite; the migration example. Proofs of all safety properties but that of `Conformance`.
2. *Left to TLC:* the liveness properties and the conformance suite, for the reasons given above.
3. If `queryRenew` and `queryRelease` get the guard `exit_mode IS NULL`: add it to the two operators, drop `MaxDelay <= Grace` from the three theorems and turn `postgres_late_renew` into a passing run.
