# rein: a TLA+ development

rein is an HTTP proxy in front of the OpenAI and Anthropic APIs. Clients hold
*virtual keys*; the proxy checks the key, its budgets, its rate limits and its
concurrency cap, forwards the request with the real upstream key and books what
the response cost. This directory models that program, checks it with TLC and
proves its safety with TLAPS, for every number of handlers, keys and values.
`PROJECT.json` lists for every definition the source lines it models, and for every
property a mutant of the code that breaks it.

## Inventory

| Component | State | Operations | Interacts with |
|---|---|---|---|
| concurrency limiter (`internal/concurrency`) | `sync.Map` of atomic counters | Acquire, Release | called by the proxy |
| rate limiter (`internal/rates`) | per key: mutex, one-second and one-minute window | Allow | called by the proxy |
| spend meter (`internal/meter/{meter,sqlite}.go`) | day and month buckets per key (map or SQLite) | Check, Record | called by the proxy and the adapters |
| keystore (`internal/keys/{keys,sqlite}.go`) | table of virtual keys (map or SQLite) | Create, GetBy*, List, Update, Revoke, RevokeAt, ListExpiring | proxy, admin API, sweeper |
| expiry sweeper (`internal/keys/sweeper.go`) | ticker, the list it works on | sweepOnce | keystore |
| admin API (`internal/admin`) | none | create, list, PATCH, revoke, freeze | keystore, kill switch |
| kill switch (`internal/killswitch`) | one atomic flag | IsFrozen, SetFrozen | proxy, admin API |
| proxy pipeline (`internal/proxy/proxy.go`) | drain flag; per request a snapshot of its key | ServeHTTP, SetDraining | everything above |
| adapters, stream meter (`internal/proxy/{openai,anthropic,stream,timeout}.go`) | per response: usage so far | rewrite, modifyResponse, errorHandler, Read/Close of the stream | meter, pricer |
| pricing and reload (`internal/meter/{pricing,holder,loader,poll}.go`) | atomic pointer to a price table, file state of the poller | TryReload from SIGHUP and from the poller | adapters |
| lifecycle (`cmd/rein/main.go`) | connection tracker, signal state | start, drain, shutdown, second signal | all |
| key rotation (`internal/keys/rotate.go`, `cmd/rein-rotate-keys`) | the database file | plan, apply | keystore file |
| unknown model logger, base URL validation, config, error envelope | a map that throttles one log line / none | | adapters, admin |

What is hard here: every request runs on its own goroutine and passes half a
dozen gates that each read shared state at a different moment; the operator
changes that state meanwhile; the upstream may be slow or never answer, the
client may leave, the database may fail, the process may die. The `hazards` of
`PROJECT.json` list the places. What makes each part correct:

* limiter: never more than `max_concurrent` requests in flight, no slot leaked or
  returned twice, no waiting;
* rate limiter: a bound on what any stretch of a second or minute serves, and
  Retry-After advice that is true;
* meter: buckets are exact and consistent whatever fails, and nobody starves on the
  single connection;
* keystore: operations are atomic, revocation is final, expired keys get revoked;
* pipeline: only what the gates allow reaches an upstream, a slot follows its
  request on every way out, spend is booked before the slot is free, overshoot is
  bounded;
* stream meter: what is billed does not depend on how the stream was cut into reads
  or on how it ended, the client gets the upstream's bytes, the copy ends;
* reload: prices always come from one good version of the file, and a change the
  operator announced, or the poller can see, becomes active;
* shutdown: a signal ends the process, and a drain that completes loses no spend;
* rotation: all rows or none, no secret lost, no server left with the wrong key.

## Modules

| Module | Models | State and actions against the code |
|---|---|---|
| `VirtualKeys` | key ids | shared by the three stores |
| `ConcurrencyLimiter` | `concurrency/memory.go` | `counters` is the sync.Map, `count` the atomic counters (an object is named by the handler that allocated it), `call` the program counter of each handler. One action per atomic operation: `Load`, `LoadOrStore`, `Add`, `Undo`, `Release` |
| `RateLimiter` | `rates/memory.go`, `rates.go` | `sec`, `min` are the two windowCounters; `AllowCall` reads the clock, `RejectRPS`, `RejectRPM`, `Admit` are the ways out of the critical section; `Advance` and `Estimate` are estimateCount |
| `SpendLedger` | the Meter interface, `meter.Memory` | abstract: `Record` adds to both buckets at once, `Exceeded` is Check |
| `SqliteMeter` | `meter/sqlite.go` | `conn` is the one-connection pool, `tx` the open transaction, `job` each caller; statements fail, the process crashes, midnight passes. Implements `SpendLedger` |
| `KeyTable` | the Store interface, `keys.Memory` | abstract: every operation is one step on `rows`; `backend` is what openKeystore selected. It does not say who asks for an `Update` |
| `KeyPatches` | what a caller of `Store.Update` is promised | abstract, extends `KeyTable`: `Ask` is the call with its patch, `Apply` the one write of that patch to the row as it is, `Refuse` and `Lose` the ways to end without a write; `answer` is what the caller is told |
| `KeyStore` | `keys/sqlite.go`, `sweeper.go`, the admin handlers | a PATCH is `PatchCall`, then `PatchMemory`, or `PatchSelect` and `PatchUpdate` on SQLite, or `PatchRefused` or `PatchFails`; the sweeper lists (`SweepList`) and stamps one by one (`SweepRevoke`, `SweepFail`); `Restart`. A tick is half a second, so that SQLite's comparison of instants as text (`AtOrBefore`) shows. Implements `KeyPatches` |
| `Proxy` | `proxy.go`, the adapters, kill switch, drain | extends `ConcurrencyLimiter`, `SpendLedger` and `KeyTable`; `req[r]` is the progress of ServeHTTP with its snapshot of the key; one action per gate, `RespondsJSON`, `RespondsStream`, `StreamEnds`, `RecordSpend`, `Return` for the adapter; `Operate` for the operator |
| `Shutdown` | second half of `main` in `cmd/rein/main.go` | extends `Proxy`; `process` is how far main is: `FirstSignal`, then `Drained`, `GraceExpires` or `SecondSignal`/`ForcedReturns`, then `CloseMeter` and `Exit`, which ends every handler where it stands. `MeterIsClosed` is Check and Record on a closed database |
| `StreamMeter` | `proxy/stream.go` under ReverseProxy's copy loop | `script` is what the upstream sends, `pos` how much was read; `ReadBody`, `CheckDeadline`, `ReadPending` are the parts of Read, `Consume`/`ParseLine`/`ParseOpenAI`/`ParseAnthropic` the parser, `Close` the report; `gone` is a connection that takes no more writes: the client left (`ClientLeaves`), or the server's `WriteTimeout` of 120 s (`cmd/rein/main.go:122`) passed under a client that stays |
| `PricerReload` | `meter/{loader,poll,holder}.go`, `startReloadHandlers` | `holder` is the version of the active snapshot, `reload` the two goroutines; TryReload is `ReadConfig` or `ReadFails`, then `SwapIn` |
| `AtomicRotation` | what `rein-rotate-keys` promises | abstract: `Rotate` re-encrypts all rows of the old key at once |
| `KeyRotation` | `keys/rotate.go`, `cmd/rein-rotate-keys`, the runbook | `rows` is the committed column, `plan` and `tx` the tool's work; `PlanRotation`, `UpdateRow`, `Verify`, `Commit`, `Report`, `Fail`, `Crash`; the server and the operator beside it. Implements `AtomicRotation` |
| `*Proofs` | | theorems about the module of the same name; `ProxyProofs` builds on `ConcurrencyLimiterProofs` and covers `Proxy` and `Shutdown` |
| `MC*` | | constants for TLC |

Operators whose name ends in `_Something` under a comment "Mutant" are plausible
bugs; they occur in no specification.

Abstractions: a cost is a small number instead of a float; the settings of a key are
functions from field names to small values; an error response is the end of the
request; the two adapters are one, since they differ in wire format only; in `Proxy`
the rate limiter may say anything (it has its own module), the month budget is
left to `SqliteMeter`, and one UTC day is modelled. On SQLite a lookup of
a key may fail at any time; a meter call when the request's context is done and, where `MeterFails`, at any time (FALSE in the runs, whose overshoot needs it; the other theorems hold for both). A COMMIT of the
meter that reports an error may have taken effect or not, since the caller only logs it: the
first is `Commit`, the second `RecordFail`. A cancelled
request is not sent upstream, since http.Transport refuses it. Writing a buffered JSON body to the
client holds the slot and changes nothing else; it is the time a request spends in "release".
The `reported` flag of the stream meter guards against a second Close; ReverseProxy
closes a body once, so there is none here. An SSE line is two bytes,
so that it can be split; a byte is its position, so that order and loss show. A pricing
file is a version number, good, bad or missing, with a modification time that a save
need not change. A ciphertext is a pair of key and plaintext; decryption under another
key fails, as AES-GCM guarantees. The connection tracker only counts for a log line.

## Runs

| Run | Instance | Shows |
|---|---|---|
| `ConcurrencyLimiter` | 3 handlers, 2 keys, limits 0, 1, 2 | creation races, `HoldersWithinLimit`, `SlotsAccounted`, `RejectedOnlyUnderContention`, `AcquireReturns` |
| `RateLimiter` | 2 handlers, second of 3 ticks, minute of 3 seconds, 16 ticks, up to 2 ticks of delay at the lock | `WindowsWithinLimit`, `SlidingBound`, `RetryAfterSuffices` |
| `SqliteMeter` | 2 callers, 3 days in 2 months, 3 Records | `ImplementsLedger`, `MonthIsSumOfDays`, `SpendIsExact`, `LateCheckNeverPasses`, `CallsReturn` |
| `KeyStore` | both backends, 1 key, 2 fields, 1 PATCH at a time that names a field or the expiry, a clock of 6 half seconds, expiries at 3 and 4 | `ImplementsTable`, `RevokedRowIsFinal`, `StampsAreHistory`, `PatchPreservesAbsentFields`, `ExpiredGetsRevoked` |
| `KeyStoreLostUpdate` (violation) | SQLite, 2 overlapping PATCHes | one undoes a field only the other set |
| `ProxyGates` | 2 handlers, 1 key, 2 operator actions, expiry | `GatesEnforced`, `SlotsFollowRequests`, `UsesLimiter`, `BilledBeforeRelease`, `OvershootBounded` |
| `ProxyOvershoot` (violation) | 3 handlers, cap 1, `max_concurrent` 1, cost 1 | spend 3, above cap + K x C = 2 |
| `ProxyDisconnect` (violation) | 2 handlers | JSON response metered on a cancelled context: spend lost |
| `Shutdown` | 2 handlers, 1 key, upstreams that may hang, 2 signals | `DrainLosesNothing`, `SlotsReturnOrExit`, `SignalEndsProcess` |
| `StreamMeter` | both upstreams, streams of up to 3 lines out of 3 or 4 kinds, buffer of 2 bytes, trailer of 3 | `BilledAsReceived`, `ClientSeesUpstream`, `CopyEnds` |
| `PricerReload` | 3 saves after the first load, poller on or off | `KeepsLastGood`, `SighupTakesEffect`, `PollerConverges` |
| `KeyRotation` | 3 virtual keys, any mix of old, third-key and absent rows, any number of runs | `ImplementsRotation`, `SecretsSurvive`, `NoKeyStranded` |

Bounds and why they suffice. Three handlers are what a race to create the counter, a
holder and a rejected caller need together; two keys show that counters do not mix.
The rate limiter's instance spans five seconds and almost two minutes, so every phase of a
second, and a stretch over the boundary of two minutes, occurs. A call may be
overtaken by two ticks out of a second's three, so that it reads the clock in the window before the
current one. With a minute of three seconds, a client can wait as its second
told it and find the minute still full. The meter's days straddle a month's end, with one caller
able to hold the connection over midnight while the other waits. The key store's clock
has room for an expiry, a PATCH that moves it from a half to a whole second or back, and a late sweep; it
stops at a whole second, where text and time agree on what has expired. With one PATCH at a time
the row changes under the PATCH by revocation or sweep only, which is the case the
refinement covers: with two that overlap on SQLite, `ImplementsTable` and `PatchPreservesAbsentFields` are
both violated, by the same trace. `KeyStoreLostUpdate` checks the second, which is what the comment in the code
claims. Two
operator actions in `ProxyGates` are Create and one more, at any point of either
request; `MaxSpend` lies above the overshoot bound. Handlers are interchangeable, so
the safety runs of `Proxy` use symmetry; the liveness run (`Shutdown`) does not. In
`Shutdown` two handlers are what it takes for one to block the drain while the other
finishes. Three lines let a stream contradict itself twice (first and last model, two
totals); a trailer longer than the buffer is handed out in two reads. Three saves make a
version that is read, one that replaces it meanwhile and one that repairs a bad file.
Three rows are one updated, one not yet, one created meanwhile. `KeyRotation` has no
bound on runs, failures or restarts: its state space is finite as it is. `Proxy`,
`Shutdown`, `StreamMeter` and `PricerReload` may really stop (drained and idle, exited,
body closed, nothing left to reload), so their runs do not check deadlock; all others do.

Fairness. A goroutine that can run does (weak fairness of the handler's own steps).
Nothing is assumed of clients, operators or upstreams: an admitted request may last for
ever in `ConcurrencyLimiter`. In `SqliteMeter`, a caller waiting for the connection gets
it when it is free again and again. This strong fairness is an assumption about chance:
database/sql hands a freed connection to one of its waiters, in no fixed order, so each waiter
is picked sooner or later with probability one, but no bound holds.
In `KeyStore` time passes, the ticker fires again and again and the sweep does not fail or get
restarted every single time. In `Proxy` a timer fires, and once a request's context is
done its upstream call ends (the transport and the body return the context's error;
the server's WriteTimeout covers a client that does not read). `Shutdown` keeps this
while the process lives and adds that main runs and the grace timer fires; a signal need
not come. In `StreamMeter` the copy loop runs on, and a Read of the body fails once the
context is done; the upstream may stall for ever otherwise. In `PricerReload` the ticker
ticks and the goroutines run, but a read of the file may fail each time, and nobody has
to save or signal. `KeyRotation` states no liveness.

## What was found

With a run that shows it:

1. **Overshoot.** The documentation bounds budget overshoot by `max_concurrent x cost`.
   The budget is checked before the slot is acquired, so a request may sit between the
   two while others spend. The true bound (`OvershootBounded`) counts the handlers past
   the check.
2. **Disconnect.** Only streams are recorded on a background context; a JSON response
   is recorded on the request's. `BilledBeforeRelease` states what does hold.
3. **Lost update.** Two overlapping PATCHes of one key on SQLite.

Met while modelling, and left without a run of its own; the properties named state what
holds instead:

4. **Stale sweep.** The sweeper revokes a key whose expiry was extended after it was
   listed, with the old expiry as stamp; `sweeper.go:12-13` says `revoked_at == expires_at`
   after a tick. `StampsAreHistory` and `RevokedRowIsFinal` hold. On SQLite "at or before asOf"
   (`keys.go:159-162`) is decided on RFC3339Nano text, where `05Z` sorts after `05.5Z`: a key may be listed and
   stamped up to a second early, or missed until a later sweep. `StampsAreHistory` holds there for
   whole seconds, and strictly on memory; `ExpiredGetsRevoked` holds for both.
5. **Rate limit.** Rolling windows may serve almost twice the limit (`docs/admin-api.md:385`
   says about 1.1x); `SlidingBound` is the bound that holds: `limit` for an aligned window,
   `limit * (1 + e/W)` for a stretch that ends `e` after a boundary, and `2 * limit` for one whose
   last ticks an overtaken call may still come from (within `MaxDelay` of the window's end).
   It needs limits that do not change and calls that wait at most a second for the lock: one
   that waits longer may still land in a full window two seconds back.
6. **Reload races.** SIGHUP and the poller read and swap without a lock, so the one that
   read the older content may swap last; the stale snapshot stays until the next change or
   signal. The poller also misses a save between the load in main and its own start, one
   that keeps the modification time, and one whose read failed, since the time is noted
   before the reload. `SighupTakesEffect` and `PollerConverges` name exactly these
   exceptions. The comment at `poll.go:15-18` puts the first stat under the first tick; the
   code takes it at the start. Before `signal.Notify` in startReloadHandlers, and without a
   config file altogether, SIGHUP ends the process.
7. **Rotation next to a live server.** `rotate.go:36-38` and the runbook (line 166) rely on a
   busy error when rein is running. An idle server holds no lock: the rotation goes through, and
   rows the server creates afterwards, or created between plan and commit, are under the old
   key. `ImplementsRotation` makes room for just those rows, and `NoKeyStranded` needs the
   careful operator. The runbook's advice to restart with the original key after an error
   (lines 138-140) is right for an error of the first run; after an earlier run that died
   without a report it may have committed, so the operator of the model runs the tool until
   it reports.
8. **Streams.** The timeout trailer follows whatever was read; after half a line it is glued to
   it and is no SSE comment of its own (`stream.go:26-31`, `102-107`). A last line without
   newline is never parsed, so its usage is not billed. An end of stream that the deadline
   overtakes gets the trailer, too.
9. **End of the grace period.** `docs/architecture.md:100-101` says net/http force-closes the
   connections and a running Record completes first. Shutdown only returns; handlers go on,
   the meter is closed under them, and what they would have recorded is lost with a logged
   error or with the process. `DrainLosesNothing` allows this only after a cut drain.

Also worth knowing: a rejected Acquire stays in the counter until its `Add(-1)`, so a
burst can reject a caller while a slot is free (`RejectedOnlyUnderContention` is the
promise that holds). A minute limit hit in the very first tick of its window gets a
Retry-After one tick short, because 61 is clamped to 60. A call that its second rejects is
told to wait a second or two although its minute may be full as well: `Allow` returns before
it looks at the minute. `RetryAfterSuffices` speaks of the window that rejected.

## Proofs

Eight modules prove the safety of the modules they extend, for every value of the constants
within the assumptions below. The shape is the same everywhere: a lemma says what one action
(or a group of actions) does, an invariant is shown inductive step by step, and the theorems
follow from it with one temporal step. Inductive invariants that TLC can evaluate were first
checked on the instances of the runs; the runs themselves check the properties that follow from it.

**Assumptions on the constants.** Each is named in the module that declares the constants, and
TLC evaluates it in every run. `LimiterAssumption`: finitely many handlers; limits are natural
numbers. `LedgerAssumption`, `MeterAssumption`: costs and caps are natural numbers (in the code,
non-negative floats; the admin API rejects negative caps). `TableAssumption`, `RowAssumption`,
`PendingAssumption`: `Nil` is neither an instant, a row, a pending PATCH nor a call (a nil pointer is
no value). `BoundsAssumption`: the patches and expiries that bound the instance are patches and instants.
`ProxyAssumption`: the settings ServeHTTP reads are among the fields of a key, their values
are limits Acquire may be called with, and the settings the operator chooses are settings.
`RateAssumption`: `MinTicks` is a multiple of `SecTicks` and at least twice as long (in the code
60 times), on which the Retry-After arithmetic rests. `StreamAssumption`: usage is a pair of
natural numbers, a buffer has room for a byte, and `Nil` is no error. `ReloadAssumption`, `RotationAssumption`:
marks and keys are told apart.

**`ConcurrencyLimiterProofs`.** `LimiterInv` holds always. The cap alone is not inductive: a step
of `Add` admits when the *counter* is below the limit, so one has to know that the counter is
the number of requests inside (`SlotsAccounted`), which in turn needs that all requests of a
key work on one counter object (`OneCounterPerKey`). The cap is stated for every `n`, "at most
`n` holders were admitted under a limit of `n` or less", because requests of one key may
carry different limits; that form is what a step preserves. `LimiterIsTyped`, `CountersAreShared`,
`LimiterSafe`, `LimiterCounts` and `LimiterRejections` are the properties the run checks.

**`RateLimiterProofs`.** The arithmetic of one window is in lemmas about `Advance`, `Estimate` and
`RetryAfter` for any window length, with dividends of either sign, since a call that was
overtaken at the lock sees a negative elapsed time. `RateInv` adds to the types that neither a
window nor a clock reading is in the future (`Punctual`); `CountInv` adds that a window's counts
are within the largest limit (`Counts`). From there `WindowsHold`, and `AdviceIsEnough` under the hypothesis that
limits do not change (a PATCH voids the advice; the run has one pair of limits, too).
`RetryAfterSuffices` promises something about the window that rejected the call only: a promise
about both windows holds when a minute is two seconds and fails when it is three or more.
`StretchesHold` (`SlidingBound`) has to relate the history of what was served to two counters. `SlideInv`
says that the counters of the current and the previous window are at least what was served in them (`Covers`) and that
every stretch, in the past or not, is within its bound (`Smooth`); an admission adds one call to the stretches
that contain its clock reading, and the estimate it passed bounds exactly those. An overtaken call has to
fall into one of the two windows that are still counted, hence the hypothesis `MaxDelay <= SecTicks`.

**`SqliteMeterProofs`.** `MeterInv` adds what the transaction rests on: the connection belongs to the
one call that runs a transaction or a query (`ConnIsHolder`), a call in progress has a key and a
day that has come (`CallsAreTyped`), the open transaction holds that call's own cost
(`TxIsOwn`), and a Check that began on a spent budget still finds it spent when it gets
the connection (`LateStaysLate`: buckets only grow). Theorems: `SpendExact`,
`BudgetStaysClosed`, and the refinement `MeterImplementsLedger`, in which `Commit` is the abstract
`Record`, midnight is midnight, and BEGIN, both UPSERTs, failures and crashes are stutters. `MonthsAddUp`
(`MonthIsSumOfDays`) follows from that refinement: `SumsInv` asks for a running total over the days that ends in the month's
bucket, an atomic `Record` raises the totals from its day on (`RecordAdds`), and there is only one such total, which is the
recursively defined `SpentIn` (`OneSum`: two of them would differ on a least day).

**`KeyStoreProofs`.** `StoreInv` says what is still true of what the sweeper and the handlers remember
when they use it: keys exist, instants have passed, on SQLite within the second (`MemoryIsHistory`). It gives
`StampsStayHistory` and `RevocationIsFinal` for both backends and any number of overlapping
PATCHes. `StoreImplementsTable` and `AbsentFieldsPreserved` have the hypothesis
`[]NonOverlapping`: no two handlers hold a copy of the same row, between SELECT and UPDATE, at once. The code does
not ensure that, and without it both conclusions are false (`KeyStoreLostUpdate`); the run `KeyStore`
satisfies it by allowing one PATCH at a time, the theorems hold for any number on different keys.
Under it the invariant is `PatchOfCurrentRow`: the row a PATCH
is about to write is its own patch of the row as it is, or the key was revoked meanwhile and the
UPDATE will not match. The refinement maps a handler's state to its call (`asked`) and shows that `PatchMemory` and
a `PatchUpdate` that matches are `Apply` of that very call, one that does not match is `Refuse`, failures
and `Restart` are `Lose`, and a SELECT or a step of the sweeper that lists is a stutter. `KeyTable` alone would not do as the
specification: any row written to a live key is *some* `Update`.

**`ProxyProofs`.** `ProxyInv` has the limiter's invariant and three facts about each handler. `LocalOK`:
a handler that has resolved its key has a key and its copy; it is inside the limiter exactly when it is
acquiring or holds a slot for a limited copy; nothing is billed before its end. `BilledOK`: usage it
has when it is about to return its slot is billed, or there is a reason why not.
`GateOK`: what its copy of the key says about the moment it was made; if the copy still passes the
expiry and budget checks *now*, the key was usable *then*, because time and spend only grow
(`WasSolvent`, `WasNotExpired`). `GatesEnforced` is not inductive without it. `Handled` collects what
one step of a handler may do to its own request, the limiter and the books, one lemma per group of actions.
Theorems: `SlotsFollow`, `GatesHold`, `BilledFirst`, and the composition: `PipelineUsesLimiter` (every step of
the pipeline is a step of the limiter or none, so `PipelineKeepsCap`) and `PipelineUsesStores` (the same for
`SpendLedger`, which `SqliteMeter` implements, and `KeyTable`, of which every step of `KeyPatches` is a step or none).
`Overshoot` strengthens `ProxyInv` by `Configured` (every copy has one of the operator's settings) and
`OvershootBounded` itself, which counts the requests past the check with their largest cost:
passing the check adds one request but happens below the budget, a bill moves cost from
that count to the books. Its hypotheses are those of the run: the meter returns no errors
(on an error the proxy lets requests through, without bound), costs have a maximum, and the
daily budget is not changed (a PATCH that lowers it makes any spend an overshoot).

The last part of the module is about `Shutdown`. The handlers' steps are those of the pipeline (`HandleHandled`) or, on a closed meter,
`ClosedMeterHandled`, which passes the budget check or drops the spend; so `GateOK` does not hold here, and
`Accounted` adds the closed meter to the reasons for dropped usage. `MainOK` carries the drain:
from `Drained` on no request is in flight unless the drain was cut, because no connection is left to start one, and
the meter is closed only after that. Theorems: `DrainLoses`, and `DrainKeepsSlots` (slots and caps hold up to the exit).

**`StreamMeterProofs`**, for any lines, lengths of stream, buffer sizes and places where reads cut. What the client may
get is one text, the upstream's bytes and then the trailer; what it has got, what is in the buffer and what is
pending are always pieces of it that meet (`Piece`, `OutputOK`). What is billed rests on `Metered`, the state the parser has
to have after so many bytes: one read of a chunk leads from that of the old position to that of the new one
(`ChunkConsumed`, along the recursive function `Consume` over the bytes of the chunk), so its totals are always those of
the complete lines (`BillingInv`). `LoopOK` ties the copy loop to it: when the loop has ended regularly
nothing is pending. Theorems: `StreamTypesKept`, `BilledHoweverCut`, `ClientSeesUpstreamAlways`.

**`PricerReloadProofs`.** `ReloadInv` adds to `KeepsLastGood` that the file is among the good versions when it is good,
and so is whatever a goroutine has read and not yet swapped in, whatever the file holds by then.
Theorem: `LastGoodIsKept`.

**`KeyRotationProofs`**, for any set of virtual keys. `SecretsSurvive` is not inductive, because the commit copies
`tx` to the rows: one needs that every planned ciphertext is the row's own plaintext under the new key and that
`tx` is a part of `plan` (`PlanFollowsRows`). `NoKeyStranded` speaks of the moment a server runs; what carries it
through a run is `Carefully`: no server and no new row while the tool works, and the key the operator goes by is
the key of all rows whenever the tool is not between commit and report. Theorems: `SecretsSafe`, `NeverStranded`, and
`RotationRefines`: `Commit` is the step that rotates (a plan without updates rotates the empty set), everything else is a
stutter; it needs the last conjunct of `PlanFollowsRows`: in a transaction no row is under a third key, and a row outside the
plan is under the new key or fresh.

**Only model-checked**, and why:

* all liveness (`AcquireReturns`, `CallsReturn`, `ExpiredGetsRevoked`, `SlotsReturnOrExit`, `SignalEndsProcess`,
  `SighupTakesEffect`, `PollerConverges`, `CopyEnds`): fairness and ENABLED are out of the prover's reach;
* the three violations, which are counterexamples.

The library's induction theorems take an operator as parameter and cannot be used here. Where a claim is an induction
over data (days, ticks, the lines of a stream) the proof takes the least element that refutes it
(`LeastNat`, `LeastDay`) and shows that there is a smaller one, or carries the claim along as an invariant.

## Plan

Done, in this order: limiter, rate limiter, meter, key store, pipeline; then reload, shutdown,
stream meter, key rotation with its refinement; then the proofs above: the safety of each module, the
refinements and the composition, and last the sums of the meter, the stretches of the rate limiter and the stream.
Every safety property the runs check is proved. Worth adding when the code changes: a model of
the adapters' request rewriting, should it come to keep state.

## Not modelled

Base URL validation, configuration, the error envelope and admin authentication keep no
state. The unknown model logger keeps a map that throttles one log line (it reads the clock
before its lock, so an overtaken caller may let one line too many through) and the
connection tracker a count for another; neither influences a request. The adapters' cache of
parsed base URLs and the rewriting of request bodies (which cuts a body at 1 MiB before it adds
`stream_options`) are data conversions; so are the merge of price tables and the price of a
response, which is an arbitrary cost here. AES-GCM, JSON and SSE encodings are libraries.
Schema migration runs before anything else does. Metrics, logs and wording of errors are left
out.
