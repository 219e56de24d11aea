# TLA+ models of the Future AGI platform

The verification project kept beside the Future AGI repository: TLA+ modules
translated from the source, TLC configurations that check them on small
instances, and TLAPS proofs of the results that should hold for every size.
`PROJECT.json` lists the components, the runs, the mutants that show each
property can fail, the source lines behind each definition, the hazards and the
theorems.

## 1. Inventory

The repository holds four programs.

| program | language | what it does |
|---|---|---|
| `agentcc-gateway` | Go | LLM gateway: authenticates a call, runs plugins (budget, credits, rate limit, guardrails, cache), routes it to a provider, retries, fails over, mirrors, logs |
| `fi-collector` | Go | OTLP trace ingestion: admission limits, project resolution, ClickHouse writer, observed-catalog spool, availability publisher |
| `futureagi` | Python/Django | the platform: datasets, evaluations, annotation, experiments, simulation, Temporal workflows, outbox |
| `frontend` | TypeScript | the web client |

The concurrency written by hand is in the two Go programs and in three services
of the platform: change capture, the investigation ledger and the exact
aggregation cache. The rest of the platform leaves it to PostgreSQL or Temporal.

### Components modelled

| component | state | operations | hard because | correct when |
|---|---|---|---|---|
| provider circuit breaker (`routing/circuitbreaker.go`) | state, counters, time of the last failure; through it the router's health flag and readmission timers | `Allow`, `RecordSuccess`, `RecordFailure`, timer | results arrive late; old timers are never stopped; an unhealthy provider gets no request that could close its circuit | no provider is out of routing for good; a recovered one is in routing |
| failover and retry (`routing/failover.go`, `retry.go`) | the locals of each request | `Execute` of both | flags read by the router are stale when the breaker is asked; retries nest in attempts; the client may leave | bounded work, distinct attempts, the right error, termination |
| shadow result store (`routing/shadow_store.go`) | ring buffer | `Add`, `DrainAll`, `Stats` | wraparound | a bounded queue that forgets the oldest |
| mirroring and flusher (`routing/mirror.go`, `shadow_flush.go`) | mirror goroutines, `Run`, `Close`, the mirror pointer | mirror, flush, close, reload | two flushes at once, goroutines that outlive the server, reload | nothing sent twice or mislaid |
| Redis client breaker (`redisstate/client.go`) | two atomics | `allow`, `recordSuccess`, `recordFailure` | no lock | one probe per cooldown; recovers |
| prepaid credits (`plugins/credits`, `redisstate/credits.go`) | Redis balance, a copy per replica | pre-check, charge, seed, top-up | check and charge are apart; several replicas; Redis away | the ledger is exact, the overdraft bounded |
| observed-catalog spool (`observedcatalog/spool.go`) | directory, `files`, mutexes | `NewWriter`, `Enqueue`, `Replay`, `Close` | crashes and power loss between system calls, failed fsyncs | an acknowledged record is not lost and is published |
| outbox change capture (`tracer/services/clickhouse/oss_outbox_cdc.py`) | outbox, dead letters, snapshot cursor, reconcile request and version floor in PostgreSQL; the landing table in ClickHouse | triggers, `drain`, `snapshot_page`, `reconcile`, `_rearm`, `install`, `resync` | two databases without a common transaction; transactions commit out of sequence order; sessions are lost; inserts land late | no committed change is forgotten, readers never go back, ClickHouse converges |
| investigation ledger (`tracer/services/trace_investigation.py`, `simulation_investigation.py`) | jobs, attempts, reports, current flags | notify, claim, expire, cancel, publish, requeue, re-arm | leases run out, reports come late and out of order, generations advance under a live claim | a running job has an attempt, the current report only improves, jobs settle |
| exact aggregation refresh (`tracer/services/exact_aggregation_cache.py`, `tracer/tasks/exact_aggregation.py`) | lock, state, snapshot and admission set in Redis; a Temporal workflow; a worker thread | claim, admit, dispatch, activate, renew, publish, finish, release | each party dies or times out anywhere; keys expire; a workflow ends before its thread | one reader per query, capacity per tenant, no old snapshot over a new one |

Interactions: `Failover.Execute` calls the router, the retryer and the breakers;
the breakers call back `Router.SetHealthy`; mirror goroutines add to the store
that the flusher drains; credits (like budgets and rate limits) reach Redis
through the client with the lock-free breaker; the collector's replay loop and
its flusher goroutines share the spool. In the platform, the two scheduled CDC
activities share an advisory lock and the tables of `fi_cdc_*`; investigation
workers and users meet in the rows of a job; requests, polls and activities of a
refresh meet in the Redis keys of its query identity.

### Components not modelled

`PROJECT.json` lists each with the reason. In short: provider adapters,
translation, streaming and decoding are formatting and I/O; strategies and
adaptive weights are numeric; most of the platform is request handlers that read
and write a database in one transaction, several hundred thousand lines without
a protocol of their own, so that the modelled share of the repository is small
and will stay so; the frontend has none either. Race mode, budgets, rate limits, key and tenant sync, the cache, the job
stores, rotation and cluster membership of the gateway, the memory pools and the
authentication cache of the collector, and the distributed lock of the platform
are worth a model and are in the plan.

## 2. Modules

```
CircuitBreaker <--EXTENDS-- Failover              (requests drive the breakers)
ShadowStore    <--EXTENDS-- ShadowCapture         (goroutines drive the buffer)
ShadowQueue    <--INSTANCE-- ShadowStore          (abstract queue)
RedisBreaker   Credits   ObservedSpool            (stand alone)
OutboxCDC   Investigation   ExactRefresh          (the platform's services)
XProofs EXTENDS X, TLAPS       MCX EXTENDS X
```

`FailoverProofs` holds the theorems about `CircuitBreaker` too, `ShadowCaptureProofs`
those about `ShadowStore`.

Operators named as a mutant in their comment (`TakeOutWithoutTimer`, `AddUncapped`, ...)
are deliberate bugs used to show that a property can fail; no specification uses
them.

### CircuitBreaker

Variables are the fields of `CircuitBreaker` per provider. `lastFailure` is kept
as its age, `sinceFailure`, which stops counting at `Cooldown`: `Allow` only asks
whether the cooldown has passed. `healthy` is the router's flag, `timers` the
remaining times of the `time.AfterFunc` calls that have not fired. The methods
hold the breaker's mutex from start to end, so each is one action; callbacks are
made under the mutex and belong to the action. `Tick` is the clock; a timer due
is allowed to fire late. Anyone may call any method at any time.

### Failover

One record per request goroutine holds the locals of `Failover.Execute` and of
`Retryer.Execute`. A step ends where another goroutine can get in: after the
router's choice (`Select`), after the breaker's answer (`Gate`), at the upstream
call and the backoff sleep (`CallReturns`, `Retry`, `AbandonRetry`), and when the
result is recorded (`Record`). `OrgRequests` are requests of organisations with a
failover of their own, for which `effectiveFailover` passes no breaker registry.
An error is a status code or one of two kinds of non-API error; the three
classifications of errors are independent constants, and so are the two flags that
say whether a timeout is retried and whether it is failed over. `ClientGone` cancels the
context; the code looks at it only where the model does. The strategies are
abstracted to any healthy target that is not excluded.

### ShadowStore, ShadowQueue, ShadowCapture

`ShadowStore` translates the ring buffer; `out` is what the last `DrainAll`
returned and `added` a history counter. `ShadowQueue` is the promise: a queue of
at most `Cap` entries that drops the oldest. The refinement mapping is `Contents`,
the entries in the order `DrainAll` computes. `ShadowCapture` runs mirror
goroutines, `Run`, and a shutdown that calls `Close` with a context that may
already be spent, after which the process exits with goroutines still running.
Both flushes may be sending at once. `Reload` is `ReloadRouting`.

### RedisBreaker

Every atomic load, store, add and compare-and-swap is an action. `openedAt` is an
age that stops at `Cooldown`, or `Unset`. A goroutine remembers whether the value
it loaded is still the current one (`current`), which is what the swap compares.
`Checks[g]` is how often `allow` runs before the command: once for `Do`, twice for
the stores that ask `Available` first. `failures` stops counting one above the
threshold: the code compares it only with `<` and `=`.

### Credits

One managed key. Amounts are small integers in place of microdollars. `cut` is
the set of replicas whose calls to Redis fail. What the breaker of the client
adds is that they may fail longer; `RedisBreaker` is about that. Reading Redis
and storing the answer in the local copy are separate steps, as are charging and
storing. When the charge fails, DECRBY may have happened and only its answer be
lost. A crash drops the requests of a replica.

### ObservedSpool

`visible` is the directory as the kernel shows it, `durable` as of the last
directory fsync. A power loss keeps or drops each unsynced change by itself. The
steps are system calls: temporary file, rename, directory fsync, removal of each
file, fsync. The deferred removal of a temporary ignores its error (`DiscardTmp`);
`stranded` counts the temporaries it left since the writer started. `mu` is `w.mu`; the
replay loop is the only caller of `replay`, so `replayMu` is implied. `stranded`, `saved` and `published` are history.

### OutboxCDC

One landing table with a few keys. `src` is the committed row of a key (a state
number, whether it exists, whether ClickHouse would refuse it), `open` its open
transaction; `Write` draws the outbox sequence value, `Commit` makes row and
outbox row visible, so commits happen out of sequence order. `ch` is what `FINAL`
shows. The drain is a sequence of steps between calls to the two databases
(`DrainStart`, `DrainBatch`, `DrainRead`, `DrainInsert`, `DrainSettle`,
`DrainDelete`, then the snapshot pages), the reconcile sweep another one, which
takes the writer lock per repaired page only. `Install` is the start of a container:
it takes the lock, raises the version clock and goes on with the snapshot pages, which
are the same steps as the drain's. `NextVersion` is `VersionClock.next`
with a wall clock that moves at each allocation and may step back. The bisection
around refused rows is one step: its outcome (which keys are parked, reached,
left) is computed, and the reached keys are read and inserted together.
`Faults` says which disturbances a run allows; `MaxFaults` how many.

### Investigation

A job, an attempt or a report is identified by job and generation. `due` of an
attempt says that its lease ran out, `ready` of a job that `not_before` passed.
Handlers are transactions under the locks of the attempt and the job and are one
action each, except where the code reads something before it has the lock it
needs: a publication reads the clock first (`PublishArrives`, `PublishCommits`),
and the claim of a simulation call counts active claims without a lock that other
calls would respect (`ClaimCallCounts`, `ClaimCallCommits`). `Settle`,
`SupersededState` and `RetryLeft` are the helpers of the same names. What the
report says is abstracted to completed, failed with a retryable code, and failed
for good.

### ExactRefresh

Tokens are numbered in the order they are drawn. `lock`, `st`, `snap` and `adm`
are the Redis keys; each Lua script is one action. A request, its workflow and
its activity advance separately. `LateAccepts` says whether Temporal may accept a
dispatch that the client gave up on. `LeaseLapses` is a worker that stays alive
while none of its renewals succeeds for a whole lease; such readers are outside
what the lease can promise and are excluded by name (`lapsed`).

## 3. Runs

States are distinct states found.

| run | instance | states | shows |
|---|---|---|---|
| `failover` | 2 providers, 2 requests (one of an organisation without breakers), thresholds 2, 2 attempts, 1 retry | 513 k | no provider stranded, every one readmitted; distinct attempts, bounded work, the right error, termination; the composition implements `CBSpec`, liveness included |
| `shadow_capture` | capacity 2, 3 results | 74 k | the ring implements the queue, one place per result, the statistics miss only overwritten results, the buffer drains |
| `redis_breaker` | 2 goroutines, threshold 2, cooldown 2 | 5102 | one probe per cooldown; recovery for callers of `Do` |
| `credits` | 2 replicas, 2 requests, seed 2, cost up to 2, one outage, one restart, one top-up | 488 k | exact ledger, bounded overdraft, no funded key refused |
| `spool` | 3 records, 1 enqueuer, capacity 2, 2 deaths, 1 disk error | 467 k | durability, exact count, capacity; every acknowledged record is published unless a disk error intervened |
| `outbox` | 2 keys, 2 writing transactions, batches and pages of 2, refused rows, one of: lost session, capture off, TRUNCATE, clock step | 5.8 M | nothing forgotten, readers never go back |
| `outbox_live` | 2 keys, 1 write, batches and pages of 1, refused rows, one disturbance of any of nine kinds | 431 k | convergence, release of parked keys |
| `investigation` | 1 trace and 1 call, 2 retry delays, 2 inputs, 2 reports | 135 k | the ledger's safety, and that every job settles |
| `exact_refresh` | 2 identities of a tenant with 1 slot, 2 claims, 1 lapsed lease | 108 k | claim consistency, one reader, capacity, monotone snapshots, refreshes end |
| `failover_nil_result`, `investigation_fresh`, `exact_overlap` | as above | | violations, section 5 |

The bounds are the smallest at which the interesting cases occur: a second
provider to fail over to, a buffer smaller than what is added so that it wraps, a
second replica to seed and charge after the first, a cost as large as the seed so
that the key is overdrawn, more records than the spool takes, two deaths so that
one can hit the recovery of another, a second key so that a batch and a page have
a last and a next element, two inputs so that a generation advances under a live
claim, and a second claim to replace the first. In `failover` only one request
uses the breakers, which keeps its liveness within reach; two that share them are in
`failover_nil_result`, and the theorems of section 4 hold for any number. What needs
two of them, a success that is recorded after the other request opened the circuit,
is therefore proved and not run (`RecoveredIsRoutable`); TLC explored `ClosedIsRoutable`
with two such requests and a cooldown of 2 (2.8 M states up to symmetry). `exact_refresh` was also explored for
one identity with three claims (1.3 M states).

`CHECK_DEADLOCK FALSE` is set where the bounds or the system let everything stop:
the process of `shadow_capture` exits, the jobs of `investigation` are all settled,
the claims of `exact_refresh` are used up.

### Fairness

* `CircuitBreaker`, `Failover`: time passes, timers fire, goroutines run, and
  upstream calls end because the providers' HTTP clients have timeouts. Weak
  fairness of each. Nothing is assumed of the order, of the results, or of the
  arrival of requests.
* `ShadowCapture`: the ticker fires and the HTTP client (15 s timeout) returns.
  Nothing is assumed of the mirrored calls or of the shutdown.
* `RedisBreaker`: traffic continues (`Begin`), goroutines run, time passes.
  Nothing is assumed of Redis; `RecoversAfterOutage` starts from "up for good".
* `ObservedSpool`: a dead collector is restarted, goroutines run, the replay
  ticker fires. `w.mu` is taken over and over by enqueuers, so the replay's two
  acquisitions get strong fairness: a Go mutex hands itself to a waiter that has
  waited for a millisecond (starvation mode). Publishing may fail finitely often.
* `OutboxCDC`: both activities are on a schedule, an activity runs to its end
  unless a fault ends it, application transactions end, an hour passes. The sweep
  waits for the advisory lock among drains that take it again and again;
  PostgreSQL serves the waiting session first, hence strong fairness of the
  sweep. Nothing makes a late insert land.
* `Investigation`: workers poll, so due jobs are claimed and run-out leases
  expired; leases run out because a worker stops renewing at its deadline;
  handlers get their locks. No worker is obliged to publish.
* `ExactRefresh`: a worker finishes what it has begun (the read has a wall-clock
  cap) and Redis keys expire. No request is obliged to go on, no queued activity
  to start.

## 4. What is proved

TLAPS checks these for every value of the constants that the named assumptions
admit. Every safety invariant and safety action property of the passing runs is
the statement of a theorem.

* **FailoverProofs**, first half: `BreakerInvariant` proves the conjunction `CBInv` of
  the six safety properties of the breaker, and `NeverStranded` and
  `RecoveredIsRoutable` follow. None of the timer properties is inductive alone: that
  a circuit which is not open has only due timers (`OldTimersAreDue`) needs
  `TimersWithinCooldown`, since `Allow` half-opens a circuit only when its age has
  reached the cooldown.
* **FailoverProofs**, second half: `UpstreamWorkIsBounded`, `DistinctAttempts`,
  `ErrorNotHidden` for any number of providers and requests. The invariant `FInv`
  is per request: the excluded providers number `attempt - 1`, the called ones are
  among the excluded and the target, the target was called once more than it was
  retried, and no provider was called while a selecting request has no `lastErr`.
  `FailoverImplementsBreakers` shows that every step of the composition is a step
  of the breaker module or leaves it alone, and `GatewayNeverStrands` carries
  `NoStrandedProvider` over.
* **ShadowCaptureProofs**: `RingImplementsQueue`, for every capacity, from the ring's
  types and `head = count` while the buffer is not full. Then the goroutines around
  it: `StoredOnce`, `StatsAreExact` and, for the whole composition,
  `CaptureImplementsQueue`. `CaptureInv` counts the places of a result (buffer, the
  batches of `Run` and `Close`, delivered, lost, overwritten) and says that the number
  is one for a stored result and zero for any other: without the zero, adding a result
  could put it in a second place. The lemmas about sequences (what a ring holds after
  `Add` and after `DrainAll`, how often an element occurs in a concatenation) carry
  most of it.
* **RedisBreakerProofs**: `AtMostOneProbe` for any number of goroutines and any
  mix of callers. `RBInv` adds that the circuit has not been open for longer than
  the time since the last probe, and that a loaded value that can still win the
  swap is due.
* **CreditsProofs**: `CreditsConserved`, `DebtIsBounded`, `FundedIsNotRefused` for
  any number of replicas and requests. The key is `DebtInv`: the debt leaves room
  for every request that saw a positive balance and is not charged yet
  (`Holders`). `LedgerInv` says that a value read from Redis is at least the
  present balance, since balances only fall.
* **ObservedSpoolProofs**: `SavedRecordIsSafe` and `FileCountIsExact` for any
  records, enqueuers and numbers of failures. `SpoolInv` adds that a record being
  synced is visible, that only published records are removed, and that the mutex
  belongs to whoever is inside `save` or `remove`. `DirectoryStaysBounded` and
  `RestartedSpoolFits` rest on `CapacityInv`: beside the temporaries whose removal failed
  since it started, a writer has at most one, that of the enqueuer inside `save`, for
  which the count made room; and while no
  fsync has failed, the synced directory holds nothing that the visible one lacks
  except what a replay is just removing. A power loss keeps a subset of the two
  together, which is what the next `NewWriter` has to accept.
* **ExactRefreshProofs**: `ClaimKeysAgree` and `SnapshotsOnlyAdvance` for any
  identities, limits, claims and lapses. `StepEffect` shows that every step does one
  of six things to the claims (nothing, claims, frees, restates, stores, forgets a
  failure), `EffectKeeps` that each keeps `ClaimInv`: a claim is newer than the
  snapshot of its identity, because tokens are drawn in order and a snapshot is
  stored only by the owner of the claim. `OneReaderPerIdentity` and
  `ReadersWithinCapacity` assume `LateAccepts = FALSE`, which `exact_overlap` shows to
  be necessary: the invariant `ReadersOwn` says that a reader owns the claim and the
  claim is in its running phase, which is what the release of a terminal dispatch
  and the late record of a dispatch look at; it needs `SentIsSettled`, that a request
  with an activity can no longer give up, which a late acceptance breaks.
* **InvestigationProofs**: `RunningHasClaim`, `PointerAgreesWithFlags`,
  `AutomaticRetriesAreBounded` and `CurrentReportOnlyImproves` for any jobs, capacity
  and at least one retry delay (`CapacityAssumption`; `_RETRY_DELAYS` of
  `trace_investigation.py:73` has several). `LedgerInv` is stated of one job at a time,
  since every handler holds the lock of one job; publications that have read the
  clock (`ArrivedInv`) and claims that have counted (`CountingInv`) are the only state
  that crosses two steps. The hard part is the retry budget: `_settle_job` counts the
  attempts since the last completed report, so the invariant `BudgetOf` bounds the
  generation of a trace twice, by its inputs plus `NumDelays` for each completed read
  and one more, and by its inputs plus `NumDelays` for each read plus the unread
  attempts below it. A late completed report moves attempts from the second count to
  the first, which is why both are needed.
* **OutboxCDCProofs**: `NoOlderRow` and `NoChangeForgotten` for any number of keys and
  any batch, page and chunk size, from two invariants.

  `OrderInv` is about every insert that a reader sees or may come to see: those shown,
  those given up on that may still land, and the block in progress. A higher version
  describes a later committed state (`Ordered`), and each describes the committed row
  or an earlier one (`FromSource`). What keeps the next version above all of them is
  `VersionsBelow`: they are below the wall clock unless it stepped back, and below the
  version clock of the lock's holder, or the stored floor, unless a session was lost
  before it stored one. One of the two suffices, so both theorems assume
  `BothFaults = FALSE`; with both faults TLC refutes `ReadersNeverGoBack` (section 5).
  Each step either makes no new insert or draws a version for rows it reads in the
  same step under the lock (`StepEffect`), and `OrderStep` follows from that alone.

  `DebtInv` says which record owes a key at every position of the three activities.
  Outbox rows that a drain is about to delete owe nothing any more (`Kept`), so by then
  its keys must be parked or `UpToDate` (`Applied`); a page must hold every live row up
  to the cursor that will be saved (`Paged`); a sweep that a request asked for must
  have the key before it, on its page, in its repair block or on a later page
  (`Ahead`, `Beyond`). `BlockFresh` makes the insert good enough: it carries the
  committed row unless the row changed since, and then the new outbox row is not part
  of the batch (`SeqInv`: open transactions have sequence values of their own, so a
  commit out of order adds a row that no batch has read). `DebtIsOwed` shows that this
  precise debt implies the property. TLC checked the invariant on 9.3 M states, with
  one write and two disturbances of all nine kinds, before it was proved.

  `Retries >= 1` (`DEADLETTER_RETRIES` is 5) is needed: with no attempts a parked key
  would leave no record. The theorems hold for any number of writes and of disturbances
  of any kinds, repeated ones included: the invariants look only at which kinds have
  happened.

The induction over data that these proofs need (a maximum exists, a page that leaves
an element out is full and below it) is obtained from the library's facts about
well-founded orders and finite sets (`MaxOf`, `MinOf`, `LimitedPage`).

Only model-checked: all liveness (`ReadmittedEventually`, `RequestsFinish`,
`BufferDrains`, `RecoversAfterOutage`, `SavedIsPublished`, `Converges`,
`ParkedIsReleased`, `JobsSettle`, `RefreshEnds`) and the liveness part of
`UsesBreakersProperly`, whose safety part is `FailoverImplementsBreakers`; fairness and
ENABLED are beyond the prover.

## 5. Disagreements between the code and its comments

Three have a run in which TLC finds the trace.

1. `failover_nil_result`: if every chosen target is refused by its breaker,
   `Execute` returns neither result nor error and its caller dereferences nil.
   The trace: twice, a request selects a healthy provider whose breaker another
   request's failure opens before the first one asks `Allow`.
2. `investigation_fresh`: a job gets a new generation after its attempt has ended (a
   cancelled trace is requeued, or the job of a simulation call is re-armed), and the
   new generation is claimed. That claim runs out, and before a poll expires it the
   worker of the older, already ended attempt reports. `_superseded_job_state` sees
   no live newer claim and queues the job under a generation that already has an
   attempt. Every later claim of it raises an integrity error, until the generation
   advances again. (TLC finds several traces of the same length, of a trace or of a
   call.)
3. `exact_overlap`: a dispatch times out at the client although Temporal accepted
   it. The activity activates and reads; the request's error path releases the
   claim by token alone, and a reload starts a second read of the same query.

Three more are reproduced by changing a bound of an existing model:

* a caller of the Redis client that asks `Available` before `Do` uses up the probe,
  is refused by `Do`, and never closes the breaker although Redis is back
  (`client.go:70`; with `Checks <- GuardedChecks` TLC refutes
  `RecoversAfterOutage`);
* a top-up changes one replica's copy, which the next request overwrites with the
  balance in Redis (`keystore.go:352`), and spend charged during an outage never
  reaches Redis (`credits.go:141`): both are actions of `Credits`;
* `ReadersNeverGoBack` fails for a lost session followed by a clock that steps back
  (`BothFaults = TRUE`): the floor of the lost writer was not stored.

Others were met while modelling and need no model checker to see. The models
behave as the code does:

* the half-open state of the provider breaker admits every request
  (`circuitbreaker.go:99`), where a comment says "limited requests allowed"
  (`circuitbreaker.go:22`);
* `total_added` of the shadow store leaves out overwritten results
  (`shadow_store.go:106`); `StatsMissOnlyOverwritten` says that nothing else is
  missing;
* `ReloadRouting` builds a mirror without a store (`handlers.go:289`), so that
  capture ends with the first reload, where the field's comment says "nil when
  capture is disabled" (`mirror.go:48`);
* two polls that claim different calls of a simulation run count the active claims
  before either attempt is visible and exceed the capacity
  (`trace_investigation.py:642`), where the docstring says "transactionally
  enforcing project capacity" (`trace_investigation.py:505`).

## 6. Limits of the models

* Time is counted in units of the cooldown; two events in one unit may come in
  either order.
* A panic outside the mirror goroutine, memory exhaustion and clock changes are
  not modelled.
* `CircuitBreaker` has one registry: the new one that a reload creates, and the
  health monitor that keeps the old one, are not modelled.
* `Credits` follows one key; keys do not share state. Float conversion of amounts
  (`USDToMicros`) is left out: the ledger is in integers on both sides.
* `ObservedSpool` takes every record to be readable and of equal size. A corrupt
  record stops replay at its name.
* A record whose write failed and whose temporary cannot be removed takes room that a
  running writer does not count (`spool.go:161`); `DirectoryBounded` allows for these
  files, and `NewWriter` clears them.
* `OutboxCDC` has one table. Tables share a batch and the lock and nothing else;
  added columns, the take-over from PeerDB and uninstall are not modelled. A table with
  more refused rows in a batch than `MAX_PARKED_PER_TICK` is failed on every tick, with
  the rows behind them. In `outbox_live` batches have one row: that a refused row does
  not delay the rest of its batch is not a property of a run.
* `Investigation` leaves out the findings of a report and their grouping;
  redelivered events are no-ops and have no action.
* `ExactRefresh` takes the identity of a query as given: aliases of an identity and
  the carrying over of a snapshot to a new window are not modelled. The
  local-memory cache used in tests is not Redis and is left out.

Hazards met in the code that no property covers, beside those of `PROJECT.json`:

* a half-open provider breaker admits any number of requests; the code states no
  limit (`circuitbreaker.go:100`);
* two responses may store their DECRBY results in the opposite order, and a crash
  between response and charge loses the charge (`credits.go:133`, `:97`);
* a record that cannot be read ends every replay at its name (`spool.go:268`);
* `snapshot_page` and the sweep's repair do not isolate a refused row
  (`oss_outbox_cdc.py:1221`), which is why `Converges` excludes one that remains;
  a resync that meets a page in progress is overwritten by its cursor
  (`oss_outbox_cdc.py:1742`);
* a report that was on time when its handler read the clock is stored as stale if
  a poll expires the claim before the handler has its locks
  (`trace_investigation.py:1093`); `_expire_claims` takes row locks in another
  order than the other handlers and relies on PostgreSQL to break the cycle
  (`trace_investigation.py:430`);
* in components without a model: a reload builds a second breaker registry while
  timers of the first go on (`handlers.go:266`); race mode returns its winner only
  when every loser has returned (`race.go:128`); requests that hold a share of the
  wire pool wait on each other until a timeout (`ingest_pool.go:246`); the platform's
  lock may expire inside the critical section (`distributed_locks.py:188`).

## 7. Plan

The safety properties of the passing runs are proved. Next, in this order:

1. `IngestPool`: the collector's wire and work pools, leases that grow while
   others wait, the no-progress timeout.
2. `Race`: fan-out, first success, cancellation; composed with `CircuitBreaker`.
3. `Budget` beside `Credits`, `KeySync` with revocation, `JobStore`,
   `DistributedLock`, and reload and health monitor as actors of
   `CircuitBreaker`.
4. Proofs: the safety of the new modules; an abstract register that `OutboxCDC`
   implements for each key (a row that only moves forward).
