# TLA+ models of the orchestrator's continuous-discovery engine

This directory holds TLA+ models of the coordination engine in the
orchestrator `logic` package: the discovery queue and worker pool, the
leader-election gate, the recovery guard and the signal-driven shutdown, and
of the vtgate planner's query projection (`CreateQPFromSelect`). It
has TLC configurations that model-check the models on small instances, and
TLAPS proofs of the main safety invariants and of the refinement of an
abstract specification of the recovery guard, for every value of the
constants.

The Go source of `orchestrator.go` is stored in
`src/go/vt/vttablet/endtoend/call_test.go`, from line 73 on. Lines 1-72 of
that file are an unrelated end-to-end test. Line numbers below refer to that
file unless another file is named.

## 1. Inventory

### Components and their state

| Component | Code | State | Operations |
|---|---|---|---|
| Discovery queue | `discovery.Queue` (not under `src/`; spec 4.1) | a bounded channel of keys, `queuedKeys`, `consumedKeys` | Push, Consume, Release |
| Worker pool | `handleDiscoveryRequests` 229-251 | one goroutine per worker (`DiscoveryMaxConcurrency`) | consume, check leadership, discover, release |
| Discovery operation | `DiscoverInstance` 256-343 | `recentDiscoveryOperationKeys` (TTL cache), counters, metrics | early returns, cache Add, backend read, probe |
| Leader election gate | `onHealthTick` 346-400, `IsLeader` 171-177 | `isElectedNode`, `snapshotDiscoveryKeys` (capacity 10) | elect, spawn the just-became-leader tasks, drain snapshots, push keys |
| Tick dispatcher | `ContinuousDiscovery` 462-584 | the tickers, `recoveryEntrance`, the start time | one goroutine per tick firing |
| Recovery guard | 550-573 | `recoveryEntrance` (CompareAndSwap), `checkAndRecoverWaitPeriod` | leadership check, CAS, wait period, CheckAndRecover, deferred reset |
| Shutdown coordinator | `acceptSignals` 185-225 | signal channel (capacity 1), `hasReceivedSIGTERM`, `shardsLockCounter` | SIGHUP reload; SIGTERM drain with timeout, then exit |
| KV submission | `SubmitPrimariesToKvStores` 405-443 | `kvFoundCache` | filter the cached pairs, put, distribute |
| Seeds | `injectSeeds` 445-456 | `sync.Once` | parse and inject seeds once |
| Query projection | `queryprojection.go` | a `QueryProjection` value | `CreateQPFromSelect`, `addOrderBy`, `ToString` |

`src/unnamed/part_000` is a CI workflow template and has no behaviour.

### How the components interact

The main loop of `ContinuousDiscovery` spawns one goroutine per timer firing
and never waits for it. Goroutines of the same ticker can therefore overlap:
the comment at line 382 says so for `onHealthTick`. The components share a
few pieces of state:

- `isElectedNode` is written by every health tick and read by the workers and
  by every tick goroutine.
- Health ticks push keys onto the queue; workers consume and release them.
- Out-of-band callers send keys on `snapshotDiscoveryKeys`; the next elected
  health tick drains them.
- `shardsLockCounter` is raised and lowered by recovery code; the SIGTERM
  handler reads it.

### What is hard

- **Check-then-act on leadership.** Workers (line 239) and recovery ticks
  (line 552) check `IsLeaderOrActive` once, then act later.
- **Overlapping health ticks.** `wasAlreadyElected` is read before a tick's
  own election, and the ticks' stores to `isElectedNode` may land in any
  order.
- **Dedup relies on a protocol.** Push ignores keys that are queued or in
  flight, so every path of a worker must call Release exactly once, after
  DiscoverInstance.
- **Non-reentrant recovery.** The CAS and a deferred reset must hold on
  every exit path.
- **Signals.** The signal channel has capacity 1 and `os/signal` drops a
  signal when it is full. The drain waits for the locks, but only up to a
  timeout, and it reads the lock counter and exits in two separate steps.
- **Bounded resources.** The queue blocks its pushers when full. The
  snapshot channel is not drained while the node is not elected.
- **Off-by-one at a boundary.** In `addOrderBy` (queryprojection.go:110-111),
  `ORDER BY n` indexes `SelectExprs[n-1]`, and the error from `Atoi` is
  ignored.

### Properties that make each component correct

- Queue and workers: at most one outstanding entry per key, so no key is
  probed by two workers at once. Every queued key is eventually released.
- Election gate: a demoted node does not probe or recover. Every election
  is followed by the just-became-leader tasks.
- Recovery guard: passes never overlap, and the guard is never left taken.
- Shutdown: the process never exits with a lock held unless the wait timed
  out (spec 3 and 4.7; the code does not meet it, finding 5). A received
  SIGTERM always ends the process. Every SIGTERM sent is received (the code
  does not meet this either, finding 4).

## 2. Modules

| Module | Models | Kind |
|---|---|---|
| `Discovery` | queue, worker pool, DiscoverInstance, onHealthTick (election, snapshot drain, pushes) | core component |
| `DiscoveryProofs` | TLAPS proofs of `TypeOK` and `OutstandingAtMostOnce` | proofs |
| `MCDiscovery` | 2 keys, 2 workers, 2 health-tick goroutines, queue capacity 1, snapshot capacity 1 | TLC instance |
| `Recovery` | recovery tick, CAS guard, wait period, elections as environment | component |
| `NonReentrantSection` | what the recovery guard promises: a flag taken by one owner at a time, at most one pass per entry, the flag cleared on leaving | abstract specification |
| `RecoveryProofs` | TLAPS proofs of `TypeOK`, `RecoveryMutualExclusion` and that `Recovery` implements `NonReentrantSection` | proofs |
| `MCRecovery` | 3 recovery goroutines, wait period 2, clock bound 3 | TLC instance |
| `Shutdown` | signal channel, SIGHUP/SIGTERM handling, drain with timeout, shard-lock counter | component |
| `ShutdownProofs` | TLAPS proof of `TypeOK` | proofs |
| `MCShutdown` | channel capacity 1, 2 or 3 signals, 2 locks | TLC instance |
| `QueryProjection` | `CreateQPFromSelect` and `addOrderBy` (queryprojection.go 28-150) as a step machine over one statement | component |
| `QueryProjectionProofs` | TLAPS proofs of `TypeOK` and `SelectListFaithful` | proofs |
| `QueryProjectionOrderProofs` | TLAPS proofs of `OrderByFaithful`, `GroupKeysOrdered` (for select lists without a bare integer) and `OrderExprsResolved` | proofs |
| `MCQueryProjection` | names `a`, `b`, qualifier `t`; 1-2 select items, at most 2 GROUP BY and 2 ORDER BY items (159,030 statements), and the small sets of the violation runs | TLC instance |

### Discovery: how the state and actions map to the code

- `queue`, `queuedKeys` and `consumedKeys` are the queue's channel and its
  two maps. `Push` (a helper used by `HealthPush`) is modelled from the spec
  because the queue's code is not under `src/`.
- `wpc[w]` is where worker `w` is in its loop:
  - `consume`: blocked in Consume;
  - `gate`: before the leadership check;
  - `discover`: inside DiscoverInstance, before the cache;
  - `probe`: in `ReadTopologyInstanceBufferable`;
  - `release`: DiscoverInstance has returned.

  `wkey[w]` is the key the worker holds.
- The worker actions, in order:
  - `WorkerConsume`: Consume.
  - `WorkerSkipDemoted` / `WorkerDiscover`: the two sides of line 239.
  - `DiscoverSkip`: the early returns for a forgotten key, an ignored host
    or an invalid key.
  - `DiscoverThrottled`: the cache `Add` fails.
  - `DiscoverCacheAdd`: the `Add` succeeds, then the backend read either
    returns "up to date" or leads to the probe.
  - `DiscoverProbeDone`: the probe returns, with an instance or nil.
  - `WorkerRelease`: Release.
- `recent` is the set of keys with an unexpired cache entry. `CacheExpire`
  is the TTL running out.
- `hpc[t]` is where health-tick goroutine `t` is:
  - `HealthFire`: the ticker fires and the goroutine reads
    `wasAlreadyElected`.
  - `HealthElect`: the result of `AttemptElection` is stored.
  - `HealthGate`: the early return when not elected; otherwise the outdated
    keys are read, the just-became-leader tasks are spawned, and the
    snapshot channel is drained.
  - `HealthPush` / `HealthDone`: the push loop.
- `RequestSnapshotDiscovery` is an outside caller sending on
  `snapshotDiscoveryKeys`.
- `onboarded` is a history variable for one property. It becomes FALSE when
  `isElectedNode` goes from 0 to 1, and TRUE when a tick spawns
  RegisterNode and ExpireMaintenance.
- What is abstracted:
  - The election outcome, the outdated-key list, the backend read and the
    probe result are nondeterministic choices.
  - Metrics, stopwatches and logging are left out.
  - The order in which a tick pushes its keys is left free, because Push
    dedups.

### Recovery and Shutdown

- In `Recovery`, `rpc[r]` follows one recovery-tick goroutine:
  - `RecoveryFire`: the ticker fires;
  - `RecoveryGateLeader`: the leadership check at line 552;
  - `RecoveryCAS`: the CompareAndSwap at line 561;
  - `RecoveryCheckRipe`: the wait-period check, where the early return
    resets the guard through the defer;
  - `RecoveryDone`: CheckAndRecover returns and the defer resets the guard.

  `now` is a bounded clock; `TimeRipe` is
  `runCheckAndRecoverOperationsTimeRipe`. Here `Elect` stands for the
  health tick's store.
- In `Shutdown`:
  - `SendSignal`: the runtime's non-blocking send, which drops a signal
    when the channel is full;
  - `ReceiveSIGHUP` / `ReloadDone`: the reload;
  - `ReceiveSIGTERM`: sets the flag, stops auto-expiration and starts the
    timer;
  - `TimerFires`: `time.After` fires;
  - `DrainPoll`: the round of the wait loop that leaves it, after
    `LoadInt32` read zero (line 207) or the timeout channel was ready;
  - `ShutdownExit`: the log line and `os.Exit(0)` (line 221), a step of
    its own, with `spc = "exit"` in between.

  `LockShard` and `UnlockShard` stand for the lock holders outside `src/`.
  They run until the process exits, between `DrainPoll` and
  `ShutdownExit` too, because nothing in the coordinator stops them (spec
  4.7). A poll round that only sleeps changes nothing and is a stutter
  step.

### The abstract specification of the recovery guard and its refinement mapping

- `NonReentrantSection` has three variables: `taken`, the guard flag;
  `owner`, a set of at most one process; and `running`, whether a pass
  runs.
  - `Enter(p)` finds the flag clear and the section free, and takes both.
  - `RunPass(p)` starts the owner's single pass.
  - `Leave(p)` frees the section, clears the flag and ends the pass.
- `Recovery` maps onto it with `taken <- recoveryEntrance # 0`,
  `owner <- SectionOwner` (the goroutines in `ripe` or `recover`) and
  `running <- PassRunning` (a goroutine in `recover`). Because the flag is
  mapped, a `Leave` that does not reset `recoveryEntrance` (the deferred
  Store left out on either exit) is no abstract step, and the refinement
  fails.
  - A successful CAS is `Enter`.
  - `RecoveryCheckRipe` is `RunPass` when the time is ripe and `Leave`
    when it is not.
  - `RecoveryDone` is `Leave`.
  - A failed CAS, the leadership check, the clock and elections are
    stutters.

### QueryProjection: how the state and actions map to the code

`CreateQPFromSelect` is a pure function, so the model runs it on one
statement: `sel` is chosen in `Init` from the constant set `Selects`, and
each iteration of one of its loops is one step. `pc` is the loop the
function is in (`select`, `order`, `group`), the inner search it is in
(`aliasScan` inside `addOrderBy`, `groupScan` inside the grouping loop), or
how it ended (`done`, `error`, `panic`). `i` and `j` are the loop indexes;
`order` and `ret` are the argument of `addOrderBy` and the loop it returns
to.

- Expressions are records: a column (`qual`, `name`), a literal (`type`,
  `val`) or a function (`aggregate`, argument count, `distinct`, and whether
  an argument hides an aggregate). Records compare by value, as
  `sqlparser.EqualsExpr` does. The weight string of an order entry is its
  `weight` expression; the text is not modelled.
- `SelectNotAliased`, `SelectAggregate`, `SelectNonAggregate` and
  `SelectDone` are the select loop (lines 50-82) with each of its error
  returns.
- `OrderLoop` is the ORDER BY loop (84-86).
- `AddOrderBy` is the start of `addOrderBy` (105-133). An integer literal
  indexes `SelectExprs[n-1]` with no bounds check, so an index out of range
  goes to `panic`.
- `AliasScan` is its search of the select list for an alias (134-149).
- `GroupLoop` and `GroupScan` are the grouping loop and its search of
  `OrderExprs` (88-101).
- `ToString` only formats the projection and is not modelled.

The properties compare the result with a reference stated over the
statement rather than the loops: `ExpectedError` (the error of the first
refused item, else the mixed-aggregate error), `RefOrderBy` (what an ORDER
BY item denotes) and `GroupOrder`. `OrderExprsResolved` is an action
property: every step that changes `OrderExprs` appends the `RefOrderBy` of
the item the running `addOrderBy` handles.

## 3. Runs

| Run | Checks | Result |
|---|---|---|
| `discovery_dedup` | `TypeOK`, `OutstandingAtMostOnce`, `QueueDrains` under `FairSpec` | pass (629,856 states, about 80 s) |
| `discovery_probe_after_demotion` | `NoProbeWhileDemoted` | violation |
| `discovery_onboarding_missed` | `OnboardedWhenElected` | violation |
| `recovery` | `TypeOK`, `RecoveryMutualExclusion`, `GuardRefined` (refinement of `NonReentrantSection`), `RecoveryKeepsRunning` under `FairSpec` | pass (540 states) |
| `recovery_after_demotion` | `NoRecoveryStartWhileDemoted` (action property) | violation |
| `shutdown` | `TypeOK`, `ShutdownTerminates` under `FairSpec` | pass (198 states) |
| `shutdown_exit_with_lock` | `DrainBeforeExit` | violation |
| `shutdown_sigterm_dropped` | `SigtermLeadsToExit` (2 signals) | violation |
| `qp_projection` | `TypeOK`, `SelectListFaithful`, `OrderByFaithful`, `GroupKeysOrdered`, `OrderExprsResolved` (action property) | pass (1,041,525 states) |
| `qp_order_offset_panic` | `NoPanic` | violation |
| `qp_group_keys_lead` | `GroupKeysLead` | violation |
| `qp_group_literal` | `GroupKeysOrdered` on a select list with a bare integer | violation |

Each component has one passing run that checks its safety and liveness
properties together. The liveness runs use the same fair specification as
the safety runs.

**What the violations show** (the `findings` of `PROJECT.json`):

1. A worker that passed the leadership check still probes after the node
   was demoted.
2. Two overlapping health ticks, one demoting and one re-electing, both
   read `wasAlreadyElected = true`. Neither then spawns RegisterNode and
   ExpireMaintenance for the new election.
3. A recovery goroutine spawned while the node was elected runs
   CheckAndRecover after the node was demoted.
4. A SIGHUP is sent and waits in the channel; the signal goroutine is
   still in its `select` and has not received it. A SIGTERM sent now finds
   the channel full and is dropped. The goroutine then handles the SIGHUP,
   and the process never shuts down.
5. After SIGTERM, the drain loop reads `shardsLockCounter` as zero
   (line 207) and returns. A lock holder takes a shard lock before
   `os.Exit(0)` (line 221), and the process exits holding it with no
   timeout elapsed. Spec 3 says the coordinator halts new work while it
   drains the outstanding critical sections.
6. `ORDER BY 0`, `ORDER BY 3` on a two-item select list, or `GROUP BY 0`
   panics with an index out of range in `addOrderBy`
   (queryprojection.go:111). Every other statement the builder cannot take
   gets an error.
7. For `GROUP BY a ORDER BY count(a) DESC`, the ordering on the grouping
   key comes after the ORDER BY item (queryprojection.go:99). The comment
   at line 89 asks for the results to be ordered by the grouping keys, and
   with this order the rows of one group need not be adjacent.
8. For `SELECT 2, a ... GROUP BY 2 ORDER BY 1`, nothing orders on `a`
   (queryprojection.go:92). The found check compares the key as written,
   the offset `2`, with `Inner.Expr` of the entries. `addOrderBy` has
   already resolved those, and `ORDER BY 1` resolved to the literal `2`
   of the first select item. So the key is taken as ordered and is
   skipped, although `GROUP BY 2` denotes column `a`.

**Bounds, and why they are enough.**

- Two keys and two workers are the least that can show a key held twice.
  Queue capacity 1 makes a full queue and a blocked Push reachable.
  Snapshot capacity 1 makes a full snapshot channel reachable.
- Two health-tick goroutines are the least that can show overlapping ticks.
  Every counterexample above needs at most two of each.
- Three recovery goroutines are one more than mutual exclusion needs.
- Wait period 2 with a clock bound of 3 covers both sides of `TimeRipe`.
- With channel capacity 1, two signals are what a drop needs: one waiting
  in the channel and one dropped; `shutdown_sigterm_dropped` uses two. The
  passing run `shutdown` allows three, so a SIGHUP can also arrive during a
  reload and before a SIGTERM.
- Two locks let lock holders overlap. Finding 5 needs one lock, taken
  after the zero read.
- The statements of `qp_projection` cover every branch of the code: a `*`;
  plain, aliased, aggregate and nested-aggregate items; aggregates with two
  arguments or DISTINCT; mixed items with and without GROUP BY. The ORDER
  BY items are columns, a qualified column, an alias, offsets 1 and 2, a
  string literal and an aggregate. Grouping keys include one that is
  already ordered on, one that is not, one that is an alias and an offset.
  Two items are the least that make an alias shadow a column and an offset
  land past the end. TLC's coverage shows every disjunct of the model taken.
- The select lists of `qp_projection` hold no bare integer item, so there
  `GroupKeysOrdered` is checked in the case where it holds (finding 8).
  `qp_group_literal` checks the other case.
- The `qp_` violation runs use small fixed statement sets that contain
  the offending statement.
- No run uses symmetry: every passing run checks a liveness property, and
  TLC's symmetry reduction can miss a liveness violation.
- `CHECK_DEADLOCK FALSE` is set only for `Shutdown`, because `os.Exit`
  really ends the process.

**Fairness, and why the code justifies it.**

- Workers, recovery goroutines and the signal goroutine are weakly fair.
  They are goroutines that block only on channels, and the probe
  collaborator has its own timeouts.
- The clock and `time.After` are weakly fair: time passes and timers fire.
- The election outcome, OS signals, outside callers and lock holders are
  not assumed fair.

**Mutants.** Each property of a passing run has a mutant: a plausible bug in
the mapped code that TLC then catches under the run's own configuration.

- The election result is stored with AddInt64 in place of StoreInt64.
- Release is called before DiscoverInstance (`OutstandingAtMostOnce`).
- The demoted-skip path forgets Release (`QueueDrains`).
- An AddInt64 is used in place of the CAS (`TypeOK`).
- A failed CAS does not return (`RecoveryMutualExclusion`).
- The path through CheckAndRecover returns without resetting
  `recoveryEntrance` (`GuardRefined`).
- The early return before the wait period does not reset the guard
  (`RecoveryKeepsRunning`).
- A lock is unlocked twice (`TypeOK`).
- The wait has no timeout (`ShutdownTerminates`).
- `addOrderBy` tests the alias the wrong way round (`As.IsEmpty()` for
  `!As.IsEmpty()`).
- The select loop has no `continue` after an aggregate.
- The alias search has no `return` after a match.
- The grouping loop compares the key with the weight expression.
- `addOrderBy` takes the weight string of an offset on the alias column
  rather than on the expression behind it.

## 4. Proofs

TLAPS proves the following, for every value of the constants, from the named
assumptions (`ConstantsAssumption`, `RecoveryAssumption`, `ShutdownAssumption`,
`QueryProjectionAssumption`):

- `DiscoveryProofs!TypeCorrect`: `Spec => []TypeOK`.
- `DiscoveryProofs!DedupCorrect`: `Spec => []OutstandingAtMostOnce`.
  - The invariant is not inductive on its own. A Push is safe only because
    the queue's two maps are exactly the keys in the channel
    (`QueuedIsChannel`) and the keys the workers hold (`ConsumedIsHeld`).
    A Release is safe only because no other worker holds the same key
    (`HeldDistinct`).
  - The inductive invariant `IInv` adds these facts and `HeldNotQueued`.
    TLC checked it on the `discovery_dedup` instance before it was proved.
  - The proof has one step per action.
  - It uses `HeadTailProperties` and `AppendProperties` of
    `SequenceTheorems` for Consume and Push.
  - Lemma `IInvFrame` covers every step that leaves the queue and the
    holders alone.
- `RecoveryProofs!GuardCorrect`: `Spec => GuardRefined`.
  - It uses the same invariant as mutual exclusion. `GuardHeld` (a
    goroutine in the section implies `recoveryEntrance = 1`) is what makes
    a successful CAS, which needs `recoveryEntrance = 0`, find the section
    free, as `Enter` requires.
  - Each exit of the section sets `recoveryEntrance` to 0, which is the
    `taken' = FALSE` of `Leave`; each other step keeps it.
  - Lemma `OwnerIsSection` shows that a goroutine in the section is its
    only owner, and that a pass runs only if it is that goroutine's. So
    `RunPass` finds no pass running, and `Leave` ends the only one.
- `RecoveryProofs!MutualExclusion`: `Spec => []RecoveryMutualExclusion`.
  - Its inductive invariant adds `GuardHeld`: a goroutine in the section
    implies `recoveryEntrance = 1`.
  - `RecoveryTypeCorrect` follows from the same invariant.

- `ShutdownProofs!ShutdownTypeCorrect`: `Spec => []TypeOK`, from
  `ShutdownAssumption`. The channel never holds more than `SignalCapacity`
  signals, because a send into a full channel changes nothing.
- `QueryProjectionProofs!QPTypeCorrect`: `Spec => []TypeOK`, from
  `QueryProjectionAssumption`.
  - `TypeOK` is not inductive by itself. The alias search reads
    `order.expr` and the key search reads `groupByExprs[i]`, so the
    inductive invariant `TInv` adds `ScanInv`: `order` is an ORDER BY item
    during the alias search, and `i` is a valid key index during the key
    search.
  - Lemma `AddOrderByType` covers `addOrderBy` once, for both of its
    callers.
- `QueryProjectionProofs!SelectListCorrect`: `Spec => []SelectListFaithful`,
  for select lists, GROUP BY and ORDER BY of every length.
  - The inductive invariant `SelInv` is the select loop's invariant. While
    the loop runs, the items before `i` were accepted and `SelectExprs` is
    `Accepted(i-1)`. `HasAggr` and `hasNonAggr` say whether one of them is
    an aggregate or a plain column. After the loop, nothing was refused,
    the mix check passed, and the columns no longer change. An error stop
    carries `ExpectedError`.
  - Lemma `FirstRefused` shows that the item that fails is the first
    refused one (`FirstOfLeast`). Lemma `AcceptStep` covers both accepting
    branches. Lemma `AfterSelectStep` covers every step of the ORDER BY and
    grouping loops.
  - TLC checked `SelInv` and `TInv` on the `qp_projection` instance before
    they were proved.

- `QueryProjectionOrderProofs!OrderByCorrect`: `Spec => []OrderByFaithful`,
  for every statement.
  - The inductive invariant adds `OInv` to `TInv /\ SelInv`.
  - `AliasScanInv`: during the alias search, `order` is an unqualified
    column, and no select item before `j` carries its name as an alias.
    This is what makes the first match the `FirstOf` of the reference.
  - `OrdInv`: in the ORDER BY loop, `OrderExprs` holds the first `i-1`
    items, resolved. During an alias search called from that loop, it holds
    the first `i-2`. From the grouping loop on, it begins with all of them.
  - Lemmas `AddOrderByRef` and `AliasScanRef` show that `addOrderBy` and
    one step of its search append `RefOrderBy` of their argument, or do
    nothing. `AddOrderByRef` also covers the panic.
  - `OrderedExtend`, `OrderedKeep` and `OrderedUnchanged` cover the ORDER
    BY prefix under appends.
- `QueryProjectionOrderProofs!GroupKeysCorrect`:
  `Spec => [](NoLiteralColumns => GroupKeysOrdered)`.
  - `NoLiteralColumns` says no select item is a bare integer literal.
  - Without it the property is false: finding 8, run `qp_group_literal`.
    With it, an entry's `Inner.Expr` is never an integer, so a key found at
    line 92 is a real expression. Lemma `GroupOrderInner` shows that such a
    key's ordering is on the key itself.
  - The invariant `GroupInv` has four parts. `GroupBounds` places `i` in
    the grouping loop. `GroupEntries` says every entry past the ORDER BY
    items is `GroupOrder` of a key before `i`; it holds for every
    statement. `NoIntEntries` (lemma `RefNotLit`) and `KeysCovered` hold
    under `NoLiteralColumns`.
  - There is one step lemma per action. `GroupAppend` covers the two
    places that append a key's ordering: the end of `GroupScan`, and the
    end of an alias search started from it.
- `QueryProjectionOrderProofs!OrderExprsResolvedCorrect`:
  `Spec => OrderExprsResolved`, the action property, from the same
  invariant `TInv /\ SelInv /\ OInv` and the two lemmas above.
- TLC checked `OInv` and `GroupInv` before they were proved: all four
  parts, on a wider instance of 793,144 states without bare integer items.

**Only model-checked:**

- All liveness properties (`QueueDrains`, `RecoveryKeepsRunning`,
  `ShutdownTerminates`). TLAPS does not prove liveness under fairness here.
- The violations. They are counterexamples, and TLC shows them.

## 5. Not modelled (yet), and the plan

1. **Done:** `Discovery`, `Recovery`, `Shutdown` and `QueryProjection`,
   each with its runs and mutants. The proofs of dedup, recovery mutual
   exclusion, the recovery guard's refinement, and the type, select-list, ORDER BY and
   grouping correctness of `CreateQPFromSelect`.
2. **Not modelled: `ToString`** of queryprojection.go. It only formats.
3. **Next: the rest of the dispatcher.**
   - A module `Dispatcher` composing the health tick, the recovery tick and
     the other tickers.
   - The caretaking tick's `IsLeader && TimeRipe` gate for
     `SubmitPrimariesToKvStores`.
   - A timed model of SIGHUP changing `InstancePollSeconds`: the TTL is
     recomputed per Add, while `checkAndRecoverWaitPeriod` is computed once.
   - The blocked sender of `snapshotDiscoveryKeys` while not elected.
4. **Next: `KvSubmit`.** `SubmitPrimariesToKvStores` with `kvFoundCache`:
   partial put failures, and stale "found" entries.
5. **Done: an abstract specification of the recovery guard.**
   `NonReentrantSection`, with its refinement model-checked and proved.
   The queue and the pool have none: their promise, at most one
   outstanding entry per key, is `OutstandingAtMostOnce`, proved
   directly. `Shutdown` has none either. Its promise `DrainBeforeExit`
   does not hold (finding 5).

The CI workflow template and the stored-procedure test have nothing to
model.
