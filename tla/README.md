# A TLA+ verification of the mei-lang host

This directory models the concurrent core of the repository: the host process
(`host-shell`) that starts, replaces and stops app runtimes, switches all of them
to a build generation and may die and start again; the caches of the compile and
evaluation services that coalesce equal work; and the training store, which
survives crashes. It holds
TLA+ modules, the TLC configurations that check them on small instances, and
proofs that TLAPS checks for every value of the constants. `PROJECT.json` lists
the runs, the source lines each definition translates, the hazards, the
findings and the theorems.

    tlc -workers 2 -config ControlApps.cfg MCRuntimeControl    # one run
    tlapm RuntimeControlProofs.tla                             # one proof module

## 1. Inventory

Paths are relative to `src/`.

### The host and its app runtimes

| Part | State it keeps | Operations | Correct when |
|---|---|---|---|
| Runtime command actor, `host-shell/src/runtime_actor.rs` | a mailbox (64), a duplicate marker per app, one lane task per app with a queue (16), a start semaphore (4) | start, stop, shutdown; lanes run the control plane's handlers | one start per app, at most four slow starts, commands of an app in order, the router waits for no lane, every caller is answered |
| Control plane, `app_launch_api.rs`, `route_lifecycle.rs`, `instance_api.rs`, `state.rs` | the shell's copy of the launch manifest, the `manifest_mutation` lock, an endpoint mirror, the in-flight map (`app_start_inflight.rs`) | start, stop, cutover, rollback, stop/restart an instance, exit watchdog | the shell and the disk agree, a start undoes nothing newer, no candidate or child is left behind |
| Supervisor, `app_runtime_supervisor.rs` | a pool of child processes, one per instance | spawn, stop, restart with backoff | one child per instance; none of a stopped one |
| Route table, `runtime_route_table.rs` | a snapshot the proxy reads for each request | publish, drain, remove, rebuild | it names the active instance and its living child |
| Launch manifest, `crates/mei-host-core/src/app_runtime` (`launch_manifest.rs`, `host_control.rs`) | `host-control.json`: routes, instances, enabled apps, profile | read, write, compare-and-swap by revision | routes name listed instances, no lost update |
| Generation jobs, `generation_lifecycle.rs`, `build_ops.rs`, `crates/kernel/src/mei_config/build_store` | one job slot, a cleanup preview, build directories, `env/current`, links | activate, roll back, preview and clean up, prebuild | one job at a time, all apps of a generation switch or the activation fails, nothing it relies on is deleted |
| App enablement and idle unload, `app_enable.rs` | enabled flags in the same file, activity times | enable, disable, unload, reload | no lost update, no app unloaded while in use |
| Startup and teardown, `startup.rs`, `managed_teardown.rs`, `stale_runtime_sweep.rs`, `crates/mei-app-runtime/src/parent_watch.rs` | what a host leaves: `host-control.json` and its children | settle the manifest, sweep strays, shut all down | no stray process, no dangling route, whatever moment the host died at |

A request reaches the *proxy*, which reads the route table. When no runtime
serves the app, the demand loader asks the *actor*, whose lane calls
`start_app_with_launch`. The handlers of the HTTP API call the same functions
*without* the actor, so any number of tasks run them at once. They share the
manifest (disk and shell), the pool, the mirror and the table; a start ends in
a cutover, a rebuild of the table and, after a drain, the stop of the previous
instance. A handler is an axum future: a client that goes away drops it at the
await where it is, and its locks and guards with it. One watchdog task per
start polls the child and restarts it.

### The compile and evaluation services

| Part | State it keeps | Operations | Correct when |
|---|---|---|---|
| Metric singleflight, `crates/datasets/src/metric_eval_inflight.rs` | key to slot, a slot being a lock around an optional outcome | run a key once for concurrent callers | one execution per key, failures not kept, every caller returns |
| Compile cache, `crates/toolchain/src/compile_service/cache` | cache key to compiled app and revision stamp; in-flight entries | look up, compile, store, evict, wait, peek, clear | one compile per key, a bounded cache, no stale app served as current |
| Other caches (`metric_response_cache.rs`, `artifact_kv.rs`, page caches) | content by key | get, put | keys name content |
| Training, `crates/mei-training/src` | per learner a state file and a review log; a process lock, a cached catalog | session, next item, review | the log is never behind the state, packs open by their rule only, nothing learnt is lost |

### Everything else

The kernel compiler and the query engine are pure functions over rich data; the
server's prebuild, the language server, snapshot tool, plugin, authentication
and pages have no protocol of their own. `PROJECT.json` lists all of them as
components with the reason each is left out.

### What is hard to test here

- two handlers interleaved at their awaits, or dropped at one;
- a read made before an await and used after it (the manifest a start has seen,
  the pool a table sync has read, the slot a call holds);
- one step of several failing (a write, a spawn, a cutover) and what is undone;
- a full channel between tasks that send to each other;
- children that exit while they are restarted, stopped or cut over;
- waiting callers when the one they wait for fails or panics;
- edits of sources while they are compiled, and a cache at its limit.

`PROJECT.json` names each at its line with the properties that watch it, or the
reason none does yet.

## 2. Modules

| Module | Models | Proofs |
|---|---|---|
| `ExclusiveWork` | the abstract promise of coalescing: the work of a key is done by one caller at a time, one that asked for it | |
| `RuntimeActor` | the actor: router, lanes, semaphore, callers; implements `ExclusiveWork` | `RuntimeActorProofs` |
| `LaunchManifest` | the manifest and its edits (no state of its own) | |
| `RuntimeControl` | the handlers over manifest, pool, mirror, table; instantiates `LaunchManifest` | `RuntimeControlProofs`, `RuntimeControlRoutes` |
| `HostRestart` | extends `RuntimeControl` by the host that dies and starts again | `HostRestartProofs` |
| `GenerationJobs` | activation, rollback and cleanup of build generations; instantiates `LaunchManifest` | `GenerationJobsProofs` |
| `MetricSingleflight` | the coalescing maps; implements `ExclusiveWork` | `MetricSingleflightProofs` |
| `CompileCache` | the cache and its in-flight map; implements `ExclusiveWork` | `CompileCacheProofs` |
| `Training` | a learner's state file and log under crashes | `TrainingProofs` |
| `MC...` | symmetry sets and constant functions for TLC | |

Operators marked *mutant* stand beside the definition they distort: each is a
plausible bug, and each property is known to fail for one of them.

### ExclusiveWork

Two variables: what a caller asked for (`wants`) and who does the work of a key
(`worker`). A caller asks, starts the work of its key when nobody does it, and
comes back, never while it works. The three components that coalesce implement
it, each under the mapping at the end of its module (`Wanted`, `Runs`): an app's
start in the actor, an idempotency key of `run_singleflight`, a cache key. Who
waits, who is refused, how a worker's end reaches the others and what happens
when it panics is hidden; that the worker is one of those who asked and that
there is never a second one is what all three share.

### RuntimeActor

| Code | Model |
|---|---|
| the router's `mpsc` channel | `mailbox`, at most `MailboxCap` |
| the router task between two awaits | `router`: listening, forwarding a command, down |
| `starts_inflight` | `inflight` |
| lane task and its channel | `lane[a]`, `queue[a]` with `LaneCap` |
| start semaphore | `permits` |
| a caller between `send` and its oneshot reply | `call`, `outcome` |

Receiving takes one command from the mailbox; a start of a marked app is
rejected at once, another is marked and forwarded (`RouterAdmit`), and the
router waits in `forwarding` while the lane is full. A lane takes a permit,
runs the start, replies, and *then* awaits room in the mailbox to send
`StartFinished`. That send is where router and lane can wait for each other.
Lanes may panic inside a start or a stop (`LanePanics`): the permit and the
reply channel are dropped, the lane's channel closes, and the marker stays.
What start and stop do is `RuntimeControl`'s; here they are steps that end.

### LaunchManifest and RuntimeControl

| Code | Model |
|---|---|
| `host-control.json`'s launch manifest | `disk` |
| `ShellState.launch_manifest` | `shell` |
| `manifest_mutation` (tokio mutex) | `mutex`, its holder |
| the supervisor's pool | `pool[i]`: the number of the spawn managed, 0 for none |
| `app_runtime_by_instance` | `mirror` |
| operating system processes | `alive` |
| `RuntimeRouteTable` | `table` |
| `AppStartInflight` | `inflight` |
| exit watchdogs | `watch[i]`: how many poll instance `i` |
| the local variables of a handler future | `task[t]`: `op`, `pc`, `app`, `inst`, `seen`, `next`, `snap`, `then` |

A step ends at an await, or where the handler leaves one shared structure for
another. `start_app_with_launch` is the chain StartBegin, StartPrepared,
StartRegister, StartInstallCandidate, StartSpawned, StartAnnounce, Cutover,
CutoverInstall, the three steps of a table sync, then RetireStop,
RetireUnregister and Retire for the previous instance; a failure leads to
StartAbort, StartUnlist and Discard. Stop, rollback, cutover by an operator,
stop and restart of an instance, and the watchdog's restart are chains of the
same kind; `then` says where a shared tail (mirror copy, table sync) returns.
`Dropped` ends a handler at any of its awaits (`AwaitPcs`; the one in which
`stop_from` waits for a child to end comes after the child has left the pool, at
the step that follows), releasing its lock and its in-flight entry and nothing
else. A rollback spawns an instance without a child again (`RollbackRespawn`), or
restarts the child that a watchdog has brought up since it looked
(`RollbackRestart`) and then arms no watchdog.

What is abstracted, and why it is safe:

- A manifest is compared as a whole where the code compares a revision, a hash
  of the content. The code's absent route and empty route are one value.
- A spawn (start the process, wait until it is ready, enter the pool) is one
  step; before it nobody sees the child. An instance's spawns are numbered, and
  the number stands for the port.
- The supervisor's lock protects single steps only and is not a variable.
- The two reads at the beginning of a stop are one, and so are the checks of
  `ensure_instance_ready`.
- A watchdog may give up whenever its runtime is absent; the code needs a
  minute of such polls. This allows more behaviours.
- The host begins with an empty manifest in the file, as enabling an app writes
  it. Without a `host-control.json` every compare-and-swap is refused, as a missing
  file has the empty revision; that workspace is not modelled.
- The host begins fresh here (`HostRestart` starts it again). A missing persisted spec, the compatibility link to
  the active instance and a rollback request's optional revision are left out.
- Bytes, tokens, generations, digests, events and responses are left out.

### HostRestart

A host that does not serve has no handlers, so its tasks say so: all are `"down"`,
or `"sweeping"` between the settling and the sweep; otherwise it `Serves`, and the
steps are those of `RuntimeControl`. A fresh workspace's first host serves at once.
Shell state, pool, mirror, table, lock, handlers and watchdogs
are memory and are forgotten (`Forget`); `host-control.json` survives, and so do
the children of a host that is killed (`HostKilled`), with those that were just
being started and are in no pool (`HalfStarted`). A teardown (`HostTornDown`)
kills what it knows; one that runs into its timeout is a kill. The next host
settles the manifest (`Settled`: nothing runs, active instances become
previous ones), with a write that may fail and is then only warned about, and
sweeps the workspace's processes by command line before it listens (`Boot`,
`Sweep`). Children that find their parent gone exit (`ParentGone`), or do not,
as that watch can be disabled.

- Only the policy `CliOwned` is modelled; `RevivePersisted` is passed by dead
  code only. An unreadable control file and a failing `ps` are left out.
- A candidate of a route without an active instance is not cleared by the
  settling, and a `Standby` instance stays one: both as in the code. So
  `CandidateOwned` is not claimed across a restart.
- Instance ids stay fresh over restarts; the code takes them from the clock.
- The autostart of apps is a start like any other.

### GenerationJobs

| Code | Model |
|---|---|
| launch manifest on disk, in the shell; `manifest_mutation` | `disk`, `shell`, `mutex` |
| supervisor's pool | `pool`: instances with a child |
| `app_runtime_by_instance` | `mirror`: instances with an endpoint, stale ones and placeholders included |
| build directories, `env/current`, `links.build` | `dirs`, `current`, `links` |
| `ShellState.ops_job`, `cleanup_preview` | `job`, `preview` |
| a request or the job task it spawns | `task[t]` |

A request looks at the slot, reads and validates the builds, and takes the slot
afterwards (`AskSwitch`, `BeginJob`). An activation validates again, adds the
candidates of all apps to the manifest it read and writes it back without lock
or comparison (`Write`), launches every app, cuts them over one by one, each
expecting the revision the one before committed, and moves the pointers. An
instance is ready when it has an endpoint or a child (`Ready`), so a cutover may
go to one whose child is gone, and when the runtime's binary is missing to one
that never had one (`LaunchedPending`). A failure stops what it launched, one
child after the other (`StopCandidate`), twice, and leaves what it has committed. A
rollback takes app after app and skips what it cannot roll back; if none went
back it moves the pointers alone. A cleanup compares its preview and removes the
bundles nothing protects by the manifest it copied. Beside the jobs, without the
slot, run an operator's cutover and the prebuild an app's start performs.

Left out: an instance's private directories and their collection, digests and
bytes, the expiry of a preview, the protect list of the configuration, instance
specs, the content store, generation tags. The pointer switch of a rollback's
fall-back and each update of the links is one step, and so is a check with the
view it reads. Apps are taken in any order where the code has a fixed one.

### MetricSingleflight

`inflight` maps a key to a slot, `result[s]` is what the slot's lock guards
(nothing, an outcome, or poisoned), and `call[c]` is a caller: waiting for the
slot's lock, leading, served, leaving. A slot's strong count is what the map
and the callers hold (`StrongCount`); names of slots are used again once nobody
holds them. `TypedKeys` are the keys of `run_typed_singleflight`, whose own
clean-up follows the shared one; the others go through `run_singleflight`.
A panic poisons the slot and leaves it in the map, so later callers of that key
fail. Hit counters and the check of a slot's dynamic type are left out.
`run_metric_eval_singleflight` has no caller today; whole evaluations and
artifact loads have.

### CompileCache

| Code | Model |
|---|---|
| `compile_cache()`: key to `CachedCompiledApp` | `cache` |
| `compile_inflight_map()` and the result in an entry | `flight` |
| a thread in `compile_app_with_cache_shared` or a peek | `call[c]` |
| the files of an app, over time | `source[a]` |

`source[a]` is the sequence of what an app's files have said, the text of now
last. Of an entry the model keeps the place in it of what was compiled
(`content`) and of what was stamped (`stamp`), and whether no entry was found
when it was compiled (`first`). An edit (`Edit`) appends another text, which may
be one of before: a stamp is a signature of content, so `Valid` compares texts
and an undone edit makes old stamps valid again. (Where the code falls back on
times of modification, an undone edit gives another stamp; the model then allows
more than the code.) A recompile stamps the sources and then compiles; a first
compile stamps inside the compiler, after most reading is done (`StampLate`). A store first evicts, if
the cache is at its limit, in the arbitrary order of a hash map but the storing
app's entries first (`Kept`), then writes its key and the default scene's
aliases. Publishing sets the result and wakes the waiters before the key leaves
the map, so a call may join in between (`Woken`). A peek that finds a stale
entry removes the key after it let go of the read lock (`PeekRemove`).

A compile reads its sources at one point: an edit of one file falls before or
after it. Left out:
the latch that delays a retry after a failure, artifacts written by older
versions (nothing writes them any more), slim copies, poisoned locks, and a
leader that panics, which would leave its key in the map and its waiters
waiting.

### Training

`file` is the state file; `log` keeps for every item the highest ladder stage a
line of the review log names; `work[c]` is the copy a call works on and the
write it makes next. Each of the three calls loads, migrates, rolls the day,
changes and saves under the lock; a review appends to the log first. A write may
fail, the host may die between two writes and come back with another set of packs
(`Restart`), and a review may panic inside the lock (`ReviewPanics`: an interval
beyond what a duration holds) and poison it.

Left out: a catalog that changes the members or the rule of a pack (a pack that
grows may be mastered no longer while what it unlocked stays open); SM-2 phases, intervals and due times (any introduced item may be due),
the mode `radical_key`, ids the catalog does not know, suspended items, figures
derived for the summary, a log line torn in the middle, and `meta.json`, whose
failure fails a call that has saved its state. `open_packs` is a set: `pack-a`
is always its first member. A percentage is compared as the code does, in
integers (`AtLeastPct`). A review introduces the item it is given, of a locked
pack too, although the comment on `open_packs` (`model.rs`) speaks of new items
from open packs only; the model follows the code.

## 3. Runs

| Run | Instance | Question |
|---|---|---|
| `ActorStarts` | 2 apps, 2 callers that start, all capacities 1, panics, teardown; fair | does the router ever wait, is a marker lost or kept, does every call come back |
| `ActorSafety` | 2 apps, 3 callers, starts and stops, capacities 2, 1 permit | one start, start limit, order; exclusive work |
| `ControlApps` | 2 apps, 2 tasks, starts and stops, 2 starts per app | one start, no candidate or child left behind, served at rest, a true table at rest |
| `ControlFaults` | 1 app; starts, stops, operator's cutover, stop and restart of instances, drops, failing writes; fair | disk and shell agree, a start undoes nothing newer, every handler returns |
| `HostRestarts` | 1 app, 2 tasks; starts, rollbacks, exits, 3 spawns of an instance, failing writes; a host killed, torn down and started at any step | active children stay watched, no dangling route, no stray child |
| `ControlRollback` | starts and rollbacks | **finding**: the table keeps the instance rolled back from |
| `ControlCrashes` | 2 apps, one start each, one exit | **finding**: two syncs overlap and the older wins |
| `SingleflightShared` | 3 callers, 1 key of each map, 4 calls, panics; fair | one execution, failures forgotten, every call returns; exclusive work |
| `CompileShared` | 2 callers, 4 keys of 2 apps, limit 2, 2 edits of one app, 2 texts; fair | one leader, bounded cache, a recompiled entry is current unless an edit was undone, every call returns; exclusive work |
| `GenerationJobs` | 2 apps, 2 generations, 2 tasks, 3 calls; fair | one job, its bundles stay, a whole switch, every job ends |
| `GenerationPartial` | 1 task, 2 calls | **finding**: a failed activation stops active instances |
| `TrainingStore` | 2 clients, 2 items, 3 packs of which one may vanish, cap 1 | log ahead of state, packs open by rule, nothing unlearnt |

**Why the bounds suffice.** Two apps are needed for one to disturb the other
(a rebuild replaces the table of all), and two tasks for any interleaving; a
second start of an app is a replacement with a previous instance, a second
spawn a restart, and a third one, in `HostRestarts`, a rollback's restart of what
a watchdog has restarted. Capacity one makes every channel full at once, and one permit
makes lanes queue. Three callers of a singleflight are a leader, a waiter and a
late one. Four keys
are two pages of one app and the default scene of another under its two keys,
each the alias of the other; two entries make the store of the third evict, and
the aliases overshoot. Two edits and two texts are what it takes to make an edit
and undo it, under a compile or around one. In `HostRestarts` the host may die any number of times: starts and
spawns are bounded over all hosts, so a second host still has a start of its own
and a third finds what two have left. Two generations are the one an app is on
and the one it goes to, the newer being today's, which a prebuild writes; three
calls are a job, one that saw its slot free, and one beside them. Three packs
are the open one, one to open by it and one to open by that, in one step or in
two, and the vanishing pack is the one in the middle. The bounds in the guards are `MaxStarts`, `MaxSpawns`, `MaxCalls`.
A handler that reaches a bound takes the branch that fails (the start is
refused, the spawn does not come up), which the code has too, so no bound
blocks a handler.

**Fairness.** Weak fairness on the steps of a handler, a lane, the router or a
thread: the executor polls what is ready, and spawns, kills, starts and compiles
are bounded by timeouts or end. Strong fairness only where a tokio mutex,
semaphore or channel serves its waiters in the order of arrival. The
singleflight's locks are standard mutexes with no such promise; its calls are
bounded, so none is needed. Callers, operators, edits and exits have none.

**Deadlock** is checked in every run but four: in `ActorSafety` a lane and the
router can wait for each other for good once there are stops (see below); in
`SingleflightShared`, `GenerationJobs` and `GenerationPartial` the callers stop
when their calls are spent.

## 4. What the runs show

- The actor: with callers that only start apps, which is how the host uses it
  today, the router finds room in every lane, since a marked app has at most
  one command in flight. With stops this is not so: nothing limits them, a full
  lane blocks the router, and a lane that wants to send `StartFinished` to a
  full mailbox blocks with it. No caller sends stops today, so this is recorded
  as a hazard, not a finding.
- The control plane: a start that fails, is refused or overtaken removes its
  candidate and its child; a start's cutover never overrides a stop or an
  operator that committed after it registered; the shell's manifest never
  drifts from the disk's, even with failing writes and dropped handlers, since
  nothing is awaited between the write and the install.
- The host: however often it is killed, also in the middle of a spawn or of its
  own recovery, the next one ends up with no stray child and no dangling route,
  because the sweep goes by command line and not by what was recorded. Of the
  children of an active instance `WatchedAtRest` speaks of the first and the
  second. A later one the code may leave without a watchdog: a rollback finds the
  child that a watchdog has just brought back, restarts it, arms none
  (`route_lifecycle.rs:402`), and the watchdog gives up while the child is away.
  This run has no stops; `ControlApps`, `ControlFaults` and the theorems have them.
- The jobs: the slot is taken by a second look, so that requests which saw it
  free exclude each other; an activation that completes has moved all apps,
  though it writes the manifest without the lock, since each of its cutovers
  compares. What that unguarded write overwrites is lost, and a cleanup may
  remove the bundle of an instance a concurrent cutover has just activated:
  nothing in the repository says otherwise, and both are listed as hazards.
- Training: log before state, load and save under one lock and unlocks that
  need levels which never go down make the store sound under crashes.
- Three disagreements with what the code or its comments say, each with a run
  that reproduces it: a rollback leaves the proxy on the old instance
  (`route_lifecycle.rs:353`), overlapping table syncs publish the older one last
  (`state.rs:429`), and an activation whose later cutover fails stops the
  instances it has already made active (`route_lifecycle.rs:453`).
- Two behaviours of the singleflights are recorded as hazards without a
  property: a finished slot that both callers leave behind is served to later
  calls (`metric_eval_inflight.rs:142`), and a failed evaluation's late waiter
  removes a newer slot of its key (`:251`).
- The compile cache: the order stamp, then compile makes a recompiled entry
  safe against every edit that stays, and against one made and undone outside
  the compile. One sequence is left, and the code has it: the sources say A when
  they are stamped and B when they are compiled, and go back to A; what B gave
  is then served under A's stamp. `StaleMeansUndone` says that nothing else makes
  a recompiled entry current in name only. First compiles stamp late and are not
  covered; the model has the late stamp and the property excludes them by name.

## 5. Proofs

Each proof module extends the module it is about. All theorems hold for any
sets of apps, tasks, callers and keys and any bounds, under the assumption
named in the module (`ActorAssumption`, `ControlAssumption`, `CacheKeys`, ...):
finite sets where something is counted, positive capacities, a `None` that is
no instance, and well-typed parameter functions. `RuntimeControlRoutes` extends
`RuntimeControlProofs`, and `HostRestartProofs` both, so a step of a running
host is proved once.

| Theorem | Inductive invariant and why it is needed |
|---|---|
| `TypeCorrect`, `StartLimitHolds` (actor) | types, and free permits + lanes inside a start = limit: a panic must return exactly what its lane held |
| `OneStartHeld` | *Tokens*: a start that was admitted is in one place at a time (router, queue, lane, and after its end as a `StartFinished`), and the marker stands while it is: the marker is what makes a second start wait outside |
| `MarkersOwned`, `RouterNeverBlocks` (callers only start apps) | *Tokens*, *OnlyStarts* and *MarkerKept*: a forwarded start finds its lane's queue without starts, and so empty. With stops both are false: a stop forwarded to a dead lane forgets the lane and leaves the marker, and a lane can fill up |
| `ActorImplementsWork` | *Owns*: a caller's command is in one place of the actor at most and its caller waits, so whoever is answered, refused or dropped is not the one whose start still runs; *Homed*: commands stay with their app and caller |
| `CommandsKeepOrder` | the surviving commands of an app's line (lane, its queue, router, mailbox) map into the old line at increasing places; *LineInv*: a command stands in a line at one place, and what a caller sends is new there, as by *Owns* a sender has nothing in the actor |
| `ControlTypeCorrect` (control plane) | types, and *WellPlaced*: which fields a handler has filled in at which step, as a step that uses `inst` or `prev` is only typed when they are set |
| `ShellFollowsDisk` | *LockInv*: a handler between write and install holds the lock, `next` is the disk's manifest, and everybody else is outside; else disk and shell are equal |
| `OneStartAtATime` | *StartInv*: a running start owns its app's in-flight entry, so the guard of a second start excludes it |
| `StartsOverrideNothing` | *StartInv*'s last part: from registration to cutover a start remembers a manifest in which it is the candidate; the compare-and-swap makes that the present one |
| `SingleflightTypeCorrect`, `ExecutesOnce` | *Registered*: a slot in use is the one its key names, as a strong count of two leaves no other holder when it is removed; *SlotLocked*: one leader per slot |
| `CacheTypeCorrect`, `OneLeaderPerKey` | `OneCompile` itself is inductive with the types: both directions are needed, as a key in flight without leader would never be released |
| `RecompilesAreSound` | *StampedFirst*: a recompile, under way or stored, has read its sources at its stamp or later, and both places are of the past; an entry stamped and read at the same place says what its stamp says, and one read now is current |
| `CacheStaysBounded` | the size before a store is below the limit or was cut under it; a store adds its key and the aliases |
| `SingleflightImplementsWork`, `CacheImplementsWork` | one lemma per action: the step maps to `Ask`, `Work`, `Return` or `Finish` or to a stutter; *SlotLocked* and `OneCompile` make the worker unique |
| `FailuresAreForgotten` | *OwnSlots*, *OutcomeStored*, *ErrorsEvicted*: a slot in the map belongs to one key, a call's outcome is its slot's, and a failed call has taken its slot off the map before it lets go |
| `CandidatesHaveStarts` (no operator's cutover, no dropped handler, writes succeed) | *RouteInv* and *OwnedInv*: a candidate is the instance of a start past its registration that still has its cutover or discard before it; without the assumptions it is false, as a dropped start or a discard that cannot be written leaves its candidate behind |
| `ActivesAreServed` (starts and stops) | *Steady*: the invariants of the other rows, *PoolInv* (an active instance on disk has its child) and *Fits*, what each handler relies on at each step. Its core is *Out*: an instance past its own start's spawn that is neither active nor a candidate never serves again, so a kill that was decided before an await still hits nobody who serves when it comes |
| `NoChildLeftBehind` (the same) | *OrphanInv*: a managed child whose instance is not wanted is on the list of a stop that has committed and still has its kills before it |
| `TableSettles` (the same, writes succeed) | *TableInv*: an entry is true, or a handler of its app will publish or take it away; a publication is true because the start holds the lock since before its first read and no kill hits an active instance |
| `RestartTypeCorrect`, `NoChildIsStray` | *TypeInv* of `RuntimeControlProofs`, carried over to the new steps; while a host serves the living children are those of its pool (`ServesOn`: only a serving host takes handler steps); a kill ends that and the sweep restores it |
| `RoutesNeverDangle` (no operator's cutover) | *RouteInv*: slots name listed and numbered instances, the instance of a pending start is named by no active or previous slot, so that its discard leaves no name behind, and a rollback goes to the previous one; an operator may make a candidate active whose start then discards it (`app_launch_api.rs:544`) |
| `ActivesStayWatched` (no operator's restart, no dropped handler; first and second child of an instance) | *WatchInv*: a managed child has its watchdog, or a handler at its own instance is on its way to arm it. *CountInv*: an instance that is active, previous or in the mirror has been spawned, and its children are numbered by its spawns: the rollback found it without a child, so the one it restarts is the second at least and the one it puts in its place the third. An operator's restart arms none for the child it spawns (`instance_api.rs:349`), and the old one may have given up meanwhile; a dropped handler never gets there |
| `OneStartOverHosts`, `NothingOverriddenOverHosts` | *StartInv* again: a kill leaves no start, and `Settled` keeps candidates, but no start of a new host knows them |
| `HostsFollowDisk` (writes succeed) | *LockInv* while a host is up or sweeping; *BlankInv*: a host that does not serve yet has no lock holder, child, entry or active instance. With failing writes it is false: a host that cannot write the settled manifest goes on with it |
| `ActivesServedOverHosts`, `NoChildLeftOverHosts` (starts and stops) | *HostInv*: the host is down, or *Served* (the invariants of the rows for one host), or *Refusing*: it could not write the settled manifest, so its shell differs from the disk, every later write is refused by the comparison and its starts end where they register |
| `TableSettlesOverHosts` (the same, writes succeed) | *HostInv* with *TableInv* |
| `GenerationTypeCorrect` | types, and which fields of a job are filled in at which step |
| `OneJobAtATime` | the slot's kind and the one task past `BeginJob` belong together |
| `ValidatedBundlesStay` | an activation in its writing steps excludes a cleanup in its removing ones by the slot, and prebuilds only touch today's generation |
| `SwitchesAreWhole` | *AllMoved*: the apps an activation is done with are at its generation in the manifest its next cutover expects; the comparison makes that the shell's, and the disk's |
| `TrainingTypeCorrect` | *IInv*: types, one call inside the lock, and of the copy it works on what the properties say of the file |
| `LogIsAhead` | *Appending*, *SavingInv*: the copy is covered by the log but for the item about to be appended |
| `PacksOpenByMastery` | also for the copies; levels grow, so a rule once satisfied stays so, whichever packs the next catalog has; the members and the rule of a pack are taken as fixed |
| `NothingIsUnlearned` | the copy of the call that holds the lock is at or above the file, since nobody else saves |

The theorems about what starts and stops leave behind are stated for `Ops` within
`{"start", "stop"}`, the setting of `ControlApps`, and hold for any number of
apps, handlers, starts and spawns. Those about children hold whether or not
writes reach the disk; those about the route table need writes that succeed, as a
stop whose write fails leaves its app's entry draining. The assumption on `Ops` is
needed: the finding runs show a rollback or an exit leaving a false entry in the
table, and an operator's stop or cutover of a single instance can leave an
active instance without a child.

Only model-checked: the liveness properties (`EveryCallReturns`, `MarkerCleared`,
`HandlersReturn`, `JobEnds`). Liveness under fairness and ENABLED are out of the
prover's reach. Every invariant and every action property of a passing run has a
theorem, under the assumptions the table names.

## 6. Plan

Done: the actor, the control plane, the metric singleflight, the compile cache,
`GenerationJobs`, `HostRestart`, `Training`, the abstract specification
`ExclusiveWork`, and the theorems above. Open, in this order:

1. The other writers of `host-control.json` (`app_enable.rs`, profile
   application), which read and write the whole document without the lock. They
   lose updates, theirs or the manifest's, by their code; a model is worth its
   size once the repository states what should hold.
2. Compile cache: panicking leaders and the failure latch.
3. The instance garbage collector and the private directories of instances.
4. Theorems: the properties at rest for other mixes of operations. With one app,
   two handlers, two starts, two spawns and writes that succeed, TLC finds that
   `NoOrphans` still holds when an operator's cutover or an operator's stop of a
   single instance is added to starts and stops, and not when a rollback, an
   exit, a restart or a dropped handler is; `CandidateOwned` holds with any one
   of them but the dropped handler.

## 7. Not modelled

Besides the components listed as such: health probes and their cache, the
instance garbage collector, `reconcile_launch_manifest`, pid files, byte-level
file writes and the shared temporary file, demand loads that check the enabled
flag before a disable, a second manifest lock made by `cutover_after_apply`,
environment switches that turn the singleflights off, and memory exhaustion.
