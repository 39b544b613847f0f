--------------------------- MODULE RuntimeControl ---------------------------
(***************************************************************************)
(* The host's runtime control plane: starting, stopping, cutting over and  *)
(* rolling back apps, stopping and restarting single instances, and the    *)
(* watchdog that restarts a child that exited.  Any number of tasks run    *)
(* these handlers at once; they share                                      *)
(*   - the launch manifest on disk (host-control.json) and in the shell    *)
(*     state, edited under the manifest_mutation lock,                     *)
(*   - the supervisor's pool of child processes,                           *)
(*   - the shell's mirror of the pool's endpoints, and                     *)
(*   - the route table, the snapshot the proxy reads.                      *)
(*                                                                         *)
(* A step ends where the handler awaits, or where it leaves one shared     *)
(* structure for another and the others can tell.  A child process is      *)
(* named by its instance and by the number of the spawn that created it:   *)
(* each spawn listens on a new port, so that pair is also its endpoint.    *)
(***************************************************************************)
EXTENDS Naturals, FiniteSets

CONSTANTS
  Apps, Tasks, None,
  MaxStarts,   \* bound: starts of one app
  MaxSpawns,   \* bound: spawns of one instance
  Ops,         \* the handlers the environment calls
  IoFails      \* whether a write of a spec or of the manifest may fail

ASSUME ControlAssumption ==
  /\ Ops \subseteq {"start", "stop", "switch", "rollback", "stopInstance",
                    "restart", "exit", "drop"}
  /\ MaxStarts \in Nat /\ MaxSpawns \in Nat \ {0}
  /\ IoFails \in BOOLEAN
  /\ None \notin Tasks /\ None \notin Apps \X (1 .. MaxStarts)

Instances == Apps \X (1 .. MaxStarts)
AppOf(i) == i[1]

INSTANCE LaunchManifest

VARIABLES
  disk,      \* launchManifest in host-control.json
  shell,     \* ShellState.launch_manifest
  mutex,     \* holder of manifest_mutation
  pool,      \* instance -> the spawn the supervisor manages, 0 if none
  mirror,    \* instance -> the spawn ShellState.app_runtime_by_instance names
  alive,     \* the child processes that run
  table,     \* app -> entry of the runtime route table
  inflight,  \* AppStartInflight: apps with a start in flight
  watch,     \* instance -> the exit watchdogs that poll it
  started,   \* app -> starts so far, the source of fresh instance ids
  spawns,    \* instance -> spawns so far
  task       \* task -> the handler it runs and where it is

vars == <<disk, shell, mutex, pool, mirror, alive, table, inflight, watch,
          started, spawns, task>>
manifests == <<disk, shell>>
processes == <<pool, alive, spawns>>

Idle == [op |-> "none", pc |-> "idle", app |-> None, inst |-> None, prev |-> None,
         ids |-> {}, seen |-> EmptyManifest, next |-> EmptyManifest, snap |-> {},
         then |-> "none"]

NoEntry == [phase |-> "none", inst |-> None, spawn |-> 0]
Entry(phase, i, n) == [phase |-> phase, inst |-> i, spawn |-> n]

-----------------------------------------------------------------------------
At(t, pc) == task[t].pc = pc
Begin(t, op) == op \in Ops /\ task[t] = Idle
Goto(t, pc) == task' = [task EXCEPT ![t].pc = pc]
Return(t) == task' = [task EXCEPT ![t] = Idle]

Lock(t) == mutex = None /\ mutex' = t
Unlock(t) == mutex' = None

Active(m, a) == m.routes[a].active
Managed(i) == pool[i] # 0
Ready(i) == mirror[i] # 0 \/ Managed(i)

(* stop_from: the runtime leaves the pool and its process is killed.       *)
StopFrom(i) ==
  /\ pool' = [pool EXCEPT ![i] = 0]
  /\ alive' = alive \ {<<i, pool[i]>>}

(* A child that came up enters the pool, unless another spawn of the       *)
(* instance got there first: then the newcomer is killed.                  *)
SpawnInto(i) ==
  /\ spawns[i] < MaxSpawns
  /\ ~Managed(i)
  /\ spawns' = [spawns EXCEPT ![i] = @ + 1]
  /\ pool' = [pool EXCEPT ![i] = spawns[i] + 1]
  /\ alive' = alive \union {<<i, spawns[i] + 1>>}

(* write_if_revision_matches followed, one step later, by the install of   *)
(* the same manifest in the shell state.                                   *)
WriteIfRevisionMatches(t, expected, next, pc) ==
  /\ disk = expected
  /\ disk' = next
  /\ task' = [task EXCEPT ![t].next = next, ![t].pc = pc]

(* The write is refused when the disk holds another revision than the one  *)
(* expected, and it can fail as any write can.                             *)
WriteMayFail(expected) == IoFails \/ disk # expected

-----------------------------------------------------------------------------
(* start_app_with_launch                                                   *)

(* try_begin, and its mutant, which does not look at the map.              *)
MayStartAlways(a) == TRUE
MayStart(a) == a \notin inflight

StartBegin(t, a) ==
  /\ Begin(t, "start")
  /\ MayStart(a)
  /\ inflight' = inflight \union {a}
  /\ task' = [task EXCEPT ![t] = [Idle EXCEPT !.op = "start", !.pc = "prepare", !.app = a]]
  /\ UNCHANGED <<manifests, mutex, processes, mirror, table, watch, started>>

(* Prebuild or configuration fails.                                        *)
StartRefused(t) ==
  /\ At(t, "prepare")
  /\ inflight' = inflight \ {task[t].app}
  /\ Return(t)
  /\ UNCHANGED <<manifests, mutex, processes, mirror, table, watch, started>>

(* replacement_instance_id, and its mutant, which skips an id.             *)
SkippingId(a) == <<a, started[a] + 2>>
FreshId(a) == <<a, started[a] + 1>>

(* Prebuild done: an app without an active route shows as starting, and    *)
(* the new instance gets an id of its own.                                 *)
StartPrepared(t) ==
  /\ At(t, "prepare")
  /\ LET a == task[t].app IN
       /\ started[a] < MaxStarts
       /\ started' = [started EXCEPT ![a] = @ + 1]
       /\ table' = IF Active(shell, a) = None
                     THEN [table EXCEPT ![a] = Entry("Starting", None, 0)] ELSE table
       /\ task' = [task EXCEPT ![t].pc = "register", ![t].inst = FreshId(a)]
  /\ UNCHANGED <<manifests, mutex, processes, mirror, inflight, watch>>

(* register_start_candidate                                                *)
StartRegister(t) ==
  /\ At(t, "register")
  /\ Lock(t)
  /\ WriteIfRevisionMatches(t, shell,
       RegisterCandidate(shell, task[t].app, task[t].inst), "installCandidate")
  /\ UNCHANGED <<shell, processes, mirror, table, inflight, watch, started>>

(* The spec or the manifest cannot be written, or the manifest on disk is  *)
(* not the shell's: the start returns as it is.                            *)
StartRegisterFails(t) ==
  /\ At(t, "register")
  /\ IoFails \/ (mutex = None /\ WriteMayFail(shell))
  /\ inflight' = inflight \ {task[t].app}
  /\ Return(t)
  /\ UNCHANGED <<manifests, mutex, processes, mirror, table, watch, started>>

StartInstallCandidate(t) ==
  /\ At(t, "installCandidate")
  /\ shell' = task[t].next
  /\ Unlock(t)
  /\ task' = [task EXCEPT ![t].pc = "spawn", ![t].seen = task[t].next]
  /\ UNCHANGED <<disk, processes, mirror, table, inflight, watch, started>>

StartSpawned(t) ==
  /\ At(t, "spawn")
  /\ SpawnInto(task[t].inst)
  /\ Goto(t, "announce")
  /\ UNCHANGED <<manifests, mutex, mirror, table, inflight, watch, started>>

StartSpawnFails(t) ==
  /\ At(t, "spawn")
  /\ Goto(t, "unlist")
  /\ UNCHANGED <<manifests, mutex, processes, mirror, table, inflight, watch, started>>

(* The endpoint announced is that of the instance's first spawn.           *)
StartAnnounce(t) ==
  /\ At(t, "announce")
  /\ mirror' = [mirror EXCEPT ![task[t].inst] = 1]
  /\ Goto(t, "cutover")
  /\ UNCHANGED <<manifests, mutex, processes, table, inflight, watch, started>>

-----------------------------------------------------------------------------
(* execute_cutover, called by a start for its candidate and by the         *)
(* operator (op "switch") for a listed instance.                           *)

SwitchBegin(t, i) ==
  /\ Begin(t, "switch")
  /\ Registered(shell, i)
  /\ task' = [task EXCEPT ![t] = [Idle EXCEPT !.op = "switch", !.pc = "cutover",
                                    !.app = AppOf(i), !.inst = i, !.seen = shell]]
  /\ UNCHANGED <<manifests, mutex, processes, mirror, table, inflight, watch, started>>

(* Mutant: the revision the caller saw is not compared.                    *)
CutoverUncompared(t) ==
  /\ Ready(task[t].inst)
  /\ Registered(shell, task[t].inst)

CutoverAllowed(t) ==
  /\ shell = task[t].seen
  /\ Ready(task[t].inst)
  /\ Registered(shell, task[t].inst)

Cutover(t) ==
  /\ At(t, "cutover")
  /\ Lock(t)
  /\ CutoverAllowed(t)
  /\ WriteIfRevisionMatches(t, shell,
       CutoverRoute(shell, task[t].app, task[t].inst), "installCutover")
  /\ UNCHANGED <<shell, processes, mirror, table, inflight, watch, started>>

CutoverRefused(t) ==
  /\ At(t, "cutover")
  /\ mutex = None
  /\ ~CutoverAllowed(t) \/ WriteMayFail(shell)
  /\ IF task[t].op = "start" THEN Goto(t, "abort") ELSE Return(t)
  /\ UNCHANGED <<manifests, mutex, processes, mirror, table, inflight, watch, started>>

(* The new manifest is installed; the lock is kept for the table's sync.   *)
CutoverInstall(t) ==
  /\ At(t, "installCutover")
  /\ shell' = task[t].next
  /\ LET prev == task[t].next.routes[task[t].app].previous IN
       task' = [task EXCEPT ![t].pc = "snap", ![t].prev = prev,
                  ![t].then = IF task[t].op = "switch" THEN "free"
                              ELSE IF prev \in {None, task[t].inst} THEN "armed"
                              ELSE "drain"]
  /\ UNCHANGED <<disk, mutex, processes, mirror, table, inflight, watch, started>>

-----------------------------------------------------------------------------
(* sync_route_table_from_supervisor: read the pool, then the shell's       *)
(* routes, then replace the whole table.                                   *)

SyncReadPool(t) ==
  /\ At(t, "snap")
  /\ task' = [task EXCEPT ![t].pc = "routes",
                ![t].snap = {p \in Instances \X (1 .. MaxSpawns) : pool[p[1]] = p[2]}]
  /\ UNCHANGED <<manifests, mutex, processes, mirror, table, inflight, watch, started>>

SyncReadRoutes(t) ==
  /\ At(t, "routes")
  /\ task' = [task EXCEPT ![t].pc = "publish",
                ![t].snap = {p \in @ : Active(shell, AppOf(p[1])) = p[1]}]
  /\ UNCHANGED <<manifests, mutex, processes, mirror, table, inflight, watch, started>>

(* What the table becomes: one running entry for each app of `snap'.       *)
Rebuilt(snap) ==
  [a \in Apps |->
     IF \E p \in snap : AppOf(p[1]) = a
       THEN LET p == CHOOSE p \in snap : AppOf(p[1]) = a IN Entry("Running", p[1], p[2])
       ELSE NoEntry]

(* Mutant: the cutover's lock guard outlives the cutover.                  *)
LockLeaked(me) == mutex

(* Mutant: a watchdog polls only until its first restart.                  *)
ArmedOnce(me) ==
  IF me.then \in {"armed", "respawned"} THEN [watch EXCEPT ![me.inst] = @ + 1] ELSE watch

(* What the handler releases and arms once the table is published ...      *)
Released(me) ==
  IF me.then \in {"respawned", "restarted", "unlocked", "watched"} THEN mutex ELSE None

Armed(me) ==
  IF me.then \in {"armed", "respawned", "watched"}
    THEN [watch EXCEPT ![me.inst] = @ + 1] ELSE watch

(* ... and where it goes.                                                  *)
AfterSync(t) ==
  LET me == task[t] IN
    /\ mutex' = Released(me)
    /\ watch' = Armed(me)
    /\ inflight' = IF me.then \in {"armed", "dropped"} THEN inflight \ {me.app}
                                                     ELSE inflight
    /\ CASE me.then = "drain" -> Goto(t, "drain")
         [] me.then \in {"respawned", "restarted"} -> Goto(t, "rollback")
         [] OTHER -> Return(t)

SyncPublish(t) ==
  /\ At(t, "publish")
  /\ table' = Rebuilt(task[t].snap)
  /\ AfterSync(t)
  /\ UNCHANGED <<manifests, processes, mirror, started>>

-----------------------------------------------------------------------------
(* drain_and_retire_previous, after the drain delay                        *)

RetireStop(t) ==
  /\ At(t, "drain")
  /\ StopFrom(task[t].prev)
  /\ Goto(t, "unregister")
  /\ UNCHANGED <<manifests, mutex, spawns, mirror, table, inflight, watch, started>>

RetireUnregister(t) ==
  /\ At(t, "unregister")
  /\ mirror' = [mirror EXCEPT ![task[t].prev] = 0]
  /\ Goto(t, "retire")
  /\ UNCHANGED <<manifests, mutex, processes, table, inflight, watch, started>>

(* Mutant: the edit is written but never installed in the shell state.     *)
EditUninstalled(t, next, then) ==
  /\ Lock(t)
  /\ disk = shell
  /\ disk' = next
  /\ task' = [task EXCEPT ![t].next = next, ![t].then = then, ![t].pc = "snap"]

(* An edit whose failure is ignored: the sync follows either way.          *)
EditOrSkip(t, next, then) ==
  /\ Lock(t)
  /\ \/ /\ disk = shell
        /\ disk' = next
        /\ task' = [task EXCEPT ![t].next = next, ![t].then = then,
                                ![t].pc = "installEdit"]
     \/ /\ WriteMayFail(shell)
        /\ disk' = disk
        /\ task' = [task EXCEPT ![t].then = then, ![t].pc = "snap"]

Retire(t) ==
  /\ At(t, "retire")
  /\ EditOrSkip(t, RetirePrevious(shell, task[t].prev), "armed")
  /\ UNCHANGED <<shell, processes, mirror, table, inflight, watch, started>>

InstallEdit(t) ==
  /\ At(t, "installEdit")
  /\ shell' = task[t].next
  /\ Goto(t, "snap")
  /\ UNCHANGED <<disk, mutex, processes, mirror, table, inflight, watch, started>>

(* Mutant: the child of a start whose cutover was refused is left running. *)
AbortLeavesChild(t) ==
  /\ At(t, "abort")
  /\ Goto(t, "unlist")
  /\ UNCHANGED <<manifests, mutex, processes, mirror, table, inflight, watch, started>>

(* A start whose cutover was refused stops its child and, like one whose   *)
(* spawn failed, discards the candidate.                                   *)
StartAbort(t) ==
  /\ At(t, "abort")
  /\ StopFrom(task[t].inst)
  /\ Goto(t, "unlist")
  /\ UNCHANGED <<manifests, mutex, spawns, mirror, table, inflight, watch, started>>

StartUnlist(t) ==
  /\ At(t, "unlist")
  /\ mirror' = [mirror EXCEPT ![task[t].inst] = 0]
  /\ Goto(t, "discard")
  /\ UNCHANGED <<manifests, mutex, processes, table, inflight, watch, started>>

Discard(t) ==
  /\ At(t, "discard")
  /\ EditOrSkip(t, DiscardCandidate(shell, task[t].app, task[t].inst), "dropped")
  /\ UNCHANGED <<shell, processes, mirror, table, inflight, watch, started>>

-----------------------------------------------------------------------------
(* stop_app_runtime                                                        *)

Draining(e) == IF e = NoEntry THEN e ELSE [e EXCEPT !.phase = "Draining"]

StopBegin(t, a) ==
  /\ Begin(t, "stop")
  /\ LET ids == {i \in Instances : AppOf(i) = a /\ (Managed(i) \/ Active(shell, a) = i)} IN
       IF ids = {}
         THEN table' = [table EXCEPT ![a] = NoEntry] /\ UNCHANGED task
         ELSE /\ table' = [table EXCEPT ![a] = Draining(@)]
              /\ task' = [task EXCEPT ![t] = [Idle EXCEPT !.op = "stop", !.pc = "stop",
                                                !.app = a, !.ids = ids]]
  /\ UNCHANGED <<manifests, mutex, processes, mirror, inflight, watch, started>>

StopCommit(t) ==
  /\ At(t, "stop")
  /\ Lock(t)
  /\ WriteIfRevisionMatches(t, shell,
       StopRoute(shell, task[t].app, task[t].ids), "installStop")
  /\ UNCHANGED <<shell, processes, mirror, table, inflight, watch, started>>

StopConflict(t) ==
  /\ At(t, "stop")
  /\ mutex = None
  /\ WriteMayFail(shell)
  /\ Return(t)
  /\ UNCHANGED <<manifests, mutex, processes, mirror, table, inflight, watch, started>>

StopInstall(t) ==
  /\ At(t, "installStop")
  /\ shell' = task[t].next
  /\ mirror' = [i \in Instances |-> IF i \in task[t].ids THEN 0 ELSE mirror[i]]
  /\ Unlock(t)
  /\ Goto(t, "unroute")
  /\ UNCHANGED <<disk, processes, table, inflight, watch, started>>

(* Mutant: the app's entry stays in the table.                             *)
StopLeavesEntry(t) ==
  /\ At(t, "unroute")
  /\ Goto(t, "kill")
  /\ UNCHANGED <<manifests, mutex, processes, mirror, table, inflight, watch, started>>

StopUnroute(t) ==
  /\ At(t, "unroute")
  /\ table' = [table EXCEPT ![task[t].app] = NoEntry]
  /\ Goto(t, "kill")
  /\ UNCHANGED <<manifests, mutex, processes, mirror, inflight, watch, started>>

StopKill(t, i) ==
  /\ At(t, "kill")
  /\ i \in task[t].ids
  /\ StopFrom(i)
  /\ LET rest == task[t].ids \ {i} IN
       task' = [task EXCEPT ![t] =
                  IF rest = {} THEN Idle ELSE [task[t] EXCEPT !.ids = rest]]
  /\ UNCHANGED <<manifests, mutex, spawns, mirror, table, inflight, watch, started>>

-----------------------------------------------------------------------------
(* execute_rollback                                                        *)

RollbackBegin(t, a) ==
  /\ Begin(t, "rollback")
  /\ disk.routes[a].previous # None
  /\ Lock(t)
  /\ task' = [task EXCEPT ![t] = [Idle EXCEPT !.op = "rollback", !.app = a, !.seen = disk,
                !.inst = disk.routes[a].previous,
                !.pc = IF Ready(disk.routes[a].previous) THEN "rollback" ELSE "respawn"]]
  /\ UNCHANGED <<manifests, processes, mirror, table, inflight, watch, started>>

(* ensure_instance_ready spawns the previous instance again.               *)
RollbackRespawn(t) ==
  /\ At(t, "respawn")
  /\ \/ SpawnInto(task[t].inst) /\ task' = [task EXCEPT ![t].pc = "copy", ![t].then = "respawned"]
     \/ UNCHANGED processes /\ task' = [task EXCEPT ![t].pc = "copy", ![t].then = "notReady"]
  /\ UNCHANGED <<manifests, mutex, mirror, table, inflight, watch, started>>

(* A watchdog was faster: its child is killed and spawned again, and no    *)
(* watchdog is armed, as the instance has one.                             *)
RollbackRestart(t) ==
  /\ At(t, "respawn")
  /\ Managed(task[t].inst)
  /\ task' = [task EXCEPT ![t].pc = "restartStop", ![t].then = "restarted"]
  /\ UNCHANGED <<manifests, mutex, processes, mirror, table, inflight, watch, started>>

RollbackCommit(t) ==
  /\ At(t, "rollback")
  /\ \/ /\ Registered(task[t].seen, task[t].inst)
        /\ WriteIfRevisionMatches(t, task[t].seen,
             CutoverRoute(task[t].seen, task[t].app, task[t].inst), "installRollback")
        /\ UNCHANGED mutex
     \/ /\ ~Registered(task[t].seen, task[t].inst) \/ WriteMayFail(task[t].seen)
        /\ Unlock(t) /\ Return(t)
        /\ UNCHANGED disk
  /\ UNCHANGED <<shell, processes, mirror, table, inflight, watch, started>>

(* The manifest is installed and the handler returns: no sync follows.     *)
RollbackInstall(t) ==
  /\ At(t, "installRollback")
  /\ shell' = task[t].next
  /\ Unlock(t)
  /\ Return(t)
  /\ UNCHANGED <<disk, processes, mirror, table, inflight, watch, started>>

-----------------------------------------------------------------------------
(* stop_instance, restart_instance and the exit watchdog.  None of them    *)
(* takes manifest_mutation.                                                *)

StopInstanceBegin(t, i) ==
  /\ Begin(t, "stopInstance")
  /\ Registered(shell, i) \/ Managed(i)
  /\ \A a \in Apps : Active(shell, a) # i
  /\ task' = [task EXCEPT ![t] = [Idle EXCEPT !.op = "stopInstance", !.inst = i,
                                    !.pc = "stopInstance"]]
  /\ UNCHANGED <<manifests, mutex, processes, mirror, table, inflight, watch, started>>

StopInstance(t) ==
  /\ At(t, "stopInstance")
  /\ StopFrom(task[t].inst)
  /\ task' = [task EXCEPT ![t].pc = "copy", ![t].then = "unlocked"]
  /\ UNCHANGED <<manifests, mutex, spawns, mirror, table, inflight, watch, started>>

RestartBegin(t, i) ==
  /\ Begin(t, "restart")
  /\ Managed(i)
  /\ task' = [task EXCEPT ![t] = [Idle EXCEPT !.op = "restart", !.inst = i,
                                    !.pc = "restartStop", !.then = "unlocked"]]
  /\ UNCHANGED <<manifests, mutex, processes, mirror, table, inflight, watch, started>>

(* A watchdog of `i' finds the child gone; it polls again once the restart *)
(* has succeeded.                                                          *)
WatchdogFires(t, i) ==
  /\ task[t] = Idle
  /\ watch[i] > 0
  /\ Managed(i) /\ <<i, pool[i]>> \notin alive
  /\ watch' = [watch EXCEPT ![i] = @ - 1]
  /\ task' = [task EXCEPT ![t] = [Idle EXCEPT !.op = "watchdog", !.inst = i,
                                    !.pc = "restart", !.then = "watched"]]
  /\ UNCHANGED <<manifests, mutex, processes, mirror, table, inflight, started>>

(* restart_from copies the spec of the managed runtime; one that is gone   *)
(* is an error.                                                            *)
RestartRead(t) ==
  /\ At(t, "restart")
  /\ IF Managed(task[t].inst) THEN Goto(t, "restartStop") ELSE Return(t)
  /\ UNCHANGED <<manifests, mutex, processes, mirror, table, inflight, watch, started>>

RestartStop(t) ==
  /\ At(t, "restartStop")
  /\ StopFrom(task[t].inst)
  /\ Goto(t, "respawnSelf")
  /\ UNCHANGED <<manifests, mutex, spawns, mirror, table, inflight, watch, started>>

RestartSpawned(t) ==
  /\ At(t, "respawnSelf")
  /\ SpawnInto(task[t].inst)
  /\ Goto(t, "copy")
  /\ UNCHANGED <<manifests, mutex, mirror, table, inflight, watch, started>>

(* All attempts failed, or the instance was inserted by another task: the  *)
(* error returns before anything is synced, and the watchdog ends.  Only a *)
(* rollback syncs first.                                                   *)
RestartFails(t) ==
  /\ At(t, "respawnSelf")
  /\ IF task[t].op = "rollback"
       THEN task' = [task EXCEPT ![t].pc = "copy", ![t].then = "notReady"]
       ELSE Return(t)
  /\ UNCHANGED <<manifests, mutex, processes, mirror, table, inflight, watch, started>>

(* A minute of polls that found no runtime ends a watchdog.                *)
WatchdogGivesUp(i) ==
  /\ watch[i] > 0
  /\ ~Managed(i)
  /\ watch' = [watch EXCEPT ![i] = @ - 1]
  /\ UNCHANGED <<manifests, mutex, processes, mirror, table, inflight, started, task>>

(* The mirror is overwritten with the pool's endpoints: read, then write.  *)
CopyReadPool(t) ==
  /\ At(t, "copy")
  /\ task' = [task EXCEPT ![t].pc = "mirror",
                ![t].snap = {p \in Instances \X (1 .. MaxSpawns) : pool[p[1]] = p[2]}]
  /\ UNCHANGED <<manifests, mutex, processes, mirror, table, inflight, watch, started>>

CopyToMirror(t) ==
  /\ At(t, "mirror")
  /\ mirror' = [i \in Instances |->
                  IF \E p \in task[t].snap : p[1] = i
                    THEN (CHOOSE p \in task[t].snap : p[1] = i)[2] ELSE 0]
  /\ task' = [task EXCEPT ![t].pc = "snap", ![t].snap = {}]
  /\ UNCHANGED <<manifests, mutex, processes, table, inflight, watch, started>>

ChildExits(i) ==
  /\ "exit" \in Ops
  /\ <<i, pool[i]>> \in alive
  /\ alive' = alive \ {<<i, pool[i]>>}
  /\ UNCHANGED <<manifests, mutex, pool, spawns, mirror, table, inflight, watch,
                 started, task>>

(* The client goes away: the handler is dropped where it awaits, with its  *)
(* locks and its in-flight entry.  Watchdogs are tasks of their own.       *)
AwaitPcs == {"prepare", "register", "spawn", "cutover", "snap", "drain", "unregister",
             "retire", "abort", "unlist", "discard", "stop", "kill", "respawn",
             "stopInstance", "restart", "restartStop", "respawnSelf", "copy"}

Dropped(t) ==
  /\ "drop" \in Ops
  /\ task[t].pc \in AwaitPcs
  /\ task[t].then # "watched"
  /\ mutex' = IF mutex = t THEN None ELSE mutex
  /\ inflight' = IF task[t].op = "start" THEN inflight \ {task[t].app} ELSE inflight
  /\ Return(t)
  /\ UNCHANGED <<manifests, processes, mirror, table, watch, started>>

-----------------------------------------------------------------------------
Init ==
  /\ disk = EmptyManifest /\ shell = EmptyManifest
  /\ mutex = None
  /\ pool = [i \in Instances |-> 0] /\ mirror = [i \in Instances |-> 0]
  /\ alive = {}
  /\ table = [a \in Apps |-> NoEntry]
  /\ inflight = {} /\ watch = [i \in Instances |-> 0]
  /\ started = [a \in Apps |-> 0] /\ spawns = [i \in Instances |-> 0]
  /\ task = [t \in Tasks |-> Idle]

Takes(t) == StartRegister(t) \/ Cutover(t) \/ CutoverRefused(t) \/ Retire(t)
            \/ Discard(t) \/ StopCommit(t)

Goes(t) ==
  \/ StartRefused(t) \/ StartPrepared(t) \/ StartRegisterFails(t)
  \/ StartInstallCandidate(t) \/ StartSpawned(t) \/ StartSpawnFails(t) \/ StartAnnounce(t)
  \/ CutoverInstall(t)
  \/ SyncReadPool(t) \/ SyncReadRoutes(t) \/ SyncPublish(t)
  \/ RetireStop(t) \/ RetireUnregister(t) \/ InstallEdit(t)
  \/ StartAbort(t) \/ StartUnlist(t)
  \/ StopConflict(t) \/ StopInstall(t) \/ StopUnroute(t)
  \/ \E i \in Instances : StopKill(t, i)
  \/ RollbackRespawn(t) \/ RollbackRestart(t) \/ RollbackCommit(t) \/ RollbackInstall(t)
  \/ StopInstance(t) \/ RestartRead(t) \/ RestartStop(t) \/ RestartSpawned(t) \/ RestartFails(t)
  \/ CopyReadPool(t) \/ CopyToMirror(t)

Begins(t) ==
  \/ \E a \in Apps : StartBegin(t, a) \/ StopBegin(t, a) \/ RollbackBegin(t, a)
  \/ \E i \in Instances : \/ SwitchBegin(t, i) \/ StopInstanceBegin(t, i)
                          \/ RestartBegin(t, i) \/ WatchdogFires(t, i)

Next == \/ \E t \in Tasks : Begins(t) \/ Takes(t) \/ Goes(t) \/ Dropped(t)
        \/ \E i \in Instances : ChildExits(i) \/ WatchdogGivesUp(i)

Spec == Init /\ [][Next]_vars

(* A handler that can go on does (spawns and kills have timeouts), and the *)
(* tokio mutex hands itself to its waiters in order of arrival.            *)
Fairness == \A t \in Tasks : WF_vars(Goes(t)) /\ SF_vars(Takes(t))
FairSpec == Spec /\ Fairness

-----------------------------------------------------------------------------
(* Properties                                                              *)

(* While no handler runs a task is idle, or its host does not serve: it is *)
(* down or still sweeping (module HostRestart).                            *)
Pcs == AwaitPcs \union {"idle", "down", "sweeping", "installCandidate", "announce",
         "installCutover", "routes", "publish", "installEdit", "installStop", "unroute",
         "rollback", "installRollback", "mirror"}

Placed == Instances \X (1 .. MaxSpawns)

TaskState == [op : Ops \union {"none", "watchdog"}, pc : Pcs, app : Apps \union {None},
              inst : Instances \union {None}, prev : Instances \union {None},
              ids : SUBSET Instances, seen : Manifest, next : Manifest,
              snap : SUBSET Placed,
              then : {"none", "drain", "armed", "dropped", "respawned", "restarted",
                      "free", "notReady", "unlocked", "watched"}]

RouteEntry == [phase : {"none", "Starting", "Running", "Draining"},
               inst : Instances \union {None}, spawn : 0 .. MaxSpawns]

(* Every variable keeps its type.                                          *)
TypeOK ==
  /\ disk \in Manifest /\ shell \in Manifest
  /\ mutex \in Tasks \union {None}
  /\ pool \in [Instances -> 0 .. MaxSpawns] /\ mirror \in [Instances -> 0 .. MaxSpawns]
  /\ alive \subseteq Placed
  /\ table \in [Apps -> RouteEntry]
  /\ inflight \subseteq Apps
  /\ watch \in [Instances -> Nat]
  /\ started \in [Apps -> 0 .. MaxStarts] /\ spawns \in [Instances -> 0 .. MaxSpawns]
  /\ task \in [Tasks -> TaskState]

(* The manifest the host decides with is the one on disk whenever nobody   *)
(* holds manifest_mutation: otherwise every later compare-and-swap fails.  *)
ShellMatchesDisk == mutex = None => shell = disk

(* AppStartInflight lets one start of an app run at a time, also when      *)
(* starts are refused, fail or are dropped half way.                       *)
OneStartPerApp ==
  \A t, u \in Tasks :
    task[t].op = "start" /\ task[u].op = "start" /\ task[t].app = task[u].app => t = u

(* A candidate in the manifest belongs to a start that still runs: no      *)
(* refused, failed or overtaken start leaves its candidate behind.         *)
CandidateOwned ==
  \A a \in Apps :
    disk.routes[a].candidate # None =>
      \E t \in Tasks : /\ task[t].op = "start"
                       /\ task[t].inst = disk.routes[a].candidate

(* Every instance a route names is listed in the manifest: discarding a    *)
(* candidate never leaves a dangling route.                                *)
RoutesListed ==
  \A a \in Apps :
    LET r == disk.routes[a] IN
      \A i \in {r.active, r.candidate, r.previous} \ {None} : Registered(disk, i)

AtRest == \A t \in Tasks : task[t] = Idle

(* Once all handlers have returned, an entry of the table the proxy reads  *)
(* is Running and names the app's active instance and its managed child:   *)
(* no request goes to a retired or killed child.                           *)
TableTrueAtRest ==
  AtRest => \A a \in Apps : table[a] # NoEntry =>
              LET i == Active(shell, a) IN
                i # None /\ Managed(i) /\ table[a] = Entry("Running", i, pool[i])

(* Once all handlers have returned, the active instance of an app has a    *)
(* managed child: a start whose candidate a stop has listed and kills does *)
(* not make it active after the stop has committed.                        *)
ServedAtRest ==
  AtRest => \A a \in Apps : Active(shell, a) # None => Managed(Active(shell, a))

(* Once all handlers have returned, the child of an active instance has a  *)
(* watchdog, whatever restarts, rollbacks and give-ups came before.  One   *)
(* sequence leaves it without: a rollback restarts the child a watchdog    *)
(* has just brought back, and takes so long that the watchdog gives up.    *)
(* That child is the instance's third at least.                            *)
WatchedAtRest ==
  AtRest => \A a \in Apps :
              LET i == Active(shell, a) IN
                i # None /\ Managed(i) => watch[i] > 0 \/ pool[i] > 2

(* Once all handlers have returned, the proxy's entry of an app names the  *)
(* app's active instance: a rollback switches the route.                   *)
TableNamesActive ==
  AtRest => \A a \in Apps : table[a] # NoEntry => table[a].inst = Active(shell, a)

(* Once all handlers have returned, the proxy's entry of an instance that  *)
(* has a managed child names that child, not one that died before it.      *)
TableNamesChild ==
  AtRest => \A i \in Instances :
              Managed(i) /\ table[AppOf(i)].inst = i => table[AppOf(i)].spawn = pool[i]

(* Once all handlers have returned, no managed child is left of an         *)
(* instance the manifest wants stopped or does not list.                   *)
NoOrphans ==
  AtRest => \A i \in Instances : Managed(i) => disk.instances[i] \in {"Running", "Standby"}

(* The cutover of a start commits only while its instance is still the     *)
(* candidate: a stop or an operator's cutover that committed after the     *)
(* start registered is not undone by it.                                   *)
StartNeverOverrides ==
  [][\A t \in Tasks :
       task[t].op = "start" /\ task[t].pc = "cutover" /\ task'[t].pc = "installCutover"
         => disk.routes[task[t].app].candidate = task[t].inst]_vars

(* Every handler comes back, and with it the app's in-flight entry.        *)
HandlersReturn == \A t \in Tasks : task[t] # Idle ~> task[t] = Idle
=============================================================================
