------------------------ MODULE RuntimeControlProofs ------------------------
(***************************************************************************)
(* Proofs about RuntimeControl for any number of apps, handlers, starts    *)
(* and spawns, any mix of operations, and with or without failing writes.  *)
(***************************************************************************)
EXTENDS RuntimeControl, TLAPS

(* Which handler can be where, and what it then has chosen.                *)
WellPlaced(r) ==
  /\ r.op = "none" <=> r.pc \in {"idle", "down", "sweeping"}
  /\ r.pc \in {"prepare", "register", "installCandidate", "spawn", "announce", "drain",
               "unregister", "retire", "abort", "unlist", "discard", "installEdit"}
       => r.op = "start"
  /\ r.pc \in {"cutover", "installCutover"} => r.op \in {"start", "switch"}
  /\ r.pc \in {"stop", "installStop", "unroute", "kill"} => r.op = "stop"
  /\ r.pc \in {"respawn", "rollback", "installRollback"} => r.op = "rollback"
  /\ r.pc \in {"stopInstance"} => r.op = "stopInstance"
  /\ r.pc = "restart" => r.op \in {"restart", "watchdog"}
  /\ r.pc \in {"restartStop", "respawnSelf"} => r.op \in {"restart", "watchdog", "rollback"}
  /\ r.pc = "restart" => r.then \in {"unlocked", "watched"}
  /\ r.pc \in {"restartStop", "respawnSelf"} => r.then \in {"restarted", "unlocked", "watched"}
  /\ r.pc \in {"copy", "mirror"}
       => r.then \in {"respawned", "restarted", "notReady", "unlocked", "watched"}
  /\ r.pc \in {"snap", "routes", "publish", "installEdit"} => r.then # "none"
  /\ r.pc = "installEdit" => r.then \in {"armed", "dropped"}
  /\ r.then \in {"armed", "dropped", "drain"} => r.op = "start"
  /\ r.then = "free" => r.op = "switch"
  /\ r.then \in {"respawned", "restarted", "notReady"} => r.op = "rollback"
  /\ r.then \in {"unlocked", "watched"} => r.op \in {"stopInstance", "restart", "watchdog"}
  /\ r.op \in {"start", "switch", "stop", "rollback"} => r.app \in Apps
  /\ r.op \in {"switch", "rollback", "stopInstance", "restart", "watchdog"} => r.inst \in Instances
  /\ r.op = "start" /\ r.pc # "prepare" => r.inst \in Instances
  /\ r.then = "drain" \/ r.pc \in {"drain", "unregister", "retire"} => r.prev \in Instances

TypeInv == TypeOK /\ \A t \in Tasks : WellPlaced(task[t])

-----------------------------------------------------------------------------
(* Manifests stay manifests.                                               *)

(* None is neither an instance nor a task. *)
LEMMA NoneApart == None \notin Instances /\ None \notin Tasks
  BY ControlAssumption DEF Instances

(* What a typed manifest and a typed task hold is typed. *)
LEMMA PartTypes ==
  ASSUME NEW m \in Manifest, NEW a \in Apps
  PROVE  /\ \A ids : \A d \in Desired : WithDesired(m, ids, d) \in [Instances -> Desired]
         /\ \A x, y, z \in Instances \union {None} :
              WithRoute(m, a, x, y, z) \in [Apps -> RouteBinding]
<1>1. \A ids : \A d \in Desired : WithDesired(m, ids, d) \in [Instances -> Desired]
  BY DEF WithDesired, Manifest
<1>2. \A x, y, z \in Instances \union {None} :
        WithRoute(m, a, x, y, z) \in [Apps -> RouteBinding]
  BY DEF WithRoute, Manifest, RouteBinding
<1> QED
  BY <1>1, <1>2

(* Stopping an app's instances in a manifest yields a manifest. *)
LEMMA StopRouteType ==
  ASSUME NEW m \in Manifest, NEW a \in Apps, NEW ids \in SUBSET Instances
  PROVE  StopRoute(m, a, ids) \in Manifest
<1>1. m.routes[a].active \in Instances \union {None}
  BY DEF Manifest, RouteBinding
<1>2. "Stopped" \in Desired
  BY DEF Desired
<1> QED
  BY <1>1, <1>2, PartTypes DEF StopRoute, Manifest

(* So does every other edit of a route. *)
LEMMA EditTypes ==
  ASSUME NEW m \in Manifest, NEW a \in Apps, NEW i \in Instances
  PROVE  /\ RegisterCandidate(m, a, i) \in Manifest
         /\ CutoverRoute(m, a, i) \in Manifest
         /\ DiscardCandidate(m, a, i) \in Manifest
         /\ RetirePrevious(m, i) \in Manifest
<1>1. \A ids : \A d \in Desired : WithDesired(m, ids, d) \in [Instances -> Desired]
  BY PartTypes
<1>2. \A x, y, z \in Instances \union {None} : WithRoute(m, a, x, y, z) \in [Apps -> RouteBinding]
  BY PartTypes
<1>3. /\ m.routes[a].active \in Instances \union {None}
      /\ m.routes[a].candidate \in Instances \union {None}
      /\ m.routes[a].previous \in Instances \union {None}
      /\ m.instances \in [Instances -> Desired]
      /\ m.routes \in [Apps -> RouteBinding]
  BY DEF Manifest, RouteBinding
<1>4. {"absent", "Running", "Standby", "Stopped"} \subseteq Desired
  BY DEF Desired
<1>5. RegisterCandidate(m, a, i) \in Manifest
  BY <1>2, <1>3, <1>4 DEF RegisterCandidate, Manifest
<1>6. CutoverRoute(m, a, i) \in Manifest
  <2>1. [WithDesired(m, {m.routes[a].active}, "Standby") EXCEPT ![i] = "Running"]
          \in [Instances -> Desired]
    BY <1>1, <1>4
  <2> QED
    BY <1>2, <1>3, <2>1 DEF CutoverRoute, Manifest
<1>7. DiscardCandidate(m, a, i) \in Manifest
  BY <1>2, <1>3, <1>4 DEF DiscardCandidate, Manifest
<1>8. RetirePrevious(m, i) \in Manifest
  BY <1>1, <1>3, <1>4 DEF RetirePrevious, Manifest
<1> QED
  BY <1>5, <1>6, <1>7, <1>8

-----------------------------------------------------------------------------
(* TypeInv is inductive.                                                   *)

(* A handler that has returned is well typed and where it may be. *)
LEMMA IdleTypes == EmptyManifest \in Manifest /\ Idle \in TaskState /\ WellPlaced(Idle)
<1>1. EmptyManifest \in Manifest
  BY DEF EmptyManifest, EmptyRoute, Manifest, RouteBinding, Desired
<1> QED
  BY <1>1 DEF Idle, TaskState, WellPlaced, Pcs, AwaitPcs

(* What a handler that has returned holds. *)
LEMMA IdleFields ==
  /\ Idle.pc = "idle" /\ Idle.op = "none"
  /\ \A t : \A op : Begin(t, op) => task[t].pc = "idle" /\ task[t].op = "none"
<1>1. Idle.pc = "idle" /\ Idle.op = "none"
  BY DEF Idle
<1> QED
  BY <1>1 DEF Begin

(* A handler's step changes its own record only.                           *)
LEMMA OneTask ==
  ASSUME TypeInv, NEW t \in Tasks, NEW r \in TaskState, WellPlaced(r),
         task' = [task EXCEPT ![t] = r]
  PROVE  task' \in [Tasks -> TaskState] /\ \A u \in Tasks : WellPlaced(task'[u])
  BY DEF TypeInv, TypeOK

(* A handler that moves on to another of its steps stays well typed. *)
LEMMA GotoTypes ==
  ASSUME TypeInv, NEW t \in Tasks, NEW pc \in Pcs, Goto(t, pc),
         WellPlaced([task[t] EXCEPT !.pc = pc])
  PROVE  task' \in [Tasks -> TaskState] /\ \A u \in Tasks : WellPlaced(task'[u])
<1>1. [task[t] EXCEPT !.pc = pc] \in TaskState
  BY DEF TypeInv, TypeOK, TaskState
<1> QED
  BY <1>1, OneTask DEF Goto

(* A handler that returns leaves the tasks well typed. *)
LEMMA ReturnTypes ==
  ASSUME TypeInv, NEW t \in Tasks, Return(t)
  PROVE  task' \in [Tasks -> TaskState] /\ \A u \in Tasks : WellPlaced(task'[u])
  BY IdleTypes, OneTask DEF Return

(* The entries the handlers publish in the route table are entries. *)
LEMMA EntryTypes ==
  /\ NoEntry \in RouteEntry
  /\ Entry("Starting", None, 0) \in RouteEntry
  /\ \A i \in Instances : \A n \in 1 .. MaxSpawns : Entry("Running", i, n) \in RouteEntry
  /\ \A e \in RouteEntry : Draining(e) \in RouteEntry
  BY ControlAssumption DEF NoEntry, Entry, Draining, RouteEntry

(* The steps of a start up to its cutover keep the types. *)
LEMMA StartTypes ==
  ASSUME TypeInv, NEW t \in Tasks,
         \/ StartRefused(t) \/ StartPrepared(t) \/ StartRegister(t) \/ StartRegisterFails(t)
         \/ StartInstallCandidate(t) \/ StartSpawned(t) \/ StartSpawnFails(t)
         \/ StartAnnounce(t)
  PROVE  TypeInv'
<1>0. task[t] \in TaskState /\ WellPlaced(task[t])
  BY DEF TypeInv, TypeOK
<1> DEFINE at(pc) == [task[t] EXCEPT !.pc = pc]
<1>1. CASE StartRefused(t)
  BY <1>1, ReturnTypes DEF StartRefused, manifests, processes, TypeInv, TypeOK
<1>2. CASE StartPrepared(t)
  <2> DEFINE a == task[t].app
             r == [task[t] EXCEPT !.pc = "register", !.inst = FreshId(a)]
  <2>1. task[t].pc = "prepare" /\ task[t].op = "start" /\ a \in Apps
    BY <1>0, <1>2 DEF StartPrepared, At, WellPlaced
  <2>2. FreshId(a) \in Instances
    BY <2>1, <1>2, ControlAssumption DEF StartPrepared, FreshId, Instances, TypeInv, TypeOK
  <2>3. r \in TaskState
    BY ZenonT(60), <1>0, <2>2 DEF TaskState, Pcs, AwaitPcs
  <2>4. WellPlaced(r)
    BY <1>0, <2>1, <2>2 DEF WellPlaced, TaskState
  <2>5. task' \in [Tasks -> TaskState] /\ \A u \in Tasks : WellPlaced(task'[u])
    BY <1>2, <2>3, <2>4, OneTask DEF StartPrepared
  <2> QED
    BY <1>2, <2>1, <2>5, EntryTypes, ControlAssumption
    DEF StartPrepared, manifests, processes, TypeInv, TypeOK
<1>3. CASE StartRegister(t)
  <2> DEFINE next == RegisterCandidate(shell, task[t].app, task[t].inst)
             r == [task[t] EXCEPT !.next = next, !.pc = "installCandidate"]
  <2>1. task[t].app \in Apps /\ task[t].inst \in Instances
    BY <1>0, <1>3 DEF StartRegister, At, WellPlaced
  <2>2. next \in Manifest
    BY <2>1, EditTypes DEF TypeInv, TypeOK
  <2>3. r \in TaskState /\ WellPlaced(r)
    BY <1>0, <1>3, <2>2 DEF StartRegister, At, TaskState, WellPlaced, Pcs
  <2>4. task' \in [Tasks -> TaskState] /\ \A u \in Tasks : WellPlaced(task'[u])
    BY <1>3, <2>3, OneTask DEF StartRegister, WriteIfRevisionMatches
  <2> QED
    BY <1>3, <2>2, <2>4
    DEF StartRegister, Lock, WriteIfRevisionMatches, processes, TypeInv, TypeOK
<1>4. CASE StartRegisterFails(t)
  BY <1>4, ReturnTypes DEF StartRegisterFails, manifests, processes, TypeInv, TypeOK
<1>5. CASE StartInstallCandidate(t)
  <2> DEFINE r == [task[t] EXCEPT !.pc = "spawn", !.seen = task[t].next]
  <2>1. r \in TaskState /\ WellPlaced(r)
    BY <1>0, <1>5 DEF StartInstallCandidate, At, TaskState, WellPlaced, Pcs, AwaitPcs
  <2>2. task' \in [Tasks -> TaskState] /\ \A u \in Tasks : WellPlaced(task'[u])
    BY <1>5, <2>1, OneTask DEF StartInstallCandidate
  <2> QED
    BY <1>0, <1>5, <2>2 DEF StartInstallCandidate, Unlock, processes, TypeInv, TypeOK, TaskState
<1>6. CASE StartSpawned(t)
  <2>1. WellPlaced(at("announce")) /\ task[t].inst \in Instances
    BY <1>0, <1>6 DEF StartSpawned, At, WellPlaced, TaskState
  <2>2. task' \in [Tasks -> TaskState] /\ \A u \in Tasks : WellPlaced(task'[u])
    BY <1>6, <2>1, GotoTypes DEF StartSpawned, Pcs
  <2> QED
    BY <1>6, <2>1, <2>2, ControlAssumption DEF StartSpawned, SpawnInto, manifests, TypeInv, TypeOK, Placed
<1>7. CASE StartSpawnFails(t)
  <2>1. WellPlaced(at("unlist"))
    BY <1>0, <1>7 DEF StartSpawnFails, At, WellPlaced, TaskState
  <2> QED
    BY <1>7, <2>1, GotoTypes DEF StartSpawnFails, manifests, processes, TypeInv, TypeOK, Pcs, AwaitPcs
<1>8. CASE StartAnnounce(t)
  <2>1. WellPlaced(at("cutover")) /\ task[t].inst \in Instances
    BY <1>0, <1>8 DEF StartAnnounce, At, WellPlaced, TaskState
  <2>2. task' \in [Tasks -> TaskState] /\ \A u \in Tasks : WellPlaced(task'[u])
    BY <1>8, <2>1, GotoTypes DEF StartAnnounce, Pcs, AwaitPcs
  <2> QED
    BY <1>8, <2>1, <2>2, ControlAssumption DEF StartAnnounce, manifests, processes, TypeInv, TypeOK
<1> QED
  BY <1>1, <1>2, <1>3, <1>4, <1>5, <1>6, <1>7, <1>8

(* A cutover, installed or refused, keeps the types. *)
LEMMA CutoverTypes ==
  ASSUME TypeInv, NEW t \in Tasks,
         \/ \E i \in Instances : SwitchBegin(t, i)
         \/ Cutover(t) \/ CutoverRefused(t) \/ CutoverInstall(t)
  PROVE  TypeInv'
<1>0. task[t] \in TaskState /\ WellPlaced(task[t])
  BY DEF TypeInv, TypeOK
<1> DEFINE at(pc) == [task[t] EXCEPT !.pc = pc]
<1>1. ASSUME NEW i \in Instances, SwitchBegin(t, i) PROVE TypeInv'
  <2> DEFINE r == [Idle EXCEPT !.op = "switch", !.pc = "cutover",
                     !.app = AppOf(i), !.inst = i, !.seen = shell]
  <2>1. AppOf(i) \in Apps
    BY DEF AppOf, Instances
  <2>2. r \in TaskState
    <3>1. "switch" \in Ops /\ shell \in Manifest
      BY <1>1 DEF SwitchBegin, Begin, TypeInv, TypeOK
    <3> QED
      BY <2>1, <3>1, IdleTypes DEF Idle, TaskState, Pcs, AwaitPcs
  <2>3. WellPlaced(r)
    BY <2>1 DEF Idle, WellPlaced
  <2>4. task' \in [Tasks -> TaskState] /\ \A u \in Tasks : WellPlaced(task'[u])
    BY <1>1, <2>2, <2>3, OneTask DEF SwitchBegin
  <2> QED
    BY <1>1, <2>4 DEF SwitchBegin, manifests, processes, TypeInv, TypeOK
<1>2. CASE Cutover(t)
  <2> DEFINE next == CutoverRoute(shell, task[t].app, task[t].inst)
             r == [task[t] EXCEPT !.next = next, !.pc = "installCutover"]
  <2>1. task[t].app \in Apps /\ task[t].inst \in Instances
    BY <1>0, <1>2 DEF Cutover, At, WellPlaced
  <2>2. next \in Manifest
    BY <2>1, EditTypes DEF TypeInv, TypeOK
  <2>3. r \in TaskState /\ WellPlaced(r)
    BY <1>0, <1>2, <2>2 DEF Cutover, At, TaskState, WellPlaced, Pcs
  <2>4. task' \in [Tasks -> TaskState] /\ \A u \in Tasks : WellPlaced(task'[u])
    BY <1>2, <2>3, OneTask DEF Cutover, WriteIfRevisionMatches
  <2> QED
    BY <1>2, <2>2, <2>4 DEF Cutover, Lock, WriteIfRevisionMatches, processes, TypeInv, TypeOK
<1>3. CASE CutoverRefused(t)
  <2>1. task[t].op = "start" => WellPlaced(at("abort"))
    BY <1>0, <1>3 DEF CutoverRefused, At, WellPlaced, TaskState
  <2>2. task' \in [Tasks -> TaskState] /\ \A u \in Tasks : WellPlaced(task'[u])
    BY <1>3, <2>1, GotoTypes, ReturnTypes DEF CutoverRefused, Pcs, AwaitPcs
  <2> QED
    BY <1>3, <2>2 DEF CutoverRefused, manifests, processes, TypeInv, TypeOK
<1>4. CASE CutoverInstall(t)
  <2> DEFINE prev == task[t].next.routes[task[t].app].previous
             then == IF task[t].op = "switch" THEN "free"
                     ELSE IF prev \in {None, task[t].inst} THEN "armed" ELSE "drain"
             r == [task[t] EXCEPT !.pc = "snap", !.prev = prev, !.then = then]
  <2>1. /\ task[t].app \in Apps /\ task[t].op \in {"start", "switch"}
        /\ task[t].op = "start" => task[t].inst \in Instances
        /\ task[t].op = "switch" => task[t].inst \in Instances
    BY <1>0, <1>4 DEF CutoverInstall, At, WellPlaced
  <2>2. prev \in Instances \union {None} /\ task[t].next \in Manifest
    BY <1>0, <2>1 DEF TaskState, Manifest, RouteBinding
  <2>3. then \in {"free", "armed", "drain"} /\ (then = "free" <=> task[t].op = "switch")
        /\ (then = "drain" => prev \in Instances)
    BY <2>1, <2>2
  <2>4. task' = [task EXCEPT ![t] = r]
    BY <1>4 DEF CutoverInstall
  <2> HIDE DEF prev, then
  <2>5. r \in TaskState
    <3>1. /\ then \in {"none", "drain", "armed", "dropped", "respawned", "free",
                       "notReady", "unlocked", "watched"}
          /\ prev \in Instances \union {None} /\ "snap" \in Pcs
      BY <2>2, <2>3 DEF Pcs, AwaitPcs
    <3> QED
      BY <1>0, <3>1 DEF TaskState
  <2>6. /\ r.op = task[t].op /\ r.app = task[t].app /\ r.inst = task[t].inst
        /\ r.pc = "snap" /\ r.then = then /\ r.prev = prev
    BY <1>0 DEF TaskState
  <2>7. WellPlaced(r)
    <3> HIDE DEF r
    <3> QED
      BY <2>1, <2>3, <2>6 DEF WellPlaced
  <2>8. task' \in [Tasks -> TaskState] /\ \A u \in Tasks : WellPlaced(task'[u])
    BY <2>4, <2>5, <2>7, OneTask
  <2> QED
    BY <1>4, <2>2, <2>8 DEF CutoverInstall, processes, TypeInv, TypeOK
<1> QED
  BY <1>1, <1>2, <1>3, <1>4

(* A sync of the route table keeps the types. *)
LEMMA SyncTypes ==
  ASSUME TypeInv, NEW t \in Tasks,
         SyncReadPool(t) \/ SyncReadRoutes(t) \/ SyncPublish(t)
  PROVE  TypeInv'
<1>0. task[t] \in TaskState /\ WellPlaced(task[t])
  BY DEF TypeInv, TypeOK
<1>1. CASE SyncReadPool(t)
  <2> DEFINE snap == {p \in Instances \X (1 .. MaxSpawns) : pool[p[1]] = p[2]}
             r == [task[t] EXCEPT !.pc = "routes", !.snap = snap]
  <2>1. r \in TaskState /\ WellPlaced(r)
    BY ZenonT(60), <1>0, <1>1 DEF SyncReadPool, At, TaskState, WellPlaced, Pcs, Placed
  <2>2. task' \in [Tasks -> TaskState] /\ \A u \in Tasks : WellPlaced(task'[u])
    BY <1>1, <2>1, OneTask DEF SyncReadPool
  <2> QED
    BY <1>1, <2>2 DEF SyncReadPool, manifests, processes, TypeInv, TypeOK
<1>2. CASE SyncReadRoutes(t)
  <2> DEFINE snap == {p \in task[t].snap : Active(shell, AppOf(p[1])) = p[1]}
             r == [task[t] EXCEPT !.pc = "publish", !.snap = snap]
  <2>0. snap \in SUBSET Placed
    BY <1>0 DEF TaskState
  <2> HIDE DEF snap
  <2>1. r \in TaskState /\ WellPlaced(r)
    <3>1. r \in TaskState
      BY ZenonT(60), <1>0, <2>0 DEF TaskState, Pcs
    <3>2. task[t].pc = "routes"
      BY <1>2 DEF SyncReadRoutes, At
    <3> QED
      BY <1>0, <3>1, <3>2 DEF TaskState, WellPlaced
  <2>2. task' \in [Tasks -> TaskState] /\ \A u \in Tasks : WellPlaced(task'[u])
    BY <1>2, <2>1, OneTask DEF SyncReadRoutes, snap
  <2> QED
    BY <1>2, <2>2 DEF SyncReadRoutes, manifests, processes, TypeInv, TypeOK
<1>3. CASE SyncPublish(t)
  <2> DEFINE at(pc) == [task[t] EXCEPT !.pc = pc]
  <2>1. /\ task[t].then = "drain" => WellPlaced(at("drain"))
        /\ task[t].then \in {"respawned", "restarted"} => WellPlaced(at("rollback"))
        /\ task[t].then \in {"armed", "respawned", "watched"} => task[t].inst \in Instances
    BY <1>0, <1>3 DEF SyncPublish, At, WellPlaced, TaskState
  <2>2. task' \in [Tasks -> TaskState] /\ \A u \in Tasks : WellPlaced(task'[u])
    BY <1>3, <2>1, GotoTypes, ReturnTypes DEF SyncPublish, AfterSync, Pcs, AwaitPcs
  <2>3. Armed(task[t]) \in [Instances -> Nat]
    BY <2>1 DEF Armed, TypeInv, TypeOK
  <2>4. Released(task[t]) \in Tasks \union {None}
    BY DEF Released, TypeInv, TypeOK
  <2>5. \A p \in task[t].snap : p[1] \in Instances /\ p[2] \in 1 .. MaxSpawns
    BY <1>0 DEF TaskState, Placed
  <2>6. table' \in [Apps -> RouteEntry]
    BY <1>3, <2>5, EntryTypes DEF SyncPublish, Rebuilt
  <2> QED
    BY <1>3, <2>2, <2>3, <2>4, <2>6
    DEF SyncPublish, AfterSync, manifests, processes, TypeInv, TypeOK
<1> QED
  BY <1>1, <1>2, <1>3

(* Stopping a child keeps the pool and the processes well typed. *)
LEMMA StopFromTypes ==
  ASSUME TypeInv, NEW i \in Instances \union {None}, StopFrom(i)
  PROVE  /\ pool' \in [Instances -> 0 .. MaxSpawns]
         /\ alive' \subseteq Placed
<1>1. 0 \in 0 .. MaxSpawns
  BY ControlAssumption
<1>2. pool' \in [Instances -> 0 .. MaxSpawns]
  BY <1>1 DEF StopFrom, TypeInv, TypeOK
<1>3. alive' \subseteq Placed
  BY DEF StopFrom, TypeInv, TypeOK
<1> QED
  BY <1>2, <1>3

(* Draining and retiring the previous instance, and aborting a start, keep the types. *)
LEMMA RetireTypes ==
  ASSUME TypeInv, NEW t \in Tasks,
         \/ RetireStop(t) \/ RetireUnregister(t) \/ Retire(t) \/ InstallEdit(t)
         \/ StartAbort(t) \/ StartUnlist(t) \/ Discard(t)
  PROVE  TypeInv'
<1>0. task[t] \in TaskState /\ WellPlaced(task[t])
  BY DEF TypeInv, TypeOK
<1> DEFINE at(pc) == [task[t] EXCEPT !.pc = pc]
<1>1. CASE RetireStop(t)
  <2>1. WellPlaced(at("unregister")) /\ task[t].prev \in Instances
    BY <1>0, <1>1 DEF RetireStop, At, WellPlaced, TaskState
  <2>2. task' \in [Tasks -> TaskState] /\ \A u \in Tasks : WellPlaced(task'[u])
    BY <1>1, <2>1, GotoTypes DEF RetireStop, Pcs, AwaitPcs
  <2> QED
    BY <1>1, <2>1, <2>2, StopFromTypes DEF RetireStop, manifests, TypeInv, TypeOK
<1>2. CASE RetireUnregister(t)
  <2>1. WellPlaced(at("retire")) /\ task[t].prev \in Instances
    BY <1>0, <1>2 DEF RetireUnregister, At, WellPlaced, TaskState
  <2>2. task' \in [Tasks -> TaskState] /\ \A u \in Tasks : WellPlaced(task'[u])
    BY <1>2, <2>1, GotoTypes DEF RetireUnregister, Pcs, AwaitPcs
  <2> QED
    BY <1>2, <2>1, <2>2, ControlAssumption
    DEF RetireUnregister, manifests, processes, TypeInv, TypeOK
<1>3. ASSUME NEW next \in Manifest, NEW then \in {"armed", "dropped"},
             EditOrSkip(t, next, then), task[t].pc \in {"retire", "discard"},
             UNCHANGED <<shell, processes, mirror, table, inflight, watch, started>>
      PROVE  TypeInv'
  <2> DEFINE r == [task[t] EXCEPT !.next = next, !.then = then, !.pc = "installEdit"]
             q == [task[t] EXCEPT !.then = then, !.pc = "snap"]
  <2>1. task[t].op = "start" /\ task[t].app \in Apps /\ task[t].inst \in Instances
    BY <1>0, <1>3 DEF WellPlaced
  <2>2. r \in TaskState /\ q \in TaskState
    <3>1. {"installEdit", "snap"} \subseteq Pcs
      BY DEF Pcs, AwaitPcs
    <3> QED
      BY <1>0, <3>1 DEF TaskState
  <2>3. /\ r.op = "start" /\ r.app \in Apps /\ r.inst \in Instances
        /\ r.pc = "installEdit" /\ r.then = then
        /\ q.op = "start" /\ q.app \in Apps /\ q.inst \in Instances
        /\ q.pc = "snap" /\ q.then = then
    BY <1>0, <2>1 DEF TaskState
  <2>4. WellPlaced(r) /\ WellPlaced(q)
    <3> HIDE DEF r, q
    <3> QED
      BY <2>3 DEF WellPlaced
  <2>5. task' \in [Tasks -> TaskState] /\ \A u \in Tasks : WellPlaced(task'[u])
    <3>1. task' = [task EXCEPT ![t] = r] \/ task' = [task EXCEPT ![t] = q]
      BY <1>3 DEF EditOrSkip
    <3> QED
      BY <2>2, <2>4, <3>1, OneTask
  <2> QED
    BY <1>3, <2>5 DEF EditOrSkip, Lock, processes, TypeInv, TypeOK
<1>4. CASE Retire(t)
  <2>1. task[t].prev \in Instances
    BY <1>0, <1>4 DEF Retire, At, WellPlaced
  <2>2. RetirePrevious(shell, task[t].prev) \in Manifest
    <3>1. shell \in Manifest
      BY DEF TypeInv, TypeOK
    <3>2. task[t].app \in Apps
      BY <1>0, <1>4 DEF Retire, At, WellPlaced
    <3> QED
      BY <2>1, <3>1, <3>2, EditTypes
  <2> QED
    BY <1>3, <1>4, <2>2 DEF Retire, At
<1>5. CASE InstallEdit(t)
  <2>1. WellPlaced(at("snap")) /\ task[t].next \in Manifest
    BY <1>0, <1>5 DEF InstallEdit, At, WellPlaced, TaskState
  <2>2. task' \in [Tasks -> TaskState] /\ \A u \in Tasks : WellPlaced(task'[u])
    BY <1>5, <2>1, GotoTypes DEF InstallEdit, Pcs, AwaitPcs
  <2> QED
    BY <1>5, <2>1, <2>2 DEF InstallEdit, processes, TypeInv, TypeOK
<1>6. CASE StartAbort(t)
  <2>1. WellPlaced(at("unlist")) /\ task[t].inst \in Instances
    BY <1>0, <1>6 DEF StartAbort, At, WellPlaced, TaskState
  <2>2. task' \in [Tasks -> TaskState] /\ \A u \in Tasks : WellPlaced(task'[u])
    BY <1>6, <2>1, GotoTypes DEF StartAbort, Pcs, AwaitPcs
  <2> QED
    BY <1>6, <2>1, <2>2, StopFromTypes DEF StartAbort, manifests, TypeInv, TypeOK
<1>7. CASE StartUnlist(t)
  <2>1. WellPlaced(at("discard")) /\ task[t].inst \in Instances
    BY <1>0, <1>7 DEF StartUnlist, At, WellPlaced, TaskState
  <2>2. task' \in [Tasks -> TaskState] /\ \A u \in Tasks : WellPlaced(task'[u])
    BY <1>7, <2>1, GotoTypes DEF StartUnlist, Pcs, AwaitPcs
  <2> QED
    BY <1>7, <2>1, <2>2, ControlAssumption
    DEF StartUnlist, manifests, processes, TypeInv, TypeOK
<1>8. CASE Discard(t)
  <2>1. DiscardCandidate(shell, task[t].app, task[t].inst) \in Manifest
    <3>1. shell \in Manifest
      BY DEF TypeInv, TypeOK
    <3>2. task[t].app \in Apps /\ task[t].inst \in Instances
      BY <1>0, <1>8 DEF Discard, At, WellPlaced
    <3> QED
      BY <3>1, <3>2, EditTypes
  <2> QED
    BY <1>3, <1>8, <2>1 DEF Discard, At
<1> QED
  BY <1>1, <1>2, <1>4, <1>5, <1>6, <1>7, <1>8

(* The steps of a stop keep the types. *)
LEMMA StopTypes ==
  ASSUME TypeInv, NEW t \in Tasks,
         \/ \E a \in Apps : StopBegin(t, a)
         \/ StopCommit(t) \/ StopConflict(t) \/ StopInstall(t) \/ StopUnroute(t)
         \/ \E i \in Instances : StopKill(t, i)
  PROVE  TypeInv'
<1>0. task[t] \in TaskState /\ WellPlaced(task[t])
  BY DEF TypeInv, TypeOK
<1> DEFINE at(pc) == [task[t] EXCEPT !.pc = pc]
<1>1. ASSUME NEW a \in Apps, StopBegin(t, a) PROVE TypeInv'
  <2> DEFINE ids == {i \in Instances : AppOf(i) = a /\ (Managed(i) \/ Active(shell, a) = i)}
             r == [Idle EXCEPT !.op = "stop", !.pc = "stop", !.app = a, !.ids = ids]
  <2>1. ids \in SUBSET Instances
    OBVIOUS
  <2>2. ids # {} => /\ task' = [task EXCEPT ![t] = r]
                    /\ table' = [table EXCEPT ![a] = Draining(table[a])]
    BY <1>1 DEF StopBegin, TypeInv, TypeOK
  <2>3. ids = {} => task' = task /\ table' = [table EXCEPT ![a] = NoEntry]
    BY <1>1 DEF StopBegin
  <2> HIDE DEF ids
  <2>4. r \in TaskState
    <3>1. "stop" \in Ops /\ "stop" \in Pcs
      BY <1>1 DEF StopBegin, Begin, Pcs, AwaitPcs
    <3> QED
      BY <2>1, <3>1, IdleTypes DEF Idle, TaskState
  <2>5. WellPlaced(r)
    BY DEF Idle, WellPlaced
  <2>6. task' \in [Tasks -> TaskState] /\ \A u \in Tasks : WellPlaced(task'[u])
    BY <2>2, <2>3, <2>4, <2>5, OneTask DEF TypeInv, TypeOK
  <2>7. table' \in [Apps -> RouteEntry]
    <3>1. table \in [Apps -> RouteEntry]
      BY DEF TypeInv, TypeOK
    <3>2. table[a] \in RouteEntry
      BY <3>1
    <3> QED
      BY <2>2, <2>3, <3>1, <3>2, EntryTypes
  <2> QED
    BY <1>1, <2>6, <2>7 DEF StopBegin, manifests, processes, TypeInv, TypeOK
<1>2. CASE StopCommit(t)
  <2> DEFINE next == StopRoute(shell, task[t].app, task[t].ids)
             r == [task[t] EXCEPT !.next = next, !.pc = "installStop"]
  <2>1. next \in Manifest
    <3>1. task[t].app \in Apps /\ task[t].ids \in SUBSET Instances
      BY <1>0, <1>2 DEF StopCommit, At, WellPlaced, TaskState
    <3> QED
      BY <3>1, StopRouteType DEF TypeInv, TypeOK
  <2>2. r \in TaskState /\ WellPlaced(r)
    BY <1>0, <1>2, <2>1 DEF StopCommit, At, TaskState, WellPlaced, Pcs
  <2>3. task' \in [Tasks -> TaskState] /\ \A u \in Tasks : WellPlaced(task'[u])
    BY <1>2, <2>2, OneTask DEF StopCommit, WriteIfRevisionMatches
  <2> QED
    BY <1>2, <2>1, <2>3 DEF StopCommit, Lock, WriteIfRevisionMatches, processes, TypeInv, TypeOK
<1>3. CASE StopConflict(t)
  BY <1>3, ReturnTypes DEF StopConflict, manifests, processes, TypeInv, TypeOK
<1>4. CASE StopInstall(t)
  <2>1. WellPlaced(at("unroute")) /\ task[t].next \in Manifest
    BY <1>0, <1>4 DEF StopInstall, At, WellPlaced, TaskState
  <2>2. task' \in [Tasks -> TaskState] /\ \A u \in Tasks : WellPlaced(task'[u])
    BY <1>4, <2>1, GotoTypes DEF StopInstall, Pcs
  <2> QED
    BY <1>4, <2>1, <2>2, ControlAssumption DEF StopInstall, Unlock, processes, TypeInv, TypeOK
<1>5. CASE StopUnroute(t)
  <2>1. WellPlaced(at("kill"))
    BY <1>0, <1>5 DEF StopUnroute, At, WellPlaced, TaskState
  <2>2. task' \in [Tasks -> TaskState] /\ \A u \in Tasks : WellPlaced(task'[u])
    BY <1>5, <2>1, GotoTypes DEF StopUnroute, Pcs, AwaitPcs
  <2> QED
    BY <1>5, <2>2, EntryTypes
    DEF StopUnroute, manifests, processes, TypeInv, TypeOK
<1>6. ASSUME NEW i \in Instances, StopKill(t, i) PROVE TypeInv'
  <2> DEFINE r == [task[t] EXCEPT !.ids = task[t].ids \ {i}]
  <2>1. r \in TaskState /\ WellPlaced(r)
    BY <1>0 DEF TaskState, WellPlaced
  <2>2. task' = [task EXCEPT ![t] = Idle] \/ task' = [task EXCEPT ![t] = r]
    BY <1>6 DEF StopKill
  <2>3. task' \in [Tasks -> TaskState] /\ \A u \in Tasks : WellPlaced(task'[u])
    BY <2>1, <2>2, IdleTypes, OneTask
  <2> QED
    BY <1>6, <2>3, StopFromTypes DEF StopKill, manifests, TypeInv, TypeOK
<1> QED
  BY <1>1, <1>2, <1>3, <1>4, <1>5, <1>6

(* A child that comes up keeps the pool and the processes well typed. *)
LEMMA SpawnTypes ==
  ASSUME TypeInv, NEW i \in Instances, SpawnInto(i)
  PROVE  /\ pool' \in [Instances -> 0 .. MaxSpawns]
         /\ spawns' \in [Instances -> 0 .. MaxSpawns]
         /\ alive' \subseteq Placed
<1>1. spawns[i] + 1 \in 1 .. MaxSpawns
  BY ControlAssumption DEF SpawnInto, TypeInv, TypeOK
<1>2. pool' \in [Instances -> 0 .. MaxSpawns] /\ spawns' \in [Instances -> 0 .. MaxSpawns]
  BY <1>1, ControlAssumption DEF SpawnInto, TypeInv, TypeOK
<1>3. alive' \subseteq Placed
  BY <1>1 DEF SpawnInto, Placed, TypeInv, TypeOK
<1> QED
  BY <1>2, <1>3

(* The steps of a rollback keep the types. *)
LEMMA RollbackTypes ==
  ASSUME TypeInv, NEW t \in Tasks,
         \/ \E a \in Apps : RollbackBegin(t, a)
         \/ RollbackRespawn(t) \/ RollbackRestart(t)
         \/ RollbackCommit(t) \/ RollbackInstall(t)
  PROVE  TypeInv'
<1>0. task[t] \in TaskState /\ WellPlaced(task[t])
  BY DEF TypeInv, TypeOK
<1>1. ASSUME NEW a \in Apps, RollbackBegin(t, a) PROVE TypeInv'
  <2> DEFINE prev == disk.routes[a].previous
             pc == IF Ready(prev) THEN "rollback" ELSE "respawn"
             r == [Idle EXCEPT !.op = "rollback", !.app = a, !.seen = disk,
                     !.inst = prev, !.pc = pc]
  <2>1. disk \in Manifest /\ prev \in Instances
    BY <1>1 DEF RollbackBegin, TypeInv, TypeOK, Manifest, RouteBinding
  <2>2. task' = [task EXCEPT ![t] = r]
    BY <1>1 DEF RollbackBegin
  <2>3. pc \in {"rollback", "respawn"} /\ pc \in Pcs
    BY DEF Pcs, AwaitPcs
  <2> HIDE DEF prev, pc
  <2>4. r \in TaskState
    <3>1. "rollback" \in Ops
      BY <1>1 DEF RollbackBegin, Begin
    <3> QED
      BY <2>1, <2>3, <3>1, IdleTypes DEF Idle, TaskState
  <2>5. WellPlaced(r)
    BY <2>1, <2>3 DEF Idle, WellPlaced
  <2>6. task' \in [Tasks -> TaskState] /\ \A u \in Tasks : WellPlaced(task'[u])
    BY <2>2, <2>4, <2>5, OneTask
  <2> QED
    BY <1>1, <2>6 DEF RollbackBegin, Lock, manifests, processes, TypeInv, TypeOK
<1>2. CASE RollbackRespawn(t)
  <2> DEFINE r == [task[t] EXCEPT !.pc = "copy", !.then = "respawned"]
             q == [task[t] EXCEPT !.pc = "copy", !.then = "notReady"]
  <2>1. task[t].op = "rollback" /\ task[t].app \in Apps /\ task[t].inst \in Instances
        /\ task[t].pc = "respawn"
    BY <1>0, <1>2 DEF RollbackRespawn, At, WellPlaced
  <2>2. r \in TaskState /\ q \in TaskState /\ WellPlaced(r) /\ WellPlaced(q)
    BY ZenonT(60), <1>0, <2>1 DEF TaskState, WellPlaced, Pcs, AwaitPcs
  <2>3. task' \in [Tasks -> TaskState] /\ \A u \in Tasks : WellPlaced(task'[u])
    <3>1. task' = [task EXCEPT ![t] = r] \/ task' = [task EXCEPT ![t] = q]
      BY <1>2 DEF RollbackRespawn
    <3> QED
      BY <2>2, <3>1, OneTask
  <2>4. /\ pool' \in [Instances -> 0 .. MaxSpawns]
        /\ spawns' \in [Instances -> 0 .. MaxSpawns]
        /\ alive' \subseteq Placed
    BY <1>2, <2>1, SpawnTypes DEF RollbackRespawn, processes, TypeInv, TypeOK
  <2> QED
    BY <1>2, <2>3, <2>4 DEF RollbackRespawn, manifests, TypeInv, TypeOK
<1>3. CASE RollbackCommit(t)
  <2> DEFINE next == CutoverRoute(task[t].seen, task[t].app, task[t].inst)
             r == [task[t] EXCEPT !.next = next, !.pc = "installRollback"]
  <2>1. task[t].app \in Apps /\ task[t].inst \in Instances /\ task[t].seen \in Manifest
    BY <1>0, <1>3 DEF RollbackCommit, At, WellPlaced, TaskState
  <2>2. next \in Manifest
    BY <2>1, EditTypes
  <2>3. r \in TaskState /\ WellPlaced(r)
    BY <1>0, <1>3, <2>2 DEF RollbackCommit, At, TaskState, WellPlaced, Pcs
  <2>4. task' \in [Tasks -> TaskState] /\ \A u \in Tasks : WellPlaced(task'[u])
    <3>1. task' = [task EXCEPT ![t] = r] \/ Return(t)
      BY <1>3 DEF RollbackCommit, WriteIfRevisionMatches
    <3> HIDE DEF r
    <3> QED
      BY <2>3, <3>1, OneTask, ReturnTypes
  <2> QED
    BY <1>3, <2>2, <2>4
    DEF RollbackCommit, Unlock, WriteIfRevisionMatches, processes, TypeInv, TypeOK
<1>4. CASE RollbackInstall(t)
  <2>1. task[t].next \in Manifest
    BY <1>0 DEF TaskState
  <2> QED
    BY <1>4, <2>1, ReturnTypes DEF RollbackInstall, Unlock, processes, TypeInv, TypeOK
<1>5. CASE RollbackRestart(t)
  <2> DEFINE r == [task[t] EXCEPT !.pc = "restartStop", !.then = "restarted"]
  <2>1. r \in TaskState /\ WellPlaced(r)
    BY ZenonT(60), <1>0, <1>5 DEF RollbackRestart, At, TaskState, WellPlaced, Pcs, AwaitPcs
  <2>2. task' \in [Tasks -> TaskState] /\ \A u \in Tasks : WellPlaced(task'[u])
    BY <1>5, <2>1, OneTask DEF RollbackRestart
  <2> QED
    BY <1>5, <2>2 DEF RollbackRestart, manifests, processes, TypeInv, TypeOK
<1> QED
  BY <1>1, <1>2, <1>3, <1>4, <1>5

(* Stopping and restarting single instances, and watchdogs, keep the types. *)
LEMMA InstanceTypes ==
  ASSUME TypeInv, NEW t \in Tasks,
         \/ \E i \in Instances : \/ StopInstanceBegin(t, i) \/ RestartBegin(t, i)
                                 \/ WatchdogFires(t, i)
         \/ StopInstance(t) \/ RestartRead(t) \/ RestartStop(t) \/ RestartSpawned(t)
         \/ RestartFails(t) \/ CopyReadPool(t) \/ CopyToMirror(t) \/ Dropped(t)
  PROVE  TypeInv'
<1>0. task[t] \in TaskState /\ WellPlaced(task[t])
  BY DEF TypeInv, TypeOK
<1> DEFINE at(pc) == [task[t] EXCEPT !.pc = pc]
<1>1. ASSUME NEW i \in Instances, StopInstanceBegin(t, i) PROVE TypeInv'
  <2> DEFINE r == [Idle EXCEPT !.op = "stopInstance", !.inst = i, !.pc = "stopInstance"]
  <2>1. r \in TaskState /\ WellPlaced(r)
    <3>1. "stopInstance" \in Ops
      BY <1>1 DEF StopInstanceBegin, Begin
    <3> QED
      BY ZenonT(60), <3>1, IdleTypes DEF Idle, TaskState, WellPlaced, Pcs, AwaitPcs
  <2>2. task' \in [Tasks -> TaskState] /\ \A u \in Tasks : WellPlaced(task'[u])
    BY <1>1, <2>1, OneTask DEF StopInstanceBegin
  <2> QED
    BY <1>1, <2>2 DEF StopInstanceBegin, manifests, processes, TypeInv, TypeOK
<1>2. ASSUME NEW i \in Instances, RestartBegin(t, i) PROVE TypeInv'
  <2> DEFINE r == [Idle EXCEPT !.op = "restart", !.inst = i, !.pc = "restartStop",
                     !.then = "unlocked"]
  <2>1. r \in TaskState /\ WellPlaced(r)
    <3>1. "restart" \in Ops
      BY <1>2 DEF RestartBegin, Begin
    <3> QED
      BY ZenonT(60), <3>1, IdleTypes DEF Idle, TaskState, WellPlaced, Pcs, AwaitPcs
  <2>2. task' \in [Tasks -> TaskState] /\ \A u \in Tasks : WellPlaced(task'[u])
    BY <1>2, <2>1, OneTask DEF RestartBegin
  <2> QED
    BY <1>2, <2>2 DEF RestartBegin, manifests, processes, TypeInv, TypeOK
<1>3. ASSUME NEW i \in Instances, WatchdogFires(t, i) PROVE TypeInv'
  <2> DEFINE r == [Idle EXCEPT !.op = "watchdog", !.inst = i, !.pc = "restart",
                     !.then = "watched"]
  <2>1. r \in TaskState /\ WellPlaced(r)
    BY ZenonT(60), IdleTypes DEF Idle, TaskState, WellPlaced, Pcs, AwaitPcs
  <2>2. task' \in [Tasks -> TaskState] /\ \A u \in Tasks : WellPlaced(task'[u])
    BY <1>3, <2>1, OneTask DEF WatchdogFires
  <2>3. watch' \in [Instances -> Nat]
    <3>0. watch \in [Instances -> Nat]
      BY DEF TypeInv, TypeOK
    <3>1. watch[i] - 1 \in Nat
      <4>1. watch[i] > 0
        BY <1>3 DEF WatchdogFires
      <4> QED
        BY <3>0, <4>1
    <3>2. watch' = [watch EXCEPT ![i] = watch[i] - 1]
      BY <1>3 DEF WatchdogFires
    <3> QED
      BY <3>0, <3>1, <3>2
  <2> QED
    BY <1>3, <2>2, <2>3 DEF WatchdogFires, manifests, processes, TypeInv, TypeOK
<1>4. CASE StopInstance(t)
  <2> DEFINE r == [task[t] EXCEPT !.pc = "copy", !.then = "unlocked"]
  <2>1. r \in TaskState /\ WellPlaced(r) /\ task[t].inst \in Instances
    BY ZenonT(60), <1>0, <1>4 DEF StopInstance, At, TaskState, WellPlaced, Pcs, AwaitPcs
  <2>2. task' \in [Tasks -> TaskState] /\ \A u \in Tasks : WellPlaced(task'[u])
    BY <1>4, <2>1, OneTask DEF StopInstance
  <2> QED
    BY <1>4, <2>1, <2>2, StopFromTypes DEF StopInstance, manifests, TypeInv, TypeOK
<1>5. CASE RestartRead(t)
  <2>1. WellPlaced(at("restartStop"))
    BY <1>0, <1>5 DEF RestartRead, At, WellPlaced, TaskState
  <2>2. task' \in [Tasks -> TaskState] /\ \A u \in Tasks : WellPlaced(task'[u])
    BY <1>5, <2>1, GotoTypes, ReturnTypes DEF RestartRead, Pcs, AwaitPcs
  <2> QED
    BY <1>5, <2>2 DEF RestartRead, manifests, processes, TypeInv, TypeOK
<1>6. CASE RestartStop(t)
  <2>1. WellPlaced(at("respawnSelf")) /\ task[t].inst \in Instances
    BY <1>0, <1>6 DEF RestartStop, At, WellPlaced, TaskState
  <2>2. task' \in [Tasks -> TaskState] /\ \A u \in Tasks : WellPlaced(task'[u])
    BY <1>6, <2>1, GotoTypes DEF RestartStop, Pcs, AwaitPcs
  <2> QED
    BY <1>6, <2>1, <2>2, StopFromTypes DEF RestartStop, manifests, TypeInv, TypeOK
<1>7. CASE RestartSpawned(t)
  <2>1. WellPlaced(at("copy")) /\ task[t].inst \in Instances
    BY <1>0, <1>7 DEF RestartSpawned, At, WellPlaced, TaskState
  <2>2. task' \in [Tasks -> TaskState] /\ \A u \in Tasks : WellPlaced(task'[u])
    BY <1>7, <2>1, GotoTypes DEF RestartSpawned, Pcs, AwaitPcs
  <2> QED
    BY <1>7, <2>1, <2>2, SpawnTypes DEF RestartSpawned, manifests, TypeInv, TypeOK
<1>8. CASE RestartFails(t)
  <2> DEFINE r == [task[t] EXCEPT !.pc = "copy", !.then = "notReady"]
  <2>1. task[t].op = "rollback" => r \in TaskState /\ WellPlaced(r)
    BY ZenonT(60), <1>0, <1>8 DEF RestartFails, At, TaskState, WellPlaced, Pcs, AwaitPcs
  <2>2. Return(t) \/ (task[t].op = "rollback" /\ task' = [task EXCEPT ![t] = r])
    BY <1>8 DEF RestartFails
  <2>3. task' \in [Tasks -> TaskState] /\ \A u \in Tasks : WellPlaced(task'[u])
    BY <2>1, <2>2, OneTask, ReturnTypes
  <2> QED
    BY <1>8, <2>3 DEF RestartFails, manifests, processes, TypeInv, TypeOK
<1>9. CASE CopyReadPool(t)
  <2> DEFINE snap == {p \in Instances \X (1 .. MaxSpawns) : pool[p[1]] = p[2]}
             r == [task[t] EXCEPT !.pc = "mirror", !.snap = snap]
  <2>1. r \in TaskState /\ WellPlaced(r)
    BY ZenonT(60), <1>0, <1>9 DEF CopyReadPool, At, TaskState, WellPlaced, Pcs, Placed
  <2>2. task' \in [Tasks -> TaskState] /\ \A u \in Tasks : WellPlaced(task'[u])
    BY <1>9, <2>1, OneTask DEF CopyReadPool
  <2> QED
    BY <1>9, <2>2 DEF CopyReadPool, manifests, processes, TypeInv, TypeOK
<1>10. CASE CopyToMirror(t)
  <2> DEFINE r == [task[t] EXCEPT !.pc = "snap", !.snap = {}]
  <2>1. r \in TaskState /\ WellPlaced(r)
    BY ZenonT(60), <1>0, <1>10 DEF CopyToMirror, At, TaskState, WellPlaced, Pcs, AwaitPcs
  <2>2. task' \in [Tasks -> TaskState] /\ \A u \in Tasks : WellPlaced(task'[u])
    BY <1>10, <2>1, OneTask DEF CopyToMirror
  <2>3. \A p \in task[t].snap : p[2] \in 0 .. MaxSpawns
    BY <1>0, ControlAssumption DEF TaskState, Placed
  <2>4. mirror' \in [Instances -> 0 .. MaxSpawns]
    BY <1>10, <2>3, ControlAssumption DEF CopyToMirror
  <2> QED
    BY <1>10, <2>2, <2>4 DEF CopyToMirror, manifests, processes, TypeInv, TypeOK
<1>11. CASE Dropped(t)
  BY <1>11, ReturnTypes DEF Dropped, manifests, processes, TypeInv, TypeOK
<1> QED
  BY <1>1, <1>2, <1>3, <1>4, <1>5, <1>6, <1>7, <1>8, <1>9, <1>10, <1>11

(* A handler that begins is well typed. *)
LEMMA BeginTypes ==
  ASSUME TypeInv, NEW t \in Tasks, NEW a \in Apps, StartBegin(t, a)
  PROVE  TypeInv'
<1> DEFINE r == [Idle EXCEPT !.op = "start", !.pc = "prepare", !.app = a]
<1>1. r \in TaskState /\ WellPlaced(r)
  <2>1. "start" \in Ops
    BY DEF StartBegin, Begin
  <2> QED
    BY ZenonT(60), <2>1, IdleTypes DEF Idle, TaskState, WellPlaced, Pcs, AwaitPcs
<1>2. task' \in [Tasks -> TaskState] /\ \A u \in Tasks : WellPlaced(task'[u])
  BY <1>1, OneTask DEF StartBegin
<1> QED
  BY <1>2 DEF StartBegin, manifests, processes, TypeInv, TypeOK

(* Children that exit, watchdogs that give up and dropped handlers keep the types. *)
LEMMA ChildTypes ==
  ASSUME TypeInv, NEW i \in Instances, ChildExits(i) \/ WatchdogGivesUp(i)
  PROVE  TypeInv'
<1>1. CASE ChildExits(i)
  BY <1>1 DEF ChildExits, manifests, TypeInv, TypeOK
<1>2. CASE WatchdogGivesUp(i)
  <2>1. watch' \in [Instances -> Nat]
    <3>0. watch \in [Instances -> Nat]
      BY DEF TypeInv, TypeOK
    <3>1. watch[i] - 1 \in Nat
      <4>1. watch[i] > 0
        BY <1>2 DEF WatchdogGivesUp
      <4> QED
        BY <3>0, <4>1
    <3>2. watch' = [watch EXCEPT ![i] = watch[i] - 1]
      BY <1>2 DEF WatchdogGivesUp
    <3> QED
      BY <3>0, <3>1, <3>2
  <2> QED
    BY <1>2, <2>1 DEF WatchdogGivesUp, manifests, processes, TypeInv, TypeOK
<1> QED
  BY <1>1, <1>2

(* A fresh host is well typed. *)
LEMMA TypeInit == Init => TypeInv
<1> SUFFICES ASSUME Init PROVE TypeInv
  OBVIOUS
<1>1. /\ pool \in [Instances -> 0 .. MaxSpawns] /\ mirror \in [Instances -> 0 .. MaxSpawns]
      /\ spawns \in [Instances -> 0 .. MaxSpawns] /\ started \in [Apps -> 0 .. MaxStarts]
      /\ watch \in [Instances -> Nat] /\ table \in [Apps -> RouteEntry]
  BY EntryTypes, ControlAssumption DEF Init
<1>2. task \in [Tasks -> TaskState] /\ \A t \in Tasks : WellPlaced(task[t])
  BY IdleTypes DEF Init
<1> QED
  BY <1>1, <1>2, IdleTypes DEF Init, TypeInv, TypeOK

(* Every step of the control plane keeps the types. *)
LEMMA TypeNext == TypeInv /\ [Next]_vars => TypeInv'
<1> SUFFICES ASSUME TypeInv, [Next]_vars PROVE TypeInv'
  OBVIOUS
<1>1. CASE UNCHANGED vars
  BY <1>1 DEF vars, manifests, processes, TypeInv, TypeOK
<1>2. ASSUME NEW t \in Tasks, Begins(t) PROVE TypeInv'
  BY <1>2, BeginTypes, CutoverTypes, StopTypes, RollbackTypes, InstanceTypes DEF Begins
<1>3. ASSUME NEW t \in Tasks, Takes(t) PROVE TypeInv'
  BY <1>3, StartTypes, CutoverTypes, RetireTypes, StopTypes DEF Takes
<1>4. ASSUME NEW t \in Tasks, Goes(t) PROVE TypeInv'
  BY <1>4, StartTypes, CutoverTypes, SyncTypes, RetireTypes, StopTypes, RollbackTypes,
     InstanceTypes DEF Goes
<1>5. ASSUME NEW t \in Tasks, Dropped(t) PROVE TypeInv'
  BY <1>5, InstanceTypes
<1>6. ASSUME NEW i \in Instances, ChildExits(i) \/ WatchdogGivesUp(i) PROVE TypeInv'
  BY <1>6, ChildTypes
<1> QED
  BY <1>1, <1>2, <1>3, <1>4, <1>5, <1>6 DEF Next

(* TypeOK holds in every reachable state, for any constants: no handler    *)
(* cuts over, retires or republishes an instance that is not one.          *)
THEOREM ControlTypeCorrect == Spec => []TypeOK
<1>1. TypeInv => TypeOK
  BY DEF TypeInv
<1> QED
  BY <1>1, TypeInit, TypeNext, PTL DEF Spec

-----------------------------------------------------------------------------
(* The manifest_mutation lock: who holds it, and what that protects.       *)

Installing == {"installCandidate", "installCutover", "installEdit", "installStop",
               "installRollback"}

HoldsLock(r) ==
  \/ r.pc \in Installing \union {"respawn", "rollback"}
  \/ r.pc \in {"restartStop", "respawnSelf", "copy", "mirror", "snap", "routes", "publish"}
     /\ r.then \notin {"unlocked", "watched"}

(* A handler between its write to the disk and its install of the same     *)
(* manifest holds the lock; only such a handler makes disk and shell differ. *)
LockInv ==
  /\ \A t \in Tasks : HoldsLock(task[t]) => mutex = t
  /\ \A t \in Tasks : task[t].pc \in Installing => disk = task[t].next
  /\ shell = disk \/ \E t \in Tasks : mutex = t /\ task[t].pc \in Installing

OnlyMoves(t) == \A u \in Tasks \ {t} : task'[u] = task[u]

(* A step of a handler that has nothing to do with the lock.               *)
LEMMA LockAside ==
  ASSUME LockInv, NEW t \in Tasks, OnlyMoves(t),
         task[t].pc \notin Installing, HoldsLock(task'[t]) => HoldsLock(task[t]),
         task'[t].pc \notin Installing, UNCHANGED <<disk, shell, mutex>>
  PROVE  LockInv'
  BY DEF LockInv, OnlyMoves

(* It takes the lock, and perhaps writes the disk.                         *)
LEMMA LockTaken ==
  ASSUME LockInv, NEW t \in Tasks, OnlyMoves(t), mutex = None, mutex' = t,
         ~HoldsLock(task[t]), shell' = shell,
         IF task'[t].pc \in Installing THEN disk' = task'[t].next ELSE disk' = disk
  PROVE  LockInv'
<1>1. \A u \in Tasks : ~HoldsLock(task[u]) /\ task[u].pc \notin Installing
  BY NoneApart DEF LockInv, HoldsLock
<1>2. shell = disk
  BY <1>1 DEF LockInv
<1> QED
  BY <1>1, <1>2 DEF LockInv, OnlyMoves

(* It holds the lock, and writes, installs or releases.                    *)
LEMMA LockUsed ==
  ASSUME LockInv, NEW t \in Tasks, OnlyMoves(t), mutex = t,
         mutex' = t \/ (mutex' = None /\ ~HoldsLock(task'[t])),
         \/ /\ task[t].pc \notin Installing /\ shell' = shell
            /\ IF task'[t].pc \in Installing THEN disk' = task'[t].next /\ mutex' = t
                                             ELSE disk' = disk
         \/ /\ task[t].pc \in Installing /\ shell' = task[t].next /\ disk' = disk
            /\ task'[t].pc \notin Installing
  PROVE  LockInv'
<1>1. \A u \in Tasks \ {t} : ~HoldsLock(task[u]) /\ task[u].pc \notin Installing
  BY DEF LockInv, HoldsLock
<1>2. task[t].pc \notin Installing => shell = disk
  BY <1>1 DEF LockInv
<1>3. task[t].pc \in Installing => disk = task[t].next
  BY DEF LockInv
<1>4. task'[t].pc \in Installing => disk' = task'[t].next /\ mutex' = t
  OBVIOUS
<1>5. task'[t].pc \notin Installing => shell' = disk'
  BY <1>2, <1>3
<1>6. \A u \in Tasks \ {t} : ~HoldsLock(task'[u]) /\ task'[u].pc \notin Installing
  BY <1>1 DEF OnlyMoves
<1>7. HoldsLock(task'[t]) => mutex' = t
  OBVIOUS
<1> QED
  BY <1>4, <1>5, <1>6, <1>7 DEF LockInv

(* Each action is an instance of one of the three.                         *)
LEMMA LockStart ==
  ASSUME TypeInv, LockInv, NEW t \in Tasks,
         \/ \E a \in Apps : StartBegin(t, a)
         \/ StartRefused(t) \/ StartPrepared(t) \/ StartRegister(t) \/ StartRegisterFails(t)
         \/ StartInstallCandidate(t) \/ StartSpawned(t) \/ StartSpawnFails(t)
         \/ StartAnnounce(t)
  PROVE  LockInv'
<1>0. task \in [Tasks -> TaskState] /\ task[t] \in TaskState
  BY DEF TypeInv, TypeOK
<1>1. ASSUME NEW a \in Apps, StartBegin(t, a) PROVE LockInv'
  <2> DEFINE r == [Idle EXCEPT !.op = "start", !.pc = "prepare", !.app = a]
  <2>1. r.pc = "prepare"
    BY DEF Idle
  <2>2. task' = [task EXCEPT ![t] = r]
    BY <1>1 DEF StartBegin
  <2> HIDE DEF r
  <2>3. OnlyMoves(t) /\ task'[t].pc = "prepare"
    BY <1>0, <2>1, <2>2 DEF OnlyMoves
  <2>4. task[t].pc = "idle"
    BY <1>1, IdleFields DEF StartBegin
  <2> QED
    BY <1>1, <2>3, <2>4, LockAside DEF StartBegin, Installing, HoldsLock, manifests
<1>2. CASE StartRefused(t) \/ StartRegisterFails(t)
  BY <1>0, <1>2, LockAside DEF StartRefused, StartRegisterFails, At, Return, Idle,
     OnlyMoves, Installing, HoldsLock, manifests
<1>3. CASE StartPrepared(t)
  BY <1>0, <1>3, LockAside DEF StartPrepared, At, OnlyMoves, Installing, HoldsLock,
     manifests, TaskState
<1>4. CASE StartRegister(t)
  BY <1>0, <1>4, LockTaken DEF StartRegister, At, Lock, WriteIfRevisionMatches,
     OnlyMoves, Installing, HoldsLock, TaskState
<1>5. CASE StartInstallCandidate(t)
  <2>1. HoldsLock(task[t]) /\ task[t].pc \in Installing
    BY <1>5 DEF StartInstallCandidate, At, HoldsLock, Installing
  <2>2. mutex = t
    BY <2>1 DEF LockInv
  <2> QED
    BY <1>0, <1>5, <2>1, <2>2, LockUsed DEF StartInstallCandidate, Unlock, OnlyMoves,
       Installing, HoldsLock, TaskState
<1>6. CASE StartSpawned(t)
  BY <1>0, <1>6, LockAside DEF StartSpawned, At, Goto, OnlyMoves, Installing, HoldsLock,
     manifests, TaskState
<1>7. CASE StartSpawnFails(t)
  BY <1>0, <1>7, LockAside DEF StartSpawnFails, At, Goto, OnlyMoves, Installing, HoldsLock,
     manifests, TaskState
<1>8. CASE StartAnnounce(t)
  BY <1>0, <1>8, LockAside DEF StartAnnounce, At, Goto, OnlyMoves, Installing, HoldsLock,
     manifests, TaskState
<1> QED
  BY <1>1, <1>2, <1>3, <1>4, <1>5, <1>6, <1>7, <1>8

(* Cutovers and syncs keep the lock and the two manifests together. *)
LEMMA LockCutover ==
  ASSUME TypeInv, LockInv, NEW t \in Tasks,
         \/ \E i \in Instances : SwitchBegin(t, i)
         \/ Cutover(t) \/ CutoverRefused(t) \/ CutoverInstall(t)
         \/ SyncReadPool(t) \/ SyncReadRoutes(t) \/ SyncPublish(t)
  PROVE  LockInv'
<1>0. task \in [Tasks -> TaskState] /\ task[t] \in TaskState /\ WellPlaced(task[t])
  BY DEF TypeInv, TypeOK
<1>1. ASSUME NEW i \in Instances, SwitchBegin(t, i) PROVE LockInv'
  <2> DEFINE r == [Idle EXCEPT !.op = "switch", !.pc = "cutover",
                                        !.app = AppOf(i), !.inst = i, !.seen = shell]
  <2>1. r.pc = "cutover"
    BY DEF Idle
  <2>2. task' = [task EXCEPT ![t] = r]
    BY <1>1 DEF SwitchBegin
  <2> HIDE DEF r
  <2>3. OnlyMoves(t) /\ task'[t].pc = "cutover"
    BY <1>0, <2>1, <2>2 DEF OnlyMoves
  <2>4. task[t].pc = "idle"
    BY <1>1, IdleFields DEF SwitchBegin
  <2> QED
    BY <1>1, <2>3, <2>4, LockAside DEF SwitchBegin, Installing, HoldsLock, manifests
<1>2. CASE Cutover(t)
  BY <1>0, <1>2, LockTaken DEF Cutover, At, Lock, WriteIfRevisionMatches,
     OnlyMoves, Installing, HoldsLock, TaskState
<1>3. CASE CutoverRefused(t)
  <2>1. \/ task' = [task EXCEPT ![t].pc = "abort"]
        \/ task' = [task EXCEPT ![t] = Idle]
    BY <1>3 DEF CutoverRefused, Goto, Return
  <2> QED
    BY <1>0, <1>3, <2>1, LockAside DEF CutoverRefused, At, Idle, OnlyMoves, Installing,
       HoldsLock, manifests, TaskState
<1>4. CASE CutoverInstall(t)
  <2>1. HoldsLock(task[t]) /\ task[t].pc \in Installing
    BY <1>4 DEF CutoverInstall, At, HoldsLock, Installing
  <2>2. mutex = t
    BY <2>1 DEF LockInv
  <2>3. OnlyMoves(t) /\ task'[t].pc \notin Installing
    BY <1>0, <1>4 DEF CutoverInstall, OnlyMoves, Installing, TaskState
  <2> QED
    BY <1>4, <2>1, <2>2, <2>3, LockUsed DEF CutoverInstall
<1>5. CASE SyncReadPool(t)
  <2>1. OnlyMoves(t) /\ task'[t].pc = "routes" /\ task'[t].then = task[t].then
    BY <1>0, <1>5 DEF SyncReadPool, OnlyMoves, TaskState
  <2> QED
    BY <1>5, <2>1, LockAside DEF SyncReadPool, At, Installing, HoldsLock, manifests
<1>6. CASE SyncReadRoutes(t)
  <2>1. OnlyMoves(t) /\ task'[t].pc = "publish" /\ task'[t].then = task[t].then
    BY <1>0, <1>6 DEF SyncReadRoutes, OnlyMoves, TaskState
  <2> QED
    BY <1>6, <2>1, LockAside DEF SyncReadRoutes, At, Installing, HoldsLock, manifests
<1>7. CASE SyncPublish(t)
  <2>1. OnlyMoves(t) /\ task'[t].pc \in {"idle", "drain", "rollback"}
        /\ (task'[t].pc = "rollback" <=> task[t].then \in {"respawned", "restarted"})
    BY <1>0, <1>7 DEF SyncPublish, AfterSync, Goto, Return, Idle, OnlyMoves, TaskState
  <2>2. task[t].pc = "publish" /\ disk' = disk /\ shell' = shell
    BY <1>7 DEF SyncPublish, At, manifests
  <2>3. CASE task[t].then \in {"unlocked", "watched"}
    <3>1. mutex' = mutex
      BY <1>7, <2>3 DEF SyncPublish, AfterSync, Released
    <3> QED
      BY <2>1, <2>2, <2>3, <3>1, LockAside DEF Installing, HoldsLock
  <2>4. CASE task[t].then \notin {"unlocked", "watched"}
    <3>1. mutex = t
      BY <2>2, <2>4 DEF LockInv, HoldsLock
    <3>2. IF task[t].then \in {"respawned", "restarted"} THEN mutex' = mutex ELSE mutex' = None
      BY <1>7, <2>4 DEF SyncPublish, AfterSync, Released
    <3>3. task[t].pc \notin Installing /\ task'[t].pc \notin Installing
          /\ (task[t].then \notin {"respawned", "restarted"} => ~HoldsLock(task'[t]))
      BY <2>1, <2>2 DEF Installing, HoldsLock
    <3> QED
      BY <2>1, <2>2, <3>1, <3>2, <3>3, LockUsed
  <2> QED
    BY <2>3, <2>4
<1> QED
  BY <1>1, <1>2, <1>3, <1>4, <1>5, <1>6, <1>7

(* So do retiring the previous instance and discarding a candidate. *)
LEMMA LockRetire ==
  ASSUME TypeInv, LockInv, NEW t \in Tasks,
         \/ RetireStop(t) \/ RetireUnregister(t) \/ Retire(t) \/ InstallEdit(t)
         \/ StartAbort(t) \/ StartUnlist(t) \/ Discard(t)
  PROVE  LockInv'
<1>0. task \in [Tasks -> TaskState] /\ task[t] \in TaskState /\ WellPlaced(task[t])
  BY DEF TypeInv, TypeOK
<1>1. CASE RetireStop(t) \/ StartAbort(t)
  BY <1>0, <1>1, LockAside DEF RetireStop, StartAbort, At, Goto, OnlyMoves, Installing,
     HoldsLock, manifests, TaskState
<1>2. CASE RetireUnregister(t) \/ StartUnlist(t)
  BY <1>0, <1>2, LockAside DEF RetireUnregister, StartUnlist, At, Goto, OnlyMoves,
     Installing, HoldsLock, manifests, TaskState
<1>3. ASSUME NEW next, NEW then, EditOrSkip(t, next, then), shell' = shell,
             task[t].pc \in {"retire", "discard"}
      PROVE  LockInv'
  <2>1. \/ /\ disk' = next
           /\ task' = [task EXCEPT ![t].next = next, ![t].then = then,
                                   ![t].pc = "installEdit"]
        \/ /\ disk' = disk
           /\ task' = [task EXCEPT ![t].then = then, ![t].pc = "snap"]
    BY <1>3 DEF EditOrSkip
  <2>2. mutex = None /\ mutex' = t
    BY <1>3 DEF EditOrSkip, Lock
  <2>3. OnlyMoves(t) /\ ~HoldsLock(task[t])
    BY <1>0, <1>3, <2>1 DEF OnlyMoves, HoldsLock, Installing
  <2>4. IF task'[t].pc \in Installing THEN disk' = task'[t].next ELSE disk' = disk
    BY <1>0, <2>1 DEF Installing, TaskState
  <2> QED
    BY <1>3, <2>2, <2>3, <2>4, LockTaken
<1>4. CASE Retire(t) \/ Discard(t)
  BY <1>3, <1>4 DEF Retire, Discard, At
<1>5. CASE InstallEdit(t)
  <2>1. HoldsLock(task[t]) /\ task[t].pc \in Installing
    BY <1>5 DEF InstallEdit, At, HoldsLock, Installing
  <2>2. mutex = t
    BY <2>1 DEF LockInv
  <2> QED
    BY <1>0, <1>5, <2>1, <2>2, LockUsed DEF InstallEdit, Goto, OnlyMoves, Installing,
       TaskState
<1> QED
  BY <1>1, <1>2, <1>4, <1>5

(* So do the steps of a stop. *)
LEMMA LockStop ==
  ASSUME TypeInv, LockInv, NEW t \in Tasks,
         \/ \E a \in Apps : StopBegin(t, a)
         \/ StopCommit(t) \/ StopConflict(t) \/ StopInstall(t) \/ StopUnroute(t)
         \/ \E i \in Instances : StopKill(t, i)
  PROVE  LockInv'
<1>0. task \in [Tasks -> TaskState] /\ task[t] \in TaskState /\ WellPlaced(task[t])
  BY DEF TypeInv, TypeOK
<1>1. ASSUME NEW a \in Apps, StopBegin(t, a) PROVE LockInv'
  <2>1. task[t].pc = "idle"
    BY <1>1, IdleFields DEF StopBegin
  <2>2. task' = task \/ \E ids : task' = [task EXCEPT ![t] =
          [Idle EXCEPT !.op = "stop", !.pc = "stop", !.app = a, !.ids = ids]]
    BY <1>1 DEF StopBegin
  <2>3. OnlyMoves(t) /\ task'[t].pc \in {"idle", "stop"}
    BY <1>0, <2>1, <2>2 DEF Idle, OnlyMoves
  <2> QED
    BY <1>1, <2>1, <2>3, LockAside DEF StopBegin, Installing, HoldsLock, manifests
<1>2. CASE StopCommit(t)
  BY <1>0, <1>2, LockTaken DEF StopCommit, At, Lock, WriteIfRevisionMatches,
     OnlyMoves, Installing, HoldsLock, TaskState
<1>3. CASE StopConflict(t)
  BY <1>0, <1>3, LockAside DEF StopConflict, At, Return, Idle, OnlyMoves, Installing,
     HoldsLock, manifests
<1>4. CASE StopInstall(t)
  <2>1. HoldsLock(task[t]) /\ task[t].pc \in Installing
    BY <1>4 DEF StopInstall, At, HoldsLock, Installing
  <2>2. mutex = t
    BY <2>1 DEF LockInv
  <2> QED
    BY <1>0, <1>4, <2>1, <2>2, LockUsed DEF StopInstall, Goto, Unlock, OnlyMoves,
       Installing, HoldsLock, TaskState
<1>5. CASE StopUnroute(t)
  BY <1>0, <1>5, LockAside DEF StopUnroute, At, Goto, OnlyMoves, Installing, HoldsLock,
     manifests, TaskState
<1>6. ASSUME NEW i \in Instances, StopKill(t, i) PROVE LockInv'
  <2>1. OnlyMoves(t) /\ task'[t].pc \in {"idle", "kill"} /\ task[t].pc = "kill"
    BY <1>0, <1>6 DEF StopKill, At, Idle, OnlyMoves, TaskState
  <2> QED
    BY <1>6, <2>1, LockAside DEF StopKill, Installing, HoldsLock, manifests
<1> QED
  BY <1>1, <1>2, <1>3, <1>4, <1>5, <1>6

(* So do the steps of a rollback. *)
LEMMA LockRollback ==
  ASSUME TypeInv, LockInv, NEW t \in Tasks,
         \/ \E a \in Apps : RollbackBegin(t, a)
         \/ RollbackRespawn(t) \/ RollbackRestart(t)
         \/ RollbackCommit(t) \/ RollbackInstall(t)
  PROVE  LockInv'
<1>0. task \in [Tasks -> TaskState] /\ task[t] \in TaskState /\ WellPlaced(task[t])
  BY DEF TypeInv, TypeOK
<1>1. ASSUME NEW a \in Apps, RollbackBegin(t, a) PROVE LockInv'
  <2> DEFINE prev == disk.routes[a].previous
             r == [Idle EXCEPT !.op = "rollback", !.app = a, !.seen = disk, !.inst = prev,
                     !.pc = IF Ready(prev) THEN "rollback" ELSE "respawn"]
  <2>1. r.pc \in {"rollback", "respawn"}
    BY DEF Idle
  <2>2. task' = [task EXCEPT ![t] = r]
    BY <1>1 DEF RollbackBegin
  <2> HIDE DEF r
  <2>3. OnlyMoves(t) /\ task'[t].pc \in {"rollback", "respawn"}
    BY <1>0, <2>1, <2>2 DEF OnlyMoves
  <2>4. task[t].pc = "idle"
    BY <1>1, IdleFields DEF RollbackBegin
  <2> QED
    BY <1>1, <2>3, <2>4, LockTaken DEF RollbackBegin, Lock, Installing, HoldsLock, manifests
<1>2. CASE RollbackRespawn(t)
  <2>1. task[t].pc = "respawn" /\ mutex = t
    BY <1>2 DEF RollbackRespawn, At, LockInv, HoldsLock
  <2>2. OnlyMoves(t) /\ task'[t].pc = "copy"
    BY <1>0, <1>2 DEF RollbackRespawn, OnlyMoves, TaskState
  <2> QED
    BY <1>2, <2>1, <2>2, LockUsed DEF RollbackRespawn, Installing, manifests
<1>3. CASE RollbackCommit(t)
  <2>1. task[t].pc = "rollback" /\ mutex = t
    BY <1>3 DEF RollbackCommit, At, LockInv, HoldsLock
  <2>2. \/ \E next : /\ disk' = next /\ mutex' = mutex
                     /\ task' = [task EXCEPT ![t].next = next, ![t].pc = "installRollback"]
        \/ disk' = disk /\ mutex' = None /\ task' = [task EXCEPT ![t] = Idle]
    BY <1>3 DEF RollbackCommit, WriteIfRevisionMatches, Unlock, Return
  <2>3. OnlyMoves(t)
    BY <1>0, <2>2 DEF OnlyMoves
  <2>4. \/ /\ task'[t].pc \in Installing /\ disk' = task'[t].next /\ mutex' = t
        \/ disk' = disk /\ mutex' = None /\ task'[t].pc = "idle"
    <3>1. ASSUME NEW next, disk' = next, mutex' = mutex,
                 task' = [task EXCEPT ![t].next = next, ![t].pc = "installRollback"]
          PROVE  task'[t].pc \in Installing /\ disk' = task'[t].next /\ mutex' = t
      BY <1>0, <2>1, <3>1 DEF Installing, TaskState
    <3>2. ASSUME task' = [task EXCEPT ![t] = Idle] PROVE task'[t].pc = "idle"
      BY <1>0, <3>2, IdleFields
    <3> QED
      BY <2>2, <3>1, <3>2
  <2>5. "idle" \notin Installing /\ "rollback" \notin Installing
    BY DEF Installing
  <2>6. task'[t].pc = "idle" => ~HoldsLock(task'[t])
    BY DEF HoldsLock, Installing
  <2> QED
    BY <1>3, <2>1, <2>3, <2>4, <2>5, <2>6, LockUsed DEF RollbackCommit
<1>4. CASE RollbackInstall(t)
  <2>1. HoldsLock(task[t]) /\ task[t].pc \in Installing
    BY <1>4 DEF RollbackInstall, At, HoldsLock, Installing
  <2>2. mutex = t
    BY <2>1 DEF LockInv
  <2> QED
    BY <1>0, <1>4, <2>1, <2>2, LockUsed DEF RollbackInstall, Return, Unlock, Idle,
       OnlyMoves, Installing, HoldsLock
<1>5. CASE RollbackRestart(t)
  <2>1. task[t].pc = "respawn" /\ mutex = t
    BY <1>5 DEF RollbackRestart, At, LockInv, HoldsLock
  <2>2. OnlyMoves(t) /\ task'[t].pc = "restartStop"
    BY <1>0, <1>5 DEF RollbackRestart, OnlyMoves, TaskState
  <2> QED
    BY <1>5, <2>1, <2>2, LockUsed DEF RollbackRestart, Installing, manifests
<1> QED
  BY <1>1, <1>2, <1>3, <1>4, <1>5

(* So do the handlers of single instances, which take no lock, and a       *)
(* rollback that restarts its instance, which has it.                      *)
LEMMA LockInstance ==
  ASSUME TypeInv, LockInv, NEW t \in Tasks,
         \/ \E i \in Instances : \/ StopInstanceBegin(t, i) \/ RestartBegin(t, i)
                                 \/ WatchdogFires(t, i)
         \/ StopInstance(t) \/ RestartRead(t) \/ RestartStop(t) \/ RestartSpawned(t)
         \/ RestartFails(t) \/ CopyReadPool(t) \/ CopyToMirror(t) \/ Dropped(t)
  PROVE  LockInv'
<1>0. task \in [Tasks -> TaskState] /\ task[t] \in TaskState /\ WellPlaced(task[t])
  BY DEF TypeInv, TypeOK
<1>1. ASSUME NEW i \in Instances,
             StopInstanceBegin(t, i) \/ RestartBegin(t, i) \/ WatchdogFires(t, i)
      PROVE  LockInv'
  <2>1. PICK r : /\ task' = [task EXCEPT ![t] = r]
                 /\ r.pc \in {"stopInstance", "restartStop", "restart"}
                 /\ r.pc = "restartStop" => r.then = "unlocked"
    <3> DEFINE s == [Idle EXCEPT !.op = "stopInstance", !.inst = i, !.pc = "stopInstance"]
               q == [Idle EXCEPT !.op = "restart", !.inst = i, !.pc = "restartStop",
                       !.then = "unlocked"]
               w == [Idle EXCEPT !.op = "watchdog", !.inst = i, !.pc = "restart",
                       !.then = "watched"]
    <3>1. s.pc = "stopInstance" /\ q.pc = "restartStop" /\ w.pc = "restart"
          /\ q.then = "unlocked"
      BY DEF Idle
    <3>2. \/ task' = [task EXCEPT ![t] = s] \/ task' = [task EXCEPT ![t] = q]
          \/ task' = [task EXCEPT ![t] = w]
      BY <1>1 DEF StopInstanceBegin, RestartBegin, WatchdogFires
    <3> HIDE DEF s, q, w
    <3> QED
      BY <3>1, <3>2
  <2>3. OnlyMoves(t) /\ task'[t].pc \in {"stopInstance", "restartStop", "restart"}
        /\ (task'[t].pc = "restartStop" => task'[t].then = "unlocked")
    BY <1>0, <2>1 DEF OnlyMoves
  <2>4. task[t].pc = "idle"
    BY <1>1, IdleFields DEF StopInstanceBegin, RestartBegin, WatchdogFires
  <2>2. UNCHANGED <<disk, shell, mutex>>
    BY <1>1 DEF StopInstanceBegin, RestartBegin, WatchdogFires, manifests
  <2> QED
    BY <2>2, <2>3, <2>4, LockAside DEF Installing, HoldsLock
<1>2. CASE StopInstance(t)
  <2>1. OnlyMoves(t) /\ task'[t].pc = "copy" /\ task'[t].then = "unlocked"
    BY <1>0, <1>2 DEF StopInstance, OnlyMoves, TaskState
  <2> QED
    BY <1>2, <2>1, LockAside DEF StopInstance, At, Installing, HoldsLock, manifests
<1>3. CASE RestartRead(t)
  <2>1. \/ task' = [task EXCEPT ![t].pc = "restartStop"]
        \/ task' = [task EXCEPT ![t] = Idle]
    BY <1>3 DEF RestartRead, Goto, Return
  <2>2. task[t].then \in {"unlocked", "watched"}
    BY <1>0, <1>3 DEF RestartRead, At, WellPlaced
  <2> QED
    BY <1>0, <1>3, <2>1, <2>2, LockAside DEF RestartRead, At, Idle, OnlyMoves, Installing,
       HoldsLock, manifests, TaskState
<1>4. CASE RestartStop(t)
  BY <1>0, <1>4, LockAside DEF RestartStop, At, Goto, OnlyMoves, Installing, HoldsLock,
     manifests, TaskState
<1>5. CASE RestartSpawned(t)
  <2>1. OnlyMoves(t) /\ task'[t].pc = "copy" /\ task'[t].then = task[t].then
    BY <1>0, <1>5 DEF RestartSpawned, Goto, OnlyMoves, TaskState
  <2>2. task[t].pc = "respawnSelf"
    BY <1>5 DEF RestartSpawned, At
  <2> QED
    BY <1>5, <2>1, <2>2, LockAside DEF RestartSpawned, Installing, HoldsLock, manifests
<1>6. CASE RestartFails(t)
  <2>1. \/ task' = [task EXCEPT ![t] = Idle]
        \/ /\ task[t].op = "rollback"
           /\ task' = [task EXCEPT ![t].pc = "copy", ![t].then = "notReady"]
    BY <1>6 DEF RestartFails, Return
  <2>2. task[t].pc = "respawnSelf" /\ (task[t].op = "rollback" => HoldsLock(task[t]))
    BY <1>0, <1>6 DEF RestartFails, At, WellPlaced, HoldsLock
  <2> QED
    BY <1>0, <1>6, <2>1, <2>2, LockAside DEF RestartFails, Idle, OnlyMoves, Installing,
       HoldsLock, manifests, TaskState
<1>7. CASE CopyReadPool(t)
  <2>1. OnlyMoves(t) /\ task'[t].pc = "mirror" /\ task'[t].then = task[t].then
    BY <1>0, <1>7 DEF CopyReadPool, OnlyMoves, TaskState
  <2> QED
    BY <1>7, <2>1, LockAside DEF CopyReadPool, At, Installing, HoldsLock, manifests
<1>8. CASE CopyToMirror(t)
  <2>1. OnlyMoves(t) /\ task'[t].pc = "snap" /\ task'[t].then = task[t].then
    BY <1>0, <1>8 DEF CopyToMirror, OnlyMoves, TaskState
  <2> QED
    BY <1>8, <2>1, LockAside DEF CopyToMirror, At, Installing, HoldsLock, manifests
<1>9. CASE Dropped(t)
  <2>1. OnlyMoves(t) /\ task'[t].pc = "idle" /\ UNCHANGED <<disk, shell>>
    BY <1>0, <1>9 DEF Dropped, Return, Idle, OnlyMoves, manifests
  <2>2. task[t].pc \notin Installing
    BY <1>9 DEF Dropped, AwaitPcs, Installing
  <2>3. ~HoldsLock(task'[t]) /\ task'[t].pc \notin Installing
    BY <2>1 DEF HoldsLock, Installing
  <2>4. CASE mutex = t
    BY <1>9, <2>1, <2>2, <2>3, <2>4, LockUsed DEF Dropped
  <2>5. CASE mutex # t
    BY <1>9, <2>1, <2>2, <2>3, <2>5, LockAside DEF Dropped
  <2> QED
    BY <2>4, <2>5
<1> QED
  BY <1>1, <1>2, <1>3, <1>4, <1>5, <1>6, <1>7, <1>8, <1>9

(* So does every step, dropped handlers included. *)
LEMMA LockNext == TypeInv /\ LockInv /\ [Next]_vars => LockInv'
<1> SUFFICES ASSUME TypeInv, LockInv, [Next]_vars PROVE LockInv'
  OBVIOUS
<1>1. CASE UNCHANGED vars
  BY <1>1 DEF vars, manifests, LockInv, HoldsLock
<1>2. ASSUME NEW t \in Tasks, Begins(t) PROVE LockInv'
  BY <1>2, LockStart, LockCutover, LockStop, LockRollback, LockInstance DEF Begins
<1>3. ASSUME NEW t \in Tasks, Takes(t) PROVE LockInv'
  BY <1>3, LockStart, LockCutover, LockRetire, LockStop DEF Takes
<1>4. ASSUME NEW t \in Tasks, Goes(t) PROVE LockInv'
  BY <1>4, LockStart, LockCutover, LockRetire, LockStop, LockRollback, LockInstance DEF Goes
<1>5. ASSUME NEW t \in Tasks, Dropped(t) PROVE LockInv'
  BY <1>5, LockInstance
<1>6. ASSUME NEW i \in Instances, ChildExits(i) \/ WatchdogGivesUp(i) PROVE LockInv'
  BY <1>6 DEF ChildExits, WatchdogGivesUp, manifests, LockInv, HoldsLock
<1> QED
  BY <1>1, <1>2, <1>3, <1>4, <1>5, <1>6 DEF Next

(* A fresh host has one manifest, on disk and in the shell. *)
LEMMA LockInit == Init => LockInv
  BY NoneApart DEF Init, Idle, LockInv, HoldsLock, Installing

(* Whatever fails or is dropped, and in whatever order handlers run, the   *)
(* manifest the host decides with is the one on disk whenever the          *)
(* manifest_mutation lock is free, so no later edit is refused for good.   *)
THEOREM ShellFollowsDisk == Spec => []ShellMatchesDisk
<1>1. LockInv => ShellMatchesDisk
  BY NoneApart DEF LockInv, ShellMatchesDisk
<1> QED
  BY <1>1, TypeInit, TypeNext, LockInit, LockNext, PTL DEF Spec

-----------------------------------------------------------------------------
(* One start per app, and what its cutover may replace.                    *)

(* From its registration to its cutover a start remembers a manifest in    *)
(* which its own instance is the candidate of its app.                     *)
RemembersItself(r) ==
  r.op = "start" =>
    /\ r.pc = "installCandidate" => r.next.routes[r.app].candidate = r.inst
    /\ r.pc \in {"spawn", "announce", "cutover"} => r.seen.routes[r.app].candidate = r.inst

StartInv ==
  /\ \A t \in Tasks : task[t].op = "start" => task[t].app \in inflight
  /\ OneStartPerApp
  /\ \A t \in Tasks : RemembersItself(task[t])

(* A step that begins no start: the handler goes on in the same app, or    *)
(* is not a start any more and gives the in-flight entry back.             *)
StartKept(t) ==
  /\ OnlyMoves(t)
  /\ \/ /\ inflight' = inflight
        /\ \/ task'[t].op # "start"
           \/ /\ task'[t].op = task[t].op /\ task'[t].app = task[t].app
              /\ RemembersItself(task'[t])
     \/ /\ inflight' = inflight \ {task[t].app}
        /\ task[t].op = "start" /\ task'[t].op # "start"

(* Such a step keeps every in-flight entry with its one start. *)
LEMMA KeptStarts ==
  ASSUME StartInv, NEW t \in Tasks, StartKept(t)
  PROVE  StartInv'
<1>1. \A u \in Tasks : task'[u].op = "start" => task[u].op = "start" /\ task'[u].app = task[u].app
  BY DEF StartKept, OnlyMoves
<1>2. OneStartPerApp'
  BY <1>1 DEF StartInv, OneStartPerApp
<1>3. \A u \in Tasks : RemembersItself(task'[u])
  BY DEF StartInv, StartKept, OnlyMoves, RemembersItself
<1>4. \A u \in Tasks : task'[u].op = "start" => task'[u].app \in inflight'
  <2> SUFFICES ASSUME NEW u \in Tasks, task'[u].op = "start" PROVE task'[u].app \in inflight'
    OBVIOUS
  <2>1. task[u].app \in inflight /\ task'[u].app = task[u].app /\ task[u].op = "start"
    BY <1>1 DEF StartInv
  <2>2. CASE inflight' = inflight
    BY <2>1, <2>2
  <2>3. CASE inflight' = inflight \ {task[t].app} /\ task[t].op = "start" /\ task'[t].op # "start"
    <3>1. u # t
      BY <2>3
    <3>2. task[u].app # task[t].app
      BY <2>1, <2>3, <3>1 DEF StartInv, OneStartPerApp
    <3> QED
      BY <2>1, <2>3, <3>2
  <2> QED
    BY <2>2, <2>3 DEF StartKept
<1> QED
  BY <1>2, <1>3, <1>4 DEF StartInv

(* A start that begins takes an in-flight entry nobody has. *)
LEMMA BegunStarts ==
  ASSUME TypeInv, StartInv, NEW t \in Tasks, NEW a \in Apps, StartBegin(t, a)
  PROVE  StartInv'
<1> DEFINE r == [Idle EXCEPT !.op = "start", !.pc = "prepare", !.app = a]
<1>1. r.op = "start" /\ r.pc = "prepare" /\ r.app = a
  BY DEF Idle
<1>2. task' = [task EXCEPT ![t] = r] /\ a \notin inflight /\ inflight' = inflight \union {a}
  BY DEF StartBegin, MayStart
<1> HIDE DEF r
<1>3. task'[t] = r /\ \A u \in Tasks \ {t} : task'[u] = task[u]
  BY <1>2 DEF TypeInv, TypeOK
<1>4. \A u \in Tasks \ {t} : task[u].op = "start" => task[u].app # a
  BY <1>2 DEF StartInv
<1>5. OneStartPerApp'
  BY <1>1, <1>3, <1>4 DEF StartInv, OneStartPerApp
<1>6. \A u \in Tasks : RemembersItself(task'[u])
  BY <1>1, <1>3 DEF StartInv, RemembersItself
<1>7. \A u \in Tasks : task'[u].op = "start" => task'[u].app \in inflight'
  BY <1>1, <1>2, <1>3 DEF StartInv
<1> QED
  BY <1>5, <1>6, <1>7 DEF StartInv

(* The steps of a start keep each app's in-flight entry with its one start. *)
LEMMA StartSteps ==
  ASSUME TypeInv, StartInv, NEW t \in Tasks,
         \/ StartRefused(t) \/ StartPrepared(t) \/ StartRegister(t) \/ StartRegisterFails(t)
         \/ StartInstallCandidate(t) \/ StartSpawned(t) \/ StartSpawnFails(t)
         \/ StartAnnounce(t)
  PROVE  StartKept(t)
<1>0. /\ task \in [Tasks -> TaskState] /\ task[t] \in TaskState /\ WellPlaced(task[t])
      /\ RemembersItself(task[t])
  BY DEF TypeInv, TypeOK, StartInv
<1>1. CASE StartRefused(t) \/ StartRegisterFails(t)
  <2>1. task[t].op = "start"
    BY <1>0, <1>1 DEF StartRefused, StartRegisterFails, At, WellPlaced
  <2> QED
    BY <1>0, <1>1, <2>1, IdleFields
    DEF StartRefused, StartRegisterFails, Return, StartKept, OnlyMoves
<1>2. CASE StartPrepared(t)
  BY <1>0, <1>2 DEF StartPrepared, StartKept, OnlyMoves, RemembersItself, TaskState
<1>3. CASE StartRegister(t)
  <2> DEFINE next == RegisterCandidate(shell, task[t].app, task[t].inst)
  <2>1. task[t].app \in Apps /\ shell \in Manifest
    BY <1>0, <1>3 DEF StartRegister, At, WellPlaced, TypeInv, TypeOK
  <2>2. next.routes[task[t].app].candidate = task[t].inst
    BY <2>1 DEF RegisterCandidate, WithRoute, Manifest
  <2>3. task' = [task EXCEPT ![t].next = next, ![t].pc = "installCandidate"]
        /\ inflight' = inflight
    BY <1>3 DEF StartRegister, WriteIfRevisionMatches
  <2> HIDE DEF next
  <2>4. /\ task'[t].op = task[t].op /\ task'[t].app = task[t].app
        /\ task'[t].inst = task[t].inst /\ task'[t].pc = "installCandidate"
        /\ task'[t].next = next
    BY <1>0, <2>3 DEF TaskState
  <2>5. OnlyMoves(t)
    BY <1>0, <2>3 DEF OnlyMoves
  <2> QED
    BY <2>2, <2>3, <2>4, <2>5 DEF StartKept, RemembersItself
<1>4. CASE StartInstallCandidate(t)
  BY <1>0, <1>4 DEF StartInstallCandidate, At, StartKept, OnlyMoves, RemembersItself, TaskState
<1>5. CASE StartSpawned(t)
  BY <1>0, <1>5 DEF StartSpawned, At, Goto, StartKept, OnlyMoves, RemembersItself, TaskState
<1>6. CASE StartSpawnFails(t)
  BY <1>0, <1>6 DEF StartSpawnFails, Goto, StartKept, OnlyMoves, RemembersItself, TaskState
<1>7. CASE StartAnnounce(t)
  BY <1>0, <1>7 DEF StartAnnounce, At, Goto, StartKept, OnlyMoves, RemembersItself, TaskState
<1> QED
  BY <1>1, <1>2, <1>3, <1>4, <1>5, <1>6, <1>7

(* A step of a handler that is no start, or of a start that no longer      *)
(* needs what it remembers.                                                *)
LEMMA StartsElsewhere ==
  ASSUME NEW t \in Tasks, OnlyMoves(t), inflight' = inflight,
         \/ task'[t].op # "start"
         \/ /\ task'[t].op = task[t].op /\ task'[t].app = task[t].app
            /\ task'[t].pc \notin {"installCandidate", "spawn", "announce", "cutover"}
  PROVE  StartKept(t)
  BY DEF StartKept, RemembersItself

(* So do cutovers and syncs, and a start remembers the instance it registered. *)
LEMMA CutoverSteps ==
  ASSUME TypeInv, StartInv, NEW t \in Tasks,
         \/ \E i \in Instances : SwitchBegin(t, i)
         \/ Cutover(t) \/ CutoverRefused(t) \/ CutoverInstall(t)
         \/ SyncReadPool(t) \/ SyncReadRoutes(t) \/ SyncPublish(t)
  PROVE  StartKept(t)
<1>0. task \in [Tasks -> TaskState] /\ task[t] \in TaskState /\ WellPlaced(task[t])
  BY DEF TypeInv, TypeOK
<1>1. ASSUME NEW i \in Instances, SwitchBegin(t, i) PROVE StartKept(t)
  <2> DEFINE r == [Idle EXCEPT !.op = "switch", !.pc = "cutover",
                     !.app = AppOf(i), !.inst = i, !.seen = shell]
  <2>1. r.op = "switch"
    BY DEF Idle
  <2>2. task' = [task EXCEPT ![t] = r] /\ inflight' = inflight
    BY <1>1 DEF SwitchBegin
  <2> HIDE DEF r
  <2> QED
    BY <1>0, <2>1, <2>2, StartsElsewhere DEF OnlyMoves
<1>2. CASE Cutover(t)
  BY <1>0, <1>2, StartsElsewhere DEF Cutover, WriteIfRevisionMatches, OnlyMoves, TaskState
<1>3. CASE CutoverRefused(t)
  <2>1. task' = [task EXCEPT ![t].pc = "abort"] \/ task' = [task EXCEPT ![t] = Idle]
    BY <1>3 DEF CutoverRefused, Goto, Return
  <2>2. inflight' = inflight
    BY <1>3 DEF CutoverRefused
  <2> QED
    BY <1>0, <2>1, <2>2, IdleFields, StartsElsewhere DEF OnlyMoves, TaskState
<1>4. CASE CutoverInstall(t)
  <2>1. OnlyMoves(t) /\ task'[t].op = task[t].op /\ task'[t].app = task[t].app
        /\ task'[t].pc = "snap"
    BY <1>0, <1>4 DEF CutoverInstall, OnlyMoves, TaskState
  <2> QED
    BY <1>4, <2>1, StartsElsewhere DEF CutoverInstall
<1>5. CASE SyncReadPool(t) \/ SyncReadRoutes(t)
  <2>1. OnlyMoves(t) /\ task'[t].op = task[t].op /\ task'[t].app = task[t].app
        /\ task'[t].pc \in {"routes", "publish"}
    BY <1>0, <1>5 DEF SyncReadPool, SyncReadRoutes, OnlyMoves, TaskState
  <2>2. inflight' = inflight
    BY <1>5 DEF SyncReadPool, SyncReadRoutes
  <2> QED
    BY <2>1, <2>2, StartsElsewhere
<1>6. CASE SyncPublish(t)
  <2>1. \/ /\ task[t].then \in {"drain", "respawned", "restarted"}
           /\ task' = [task EXCEPT ![t].pc = IF task[t].then = "drain" THEN "drain"
                                                                     ELSE "rollback"]
        \/ /\ task[t].then \notin {"drain", "respawned", "restarted"}
           /\ task' = [task EXCEPT ![t] = Idle]
    BY <1>6 DEF SyncPublish, AfterSync, Goto, Return
  <2>2. OnlyMoves(t)
    BY <1>0, <2>1 DEF OnlyMoves
  <2>3. CASE task[t].then \in {"armed", "dropped"}
    <3>1. task[t].op = "start" /\ task'[t].op # "start"
      BY <1>0, <2>1, <2>3, IdleFields DEF WellPlaced
    <3>2. inflight' = inflight \ {task[t].app}
      BY <1>6, <2>3 DEF SyncPublish, AfterSync
    <3> QED
      BY <2>2, <3>1, <3>2 DEF StartKept
  <2>4. CASE task[t].then \notin {"armed", "dropped"}
    <3>1. inflight' = inflight
      BY <1>6, <2>4 DEF SyncPublish, AfterSync
    <3>2. \/ task'[t].op # "start"
          \/ /\ task'[t].op = task[t].op /\ task'[t].app = task[t].app
             /\ task'[t].pc \in {"drain", "rollback"}
      BY <1>0, <2>1, IdleFields DEF TaskState
    <3> QED
      BY <2>2, <3>1, <3>2, StartsElsewhere
  <2> QED
    BY <2>3, <2>4
<1> QED
  BY <1>1, <1>2, <1>3, <1>4, <1>5, <1>6

(* So does retiring the previous instance. *)
LEMMA RetireSteps ==
  ASSUME TypeInv, StartInv, NEW t \in Tasks,
         \/ RetireStop(t) \/ RetireUnregister(t) \/ Retire(t) \/ InstallEdit(t)
         \/ StartAbort(t) \/ StartUnlist(t) \/ Discard(t)
  PROVE  StartKept(t)
<1>0. task \in [Tasks -> TaskState] /\ task[t] \in TaskState
  BY DEF TypeInv, TypeOK
<1>1. ASSUME NEW pc \in {"unregister", "retire", "unlist", "discard", "snap"}, Goto(t, pc),
             inflight' = inflight
      PROVE  StartKept(t)
  BY <1>0, <1>1, StartsElsewhere DEF Goto, OnlyMoves, TaskState
<1>2. ASSUME NEW next, NEW then, EditOrSkip(t, next, then), inflight' = inflight
      PROVE  StartKept(t)
  <2>1. \/ task' = [task EXCEPT ![t].next = next, ![t].then = then, ![t].pc = "installEdit"]
        \/ task' = [task EXCEPT ![t].then = then, ![t].pc = "snap"]
    BY <1>2 DEF EditOrSkip
  <2> QED
    BY <1>0, <1>2, <2>1, StartsElsewhere DEF OnlyMoves, TaskState
<1> QED
  BY <1>1, <1>2 DEF RetireStop, RetireUnregister, Retire, InstallEdit, StartAbort,
     StartUnlist, Discard

(* So do the steps of a stop. *)
LEMMA StopSteps ==
  ASSUME TypeInv, StartInv, NEW t \in Tasks,
         \/ \E a \in Apps : StopBegin(t, a)
         \/ StopCommit(t) \/ StopConflict(t) \/ StopInstall(t) \/ StopUnroute(t)
         \/ \E i \in Instances : StopKill(t, i)
  PROVE  StartKept(t)
<1>0. task \in [Tasks -> TaskState] /\ task[t] \in TaskState /\ WellPlaced(task[t])
  BY DEF TypeInv, TypeOK
<1>1. ASSUME NEW a \in Apps, StopBegin(t, a) PROVE StartKept(t)
  <2>1. \A ids : [Idle EXCEPT !.op = "stop", !.pc = "stop", !.app = a, !.ids = ids].op = "stop"
    BY DEF Idle
  <2>2. task' = task \/ \E ids : task' = [task EXCEPT ![t] =
          [Idle EXCEPT !.op = "stop", !.pc = "stop", !.app = a, !.ids = ids]]
    BY <1>1 DEF StopBegin
  <2>3. task[t].op = "none" /\ inflight' = inflight
    BY <1>1, IdleFields DEF StopBegin
  <2> QED
    BY <1>0, <2>1, <2>2, <2>3, StartsElsewhere DEF OnlyMoves
<1>2. CASE StopCommit(t)
  BY <1>0, <1>2, StartsElsewhere DEF StopCommit, WriteIfRevisionMatches, OnlyMoves, TaskState
<1>3. CASE StopConflict(t)
  BY <1>0, <1>3, IdleFields, StartsElsewhere DEF StopConflict, Return, OnlyMoves
<1>4. CASE StopInstall(t) \/ StopUnroute(t)
  BY <1>0, <1>4, StartsElsewhere DEF StopInstall, StopUnroute, Goto, OnlyMoves, TaskState
<1>5. ASSUME NEW i \in Instances, StopKill(t, i) PROVE StartKept(t)
  <2>1. task[t].op = "stop" /\ inflight' = inflight
    BY <1>0, <1>5 DEF StopKill, At, WellPlaced
  <2>2. \/ task' = [task EXCEPT ![t] = Idle]
        \/ task' = [task EXCEPT ![t] = [task[t] EXCEPT !.ids = task[t].ids \ {i}]]
    BY <1>5 DEF StopKill
  <2>3. OnlyMoves(t) /\ task'[t].op # "start"
    BY <1>0, <2>1, <2>2, IdleFields DEF OnlyMoves, TaskState
  <2> QED
    BY <2>1, <2>3, StartsElsewhere
<1> QED
  BY <1>1, <1>2, <1>3, <1>4, <1>5

(* So do rollbacks, handlers of single instances, watchdogs and dropped handlers. *)
LEMMA OtherSteps ==
  ASSUME TypeInv, StartInv, NEW t \in Tasks,
         \/ \E a \in Apps : RollbackBegin(t, a)
         \/ RollbackRespawn(t) \/ RollbackRestart(t)
         \/ RollbackCommit(t) \/ RollbackInstall(t)
         \/ \E i \in Instances : \/ StopInstanceBegin(t, i) \/ RestartBegin(t, i)
                                 \/ WatchdogFires(t, i)
         \/ StopInstance(t) \/ RestartRead(t) \/ RestartStop(t) \/ RestartSpawned(t)
         \/ RestartFails(t) \/ CopyReadPool(t) \/ CopyToMirror(t) \/ Dropped(t)
  PROVE  StartKept(t)
<1>0. task \in [Tasks -> TaskState] /\ task[t] \in TaskState /\ WellPlaced(task[t])
  BY DEF TypeInv, TypeOK
<1>1. ASSUME NEW r, r.op # "start", task' = [task EXCEPT ![t] = r], inflight' = inflight
      PROVE  StartKept(t)
  BY <1>0, <1>1, StartsElsewhere DEF OnlyMoves
<1>2. ASSUME NEW a \in Apps, RollbackBegin(t, a) PROVE StartKept(t)
  <2> DEFINE prev == disk.routes[a].previous
             r == [Idle EXCEPT !.op = "rollback", !.app = a, !.seen = disk, !.inst = prev,
                     !.pc = IF Ready(prev) THEN "rollback" ELSE "respawn"]
  <2>1. r.op = "rollback"
    BY DEF Idle
  <2>2. task' = [task EXCEPT ![t] = r] /\ inflight' = inflight
    BY <1>2 DEF RollbackBegin
  <2> HIDE DEF r
  <2> QED
    BY <1>1, <2>1, <2>2
<1>3. ASSUME NEW i \in Instances,
             StopInstanceBegin(t, i) \/ RestartBegin(t, i) \/ WatchdogFires(t, i)
      PROVE  StartKept(t)
  <2> DEFINE s == [Idle EXCEPT !.op = "stopInstance", !.inst = i, !.pc = "stopInstance"]
             q == [Idle EXCEPT !.op = "restart", !.inst = i, !.pc = "restartStop",
                     !.then = "unlocked"]
             w == [Idle EXCEPT !.op = "watchdog", !.inst = i, !.pc = "restart",
                     !.then = "watched"]
  <2>1. s.op = "stopInstance" /\ q.op = "restart" /\ w.op = "watchdog"
    BY DEF Idle
  <2>2. inflight' = inflight
        /\ \/ task' = [task EXCEPT ![t] = s] \/ task' = [task EXCEPT ![t] = q]
           \/ task' = [task EXCEPT ![t] = w]
    BY <1>3 DEF StopInstanceBegin, RestartBegin, WatchdogFires
  <2> HIDE DEF s, q, w
  <2> QED
    BY <1>1, <2>1, <2>2
<1>4. CASE RollbackRespawn(t) \/ RollbackRestart(t)
  BY <1>0, <1>4, StartsElsewhere DEF RollbackRespawn, RollbackRestart, OnlyMoves, TaskState
<1>5. CASE RollbackCommit(t)
  <2>1. inflight' = inflight
        /\ \/ \E next : task' = [task EXCEPT ![t].next = next, ![t].pc = "installRollback"]
           \/ task' = [task EXCEPT ![t] = Idle]
    BY <1>5 DEF RollbackCommit, WriteIfRevisionMatches, Return
  <2> QED
    BY ZenonT(60), <1>0, <2>1, IdleFields, StartsElsewhere DEF OnlyMoves, TaskState
<1>6. CASE RollbackInstall(t)
  BY <1>1, <1>6, IdleFields DEF RollbackInstall, Return
<1>7. CASE StopInstance(t) \/ CopyReadPool(t) \/ CopyToMirror(t)
  <2>1. OnlyMoves(t) /\ task'[t].op = task[t].op /\ task'[t].app = task[t].app
        /\ task'[t].pc \in {"copy", "mirror", "snap"}
    BY <1>0, <1>7 DEF StopInstance, CopyReadPool, CopyToMirror, OnlyMoves, TaskState
  <2>2. inflight' = inflight
    BY <1>7 DEF StopInstance, CopyReadPool, CopyToMirror
  <2> QED
    BY <2>1, <2>2, StartsElsewhere
<1>8. CASE RestartRead(t)
  <2>1. inflight' = inflight
        /\ \/ task' = [task EXCEPT ![t].pc = "restartStop"] \/ task' = [task EXCEPT ![t] = Idle]
    BY <1>8 DEF RestartRead, Goto, Return
  <2> QED
    BY <1>0, <2>1, IdleFields, StartsElsewhere DEF OnlyMoves, TaskState
<1>9. CASE RestartStop(t) \/ RestartSpawned(t)
  BY <1>0, <1>9, StartsElsewhere DEF RestartStop, RestartSpawned, Goto, OnlyMoves, TaskState
<1>10. CASE Dropped(t)
  <2>1. task' = [task EXCEPT ![t] = Idle]
        /\ inflight' = IF task[t].op = "start" THEN inflight \ {task[t].app} ELSE inflight
    BY <1>10 DEF Dropped, Return
  <2>2. OnlyMoves(t) /\ task'[t].op # "start"
    BY <1>0, <2>1, IdleFields DEF OnlyMoves
  <2> QED
    BY <2>1, <2>2 DEF StartKept
<1>11. CASE RestartFails(t)
  <2>1. inflight' = inflight
        /\ \/ task' = [task EXCEPT ![t].pc = "copy", ![t].then = "notReady"]
           \/ task' = [task EXCEPT ![t] = Idle]
    BY <1>11 DEF RestartFails, Return
  <2>2. task[t].op # "start"
    BY <1>0, <1>11 DEF RestartFails, At, WellPlaced
  <2> QED
    BY ZenonT(60), <1>0, <2>1, <2>2, IdleFields, StartsElsewhere DEF OnlyMoves, TaskState
<1> QED
  BY <1>2, <1>3, <1>4, <1>5, <1>6, <1>7, <1>8, <1>9, <1>10, <1>11

(* So does every step of the control plane. *)
LEMMA StartNext == TypeInv /\ StartInv /\ [Next]_vars => StartInv'
<1> SUFFICES ASSUME TypeInv, StartInv, [Next]_vars PROVE StartInv'
  OBVIOUS
<1>1. CASE UNCHANGED vars
  BY <1>1 DEF vars, StartInv, OneStartPerApp, RemembersItself
<1>2. ASSUME NEW t \in Tasks, Begins(t) PROVE StartInv'
  BY <1>2, BegunStarts, KeptStarts, CutoverSteps, StopSteps, OtherSteps DEF Begins
<1>3. ASSUME NEW t \in Tasks, Takes(t) PROVE StartInv'
  BY <1>3, KeptStarts, StartSteps, CutoverSteps, RetireSteps, StopSteps DEF Takes
<1>4. ASSUME NEW t \in Tasks, Goes(t) PROVE StartInv'
  BY <1>4, KeptStarts, StartSteps, CutoverSteps, RetireSteps, StopSteps, OtherSteps DEF Goes
<1>5. ASSUME NEW t \in Tasks, Dropped(t) PROVE StartInv'
  BY <1>5, KeptStarts, OtherSteps
<1>6. ASSUME NEW i \in Instances, ChildExits(i) \/ WatchdogGivesUp(i) PROVE StartInv'
  BY <1>6 DEF ChildExits, WatchdogGivesUp, manifests, StartInv, OneStartPerApp, RemembersItself
<1> QED
  BY <1>1, <1>2, <1>3, <1>4, <1>5, <1>6 DEF Next

(* A fresh host has no start in flight. *)
LEMMA StartInit == Init => StartInv
  BY IdleFields DEF Init, StartInv, OneStartPerApp, RemembersItself

(* No two starts of one app run at once, also when starts are refused,     *)
(* fail or are dropped half way: AppStartInflight is released only by the  *)
(* start that set it.                                                      *)
THEOREM OneStartAtATime == Spec => []OneStartPerApp
<1>1. StartInv => OneStartPerApp
  BY DEF StartInv
<1> QED
  BY <1>1, TypeInit, TypeNext, StartInit, StartNext, PTL DEF Spec

(* Only Cutover leads from the one pc to the other.                        *)
LEMMA OnlyCutover ==
  ASSUME TypeInv, StartInv, [Next]_vars, NEW t \in Tasks, task[t].op = "start",
         task[t].pc = "cutover", task'[t].pc = "installCutover"
  PROVE  Cutover(t)
<1>0. task[t] # Idle
  BY IdleFields
<1>1. \A u \in Tasks : Begins(u) \/ Takes(u) \/ Goes(u) \/ Dropped(u) => u = t \/ OnlyMoves(u)
  <2> SUFFICES ASSUME NEW u \in Tasks, Begins(u) \/ Takes(u) \/ Goes(u) \/ Dropped(u), u # t
               PROVE  OnlyMoves(u)
    OBVIOUS
  <2>1. CASE Begins(u)
    BY <2>1, CutoverSteps, StopSteps, OtherSteps DEF Begins, StartKept, StartBegin, OnlyMoves,
       TypeInv, TypeOK
  <2>2. CASE Takes(u)
    BY <2>2, StartSteps, CutoverSteps, RetireSteps, StopSteps DEF Takes, StartKept
  <2>3. CASE Goes(u)
    BY <2>3, StartSteps, CutoverSteps, RetireSteps, StopSteps, OtherSteps DEF Goes, StartKept
  <2>4. CASE Dropped(u)
    BY <2>4, OtherSteps DEF StartKept
  <2> QED
    BY <2>1, <2>2, <2>3, <2>4
<1>2. task'[t] # task[t]
  OBVIOUS
<1>3. ~Begins(t)
  BY <1>0 DEF Begins, StartBegin, StopBegin, RollbackBegin, SwitchBegin, StopInstanceBegin,
     RestartBegin, WatchdogFires, Begin
<1>4. ~Goes(t)
  BY DEF Goes, At, StartRefused, StartPrepared, StartRegisterFails, StartInstallCandidate,
     StartSpawned, StartSpawnFails, StartAnnounce, CutoverInstall, SyncReadPool,
     SyncReadRoutes, SyncPublish, RetireStop, RetireUnregister, InstallEdit, StartAbort,
     StartUnlist, StopConflict, StopInstall, StopUnroute, StopKill, RollbackRespawn,
     RollbackRestart, RollbackCommit, RollbackInstall, StopInstance, RestartRead, RestartStop,
     RestartSpawned, RestartFails, CopyReadPool, CopyToMirror
<1>5. ~Dropped(t)
  <2>1. Dropped(t) => task'[t].pc = "idle"
    BY IdleFields DEF Dropped, Return, TypeInv, TypeOK
  <2> QED
    BY <2>1
<1>6. Takes(t) => Cutover(t)
  <2>1. CutoverRefused(t) => task'[t].pc = "abort"
    BY DEF CutoverRefused, Goto, TypeInv, TypeOK, TaskState
  <2> QED
    BY <2>1 DEF Takes, At, StartRegister, Retire, Discard, StopCommit
<1>7. ASSUME NEW i \in Instances, ChildExits(i) \/ WatchdogGivesUp(i) PROVE task' = task
  BY <1>7 DEF ChildExits, WatchdogGivesUp
<1>8. UNCHANGED vars => task' = task
  BY DEF vars
<1>9. PICK u \in Tasks : Begins(u) \/ Takes(u) \/ Goes(u) \/ Dropped(u)
  BY <1>2, <1>7, <1>8 DEF Next
<1>10. u = t
  BY <1>1, <1>2, <1>9 DEF OnlyMoves
<1> QED
  BY <1>3, <1>4, <1>5, <1>6, <1>9, <1>10

(* A start cuts over to a candidate: the revision it compares is the one   *)
(* it registered under.                                                    *)
LEMMA CutsOverCandidate ==
  ASSUME TypeInv, StartInv, [Next]_vars, NEW t \in Tasks, task[t].op = "start",
         task[t].pc = "cutover", task'[t].pc = "installCutover"
  PROVE  disk.routes[task[t].app].candidate = task[t].inst
<1>1. Cutover(t)
  BY OnlyCutover
<1>2. shell = task[t].seen /\ disk = shell
  BY <1>1 DEF Cutover, CutoverAllowed, WriteIfRevisionMatches
<1> QED
  BY <1>2 DEF StartInv, RemembersItself

(* Whatever other starts, stops, rollbacks and operators do meanwhile, the *)
(* cutover of a start commits only while its instance is still the app's   *)
(* candidate.                                                              *)
THEOREM StartsOverrideNothing == Spec => StartNeverOverrides
<1>1. TypeInv /\ StartInv /\ [Next]_vars =>
        [\A t \in Tasks :
           task[t].op = "start" /\ task[t].pc = "cutover" /\ task'[t].pc = "installCutover"
             => disk.routes[task[t].app].candidate = task[t].inst]_vars
  BY CutsOverCandidate
<1> QED
  BY <1>1, TypeInit, TypeNext, StartInit, StartNext, PTL DEF Spec, StartNeverOverrides
=============================================================================
