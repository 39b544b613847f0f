------------------------- MODULE HostRestartProofs -------------------------
(***************************************************************************)
(* Proofs about hosts that are killed, torn down and started again, for    *)
(* any number of apps, handlers, starts, spawns and restarts.  The steps   *)
(* of a host that runs are those of RuntimeControl: what is proved of them *)
(* (TypeNext, StartNext, RouteNext, LockNext, SteadyNext, OrphanNext,      *)
(* TableNext) carries over, and only the steps of HostRestart are new.     *)
(***************************************************************************)
EXTENDS HostRestart, RuntimeControlRoutes

(* A task of a host that does not serve is at rest.                        *)
LEMMA AwayTypes ==
  ASSUME NEW phase \in {"down", "sweeping"}
  PROVE  /\ Away(phase) \in TaskState /\ WellPlaced(Away(phase))
         /\ Away(phase).op = "none" /\ Away(phase).pc = phase
<1> DEFINE r == Away(phase)
<1>1. r \in TaskState
  BY IdleTypes DEF Away, TaskState, Pcs
<1>2. /\ r.op = "none" /\ r.pc = phase /\ r.then = "none"
  BY DEF Away, Idle
<1> HIDE DEF r
<1>3. WellPlaced(r)
  BY <1>2 DEF WellPlaced
<1> QED
  BY <1>1, <1>2, <1>3 DEF r

(* What a host forgets is what a fresh one has not got yet. *)
LEMMA ForgetTypes ==
  ASSUME Forget
  PROVE  /\ shell' \in Manifest /\ mutex' \in Tasks \union {None}
         /\ pool' \in [Instances -> 0 .. MaxSpawns] /\ mirror' \in [Instances -> 0 .. MaxSpawns]
         /\ table' \in [Apps -> RouteEntry] /\ inflight' \subseteq Apps
         /\ watch' \in [Instances -> Nat]
         /\ task' \in [Tasks -> TaskState] /\ \A t \in Tasks : WellPlaced(task'[t])
<1>1. task' \in [Tasks -> TaskState] /\ \A t \in Tasks : WellPlaced(task'[t])
  BY AwayTypes DEF Forget
<1>2. /\ pool' \in [Instances -> 0 .. MaxSpawns] /\ mirror' \in [Instances -> 0 .. MaxSpawns]
      /\ watch' \in [Instances -> Nat] /\ table' \in [Apps -> RouteEntry]
  BY EntryTypes, ControlAssumption DEF Forget
<1> QED
  BY <1>1, <1>2, IdleTypes DEF Forget

(* A settled manifest is a manifest. *)
LEMMA SettledType ==
  ASSUME NEW m \in Manifest
  PROVE  Settled(m) \in Manifest
<1>1. \A i \in Instances : (IF m.instances[i] = "Running" THEN "Stopped" ELSE m.instances[i])
                             \in Desired
  BY DEF Manifest, Desired
<1>2. \A a \in Apps : (IF m.routes[a].active = None THEN m.routes[a]
                         ELSE [EmptyRoute EXCEPT !.previous = m.routes[a].active])
                        \in RouteBinding
  BY DEF Manifest, RouteBinding, EmptyRoute
<1> QED
  BY <1>1, <1>2 DEF Settled, Manifest

(* Every step of a host, its end and its start included, keeps the types. *)
LEMMA RestartTypeNext == TypeInv /\ [RestartNext]_vars => TypeInv'
<1> SUFFICES ASSUME TypeInv, [RestartNext]_vars PROVE TypeInv'
  OBVIOUS
<1>0. TypeInv /\ disk \in Manifest /\ alive \subseteq Placed
      /\ spawns \in [Instances -> 0 .. MaxSpawns] /\ started \in [Apps -> 0 .. MaxStarts]
  BY DEF TypeInv, TypeOK
<1>2. CASE [Next]_vars
  BY <1>2, TypeNext
<1>3. CASE HostKilled
  <2>1. PICK left \in SUBSET HalfStarted :
          /\ alive' = alive \union left
          /\ spawns' = [i \in Instances |->
                          IF <<i, spawns[i] + 1>> \in left THEN spawns[i] + 1 ELSE spawns[i]]
    BY <1>3 DEF HostKilled
  <2>2. HalfStarted \subseteq Placed
    BY <1>0, ControlAssumption DEF HalfStarted, Placed
  <2>3. \A i \in Instances : <<i, spawns[i] + 1>> \in left => spawns[i] + 1 \in 0 .. MaxSpawns
    BY <1>0, <2>2, ControlAssumption DEF Placed
  <2>4. spawns' \in [Instances -> 0 .. MaxSpawns]
    BY <1>0, <2>1, <2>3
  <2>5. alive' \subseteq Placed
    BY <1>0, <2>1, <2>2
  <2>6. Forget /\ disk' = disk /\ started' = started
    BY <1>3 DEF HostKilled
  <2> QED
    BY <1>0, <2>4, <2>5, <2>6, ForgetTypes DEF TypeInv, TypeOK
<1>4. CASE HostTornDown
  <2>1. /\ Forget /\ disk' = disk /\ started' = started
        /\ alive' = {} /\ spawns' = spawns
    BY <1>4 DEF HostTornDown
  <2> QED
    BY <1>0, <2>1, ForgetTypes DEF TypeInv, TypeOK
<1>5. CASE ParentGone
  <2>1. alive' \subseteq alive
    BY <1>5 DEF ParentGone
  <2> QED
    BY <1>5, <2>1 DEF ParentGone, TypeInv, TypeOK, manifests
<1>6. CASE Boot
  BY <1>0, <1>6, SettledType, AwayTypes DEF Boot, TypeInv, TypeOK, processes
<1>7. CASE Sweep
  BY <1>7, IdleTypes DEF Sweep, TypeInv, TypeOK, manifests
<1> QED
  BY <1>2, <1>3, <1>4, <1>5, <1>6, <1>7 DEF RestartNext

(* TypeOK holds over any number of restarts: what one host leaves behind   *)
(* is what the next one can take up.                                       *)
THEOREM RestartTypeCorrect == RestartSpec => []TypeOK
<1>1. TypeInv => TypeOK
  BY DEF TypeInv
<1> QED
  BY <1>1, TypeInit, RestartTypeNext, PTL DEF RestartSpec

-----------------------------------------------------------------------------
(* A host that serves knows its children.                                  *)

Known == \A p \in alive : pool[p[1]] = p[2]

(* Stopping an instance kills the one child the pool has of it. *)
LEMMA StopKnown ==
  ASSUME TypeInv, Known, NEW i, StopFrom(i)
  PROVE  Known'
<1>1. \A p \in alive : p \in Placed /\ p = <<p[1], p[2]>> /\ p[1] \in Instances
  BY DEF TypeInv, TypeOK, Placed
<1>2. pool \in [Instances -> 0 .. MaxSpawns]
  BY DEF TypeInv, TypeOK
<1>3. ASSUME NEW p \in alive' PROVE pool'[p[1]] = p[2]
  <2>1. p \in alive /\ p # <<i, pool[i]>>
    BY <1>3 DEF StopFrom
  <2>2. pool[p[1]] = p[2]
    BY <2>1 DEF Known
  <2>3. p[1] # i
    BY <1>1, <2>1, <2>2
  <2> QED
    BY <1>1, <1>2, <2>1, <2>2, <2>3 DEF StopFrom
<1> QED
  BY <1>3 DEF Known

(* An instance is spawned only while the pool has none, and so no child. *)
LEMMA SpawnKnown ==
  ASSUME TypeInv, Known, NEW i \in Instances, SpawnInto(i)
  PROVE  Known'
<1>1. \A p \in alive : p[1] \in Instances /\ p[2] # 0
  BY DEF TypeInv, TypeOK, Placed
<1>2. pool \in [Instances -> 0 .. MaxSpawns]
  BY DEF TypeInv, TypeOK
<1>3. pool[i] = 0 /\ pool' = [pool EXCEPT ![i] = spawns[i] + 1]
      /\ alive' = alive \union {<<i, spawns[i] + 1>>}
  BY DEF SpawnInto, Managed
<1>4. ASSUME NEW p \in alive PROVE pool'[p[1]] = p[2]
  BY <1>1, <1>2, <1>3 DEF Known
<1>5. pool'[i] = spawns[i] + 1
  BY <1>2, <1>3
<1> QED
  BY <1>3, <1>4, <1>5 DEF Known

(* No step of a running host makes it lose a child. *)
LEMMA KnownNext == TypeInv /\ Known /\ [Next]_vars => Known'
<1> SUFFICES ASSUME TypeInv, Known, [Next]_vars PROVE Known'
  OBVIOUS
<1>1. ASSUME UNCHANGED <<pool, alive>> PROVE Known'
  BY <1>1 DEF Known
<1>2. ASSUME NEW t \in Tasks, Begins(t) PROVE Known'
  BY <1>1, <1>2 DEF Begins, processes, StartBegin, StopBegin, RollbackBegin, SwitchBegin,
     StopInstanceBegin, RestartBegin, WatchdogFires
<1>3. ASSUME NEW t \in Tasks, Takes(t) PROVE Known'
  BY <1>1, <1>3 DEF Takes, processes, StartRegister, Cutover, CutoverRefused, Retire, Discard,
     StopCommit
<1>4. ASSUME NEW t \in Tasks, Goes(t) PROVE Known'
  <2>1. CASE StartSpawned(t) \/ RollbackRespawn(t) \/ RestartSpawned(t)
    <3>1. task[t].inst \in Instances
      BY <2>1 DEF StartSpawned, RollbackRespawn, RestartSpawned, At, TypeInv, WellPlaced
    <3>2. SpawnInto(task[t].inst) \/ UNCHANGED <<pool, alive>>
      BY <2>1 DEF StartSpawned, RollbackRespawn, RestartSpawned, processes
    <3> QED
      BY <1>1, <3>1, <3>2, SpawnKnown
  <2>2. CASE RetireStop(t) \/ StartAbort(t) \/ StopInstance(t) \/ RestartStop(t)
             \/ \E i \in Instances : StopKill(t, i)
    <3>1. \E i : StopFrom(i)
      BY <2>2 DEF RetireStop, StartAbort, StopInstance, RestartStop, StopKill
    <3> QED
      BY <3>1, StopKnown
  <2>3. CASE UNCHANGED <<pool, alive>>
    BY <1>1, <2>3
  <2> QED
    BY <1>4, <2>1, <2>2, <2>3 DEF Goes, processes, StartRefused, StartPrepared,
       StartRegisterFails, StartInstallCandidate, StartSpawnFails, StartAnnounce,
       CutoverInstall, SyncReadPool, SyncReadRoutes, SyncPublish, RetireUnregister,
       InstallEdit, StartUnlist, StopConflict, StopInstall, StopUnroute, RollbackRestart,
       RollbackCommit, RollbackInstall, RestartRead, RestartFails, CopyReadPool, CopyToMirror
<1>5. ASSUME NEW t \in Tasks, Dropped(t) PROVE Known'
  BY <1>1, <1>5 DEF Dropped, processes
<1>6. ASSUME NEW i \in Instances, ChildExits(i) \/ WatchdogGivesUp(i) PROVE Known'
  BY <1>6 DEF ChildExits, WatchdogGivesUp, processes, Known
<1> QED
  BY <1>1, <1>2, <1>3, <1>4, <1>5, <1>6 DEF Next, vars, processes

(* Only a host that serves runs a handler. *)
LEMMA HandlersServe ==
  ASSUME TypeInv, NEW t \in Tasks, Begins(t) \/ Takes(t) \/ Goes(t) \/ Dropped(t)
  PROVE  /\ Serves
         /\ Begins(t) \/ task[t].pc \notin {"idle", "down", "sweeping"}
<1>1. Begins(t) => task[t].pc = "idle"
  BY IdleFields DEF Begins, Begin, StartBegin, StopBegin, RollbackBegin, SwitchBegin,
     StopInstanceBegin, RestartBegin, WatchdogFires
<1>2. ASSUME ~ Begins(t) PROVE task[t].pc \notin {"idle", "down", "sweeping"}
  <2>1. CASE Takes(t)
    BY <2>1 DEF Takes, At, StartRegister, Cutover, CutoverRefused, Retire, Discard, StopCommit
  <2>2. CASE Goes(t)
    BY <2>2 DEF Goes, At, StartRefused, StartPrepared, StartRegisterFails,
       StartInstallCandidate, StartSpawned, StartSpawnFails, StartAnnounce, CutoverInstall,
       SyncReadPool, SyncReadRoutes, SyncPublish, RetireStop, RetireUnregister, InstallEdit,
       StartAbort, StartUnlist, StopConflict, StopInstall, StopUnroute, StopKill,
       RollbackRespawn, RollbackRestart, RollbackCommit, RollbackInstall, StopInstance,
       RestartRead, RestartStop, RestartSpawned, RestartFails, CopyReadPool, CopyToMirror
  <2>3. CASE Dropped(t)
    BY <2>3 DEF Dropped, AwaitPcs
  <2> QED
    BY <1>2, <2>1, <2>2, <2>3
<1> QED
  BY <1>1, <1>2 DEF Serves

(* A task that begins has an operation, but for a stop with nothing to do. *)
LEMMA BegunOps ==
  ASSUME TypeInv, NEW t \in Tasks, Begins(t)
  PROVE  task' = task \/ task'[t].op # "none"
<1>0. task \in [Tasks -> TaskState]
  BY DEF TypeInv, TypeOK
<1>1. ASSUME NEW a \in Apps, StartBegin(t, a) PROVE task'[t].op = "start"
  <2> DEFINE r == [Idle EXCEPT !.op = "start", !.pc = "prepare", !.app = a]
  <2>1. r.op = "start"
    BY DEF Idle
  <2> HIDE DEF r
  <2> QED
    BY <1>0, <1>1, <2>1 DEF StartBegin, r
<1>2. ASSUME NEW a \in Apps, StopBegin(t, a) PROVE task' = task \/ task'[t].op = "stop"
  <2> DEFINE ids == {i \in Instances : AppOf(i) = a /\ (Managed(i) \/ Active(shell, a) = i)}
             r == [Idle EXCEPT !.op = "stop", !.pc = "stop", !.app = a, !.ids = ids]
  <2>1. r.op = "stop"
    BY DEF Idle
  <2>2. task' = task \/ task' = [task EXCEPT ![t] = r]
    BY <1>2 DEF StopBegin
  <2> HIDE DEF r, ids
  <2> QED
    BY <1>0, <2>1, <2>2
<1>3. ASSUME NEW a \in Apps, RollbackBegin(t, a) PROVE task'[t].op = "rollback"
  <2> DEFINE r == [Idle EXCEPT !.op = "rollback", !.app = a, !.seen = disk,
                !.inst = disk.routes[a].previous,
                !.pc = IF Ready(disk.routes[a].previous) THEN "rollback" ELSE "respawn"]
  <2>1. r.op = "rollback"
    BY DEF Idle
  <2>2. task' = [task EXCEPT ![t] = r]
    BY <1>3 DEF RollbackBegin
  <2> HIDE DEF r
  <2> QED
    BY <1>0, <2>1, <2>2
<1>4. ASSUME NEW i \in Instances,
             \/ SwitchBegin(t, i) \/ StopInstanceBegin(t, i)
             \/ RestartBegin(t, i) \/ WatchdogFires(t, i)
      PROVE  task'[t].op # "none"
  <2> DEFINE r1 == [Idle EXCEPT !.op = "switch", !.pc = "cutover",
                                    !.app = AppOf(i), !.inst = i, !.seen = shell]
             r2 == [Idle EXCEPT !.op = "stopInstance", !.inst = i, !.pc = "stopInstance"]
             r3 == [Idle EXCEPT !.op = "restart", !.inst = i,
                                    !.pc = "restartStop", !.then = "unlocked"]
             r4 == [Idle EXCEPT !.op = "watchdog", !.inst = i,
                                    !.pc = "restart", !.then = "watched"]
  <2>1. r1.op # "none" /\ r2.op # "none" /\ r3.op # "none" /\ r4.op # "none"
    BY DEF Idle
  <2>2. \E r \in {r1, r2, r3, r4} : task' = [task EXCEPT ![t] = r]
    BY <1>4 DEF SwitchBegin, StopInstanceBegin, RestartBegin, WatchdogFires
  <2> HIDE DEF r1, r2, r3, r4
  <2> QED
    BY <1>0, <2>1, <2>2
<1> QED
  BY <1>1, <1>2, <1>3, <1>4 DEF Begins

(* A handler is at its operation until it returns. *)
LEMMA OpKept ==
  ASSUME TypeInv, NEW t \in Tasks, Takes(t) \/ Goes(t)
  PROVE  task'[t] = Idle \/ task'[t].op = task[t].op
<1>0. task \in [Tasks -> TaskState] /\ task[t] \in TaskState
  BY DEF TypeInv, TypeOK
<1>1. ASSUME (\E pc : Goto(t, pc)) \/ Return(t)
      PROVE  task'[t] = Idle \/ task'[t].op = task[t].op
  BY <1>1, GotoFields, ReturnFields
<1>2. ASSUME NEW i \in Instances, StopKill(t, i)
      PROVE  task'[t] = Idle \/ task'[t].op = task[t].op
  BY <1>0, <1>2 DEF StopKill, TaskState
<1>3. CASE \/ StartRegister(t) \/ Cutover(t) \/ StopCommit(t) \/ RollbackCommit(t)
  BY <1>0, <1>1, <1>3 DEF StartRegister, Cutover, StopCommit, RollbackCommit,
     WriteIfRevisionMatches, TaskState
<1>4. CASE Retire(t) \/ Discard(t)
  BY <1>0, <1>4 DEF Retire, Discard, EditOrSkip, TaskState
<1>5. CASE \/ StartPrepared(t) \/ StartInstallCandidate(t) \/ CutoverInstall(t)
           \/ SyncReadPool(t) \/ SyncReadRoutes(t) \/ RollbackRespawn(t)
           \/ RollbackRestart(t) \/ StopInstance(t) \/ (RestartFails(t) /\ ~ Return(t))
           \/ CopyReadPool(t) \/ CopyToMirror(t)
  BY <1>0, <1>5 DEF StartPrepared, StartInstallCandidate, CutoverInstall, SyncReadPool,
     SyncReadRoutes, RollbackRespawn, RollbackRestart, StopInstance, RestartFails,
     CopyReadPool, CopyToMirror, TaskState
<1>6. CASE \/ CutoverRefused(t) \/ StartRefused(t) \/ StartRegisterFails(t) \/ StartSpawned(t)
           \/ StartSpawnFails(t) \/ StartAnnounce(t) \/ SyncPublish(t)
           \/ RetireStop(t) \/ RetireUnregister(t) \/ InstallEdit(t)
           \/ StartAbort(t) \/ StartUnlist(t)
  BY <1>1, <1>6 DEF CutoverRefused, StartRefused, StartRegisterFails, StartSpawned,
     StartSpawnFails, StartAnnounce, SyncPublish, AfterSync, RetireStop, RetireUnregister,
     InstallEdit, StartAbort, StartUnlist
<1>7. CASE \/ StopConflict(t) \/ StopInstall(t) \/ StopUnroute(t)
           \/ RollbackInstall(t) \/ RestartRead(t) \/ RestartStop(t)
           \/ RestartSpawned(t) \/ (RestartFails(t) /\ Return(t))
  BY <1>1, <1>7 DEF StopConflict, StopInstall, StopUnroute, RollbackInstall, RestartRead,
     RestartStop, RestartSpawned, RestartFails
<1> QED
  BY <1>2, <1>3, <1>4, <1>5, <1>6, <1>7 DEF Takes, Goes

(* A step of a handler is that of a host that serves, before and after. *)
LEMMA ServesOn == TypeInv /\ [Next]_vars => (Serves' <=> Serves)
<1> SUFFICES ASSUME TypeInv, [Next]_vars PROVE Serves' <=> Serves
  OBVIOUS
<1>0. /\ task \in [Tasks -> TaskState] /\ TypeInv'
      /\ Idle.pc = "idle" /\ Idle.op = "none"
  BY TypeNext DEF TypeInv, TypeOK, Idle
<1>1. ASSUME NEW t \in Tasks, Begins(t) \/ Takes(t) \/ Goes(t) \/ Dropped(t)
      PROVE  Serves /\ Serves'
  <2>1. Serves
    BY <1>1, HandlersServe
  <2>2. task'[t] = Idle \/ task'[t].op # "none" \/ task' = task
    <3>1. CASE Begins(t)
      BY <1>0, <3>1, BegunOps
    <3>2. CASE Takes(t) \/ Goes(t)
      <4>1. ~ Begins(t) => task[t].pc \notin {"idle", "down", "sweeping"}
        BY <3>2, HandlersServe
      <4> QED
        BY <3>1, <3>2, <4>1, OpKept DEF TypeInv, WellPlaced
    <3>3. CASE Dropped(t)
      BY <3>3, ReturnFields DEF Dropped
    <3> QED
      BY <1>1, <3>1, <3>2, <3>3
  <2>3. CASE task' = task
    BY <2>1, <2>3 DEF Serves
  <2>4. CASE task' # task
    <3>1. task'[t].pc \notin {"down", "sweeping"}
      BY <1>0, <2>2, <2>4 DEF TypeInv, WellPlaced
    <3> QED
      BY <2>1, <3>1 DEF Serves
  <2> QED
    BY <2>1, <2>3, <2>4
<1>2. ASSUME NEW i \in Instances, ChildExits(i) \/ WatchdogGivesUp(i) PROVE task' = task
  BY <1>2 DEF ChildExits, WatchdogGivesUp
<1> QED
  BY <1>1, <1>2 DEF Next, vars, Serves

(* Whenever a host serves, every child that runs for its workspace is the  *)
(* one its pool has of that instance, whatever moments earlier hosts were  *)
(* killed at.                                                              *)
THEOREM NoChildIsStray == RestartSpec => []NoStrays
<1>1. Init => NoStrays
  BY DEF Init, NoStrays
<1>2. TypeInv /\ NoStrays /\ [RestartNext]_vars => NoStrays'
  <2> SUFFICES ASSUME TypeInv, NoStrays, [RestartNext]_vars PROVE NoStrays'
    OBVIOUS
  <2>1. CASE [Next]_vars
    BY <2>1, KnownNext, ServesOn DEF NoStrays, Known
  <2>2. CASE HostKilled \/ HostTornDown \/ Boot
    <3>1. PICK phase \in {"down", "sweeping"} : task' = [t \in Tasks |-> Away(phase)]
      BY <2>2 DEF HostKilled, HostTornDown, Forget, Boot
    <3>2. ~ Serves'
      BY <3>1, AwayTypes DEF Serves
    <3> QED
      BY <3>2 DEF NoStrays
  <2>3. CASE ParentGone
    BY <2>3 DEF ParentGone, NoStrays, Serves
  <2>4. CASE Sweep
    BY <2>4 DEF Sweep, NoStrays
  <2> QED
    BY <2>1, <2>2, <2>3, <2>4 DEF RestartNext
<1> QED
  BY <1>1, <1>2, TypeInit, RestartTypeNext, PTL DEF RestartSpec

-----------------------------------------------------------------------------
(* No route dangles.                                                       *)

(* What a host settles as it comes up keeps the slots sound and serves     *)
(* nobody. *)
LEMMA SettledSound ==
  ASSUME NEW m \in Manifest, SlotsSound(m)
  PROVE  /\ SlotsSound(Settled(m))
         /\ \A r : r.inst # None /\ NotServed(m, r) => NotServed(Settled(m), r)
<1> DEFINE n == Settled(m)
<1>1. /\ n.instances = [i \in Instances |->
            IF m.instances[i] = "Running" THEN "Stopped" ELSE m.instances[i]]
      /\ n.routes = [a \in Apps |->
            IF m.routes[a].active = None THEN m.routes[a]
            ELSE [EmptyRoute EXCEPT !.previous = m.routes[a].active]]
  BY DEF Settled
<1> HIDE DEF n
<1>2. ASSUME NEW a \in Apps PROVE Slots(n.routes[a]) \subseteq Slots(m.routes[a])
  <2>1. CASE m.routes[a].active = None
    BY <1>1, <2>1
  <2>2. CASE m.routes[a].active # None
    BY <1>1, <2>2 DEF Slots, EmptyRoute
  <2> QED
    BY <2>1, <2>2
<1>3. \A i \in Instances : Registered(m, i) => Registered(n, i)
  BY <1>1 DEF Registered
<1>4. ASSUME NEW a \in Apps
      PROVE  {n.routes[a].active, n.routes[a].previous}
               \subseteq {m.routes[a].active, m.routes[a].previous, None}
  BY <1>1 DEF EmptyRoute
<1>5. SlotsSound(n)
  BY <1>2, <1>3, SlotTypes DEF SlotsSound
<1>6. ASSUME NEW r, r.inst # None, NotServed(m, r) PROVE NotServed(n, r)
  BY <1>4, <1>6 DEF NotServed
<1> QED
  BY <1>5, <1>6 DEF n

(* Kills, teardowns and starts of the host leave no start behind. *)
LEMMA RestartStarts == TypeInv /\ StartInv /\ [RestartNext]_vars => StartInv'
<1> SUFFICES ASSUME TypeInv, StartInv, [RestartNext]_vars PROVE StartInv'
  OBVIOUS
<1>1. CASE [Next]_vars
  BY <1>1, StartNext
<1>2. CASE HostKilled \/ HostTornDown \/ Boot \/ Sweep
  <2>1. \A t \in Tasks : task'[t].op = "none" /\ task'[t].pc \in {"idle", "down", "sweeping"}
    BY <1>2, AwayTypes, IdleFields DEF HostKilled, HostTornDown, Forget, Boot, Sweep
  <2> QED
    BY <2>1 DEF StartInv, OneStartPerApp, RemembersItself
<1>3. CASE ParentGone
  BY <1>3 DEF ParentGone, StartInv, OneStartPerApp
<1> QED
  BY <1>1, <1>2, <1>3 DEF RestartNext

(* They keep the slots of the routes sound. *)
LEMMA RestartRoutes ==
  "switch" \notin Ops /\ TypeInv /\ StartInv /\ RouteInv /\ [RestartNext]_vars => RouteInv'
<1> SUFFICES ASSUME "switch" \notin Ops, TypeInv, StartInv, RouteInv, [RestartNext]_vars
             PROVE  RouteInv'
  OBVIOUS
<1>0. disk \in Manifest
  BY DEF TypeInv, TypeOK
<1>1. CASE [Next]_vars
  BY <1>1, RouteNext
<1>2. CASE HostKilled \/ HostTornDown
  <2>1. Forget /\ disk' = disk /\ started' = started
    BY <1>2 DEF HostKilled, HostTornDown
  <2>2. \A t \in Tasks : task'[t].op = "none" /\ task'[t].pc = "down"
    BY <2>1, AwayTypes DEF Forget
  <2> QED
    BY <1>0, <2>1, <2>2 DEF RouteInv, SlotsSound, Pending, TargetsPrevious
<1>3. CASE ParentGone
  BY <1>3 DEF ParentGone, manifests, RouteInv, SlotsSound, NotServed
<1>4. CASE Boot \/ Sweep
  <2>1. PICK m \in Manifest : m = disk
    BY <1>0
  <2>2. SlotsSound(Settled(m))
    BY <2>1, SettledSound DEF RouteInv
  <2>3. (disk' = Settled(m) \/ disk' = m) /\ started' = started
    BY <1>4, <2>1 DEF Boot, Sweep, manifests
  <2>4. \A t \in Tasks : task'[t].op = "none" /\ task'[t].pc \in {"idle", "sweeping"}
    BY <1>4, AwayTypes, IdleFields DEF Boot, Sweep
  <2> QED
    BY <2>1, <2>2, <2>3, <2>4 DEF RouteInv, SlotsSound, Pending, TargetsPrevious
<1> QED
  BY <1>1, <1>2, <1>3, <1>4 DEF RestartNext

(* Over any number of kills, restarts, starts, stops and rollbacks every   *)
(* instance a route of host-control.json names is listed there, as long as *)
(* operators do not cut over to single instances themselves.               *)
THEOREM RoutesNeverDangle ==
  ASSUME "switch" \notin Ops
  PROVE  RestartSpec => []RoutesListed
<1>1. Init => RouteInv
  BY IdleTypes, FreshRoutes DEF Init, RouteInv
<1>2. TypeInv /\ StartInv /\ RouteInv /\ [RestartNext]_vars => RouteInv'
  BY RestartRoutes
<1>3. RouteInv => RoutesListed
  BY DEF RouteInv, SlotsSound, Slots, RoutesListed
<1> QED
  BY <1>1, <1>2, <1>3, TypeInit, RestartTypeNext, StartInit, RestartStarts, PTL DEF RestartSpec

-----------------------------------------------------------------------------
(* One start of an app, and what its cutover may replace.                  *)

(* A host that comes back forgets the starts of the one before it: no two  *)
(* starts of one app run at once, however hosts end.                       *)
THEOREM OneStartOverHosts == RestartSpec => []OneStartPerApp
<1>1. StartInv => OneStartPerApp
  BY DEF StartInv
<1> QED
  BY <1>1, TypeInit, RestartTypeNext, StartInit, RestartStarts, PTL DEF RestartSpec

(* The cutover of a start commits only while its instance is the app's     *)
(* candidate, also on a manifest that an earlier host left or that the     *)
(* present one could not write when it settled it.                         *)
THEOREM NothingOverriddenOverHosts == RestartSpec => StartNeverOverrides
<1>1. ASSUME TypeInv, StartInv, [RestartNext]_vars, NEW t \in Tasks, task[t].op = "start",
             task[t].pc = "cutover", task'[t].pc = "installCutover"
      PROVE  disk.routes[task[t].app].candidate = task[t].inst
  <2>1. CASE [Next]_vars
    BY <1>1, <2>1, CutsOverCandidate
  <2>2. CASE HostKilled \/ HostTornDown \/ Boot \/ Sweep
    <3>1. task'[t].pc \in {"idle", "down", "sweeping"}
      BY <2>2, AwayTypes, IdleFields DEF HostKilled, HostTornDown, Forget, Boot, Sweep
    <3> QED
      BY <1>1, <3>1
  <2>3. CASE ParentGone
    BY <1>1, <2>3 DEF ParentGone
  <2> QED
    BY <1>1, <2>1, <2>2, <2>3 DEF RestartNext
<1>2. TypeInv /\ StartInv /\ [RestartNext]_vars =>
        [\A t \in Tasks :
           task[t].op = "start" /\ task[t].pc = "cutover" /\ task'[t].pc = "installCutover"
             => disk.routes[task[t].app].candidate = task[t].inst]_vars
  BY <1>1
<1> QED
  BY <1>2, TypeInit, RestartTypeNext, StartInit, RestartStarts, PTL
     DEF RestartSpec, StartNeverOverrides

-----------------------------------------------------------------------------
(* Children are numbered by the spawns of their instance.                  *)

Seen(i) == spawns[i] # 0
Names(m, a) == {m.routes[a].active, m.routes[a].previous}

(* What a handler relies on was spawned before: the child it announces,    *)
(* the children it read, the previous instance a rollback brings back.     *)
(* Such a rollback found the instance without a child: one that shows up   *)
(* while it is at it is not the instance's first.                          *)
Counted(r) ==
  /\ r.pc = "announce" => Seen(r.inst)
  /\ \A p \in r.snap : Seen(p[1])
  /\ r.op = "rollback" =>
       /\ Seen(r.inst)
       /\ r.pc = "respawn" => pool[r.inst] # 1
       /\ r.pc \in {"restartStop", "respawnSelf"} => spawns[r.inst] > 1

CountInv ==
  /\ \A i \in Instances : pool[i] <= spawns[i] /\ (mirror[i] # 0 => Seen(i))
  /\ \A a \in Apps : \A i \in Instances : i \in Names(disk, a) => Seen(i)
  /\ \A t \in Tasks : Counted(task[t])

(* Spawns are only ever added, and a child that enters the pool is the     *)
(* latest spawn of its instance.                                           *)
Grows ==
  \A i \in Instances :
    /\ spawns'[i] >= spawns[i]
    /\ \/ pool'[i] \in {pool[i], 0}
       \/ spawns'[i] = spawns[i] + 1 /\ pool'[i] = spawns'[i]

(* Every step of a host that serves does so. *)
LEMMA GrowsNext == TypeInv /\ [Next]_vars => Grows
<1> SUFFICES ASSUME TypeInv, [Next]_vars PROVE Grows
  OBVIOUS
<1>0. pool \in [Instances -> 0 .. MaxSpawns] /\ spawns \in [Instances -> 0 .. MaxSpawns]
  BY DEF TypeInv, TypeOK
<1>1. ASSUME UNCHANGED <<pool, spawns>> PROVE Grows
  BY <1>0, <1>1, ControlAssumption DEF Grows
<1>2. ASSUME NEW i, StopFrom(i), UNCHANGED spawns PROVE Grows
  BY <1>0, <1>2, ControlAssumption DEF Grows, StopFrom
<1>3. ASSUME NEW i \in Instances, SpawnInto(i) PROVE Grows
  BY <1>0, <1>3, ControlAssumption DEF Grows, SpawnInto
<1>4. ASSUME NEW t \in Tasks, Begins(t) \/ Takes(t) \/ Dropped(t) PROVE Grows
  BY <1>1, <1>4 DEF Begins, Takes, Dropped, processes, StartBegin, StopBegin, RollbackBegin,
     SwitchBegin, StopInstanceBegin, RestartBegin, WatchdogFires, StartRegister, Cutover,
     CutoverRefused, Retire, Discard, StopCommit
<1>5. ASSUME NEW t \in Tasks, Goes(t) PROVE Grows
  <2>1. CASE StartSpawned(t) \/ RollbackRespawn(t) \/ RestartSpawned(t)
    <3>1. task[t].inst \in Instances
      BY <2>1 DEF StartSpawned, RollbackRespawn, RestartSpawned, At, TypeInv, WellPlaced
    <3>2. SpawnInto(task[t].inst) \/ UNCHANGED <<pool, spawns>>
      BY <2>1 DEF StartSpawned, RollbackRespawn, RestartSpawned, processes
    <3> QED
      BY <1>1, <1>3, <3>1, <3>2
  <2>2. CASE RetireStop(t) \/ StartAbort(t) \/ StopInstance(t) \/ RestartStop(t)
             \/ \E i \in Instances : StopKill(t, i)
    <3>1. UNCHANGED spawns /\ \E i : StopFrom(i)
      BY <2>2 DEF RetireStop, StartAbort, StopInstance, RestartStop, StopKill
    <3> QED
      BY <1>2, <3>1
  <2>3. CASE UNCHANGED <<pool, spawns>>
    BY <1>1, <2>3
  <2> QED
    BY <1>5, <2>1, <2>2, <2>3 DEF Goes, processes, StartRefused, StartPrepared,
       StartRegisterFails, StartInstallCandidate, StartSpawnFails, StartAnnounce,
       CutoverInstall, SyncReadPool, SyncReadRoutes, SyncPublish, RetireUnregister,
       InstallEdit, StartUnlist, StopConflict, StopInstall, StopUnroute, RollbackRestart,
       RollbackCommit, RollbackInstall, RestartRead, RestartFails, CopyReadPool, CopyToMirror
<1>6. ASSUME NEW i \in Instances, ChildExits(i) \/ WatchdogGivesUp(i) PROVE Grows
  BY <1>1, <1>6 DEF ChildExits, WatchdogGivesUp, processes
<1> QED
  BY <1>1, <1>4, <1>5, <1>6 DEF Next, vars, processes

(* Only a cutover to an instance lets a route name one it did not name. *)
LEMMA EditedNames ==
  ASSUME NEW m \in Manifest, NEW a \in Apps, NEW b \in Apps, NEW i
  PROVE  /\ Names(RegisterCandidate(m, a, i), b) \subseteq Names(m, b)
         /\ Names(CutoverRoute(m, a, i), b) \subseteq Names(m, b) \union {i}
         /\ Names(DiscardCandidate(m, a, i), b) \subseteq Names(m, b)
         /\ Names(RetirePrevious(m, i), b) \subseteq Names(m, b)
         /\ \A ids : Names(StopRoute(m, a, ids), b) \subseteq Names(m, b) \union {None}
<1>1. m.routes \in [Apps -> RouteBinding]
  BY DEF Manifest
<1>2. \A active, candidate, previous :
        {active, previous} \subseteq Names(m, a) \union {i, None} =>
          LET r == WithRoute(m, a, active, candidate, previous)[b] IN
            /\ {active, previous} \subseteq Names(m, a)
                 => {r.active, r.previous} \subseteq Names(m, b)
            /\ {active, previous} \subseteq Names(m, a) \union {i}
                 => {r.active, r.previous} \subseteq Names(m, b) \union {i}
            /\ {active, previous} \subseteq Names(m, a) \union {None}
                 => {r.active, r.previous} \subseteq Names(m, b) \union {None}
  BY <1>1 DEF WithRoute, Names
<1>3. m.routes[a].active \in Names(m, a) /\ m.routes[a].previous \in Names(m, a)
  BY DEF Names
<1>4. Names(RegisterCandidate(m, a, i), b) \subseteq Names(m, b)
  BY <1>2, <1>3 DEF RegisterCandidate, Names
<1>5. Names(CutoverRoute(m, a, i), b) \subseteq Names(m, b) \union {i}
  BY <1>2, <1>3 DEF CutoverRoute, Names
<1>6. Names(DiscardCandidate(m, a, i), b) \subseteq Names(m, b)
  BY <1>2, <1>3 DEF DiscardCandidate, Names
<1>7. Names(RetirePrevious(m, i), b) \subseteq Names(m, b)
  BY DEF RetirePrevious, Names
<1>8. ASSUME NEW ids PROVE Names(StopRoute(m, a, ids), b) \subseteq Names(m, b) \union {None}
  BY <1>2, <1>3 DEF StopRoute, Names
<1> QED
  BY <1>4, <1>5, <1>6, <1>7, <1>8

(* A route comes to name only an instance that has been spawned: one that  *)
(* is cut over to is ready, or the previous one of a rollback. *)
LEMMA NamesSeen ==
  ASSUME TypeInv, CountInv, [Next]_vars, NEW a \in Apps, NEW i \in Instances,
         i \in Names(disk', a)
  PROVE  Seen(i)
<1>0. disk \in Manifest /\ pool \in [Instances -> 0 .. MaxSpawns]
      /\ None \notin Instances
  BY NoneApart DEF TypeInv, TypeOK
<1>1. CASE disk' = disk
  BY <1>1 DEF CountInv
<1>2. \A j \in Instances : Ready(j) => Seen(j)
  BY <1>0, ControlAssumption DEF Ready, Managed, CountInv, Seen, TypeInv, TypeOK
<1>3. ASSUME NEW j, Seen(j), Names(disk', a) \subseteq Names(disk, a) \union {j, None}
      PROVE  Seen(i)
  BY <1>0, <1>3 DEF CountInv
<1>4. ASSUME Names(disk', a) \subseteq Names(disk, a) \union {None} PROVE Seen(i)
  BY <1>0, <1>4 DEF CountInv
<1>5. ASSUME NEW t \in Tasks, Takes(t) PROVE Seen(i)
  <2>1. CASE StartRegister(t)
    <3>1. disk' = RegisterCandidate(disk, task[t].app, task[t].inst) /\ task[t].app \in Apps
      BY <2>1 DEF StartRegister, WriteIfRevisionMatches, At, TypeInv, WellPlaced
    <3> QED
      BY <1>0, <1>4, <3>1, EditedNames
  <2>2. CASE Cutover(t)
    <3>1. /\ disk' = CutoverRoute(disk, task[t].app, task[t].inst) /\ Ready(task[t].inst)
          /\ task[t].app \in Apps /\ task[t].inst \in Instances
      BY <2>2 DEF Cutover, CutoverAllowed, WriteIfRevisionMatches, At, TypeInv, WellPlaced
    <3> QED
      BY <1>0, <1>2, <1>3, <3>1, EditedNames
  <2>3. CASE Retire(t)
    <3>1. disk' = disk \/ disk' = RetirePrevious(disk, task[t].prev)
      BY <2>3 DEF Retire, EditOrSkip
    <3> QED
      BY <1>0, <1>1, <1>4, <3>1, EditedNames
  <2>4. CASE Discard(t)
    <3>1. (disk' = disk \/ disk' = DiscardCandidate(disk, task[t].app, task[t].inst))
          /\ task[t].app \in Apps
      BY <2>4 DEF Discard, EditOrSkip, At, TypeInv, WellPlaced
    <3> QED
      BY <1>0, <1>1, <1>4, <3>1, EditedNames
  <2>5. CASE StopCommit(t)
    <3>1. disk' = StopRoute(disk, task[t].app, task[t].ids) /\ task[t].app \in Apps
      BY <2>5 DEF StopCommit, WriteIfRevisionMatches, At, TypeInv, WellPlaced
    <3> QED
      BY <1>0, <1>4, <3>1, EditedNames
  <2> QED
    BY <1>1, <1>5, <2>1, <2>2, <2>3, <2>4, <2>5 DEF Takes, CutoverRefused, manifests
<1>6. ASSUME NEW t \in Tasks, RollbackCommit(t) PROVE Seen(i)
  <2>1. /\ task[t].app \in Apps /\ task[t].inst \in Instances /\ task[t].op = "rollback"
        /\ disk' = disk \/ disk' = CutoverRoute(disk, task[t].app, task[t].inst)
    BY <1>6 DEF RollbackCommit, WriteIfRevisionMatches, At, TypeInv, WellPlaced
  <2>2. Seen(task[t].inst)
    BY <2>1 DEF CountInv, Counted
  <2> QED
    BY <1>0, <1>1, <1>3, <2>1, <2>2, EditedNames
<1>7. ASSUME NEW t \in Tasks, Begins(t) \/ Goes(t) \/ Dropped(t), ~ RollbackCommit(t)
      PROVE  disk' = disk
  BY <1>7 DEF Begins, Goes, Dropped, manifests, StartBegin, StopBegin, RollbackBegin,
     SwitchBegin, StopInstanceBegin, RestartBegin, WatchdogFires, StartRefused, StartPrepared,
     StartRegisterFails, StartInstallCandidate, StartSpawned, StartSpawnFails, StartAnnounce,
     CutoverInstall, SyncReadPool, SyncReadRoutes, SyncPublish, RetireStop, RetireUnregister,
     InstallEdit, StartAbort, StartUnlist, StopConflict, StopInstall, StopUnroute, StopKill,
     RollbackRespawn, RollbackRestart, RollbackInstall, StopInstance, RestartRead, RestartStop,
     RestartSpawned, RestartFails, CopyReadPool, CopyToMirror
<1>8. ASSUME NEW j \in Instances, ChildExits(j) \/ WatchdogGivesUp(j) PROVE disk' = disk
  BY <1>8 DEF ChildExits, WatchdogGivesUp, manifests
<1> QED
  BY <1>1, <1>5, <1>6, <1>7, <1>8 DEF Next, vars

(* The mirror names children that were spawned.                            *)
LEMMA MirrorSeen ==
  ASSUME TypeInv, CountInv, [Next]_vars, NEW i \in Instances, mirror'[i] # 0
  PROVE  Seen(i)
<1>0. mirror \in [Instances -> 0 .. MaxSpawns] /\ task \in [Tasks -> TaskState]
  BY DEF TypeInv, TypeOK
<1>1. CASE mirror'[i] = mirror[i]
  BY <1>1 DEF CountInv
<1>2. ASSUME NEW t \in Tasks, Goes(t) PROVE Seen(i)
  <2>1. CASE StartAnnounce(t)
    <3>1. Seen(task[t].inst) /\ mirror' = [mirror EXCEPT ![task[t].inst] = 1]
      BY <2>1 DEF StartAnnounce, At, CountInv, Counted
    <3> QED
      BY <1>0, <1>1, <3>1
  <2>2. CASE RetireUnregister(t) \/ StartUnlist(t) \/ StopInstall(t)
    BY <1>0, <1>1, <2>2 DEF RetireUnregister, StartUnlist, StopInstall
  <2>3. CASE CopyToMirror(t)
    <3>1. \E p \in task[t].snap : p[1] = i
      BY <2>3 DEF CopyToMirror
    <3> QED
      BY <3>1 DEF CountInv, Counted
  <2>4. CASE mirror' = mirror
    BY <1>1, <2>4
  <2> QED
    BY <1>2, <2>1, <2>2, <2>3, <2>4 DEF Goes, StartRefused, StartPrepared, StartRegisterFails,
       StartInstallCandidate, StartSpawned, StartSpawnFails, CutoverInstall, SyncReadPool,
       SyncReadRoutes, SyncPublish, RetireStop, InstallEdit, StartAbort, StopConflict,
       StopUnroute, StopKill, RollbackRespawn, RollbackRestart, RollbackCommit,
       RollbackInstall, StopInstance, RestartRead, RestartStop, RestartSpawned, RestartFails,
       CopyReadPool
<1>3. ASSUME NEW t \in Tasks, Begins(t) \/ Takes(t) \/ Dropped(t) PROVE mirror' = mirror
  BY <1>3 DEF Begins, Takes, Dropped, StartBegin, StopBegin, RollbackBegin, SwitchBegin,
     StopInstanceBegin, RestartBegin, WatchdogFires, StartRegister, Cutover, CutoverRefused,
     Retire, Discard, StopCommit
<1>4. ASSUME NEW j \in Instances, ChildExits(j) \/ WatchdogGivesUp(j) PROVE mirror' = mirror
  BY <1>4 DEF ChildExits, WatchdogGivesUp
<1> QED
  BY <1>1, <1>2, <1>3, <1>4 DEF Next, vars

(* A handler that goes on still relies on what it relied on, and a spawn   *)
(* only adds to that.                                                      *)
LEMMA CountsGoOn ==
  ASSUME TypeInv, TypeInv', CountInv, Grows, NEW t \in Tasks,
         task'[t].pc = "announce" =>
           \/ task[t].pc = "announce" /\ task'[t].inst = task[t].inst
           \/ spawns'[task'[t].inst] # 0,
         \A p \in task'[t].snap : Seen(p[1]),
         task'[t].op = "rollback" =>
           /\ Seen(task'[t].inst)
           /\ task'[t].pc = "respawn" => pool[task'[t].inst] # 1
           /\ task'[t].pc \in {"restartStop", "respawnSelf"} => spawns[task'[t].inst] > 1
  PROVE  Counted(task[t])'
<1>0. /\ pool \in [Instances -> 0 .. MaxSpawns] /\ spawns \in [Instances -> 0 .. MaxSpawns]
      /\ spawns' \in [Instances -> 0 .. MaxSpawns]
      /\ task'[t] \in TaskState /\ WellPlaced(task'[t]) /\ WellPlaced(task[t])
  BY DEF TypeInv, TypeOK
<1>1. \A i \in Instances : /\ Seen(i) => spawns'[i] # 0
                           /\ spawns[i] > 1 => spawns'[i] > 1
                           /\ Seen(i) /\ pool[i] # 1 => pool'[i] # 1
  BY <1>0, ControlAssumption DEF Grows, Seen
<1>2. ASSUME task'[t].pc = "announce" PROVE spawns'[task'[t].inst] # 0
  <2>1. task[t].pc = "announce" => task[t].inst \in Instances /\ Seen(task[t].inst)
    BY <1>0 DEF WellPlaced, CountInv, Counted
  <2> QED
    BY <1>1, <1>2, <2>1
<1>3. \A p \in task'[t].snap : spawns'[p[1]] # 0
  <2>1. \A p \in task'[t].snap : p[1] \in Instances
    BY <1>0 DEF TaskState, Placed
  <2> QED
    BY <1>1, <2>1
<1>4. task'[t].op = "rollback" => task'[t].inst \in Instances
  BY <1>0 DEF WellPlaced
<1> QED
  BY <1>1, <1>2, <1>3, <1>4 DEF Counted, Seen

(* What no step touches is still counted, and so is a task at rest. *)
LEMMA OthersCounted ==
  ASSUME TypeInv, TypeInv', CountInv, Grows, NEW u \in Tasks,
         task'[u] = task[u] \/ (task'[u].op = "none" /\ task'[u].snap = {})
  PROVE  Counted(task[u])'
<1>1. CASE task'[u] = task[u]
  BY <1>1, CountsGoOn DEF CountInv, Counted
<1>2. CASE task'[u].op = "none" /\ task'[u].snap = {}
  <2>1. task'[u].pc # "announce"
    BY <1>2 DEF TypeInv, WellPlaced
  <2> QED
    BY <1>2, <2>1, CountsGoOn
<1> QED
  BY <1>1, <1>2

(* A handler that begins has read nothing yet, and a rollback that will    *)
(* spawn found its instance without a child. *)
LEMMA BeginsCounted ==
  ASSUME TypeInv, TypeInv', CountInv, Grows, NEW t \in Tasks, Begins(t)
  PROVE  Counted(task[t])'
<1>0. task \in [Tasks -> TaskState] /\ disk \in Manifest
  BY DEF TypeInv, TypeOK
<1> DEFINE Fresh(r) == r.snap = {} /\ r.op # "rollback" /\ r.pc # "announce"
<1>1. ASSUME NEW r, Fresh(r), task' = [task EXCEPT ![t] = r] PROVE Counted(task[t])'
  BY <1>0, <1>1, CountsGoOn
<1>2. ASSUME NEW a \in Apps, StartBegin(t, a) PROVE Counted(task[t])'
  <2> DEFINE r == [Idle EXCEPT !.op = "start", !.pc = "prepare", !.app = a]
  <2>1. Fresh(r)
    BY DEF Idle
  <2> HIDE DEF r
  <2> QED
    BY <1>1, <1>2, <2>1 DEF StartBegin, r
<1>3. ASSUME NEW a \in Apps, StopBegin(t, a) PROVE Counted(task[t])'
  <2> DEFINE r(ids) == [Idle EXCEPT !.op = "stop", !.pc = "stop", !.app = a, !.ids = ids]
  <2>1. \A ids : Fresh(r(ids))
    BY DEF Idle
  <2>2. task' = task \/ \E ids : task' = [task EXCEPT ![t] = r(ids)]
    BY <1>3 DEF StopBegin
  <2> HIDE DEF r
  <2> QED
    BY <1>1, <2>1, <2>2, OthersCounted
<1>4. ASSUME NEW a \in Apps, RollbackBegin(t, a) PROVE Counted(task[t])'
  <2> DEFINE i == disk.routes[a].previous
             r == [Idle EXCEPT !.op = "rollback", !.app = a, !.seen = disk, !.inst = i,
                     !.pc = IF Ready(i) THEN "rollback" ELSE "respawn"]
  <2>1. /\ r.snap = {} /\ r.inst = i /\ r.pc \in {"rollback", "respawn"}
        /\ r.pc = "respawn" => ~ Ready(i)
    BY DEF Idle
  <2>2. i \in Instances
    BY <1>0, <1>4 DEF RollbackBegin, Manifest, RouteBinding
  <2>3. Seen(i)
    BY <2>2 DEF CountInv, Names
  <2>4. r.pc = "respawn" => pool[i] # 1
    BY <2>1 DEF Ready, Managed
  <2>5. task' = [task EXCEPT ![t] = r]
    BY <1>4 DEF RollbackBegin
  <2> HIDE DEF r, i
  <2> QED
    BY <1>0, <2>1, <2>3, <2>4, <2>5, CountsGoOn
<1>5. ASSUME NEW i \in Instances,
             \/ SwitchBegin(t, i) \/ StopInstanceBegin(t, i)
             \/ RestartBegin(t, i) \/ WatchdogFires(t, i)
      PROVE  Counted(task[t])'
  <2> DEFINE r1 == [Idle EXCEPT !.op = "switch", !.pc = "cutover",
                                    !.app = AppOf(i), !.inst = i, !.seen = shell]
             r2 == [Idle EXCEPT !.op = "stopInstance", !.inst = i, !.pc = "stopInstance"]
             r3 == [Idle EXCEPT !.op = "restart", !.inst = i,
                                    !.pc = "restartStop", !.then = "unlocked"]
             r4 == [Idle EXCEPT !.op = "watchdog", !.inst = i,
                                    !.pc = "restart", !.then = "watched"]
  <2>1. Fresh(r1) /\ Fresh(r2) /\ Fresh(r3) /\ Fresh(r4)
    BY DEF Idle
  <2>2. \E r \in {r1, r2, r3, r4} : task' = [task EXCEPT ![t] = r]
    BY <1>5 DEF SwitchBegin, StopInstanceBegin, RestartBegin, WatchdogFires
  <2> HIDE DEF r1, r2, r3, r4
  <2> QED
    BY <1>1, <2>1, <2>2
<1> QED
  BY <1>2, <1>3, <1>4, <1>5 DEF Begins

(* A handler on its way relies on no more than it has read or spawned. *)
LEMMA HandlersCounted ==
  ASSUME TypeInv, TypeInv', CountInv, Grows, NEW t \in Tasks, Takes(t) \/ Goes(t)
  PROVE  Counted(task[t])'
<1>0. /\ task \in [Tasks -> TaskState] /\ task[t] \in TaskState /\ WellPlaced(task[t])
      /\ pool \in [Instances -> 0 .. MaxSpawns] /\ spawns \in [Instances -> 0 .. MaxSpawns]
      /\ Counted(task[t])
  BY DEF TypeInv, TypeOK, CountInv
<1> DEFINE Same == /\ task'[t].op = task[t].op /\ task'[t].inst = task[t].inst
                   /\ task'[t].snap \subseteq task[t].snap
<1>1. ASSUME Same, task'[t].pc \notin {"announce", "respawn", "restartStop", "respawnSelf"}
      PROVE  Counted(task[t])'
  BY <1>0, <1>1, CountsGoOn DEF Counted
<1>2. ASSUME Return(t) PROVE Counted(task[t])'
  BY <1>2, ReturnFields, OthersCounted DEF Idle
<1>3. ASSUME NEW pc, Goto(t, pc),
             pc \notin {"announce", "respawn", "restartStop", "respawnSelf"}
      PROVE  Counted(task[t])'
  BY <1>1, <1>3, GotoFields
<1>4. CASE \/ StartRegister(t) \/ Cutover(t) \/ StopCommit(t) \/ RollbackCommit(t)
  BY <1>0, <1>1, <1>2, <1>4 DEF StartRegister, Cutover, StopCommit, RollbackCommit,
     WriteIfRevisionMatches, TaskState
<1>5. CASE Retire(t) \/ Discard(t)
  BY <1>0, <1>1, <1>5 DEF Retire, Discard, EditOrSkip, TaskState
<1>6. CASE \/ StartInstallCandidate(t) \/ CutoverInstall(t) \/ SyncReadRoutes(t)
           \/ StopInstance(t) \/ RollbackRespawn(t) \/ (RestartFails(t) /\ ~ Return(t))
  BY <1>0, <1>1, <1>6 DEF StartInstallCandidate, CutoverInstall, SyncReadRoutes,
     StopInstance, RollbackRespawn, RestartFails, TaskState
<1>7. CASE StartPrepared(t)
  <2>1. /\ task'[t].op = task[t].op /\ task[t].op = "start" /\ task'[t].snap = task[t].snap
        /\ task'[t].pc = "register"
    BY <1>0, <1>7 DEF StartPrepared, At, WellPlaced, TaskState
  <2> QED
    BY <1>0, <2>1, CountsGoOn DEF Counted
<1>8. CASE SyncReadPool(t) \/ CopyReadPool(t)
  <2>1. /\ task'[t].op = task[t].op /\ task'[t].inst = task[t].inst
        /\ task'[t].pc \in {"routes", "mirror"}
        /\ \A p \in task'[t].snap : p \in Instances \X (1 .. MaxSpawns) /\ pool[p[1]] = p[2]
    BY <1>0, <1>8 DEF SyncReadPool, CopyReadPool, TaskState
  <2>2. \A p \in task'[t].snap : Seen(p[1])
    BY <1>0, <2>1, ControlAssumption DEF CountInv, Seen
  <2> QED
    BY <1>0, <2>1, <2>2, CountsGoOn DEF Counted
<1>9. CASE CopyToMirror(t)
  BY <1>0, <1>1, <1>9 DEF CopyToMirror, TaskState
<1>10. CASE StartSpawned(t)
  <2>1. Goto(t, "announce") /\ SpawnInto(task[t].inst) /\ task[t].op = "start"
        /\ task[t].inst \in Instances
    BY <1>0, <1>10 DEF StartSpawned, At, WellPlaced
  <2>2. spawns'[task[t].inst] # 0
    BY <1>0, <2>1, ControlAssumption DEF SpawnInto
  <2>3. task'[t].inst = task[t].inst /\ task'[t].op = "start" /\ task'[t].snap = task[t].snap
    BY <2>1, GotoFields
  <2> QED
    BY <1>0, <2>2, <2>3, CountsGoOn DEF Counted
<1>11. CASE RollbackRestart(t)
  <2>1. /\ Same /\ task'[t].pc = "restartStop" /\ task[t].pc = "respawn"
        /\ task[t].op = "rollback" /\ task[t].inst \in Instances
    BY <1>0, <1>11 DEF RollbackRestart, At, WellPlaced, TaskState
  <2>2. pool[task[t].inst] # 0 /\ pool[task[t].inst] # 1
    BY <1>0, <1>11, <2>1 DEF RollbackRestart, Managed, Counted
  <2>3. spawns[task[t].inst] > 1
    BY <1>0, <2>1, <2>2, ControlAssumption DEF CountInv
  <2> QED
    BY <1>0, <2>1, <2>3, CountsGoOn DEF Counted
<1>12. CASE RestartStop(t)
  <2>1. Same /\ task'[t].pc = "respawnSelf" /\ task[t].pc = "restartStop"
    BY <1>12, GotoFields DEF RestartStop, At
  <2> QED
    BY <1>0, <2>1, CountsGoOn DEF Counted
<1>13. CASE RestartRead(t)
  <2>1. CASE Return(t)
    BY <1>2, <2>1
  <2>2. CASE Goto(t, "restartStop")
    <3>1. Same /\ task'[t].pc = "restartStop" /\ task[t].op # "rollback"
      BY <1>0, <1>13, <2>2, GotoFields DEF RestartRead, At, WellPlaced
    <3> QED
      BY <1>0, <3>1, CountsGoOn DEF Counted
  <2> QED
    BY <1>13, <2>1, <2>2 DEF RestartRead
<1>14. ASSUME NEW i \in Instances, StopKill(t, i) PROVE Counted(task[t])'
  <2>1. Return(t) \/ (Same /\ task'[t].pc = "kill")
    BY <1>0, <1>14 DEF StopKill, At, Return, TaskState
  <2> QED
    BY <1>1, <1>2, <2>1
<1>15. CASE \/ CutoverRefused(t) \/ StartRefused(t) \/ StartRegisterFails(t)
            \/ StartSpawnFails(t) \/ StartAnnounce(t) \/ SyncPublish(t)
            \/ RetireStop(t) \/ RetireUnregister(t) \/ InstallEdit(t)
            \/ StartAbort(t) \/ StartUnlist(t)
  BY <1>2, <1>3, <1>15 DEF CutoverRefused, StartRefused, StartRegisterFails,
     StartSpawnFails, StartAnnounce, SyncPublish, AfterSync, RetireStop, RetireUnregister,
     InstallEdit, StartAbort, StartUnlist
<1>16. CASE \/ StopConflict(t) \/ StopInstall(t) \/ StopUnroute(t) \/ RollbackInstall(t)
            \/ RestartSpawned(t) \/ (RestartFails(t) /\ Return(t))
  BY <1>2, <1>3, <1>16 DEF StopConflict, StopInstall, StopUnroute, RollbackInstall,
     RestartSpawned
<1> QED
  BY <1>4, <1>5, <1>6, <1>7, <1>8, <1>9, <1>10, <1>11, <1>12, <1>13, <1>14, <1>15, <1>16
  DEF Takes, Goes

(* Every step of a host keeps the count, its end and its start included. *)
LEMMA CountNext == TypeInv /\ StartInv /\ CountInv /\ [RestartNext]_vars => CountInv'
<1> SUFFICES ASSUME TypeInv, StartInv, CountInv, [RestartNext]_vars PROVE CountInv'
  OBVIOUS
<1>0. /\ pool \in [Instances -> 0 .. MaxSpawns] /\ spawns \in [Instances -> 0 .. MaxSpawns]
      /\ TypeInv' /\ task \in [Tasks -> TaskState] /\ disk \in Manifest
      /\ spawns' \in [Instances -> 0 .. MaxSpawns]
  BY RestartTypeNext DEF TypeInv, TypeOK
<1>1. Idle.op = "none" /\ Idle.snap = {}
      /\ \A phase : Away(phase).op = "none" /\ Away(phase).snap = {}
  BY DEF Idle, Away
<1>2. CASE [Next]_vars
  <2>1. Grows
    BY <1>2, GrowsNext
  <2>2. \A i \in Instances : Seen(i) => spawns'[i] # 0
    BY <1>0, <2>1, ControlAssumption DEF Grows, Seen
  <2>3. \A i \in Instances : pool'[i] <= spawns'[i]
    BY <1>0, <2>1, ControlAssumption DEF Grows, CountInv
  <2>4. \A i \in Instances : mirror'[i] # 0 => spawns'[i] # 0
    BY <1>2, <2>2, MirrorSeen
  <2>5. \A a \in Apps : \A i \in Instances : i \in Names(disk', a) => spawns'[i] # 0
    BY <1>2, <2>2, NamesSeen
  <2>6. ASSUME NEW u \in Tasks PROVE Counted(task[u])'
    <3>1. CASE task'[u] = task[u]
      BY <1>0, <2>1, <3>1, OthersCounted
    <3>2. CASE task'[u] # task[u]
      <4>1. Begins(u) \/ Takes(u) \/ Goes(u) \/ Dropped(u)
        <5>1. ASSUME NEW t \in Tasks, Begins(t) \/ Takes(t) \/ Goes(t) \/ Dropped(t)
              PROVE  t = u
          BY <1>0, <3>2, <5>1, OneMoves DEF OnlyMoves, Dropped, Return
        <5>2. ASSUME NEW i \in Instances, ChildExits(i) \/ WatchdogGivesUp(i)
              PROVE  task' = task
          BY <5>2 DEF ChildExits, WatchdogGivesUp
        <5> QED
          BY <1>2, <3>2, <5>1, <5>2 DEF Next, vars
      <4>2. CASE Dropped(u)
        BY <1>0, <1>1, <2>1, <4>2, ReturnFields, OthersCounted DEF Dropped
      <4> QED
        BY <1>0, <2>1, <4>1, <4>2, BeginsCounted, HandlersCounted
    <3> QED
      BY <3>1, <3>2
  <2> QED
    BY <2>3, <2>4, <2>5, <2>6 DEF CountInv, Seen, Names
<1>3. CASE HostKilled \/ HostTornDown
  <2>1. ASSUME NEW i \in Instances PROVE spawns'[i] >= spawns[i]
    <3>1. spawns'[i] = spawns[i] \/ spawns'[i] = spawns[i] + 1
      BY <1>0, <1>3 DEF HostKilled, HostTornDown
    <3>2. spawns[i] \in Nat
      BY <1>0, ControlAssumption
    <3> QED
      BY <3>1, <3>2
  <2>2. /\ disk' = disk /\ pool' = [i \in Instances |-> 0] /\ mirror' = [i \in Instances |-> 0]
        /\ task' = [u \in Tasks |-> Away("down")]
    BY <1>3 DEF HostKilled, HostTornDown, Forget
  <2>3. Grows
    BY <1>0, <2>1, <2>2 DEF Grows
  <2>4. \A u \in Tasks : Counted(task[u])'
    BY <1>0, <1>1, <2>2, <2>3, OthersCounted
  <2>5. \A i \in Instances : pool'[i] <= spawns'[i] /\ mirror'[i] = 0
    BY <1>0, <2>2, ControlAssumption
  <2>6. \A a \in Apps : \A i \in Instances : i \in Names(disk', a) => spawns'[i] # 0
    BY <1>0, <2>1, <2>2, ControlAssumption DEF CountInv, Seen
  <2> QED
    BY <2>4, <2>5, <2>6 DEF CountInv, Seen, Names
<1>4. CASE ParentGone \/ Boot \/ Sweep
  <2>1. UNCHANGED <<pool, spawns, mirror>>
        /\ \A u \in Tasks : task'[u] = task[u] \/ (task'[u].op = "none" /\ task'[u].snap = {})
    BY <1>1, <1>4 DEF ParentGone, Boot, Sweep, processes
  <2>2. Grows
    BY <1>0, <2>1, ControlAssumption DEF Grows
  <2>3. \A u \in Tasks : Counted(task[u])'
    BY <1>0, <2>1, <2>2, OthersCounted
  <2>4. ASSUME NEW a \in Apps PROVE Names(disk', a) \subseteq Names(disk, a) \union {None}
    <3>1. disk' = disk \/ disk' = Settled(disk)
      BY <1>4 DEF ParentGone, Boot, Sweep, manifests
    <3>2. Names(Settled(disk), a) \subseteq Names(disk, a) \union {None}
      BY DEF Settled, Names, EmptyRoute
    <3> QED
      BY <3>1, <3>2
  <2>5. \A a \in Apps : \A i \in Instances : i \in Names(disk', a) => Seen(i)
    BY <2>4, NoneApart DEF CountInv
  <2> QED
    BY <2>1, <2>3, <2>5 DEF CountInv, Seen, Names
<1> QED
  BY <1>2, <1>3, <1>4 DEF RestartNext

(* A fresh workspace has spawned nothing and names nothing. *)
LEMMA CountInit == Init => CountInv
  BY NoneApart, ControlAssumption DEF Init, CountInv, Counted, Names, Idle, EmptyManifest,
     EmptyRoute, Seen

-----------------------------------------------------------------------------
(* The child of an active instance has a watchdog.                         *)

(* Handler r is on its way to arm a watchdog of i: the start that spawned  *)
(* it, the rollback that spawned it again, the watchdog that restarts it.  *)
Arms(r, i) ==
  /\ r.inst = i
  /\ \/ /\ r.op = "start"
        /\ \/ r.pc \in {"announce", "cutover", "installCutover", "abort",
                        "drain", "unregister", "retire"}
           \/ r.then \in {"armed", "drain"}
     \/ r.then = "respawned" /\ r.pc \in {"copy", "mirror", "snap", "routes", "publish"}
     \/ r.then = "watched" /\ r.pc # "respawnSelf"

(* Where the handlers that arm one at the end of their sync come from. *)
ArmsLate(r) ==
  /\ r.op = "watchdog" <=> r.then = "watched"
  /\ r.then \in {"armed", "drain"} =>
       r.pc \in {"snap", "routes", "publish", "installEdit", "drain", "unregister", "retire"}

Watched(i) ==
  pool[i] \in {1, 2} => watch[i] > 0 \/ \E t \in Tasks : Arms(task[t], i)

WatchInv ==
  /\ \A i \in Instances : Watched(i)
  /\ \A t \in Tasks : ArmsLate(task[t])

(* A step of one task keeps every child watched if what it spawns it will  *)
(* watch, and if it hands on the watchdogs it ends and those it would arm. *)
HandsOn(t) ==
  /\ ArmsLate(task'[t])
  /\ \A u \in Tasks \ {t} : task'[u] = task[u]
  /\ \A i \in Instances : pool'[i] \in {1, 2} =>
       /\ pool'[i] = pool[i] \/ Arms(task'[t], i)
       /\ watch[i] > 0 \/ Arms(task[t], i) => watch'[i] > 0 \/ Arms(task'[t], i)

(* Such a step leaves no first or second child of an instance without a    *)
(* watchdog or a handler that will arm one.                                *)
LEMMA HandedOn ==
  ASSUME WatchInv, NEW t \in Tasks, HandsOn(t)
  PROVE  WatchInv'
<1>1. ASSUME NEW i \in Instances, pool'[i] \in {1, 2}
      PROVE  watch'[i] > 0 \/ \E u \in Tasks : Arms(task'[u], i)
  <2>1. CASE Arms(task'[t], i)
    BY <2>1
  <2>2. CASE pool'[i] = pool[i] /\ ~ Arms(task'[t], i)
    <3>1. watch[i] > 0 \/ \E u \in Tasks : Arms(task[u], i)
      BY <1>1, <2>2 DEF WatchInv, Watched
    <3>2. CASE watch[i] > 0 \/ Arms(task[t], i)
      BY <1>1, <2>2, <3>2 DEF HandsOn
    <3>3. CASE \E u \in Tasks \ {t} : Arms(task[u], i)
      BY <3>3 DEF HandsOn
    <3> QED
      BY <3>1, <3>2, <3>3
  <2> QED
    BY <1>1, <2>1, <2>2 DEF HandsOn
<1>2. \A u \in Tasks : ArmsLate(task'[u])
  BY DEF HandsOn, WatchInv
<1> QED
  BY <1>1, <1>2 DEF WatchInv, Watched

(* Handlers that only move on. *)
LEMMA BeginsHandOn ==
  ASSUME TypeInv, "restart" \notin Ops, WatchInv, NEW t \in Tasks, Begins(t)
  PROVE  HandsOn(t) \/ UNCHANGED <<pool, watch, task>>
<1>0. task \in [Tasks -> TaskState] /\ watch \in [Instances -> Nat]
  BY DEF TypeInv, TypeOK
<1>2. Idle.op = "none" /\ Idle.then = "none"
  BY DEF Idle
<1> DEFINE Fresh(r) == r.then = "none" /\ r.op # "watchdog"
<1>3. ASSUME task[t] = Idle, UNCHANGED <<pool, watch>>, NEW r, Fresh(r),
             task' = [task EXCEPT ![t] = r]
      PROVE  HandsOn(t)
  BY <1>0, <1>2, <1>3 DEF HandsOn, Arms, ArmsLate
<1>4. ASSUME NEW a \in Apps, StartBegin(t, a) \/ StopBegin(t, a) \/ RollbackBegin(t, a)
      PROVE  HandsOn(t) \/ UNCHANGED <<pool, watch, task>>
  <2>1. CASE StartBegin(t, a)
    <3> DEFINE r == [Idle EXCEPT !.op = "start", !.pc = "prepare", !.app = a]
    <3>1. Fresh(r)
      BY DEF Idle
    <3> HIDE DEF r
    <3> QED
      BY <1>3, <2>1, <3>1 DEF StartBegin, Begin, processes, r
  <2>2. CASE StopBegin(t, a)
    <3> DEFINE r(ids) == [Idle EXCEPT !.op = "stop", !.pc = "stop", !.app = a, !.ids = ids]
    <3>1. \A ids : Fresh(r(ids))
      BY DEF Idle
    <3> HIDE DEF r
    <3>2. task' = task \/ \E ids : task' = [task EXCEPT ![t] = r(ids)]
      BY <2>2 DEF StopBegin, r
    <3> QED
      BY <1>3, <2>2, <3>1, <3>2 DEF StopBegin, Begin, processes
  <2>3. CASE RollbackBegin(t, a)
    <3> DEFINE r == [Idle EXCEPT !.op = "rollback", !.app = a, !.seen = disk,
                !.inst = disk.routes[a].previous,
                !.pc = IF Ready(disk.routes[a].previous) THEN "rollback" ELSE "respawn"]
    <3>1. Fresh(r)
      BY DEF Idle
    <3> HIDE DEF r
    <3> QED
      BY <1>3, <2>3, <3>1 DEF RollbackBegin, Begin, processes, r
  <2> QED
    BY <1>4, <2>1, <2>2, <2>3
<1>6. ASSUME NEW i \in Instances, SwitchBegin(t, i) \/ StopInstanceBegin(t, i)
      PROVE  HandsOn(t)
  <2> DEFINE r == [Idle EXCEPT !.op = "switch", !.pc = "cutover",
                                    !.app = AppOf(i), !.inst = i, !.seen = shell]
             q == [Idle EXCEPT !.op = "stopInstance", !.inst = i, !.pc = "stopInstance"]
  <2>1. Fresh(r) /\ Fresh(q)
    BY DEF Idle
  <2>2. UNCHANGED <<pool, watch>> /\ task[t] = Idle
        /\ (task' = [task EXCEPT ![t] = r] \/ task' = [task EXCEPT ![t] = q])
    BY <1>6 DEF SwitchBegin, StopInstanceBegin, Begin, processes
  <2> HIDE DEF r, q
  <2> QED
    BY <1>3, <2>1, <2>2
<1>5. ASSUME NEW i \in Instances, WatchdogFires(t, i) PROVE HandsOn(t)
  <2> DEFINE r == [Idle EXCEPT !.op = "watchdog", !.inst = i, !.pc = "restart", !.then = "watched"]
  <2>1. r.op = "watchdog" /\ r.inst = i /\ r.pc = "restart" /\ r.then = "watched"
    BY DEF Idle
  <2>2. task[t] = Idle /\ task' = [task EXCEPT ![t] = r]
        /\ pool' = pool /\ watch' = [watch EXCEPT ![i] = @ - 1]
    BY <1>5 DEF WatchdogFires, processes
  <2> HIDE DEF r
  <2>3. Arms(r, i) /\ ArmsLate(r)
    BY <2>1 DEF Arms, ArmsLate
  <2>4. \A j : ~ Arms(Idle, j)
    BY <1>2 DEF Arms
  <2> QED
    BY <1>0, <2>2, <2>3, <2>4 DEF HandsOn
<1> QED
  BY <1>4, <1>5, <1>6 DEF Begins, RestartBegin, Begin

(* The steps of a handler that arm and end no watchdog: a child they stop  *)
(* needs none, one they spawn is one the handler will watch.               *)
LEMMA GoesHandOn ==
  ASSUME TypeInv, "restart" \notin Ops, CountInv, WatchInv, NEW t \in Tasks,
         Takes(t) \/ Goes(t), ~ SyncPublish(t)
  PROVE  HandsOn(t)
<1> DEFINE Stays == \A i \in Instances : pool'[i] # 0 => pool'[i] = pool[i]
<1>0. /\ task \in [Tasks -> TaskState] /\ pool \in [Instances -> 0 .. MaxSpawns]
      /\ WellPlaced(task[t]) /\ ArmsLate(task[t])
  BY DEF TypeInv, TypeOK, WatchInv
<1>1. watch' = watch
  BY DEF Takes, Goes, StartRegister, Cutover, CutoverRefused, Retire, Discard, StopCommit,
     StartRefused, StartPrepared, StartRegisterFails, StartInstallCandidate, StartSpawned,
     StartSpawnFails, StartAnnounce, CutoverInstall, SyncReadPool, SyncReadRoutes, RetireStop,
     RetireUnregister, InstallEdit, StartAbort, StartUnlist, StopConflict, StopInstall,
     StopUnroute, StopKill, RollbackRespawn, RollbackRestart, RollbackCommit, RollbackInstall,
     StopInstance, RestartRead, RestartStop, RestartSpawned, RestartFails, CopyReadPool,
     CopyToMirror
<1>2. ASSUME \A u \in Tasks \ {t} : task'[u] = task[u], ArmsLate(task'[t]),
             \A i \in Instances : pool'[i] \in {1, 2} =>
               /\ pool'[i] = pool[i] \/ Arms(task'[t], i)
               /\ Arms(task[t], i) => Arms(task'[t], i)
      PROVE  HandsOn(t)
  BY <1>1, <1>2 DEF HandsOn
<1>3. Idle.op = "none" /\ Idle.then = "none" /\ ArmsLate(Idle)
  BY DEF Idle, ArmsLate
<1>4. ASSUME Return(t), Stays, \A i \in Instances : pool'[i] # 0 => ~ Arms(task[t], i)
      PROVE  HandsOn(t)
  BY <1>0, <1>2, <1>3, <1>4 DEF Return
<1>5. ASSUME NEW i, StopFrom(i) PROVE Stays
  BY <1>0, <1>5 DEF StopFrom
<1>6. ASSUME NEW i \in Instances, SpawnInto(i) PROVE \A j \in Instances \ {i} : pool'[j] = pool[j]
  BY <1>0, <1>6 DEF SpawnInto
<1>7. CASE StartRefused(t) \/ StartRegisterFails(t) \/ StopConflict(t)
  BY <1>0, <1>4, <1>7 DEF StartRefused, StartRegisterFails, StopConflict, processes, At,
     WellPlaced, ArmsLate, Arms
<1>8. CASE StartPrepared(t) \/ StartRegister(t) \/ StartInstallCandidate(t) \/ StartSpawnFails(t)
           \/ StartAnnounce(t) \/ StartUnlist(t)
  BY <1>0, <1>2, <1>8 DEF StartPrepared, StartRegister, StartInstallCandidate, StartSpawnFails,
     StartAnnounce, StartUnlist, processes, At, WellPlaced, ArmsLate, Arms, Goto, TaskState,
     WriteIfRevisionMatches
<1>9. CASE StartSpawned(t) \/ (RestartSpawned(t) /\ task[t].op # "rollback")
  <2>1. task[t].inst \in Instances
    BY <1>0, <1>9 DEF StartSpawned, RestartSpawned, At, WellPlaced
  <2>2. \/ Goto(t, "announce") /\ At(t, "spawn")
        \/ Goto(t, "copy") /\ At(t, "respawnSelf") /\ task[t].op # "rollback"
    BY <1>9 DEF StartSpawned, RestartSpawned
  <2>3. /\ ArmsLate(task'[t]) /\ Arms(task'[t], task[t].inst)
        /\ \A i : Arms(task[t], i) => Arms(task'[t], i)
    BY <1>0, <2>2 DEF At, WellPlaced, ArmsLate, Arms, Goto, TaskState
  <2>4. \A j \in Instances \ {task[t].inst} : pool'[j] = pool[j]
    BY <1>6, <1>9, <2>1 DEF StartSpawned, RestartSpawned
  <2>5. \A u \in Tasks \ {t} : task'[u] = task[u]
    BY <1>0, <2>2 DEF Goto
  <2> QED
    BY <1>2, <2>3, <2>4, <2>5
<1>10. CASE Cutover(t) \/ CutoverInstall(t)
  BY <1>0, <1>2, <1>10 DEF Cutover, CutoverInstall, processes, At, WellPlaced, ArmsLate, Arms,
     TaskState, WriteIfRevisionMatches
<1>11. CASE CutoverRefused(t)
  BY <1>0, <1>2, <1>4, <1>11 DEF CutoverRefused, processes, At, WellPlaced, ArmsLate, Arms,
     TaskState, Goto
<1>12. CASE SyncReadPool(t) \/ SyncReadRoutes(t) \/ CopyReadPool(t) \/ CopyToMirror(t)
  BY <1>0, <1>2, <1>12 DEF SyncReadPool, SyncReadRoutes, CopyReadPool, CopyToMirror, processes,
     At, WellPlaced, ArmsLate, Arms, TaskState
<1>13. CASE RetireStop(t)
  BY <1>0, <1>2, <1>5, <1>13 DEF RetireStop, At, WellPlaced, ArmsLate, Arms, TaskState, Goto
<1>14. CASE RetireUnregister(t) \/ InstallEdit(t)
  BY <1>0, <1>2, <1>14 DEF RetireUnregister, InstallEdit, processes, At, WellPlaced, ArmsLate,
     Arms, TaskState, Goto
<1>15. CASE Retire(t) \/ Discard(t)
  BY <1>0, <1>2, <1>15 DEF Retire, Discard, EditOrSkip, processes, At, WellPlaced, ArmsLate,
     Arms, TaskState
<1>16. CASE StartAbort(t) \/ RestartStop(t)
  <2>1. pool' = [pool EXCEPT ![task[t].inst] = 0]
    BY <1>16 DEF StartAbort, RestartStop, StopFrom
  <2>2. \A i \in Instances : pool'[i] # 0 => i # task[t].inst /\ pool'[i] = pool[i]
    BY <1>0, <2>1
  <2>3. ArmsLate(task'[t]) /\ \A u \in Tasks \ {t} : task'[u] = task[u]
    BY <1>0, <1>16 DEF StartAbort, RestartStop, At, WellPlaced, ArmsLate, TaskState, Goto
  <2> QED
    BY <1>2, <2>2, <2>3 DEF Arms
<1>17. CASE StopCommit(t) \/ StopInstall(t) \/ StopUnroute(t)
  BY <1>0, <1>2, <1>17 DEF StopCommit, StopInstall, StopUnroute, WriteIfRevisionMatches,
     processes, At, WellPlaced, ArmsLate, Arms, TaskState, Goto
<1>18. ASSUME NEW i \in Instances, StopKill(t, i) PROVE HandsOn(t)
  <2>1. \A j \in Instances : ~ Arms(task[t], j)
    BY <1>0, <1>18 DEF StopKill, At, WellPlaced, ArmsLate, Arms
  <2>2. Return(t) \/ \E s : task' = [task EXCEPT ![t] = [task[t] EXCEPT !.ids = s]]
    BY <1>18 DEF StopKill, Return
  <2>3. Stays
    BY <1>5, <1>18 DEF StopKill
  <2> QED
    BY <1>0, <1>2, <1>4, <2>1, <2>2, <2>3 DEF ArmsLate, TaskState
<1>19. CASE RollbackRespawn(t)
  <2>1. task[t].inst \in Instances /\ task[t].op = "rollback" /\ task[t].then # "watched"
        /\ task[t].pc = "respawn"
    BY <1>0, <1>19 DEF RollbackRespawn, At, WellPlaced
  <2>2. \A j : ~ Arms(task[t], j)
    BY <2>1 DEF Arms
  <2>3. CASE SpawnInto(task[t].inst) /\ task' = [task EXCEPT ![t].pc = "copy", ![t].then = "respawned"]
    <3>1. Arms(task'[t], task[t].inst) /\ ArmsLate(task'[t])
      BY <1>0, <2>1, <2>3 DEF Arms, ArmsLate, TaskState
    <3>2. \A u \in Tasks \ {t} : task'[u] = task[u]
      BY <1>0, <2>3
    <3>3. \A j \in Instances \ {task[t].inst} : pool'[j] = pool[j]
      BY <1>6, <2>1, <2>3
    <3> QED
      BY <1>2, <2>2, <3>1, <3>2, <3>3
  <2>4. CASE UNCHANGED processes /\ task' = [task EXCEPT ![t].pc = "copy", ![t].then = "notReady"]
    BY <1>0, <1>2, <2>1, <2>2, <2>4 DEF processes, ArmsLate, TaskState
  <2> QED
    BY <1>19, <2>3, <2>4 DEF RollbackRespawn
<1>20. CASE RollbackInstall(t) \/ RollbackCommit(t)
  BY <1>0, <1>2, <1>4, <1>20 DEF RollbackInstall, RollbackCommit, processes, At, WellPlaced,
     ArmsLate, Arms, WriteIfRevisionMatches, TaskState
<1>21. CASE StopInstance(t)
  BY <1>0, <1>2, <1>5, <1>21 DEF StopInstance, At, WellPlaced, ArmsLate, Arms, TaskState
<1>22. CASE RestartRead(t)
  <2>1. CASE Managed(task[t].inst)
    BY <1>0, <1>2, <1>22, <2>1 DEF RestartRead, processes, At, WellPlaced, ArmsLate, Arms, Goto,
       TaskState
  <2>2. CASE ~ Managed(task[t].inst)
    BY <1>4, <1>22, <2>2 DEF RestartRead, processes, Managed, Arms
  <2> QED
    BY <2>1, <2>2
<1>23. CASE RestartFails(t) /\ Return(t)
  BY <1>0, <1>4, <1>23 DEF RestartFails, processes, At, WellPlaced, TaskState, ArmsLate, Arms
<1>24. CASE RollbackRestart(t) \/ (RestartFails(t) /\ ~ Return(t))
  <2>1. /\ pool' = pool /\ task[t].op = "rollback" /\ task[t].pc \in {"respawn", "respawnSelf"}
        /\ \/ task' = [task EXCEPT ![t].pc = "restartStop", ![t].then = "restarted"]
           \/ task' = [task EXCEPT ![t].pc = "copy", ![t].then = "notReady"]
    BY <1>0, <1>24 DEF RollbackRestart, RestartFails, processes, At, WellPlaced
  <2>2. task'[t].op = "rollback" /\ task'[t].then \in {"restarted", "notReady"}
        /\ \A u \in Tasks \ {t} : task'[u] = task[u]
    BY <1>0, <2>1 DEF TaskState
  <2>3. \A i : ~ Arms(task[t], i)
    BY <1>0, <2>1 DEF Arms, WellPlaced
  <2> QED
    BY <1>2, <2>1, <2>2, <2>3 DEF ArmsLate
<1>25. CASE RestartSpawned(t) /\ task[t].op = "rollback"
  <2>1. task[t].inst \in Instances /\ spawns[task[t].inst] > 1 /\ task[t].pc = "respawnSelf"
    BY <1>0, <1>25 DEF RestartSpawned, At, WellPlaced, CountInv, Counted
  <2>2. SpawnInto(task[t].inst) /\ Goto(t, "copy")
    BY <1>25 DEF RestartSpawned
  <2>3. pool'[task[t].inst] = spawns[task[t].inst] + 1
    BY <1>0, <2>1, <2>2 DEF SpawnInto
  <2>4. pool'[task[t].inst] \notin {1, 2}
    BY <2>1, <2>3, ControlAssumption DEF TypeInv, TypeOK
  <2>5. \A j \in Instances \ {task[t].inst} : pool'[j] = pool[j]
    BY <1>6, <2>1, <2>2
  <2>6. /\ ArmsLate(task'[t]) /\ \A u \in Tasks \ {t} : task'[u] = task[u]
        /\ \A i : ~ Arms(task[t], i)
    BY <1>0, <1>25, <2>1, <2>2 DEF WellPlaced, ArmsLate, Arms, Goto, TaskState
  <2> QED
    BY <1>2, <2>4, <2>5, <2>6
<1> QED
  BY <1>7, <1>8, <1>9, <1>10, <1>11, <1>12, <1>13, <1>14, <1>15, <1>16, <1>17, <1>18, <1>19,
     <1>20, <1>21, <1>22, <1>23, <1>24, <1>25 DEF Takes, Goes

(* Once its table is published a handler arms the watchdog it owed. *)
LEMMA PublishHandsOn ==
  ASSUME TypeInv, WatchInv, NEW t \in Tasks, SyncPublish(t)
  PROVE  HandsOn(t)
<1>0. /\ task \in [Tasks -> TaskState] /\ watch \in [Instances -> Nat]
      /\ WellPlaced(task[t]) /\ ArmsLate(task[t]) /\ task[t].pc = "publish"
  BY DEF TypeInv, TypeOK, WatchInv, SyncPublish, At
<1>1. pool' = pool /\ watch' = Armed(task[t])
      /\ \/ Goto(t, "drain") /\ task[t].then = "drain"
         \/ Goto(t, "rollback") /\ task[t].then \in {"respawned", "restarted"}
         \/ Return(t) /\ task[t].then # "drain"
  BY DEF SyncPublish, AfterSync, processes
<1>2. \A i \in Instances : /\ watch[i] > 0 => watch'[i] > 0
                           /\ Arms(task[t], i) /\ task[t].then # "drain" => watch'[i] > 0
  BY <1>0, <1>1 DEF Armed, Arms
<1>3. ArmsLate(Idle)
  BY DEF Idle, ArmsLate
<1>4. ArmsLate(task'[t]) /\ \A u \in Tasks \ {t} : task'[u] = task[u]
  BY <1>0, <1>1, <1>3 DEF Goto, Return, ArmsLate, TaskState
<1>5. task[t].then = "drain" => \A i : Arms(task[t], i) => Arms(task'[t], i)
  BY <1>0, <1>1 DEF Goto, Arms, TaskState, WellPlaced
<1> QED
  BY <1>1, <1>2, <1>4, <1>5 DEF HandsOn

(* The invariant is kept by every step of a host, its end and start too. *)
LEMMA WatchNext ==
  ASSUME Ops \cap {"restart", "drop"} = {}
  PROVE  TypeInv /\ CountInv /\ WatchInv /\ [RestartNext]_vars => WatchInv'
<1> SUFFICES ASSUME TypeInv, CountInv, WatchInv, [RestartNext]_vars PROVE WatchInv'
  OBVIOUS
<1>1. ASSUME UNCHANGED <<pool, watch, task>> PROVE WatchInv'
  BY <1>1 DEF WatchInv, Watched
<1>2. CASE \E t \in Tasks : Begins(t) \/ Takes(t) \/ Goes(t)
  BY <1>1, <1>2, BeginsHandOn, GoesHandOn, PublishHandsOn, HandedOn
<1>3. ASSUME NEW i \in Instances, ChildExits(i) \/ WatchdogGivesUp(i) PROVE WatchInv'
  <2>1. CASE ChildExits(i)
    BY <1>1, <2>1 DEF ChildExits
  <2>2. CASE WatchdogGivesUp(i)
    <3>1. watch \in [Instances -> Nat] /\ pool' = pool /\ task' = task /\ pool[i] = 0
          /\ watch' = [watch EXCEPT ![i] = @ - 1]
      BY <2>2 DEF WatchdogGivesUp, TypeInv, TypeOK, processes, Managed
    <3>2. \A j \in Instances : pool[j] # 0 => watch'[j] = watch[j]
      BY <3>1
    <3> QED
      BY <3>1, <3>2 DEF WatchInv, Watched
  <2> QED
    BY <1>3, <2>1, <2>2
<1>4. CASE HostKilled \/ HostTornDown
  <2>1. Forget
    BY <1>4 DEF HostKilled, HostTornDown
  <2>2. ArmsLate(Away("down"))
    BY DEF Away, Idle, ArmsLate
  <2> QED
    BY <2>1, <2>2 DEF Forget, WatchInv, Watched
<1>5. CASE ParentGone
  BY <1>1, <1>5 DEF ParentGone
<1>6. CASE Boot \/ Sweep
  <2>0. HostIs("down") \/ HostIs("sweeping")
    BY <1>6 DEF Boot, Sweep
  <2>1. /\ \A i : ~ Arms(Away("down"), i) /\ ~ Arms(Away("sweeping"), i)
        /\ ArmsLate(Away("sweeping")) /\ ArmsLate(Idle)
    BY DEF Away, Idle, ArmsLate, Arms
  <2>2. \A i \in Instances : pool[i] \in {1, 2} => watch[i] > 0
    BY <2>0, <2>1 DEF WatchInv, Watched, HostIs
  <2>3. UNCHANGED <<pool, watch>>
        /\ (task' = [t \in Tasks |-> Away("sweeping")] \/ task' = [t \in Tasks |-> Idle])
    BY <1>6 DEF Boot, Sweep, processes
  <2>4. \A i \in Instances : Watched(i)'
    BY <2>2, <2>3 DEF Watched
  <2> QED
    BY <2>1, <2>3, <2>4 DEF WatchInv
<1> QED
  BY <1>1, <1>2, <1>3, <1>4, <1>5, <1>6 DEF RestartNext, Next, vars, Dropped

(* A host that is killed and comes back included, whenever all handlers    *)
(* have returned the first and the second child of an active instance have *)
(* a watchdog, unless an operator restarts single instances or a client    *)
(* leaves a start half way.  A later child may lack one: that which a      *)
(* rollback puts in the place of the child a watchdog has just brought     *)
(* back, if the watchdog gives up before it is there.                      *)
THEOREM ActivesStayWatched ==
  ASSUME Ops \cap {"restart", "drop"} = {}
  PROVE  RestartSpec => []WatchedAtRest
<1>1. Init => WatchInv
  BY DEF Init, Idle, WatchInv, Watched, ArmsLate
<1>2. TypeInv /\ WatchInv => WatchedAtRest
  <2> SUFFICES ASSUME TypeInv, WatchInv, AtRest, NEW a \in Apps, Active(shell, a) # None,
                      Managed(Active(shell, a))
               PROVE  watch[Active(shell, a)] > 0 \/ pool[Active(shell, a)] > 2
    BY DEF WatchedAtRest
  <2>1. Active(shell, a) \in Instances
    BY DEF TypeInv, TypeOK, Manifest, RouteBinding, Active
  <2>2. \A i : ~ Arms(Idle, i)
    BY DEF Arms, Idle
  <2>3. pool[Active(shell, a)] \in {1, 2} \/ pool[Active(shell, a)] > 2
    BY <2>1, ControlAssumption DEF TypeInv, TypeOK, Managed
  <2> QED
    BY <2>1, <2>2, <2>3 DEF WatchInv, Watched, AtRest
<1> QED
  BY <1>1, <1>2, WatchNext, CountInit, CountNext, StartInit, RestartStarts, TypeInit,
     RestartTypeNext, PTL DEF RestartSpec

-----------------------------------------------------------------------------
(* The manifest the host decides with.                                     *)

(* While no host serves no handler runs. *)
LEMMA NobodyRuns ==
  ASSUME TypeInv, ~ Serves, [Next]_vars
  PROVE  UNCHANGED <<disk, shell, mutex, pool, table, started, task>>
<1>1. \A t \in Tasks : ~ (Begins(t) \/ Takes(t) \/ Goes(t) \/ Dropped(t))
  BY HandlersServe
<1>2. ASSUME NEW i \in Instances, ChildExits(i) \/ WatchdogGivesUp(i)
      PROVE  UNCHANGED <<disk, shell, mutex, pool, table, started, task>>
  BY <1>2 DEF ChildExits, WatchdogGivesUp, manifests, processes
<1>3. CASE UNCHANGED vars
  BY <1>3 DEF vars, manifests, processes
<1> QED
  BY <1>1, <1>2, <1>3 DEF Next

(* A host that does not serve has no child, no entry, no active instance   *)
(* and no handler inside the lock.                                         *)
Blank ==
  /\ mutex = None
  /\ \A i \in Instances : pool[i] = 0
  /\ \A a \in Apps : table[a] = NoEntry /\ Active(shell, a) = None

BlankInv == ~ Serves => Blank

(* Every step of a host keeps that. *)
LEMMA BlankNext == TypeInv /\ BlankInv /\ [RestartNext]_vars => BlankInv'
<1> SUFFICES ASSUME TypeInv, BlankInv, [RestartNext]_vars, ~ Serves' PROVE Blank'
  BY DEF BlankInv
<1>1. CASE [Next]_vars
  <2>1. ~ Serves
    BY <1>1, ServesOn
  <2> QED
    BY <1>1, <2>1, NobodyRuns DEF BlankInv, Blank, Active
<1>2. CASE HostKilled \/ HostTornDown
  BY <1>2 DEF HostKilled, HostTornDown, Forget, Blank, Active, EmptyManifest, EmptyRoute
<1>3. CASE Boot
  <2>1. Blank
    BY <1>3, AwayTypes DEF Boot, HostIs, Serves, BlankInv
  <2>2. \A a \in Apps : Active(Settled(disk), a) = None
    BY DEF Settled, Active, EmptyRoute
  <2> QED
    BY <1>3, <2>1, <2>2 DEF Boot, processes, Blank, Active
<1>4. CASE Sweep
  <2>1. Blank
    BY <1>4, AwayTypes DEF Sweep, HostIs, Serves, BlankInv
  <2> QED
    BY <1>4, <2>1 DEF Sweep, manifests, Blank, Active
<1>5. CASE ParentGone
  BY <1>5 DEF ParentGone, manifests, BlankInv, Blank, Active
<1> QED
  BY <1>1, <1>2, <1>3, <1>4, <1>5 DEF RestartNext

(* A fresh host has nothing yet. *)
LEMMA BlankInit == Init => BlankInv
  BY DEF Init, BlankInv, Blank, Active, EmptyManifest, EmptyRoute

(* A host that has settled the manifest on disk, and one that sweeps, keep *)
(* shell and disk together. *)
LEMMA LockRestarts ==
  ASSUME BlankInv, HostIs("down") \/ LockInv, Boot \/ Sweep \/ ParentGone,
         Boot => disk' = shell'
  PROVE  (HostIs("down") \/ LockInv)'
<1>1. CASE ParentGone
  BY <1>1 DEF ParentGone, manifests, LockInv, HostIs
<1>2. CASE Boot
  <2>1. \A t \in Tasks : task'[t].pc = "sweeping"
    BY <1>2, AwayTypes DEF Boot
  <2>2. disk' = shell'
    BY <1>2 DEF Boot
  <2> QED
    BY <2>1, <2>2 DEF LockInv, HoldsLock, Installing
<1>3. CASE Sweep
  <2>1. \A t \in Tasks : task[t].pc = "sweeping" /\ task'[t].pc = "idle"
    BY <1>3, AwayTypes, IdleFields DEF Sweep, HostIs
  <2>2. shell' = shell /\ disk' = disk
    BY <1>3 DEF Sweep, manifests
  <2>3. CASE LockInv
    <3>1. shell = disk
      BY <2>1, <2>3 DEF LockInv, Installing
    <3> QED
      BY <2>1, <2>2, <3>1 DEF LockInv, HoldsLock, Installing
  <2>4. CASE HostIs("down")
    <3>1. Tasks = {}
      BY <2>1, <2>4, AwayTypes DEF HostIs
    <3> QED
      BY <3>1 DEF HostIs
  <2> QED
    BY <2>3, <2>4
<1> QED
  BY <1>1, <1>2, <1>3

(* Where writes succeed a host that serves decides with the manifest on    *)
(* disk whenever nobody holds its lock, whatever the host before it was    *)
(* about to install when it was killed.                                    *)
THEOREM HostsFollowDisk ==
  ASSUME ~IoFails
  PROVE  RestartSpec => [](Serves => ShellMatchesDisk)
<1> DEFINE Follows == HostIs("down") \/ LockInv
<1>1. Init => Follows
  BY LockInit
<1>2. TypeInv /\ BlankInv /\ Follows /\ [RestartNext]_vars => Follows'
  <2> SUFFICES ASSUME TypeInv, BlankInv, Follows, [RestartNext]_vars PROVE Follows'
    OBVIOUS
  <2>1. CASE [Next]_vars /\ HostIs("down")
    <3>1. ~ Serves
      BY <2>1, AwayTypes DEF HostIs, Serves
    <3> QED
      BY <2>1, <3>1, NobodyRuns DEF HostIs
  <2>2. CASE [Next]_vars /\ LockInv
    BY <2>2, LockNext
  <2>3. CASE HostKilled \/ HostTornDown
    BY <2>3 DEF HostKilled, HostTornDown, Forget, HostIs
  <2>4. CASE Boot \/ Sweep \/ ParentGone
    BY <2>4, LockRestarts DEF Boot
  <2> QED
    BY <2>1, <2>2, <2>3, <2>4 DEF RestartNext
<1>3. Follows => (Serves => ShellMatchesDisk)
  <2>1. HostIs("down") => ~ Serves
    BY AwayTypes DEF HostIs, Serves
  <2>2. LockInv => ShellMatchesDisk
    BY NoneApart DEF LockInv, ShellMatchesDisk
  <2> QED
    BY <2>1, <2>2
<1> HIDE DEF Follows
<1> QED
  BY <1>1, <1>2, <1>3, TypeInit, RestartTypeNext, BlankInit, BlankNext, PTL DEF RestartSpec

-----------------------------------------------------------------------------
(* What starts and stops leave behind, over any number of hosts.           *)

(* A host that could not write the manifest it settled goes on with one    *)
(* the disk has not got: it can write nothing, and so its starts end where *)
(* they register and its stops find nothing.                               *)
Refusing ==
  /\ IoFails /\ disk # shell /\ mutex = None
  /\ \A i \in Instances : pool[i] = 0
  /\ \A a \in Apps : Active(shell, a) = None
  /\ \A t \in Tasks : task[t].pc \in {"idle", "sweeping", "prepare", "register"}

(* What its handlers do leaves it so. *)
LEMMA RefusingNext ==
  ASSUME Plain, TypeInv, Refusing, [Next]_vars
  PROVE  Refusing'
<1>0. task \in [Tasks -> TaskState] /\ Idle.pc = "idle"
  BY DEF TypeInv, TypeOK, Idle
<1>1. CASE UNCHANGED <<disk, shell, mutex, pool, task>>
  BY <1>1 DEF Refusing, Active
<1>2. ASSUME NEW i \in Instances, ChildExits(i) \/ WatchdogGivesUp(i)
      PROVE  UNCHANGED <<disk, shell, mutex, pool, task>>
  BY <1>2 DEF ChildExits, WatchdogGivesUp, manifests, processes
<1>3. ASSUME NEW t \in Tasks, UNCHANGED <<disk, shell, mutex, pool>>,
             NEW r, task' = [task EXCEPT ![t] = r], r.pc \in {"idle", "prepare", "register"}
      PROVE  Refusing'
  BY <1>0, <1>3 DEF Refusing, Active
<1>4. ASSUME NEW t \in Tasks, Begins(t) PROVE Refusing'
  <2>1. ASSUME NEW a \in Apps, StartBegin(t, a) PROVE Refusing'
    <3> DEFINE r == [Idle EXCEPT !.op = "start", !.pc = "prepare", !.app = a]
    <3>1. r.pc = "prepare"
      BY DEF Idle
    <3>2. task' = [task EXCEPT ![t] = r] /\ UNCHANGED <<disk, shell, mutex, pool>>
      BY <2>1 DEF StartBegin, manifests, processes
    <3> HIDE DEF r
    <3> QED
      BY <1>3, <3>1, <3>2
  <2>2. ASSUME NEW a \in Apps, StopBegin(t, a)
        PROVE  UNCHANGED <<disk, shell, mutex, pool, task>>
    <3>1. {i \in Instances : AppOf(i) = a /\ (Managed(i) \/ Active(shell, a) = i)} = {}
      BY NoneApart DEF Refusing, Managed
    <3> QED
      BY <2>2, <3>1 DEF StopBegin, manifests, processes
  <2>3. \A a \in Apps : ~ RollbackBegin(t, a)
    BY DEF RollbackBegin, Begin, Plain
  <2>4. \A i \in Instances : /\ ~ SwitchBegin(t, i) /\ ~ StopInstanceBegin(t, i)
                             /\ ~ RestartBegin(t, i) /\ ~ WatchdogFires(t, i)
    BY DEF SwitchBegin, StopInstanceBegin, RestartBegin, WatchdogFires, Begin, Plain, Refusing,
       Managed
  <2> QED
    BY <1>1, <1>4, <2>1, <2>2, <2>3, <2>4 DEF Begins
<1>5. ASSUME NEW t \in Tasks PROVE ~ Takes(t) /\ ~ Dropped(t)
  BY DEF Takes, Dropped, Plain, Refusing, StartRegister, WriteIfRevisionMatches, Cutover,
     CutoverRefused, Retire, Discard, StopCommit, At
<1>6. ASSUME NEW t \in Tasks, Goes(t) PROVE Refusing'
  <2>1. StartRefused(t) \/ StartPrepared(t) \/ StartRegisterFails(t)
    BY <1>6 DEF Refusing, Goes, At, StartInstallCandidate, StartSpawned, StartSpawnFails,
       StartAnnounce, CutoverInstall, SyncReadPool, SyncReadRoutes, SyncPublish, RetireStop,
       RetireUnregister, InstallEdit, StartAbort, StartUnlist, StopConflict, StopInstall,
       StopUnroute, StopKill, RollbackRespawn, RollbackRestart, RollbackCommit,
       RollbackInstall, StopInstance, RestartRead, RestartStop, RestartSpawned, RestartFails,
       CopyReadPool, CopyToMirror
  <2>2. UNCHANGED <<disk, shell, mutex, pool>>
    BY <2>1 DEF StartRefused, StartPrepared, StartRegisterFails, manifests, processes
  <2>3. CASE StartRefused(t) \/ StartRegisterFails(t)
    BY <1>0, <1>3, <2>2, <2>3 DEF StartRefused, StartRegisterFails, Return
  <2>4. CASE StartPrepared(t)
    <3>1. PICK i : task' = [task EXCEPT ![t].pc = "register", ![t].inst = i]
      BY <2>4 DEF StartPrepared
    <3>2. task'[t].pc = "register" /\ \A u \in Tasks \ {t} : task'[u] = task[u]
      BY <1>0, <3>1 DEF TaskState
    <3> QED
      BY <2>2, <3>2 DEF Refusing, Active
  <2> QED
    BY <2>1, <2>3, <2>4
<1>7. UNCHANGED vars => UNCHANGED <<disk, shell, mutex, pool, task>>
  BY DEF vars, manifests, processes
<1> QED
  BY <1>1, <1>2, <1>4, <1>5, <1>6, <1>7 DEF Next

Served == Steady /\ OrphanInv /\ (IoFails \/ TableInv)

HostInv ==
  /\ TypeInv /\ StartInv /\ RouteInv /\ BlankInv
  /\ HostIs("down") \/ Served \/ Refusing

(* A step after which there is no child, no entry and no handler leaves    *)
(* everything as it should be. *)
LEMMA BlankServed ==
  ASSUME TypeInv', StartInv', RouteInv', Blank', shell' = disk',
         \A t \in Tasks : task'[t].op = "none" /\ task'[t].pc \in {"idle", "sweeping"}
                            /\ task'[t].ids = {} /\ task'[t].then = "none"
  PROVE  Served'
<1>1. \A t \in Tasks : Fits(task[t])'
  BY DEF Fits, Leaving, Stopping
<1>2. PoolInv'
  BY DEF PoolInv, Blank, Managed, Active
<1>3. OrphanInv' /\ TableInv'
  BY DEF OrphanInv, TableInv, Blank, Managed
<1>4. LockInv'
  BY DEF LockInv, HoldsLock, Installing
<1> QED
  BY <1>1, <1>2, <1>3, <1>4 DEF Served, Steady

(* Every step of a host, its end and its start included. *)
LEMMA HostNext ==
  ASSUME Plain, HostInv, [RestartNext]_vars
  PROVE  HostInv'
<1>0. /\ TypeInv' /\ StartInv' /\ BlankInv' /\ RouteInv'
  BY RestartTypeNext, RestartStarts, BlankNext, RestartRoutes DEF HostInv, Plain
<1> SUFFICES (HostIs("down") \/ Served \/ Refusing)'
  BY <1>0 DEF HostInv
<1>1. CASE [Next]_vars
  <2>1. CASE HostIs("down")
    <3>1. ~ Serves
      BY <2>1, AwayTypes DEF HostIs, Serves
    <3> QED
      BY <1>1, <2>1, <3>1, NobodyRuns DEF HostInv, HostIs
  <2>2. CASE Served
    BY <1>1, <2>2, SteadyNext, OrphanNext, TableNext DEF Served
  <2>3. CASE Refusing
    BY <1>1, <2>3, RefusingNext DEF HostInv
  <2> QED
    BY <2>1, <2>2, <2>3 DEF HostInv
<1>2. CASE HostKilled \/ HostTornDown
  BY <1>2 DEF HostKilled, HostTornDown, Forget, HostIs
<1>3. ASSUME Boot \/ Sweep, disk' = shell' PROVE Served'
  <2>1. PICK phase \in {"idle", "sweeping"} : \A t \in Tasks : task'[t] = Away(phase)
    <3>1. Idle = Away("idle")
      BY DEF Idle, Away
    <3> QED
      BY <1>3, <3>1 DEF Boot, Sweep
  <2>2. /\ Away(phase).op = "none" /\ Away(phase).pc = phase /\ Away(phase).ids = {}
        /\ Away(phase).then = "none"
    BY DEF Away, Idle
  <2>3. Blank'
    <3>1. Blank
      BY <1>3, AwayTypes DEF Boot, Sweep, HostIs, Serves, HostInv, BlankInv
    <3>2. \A a \in Apps : Active(Settled(disk), a) = None
      BY DEF Settled, Active, EmptyRoute
    <3> QED
      BY <1>3, <3>1, <3>2 DEF Boot, Sweep, manifests, processes, Blank, Active
  <2> QED
    BY <1>0, <1>3, <2>1, <2>2, <2>3, BlankServed
<1>4. ASSUME Boot \/ Sweep \/ ParentGone PROVE Blank
  BY <1>4, AwayTypes DEF Boot, Sweep, ParentGone, HostIs, Serves, HostInv, BlankInv
<1>5. CASE Boot /\ disk' # shell'
  <2>1. IoFails /\ mutex' = mutex /\ pool' = pool /\ shell' = Settled(disk)
    BY <1>5 DEF Boot, processes
  <2>2. \A a \in Apps : Active(Settled(disk), a) = None
    BY DEF Settled, Active, EmptyRoute
  <2>3. \A t \in Tasks : task'[t].pc = "sweeping"
    BY <1>5, AwayTypes DEF Boot
  <2> QED
    BY <1>4, <1>5, <2>1, <2>2, <2>3 DEF Refusing, Blank, Active
<1>6. CASE Sweep /\ disk' # shell'
  <2>1. UNCHANGED <<disk, shell, mutex, pool>> /\ \A t \in Tasks : task'[t].pc = "idle"
    BY <1>6, IdleFields DEF Sweep, manifests
  <2>2. CASE HostIs("down")
    <3>1. Tasks = {}
      BY <1>6, <2>2, AwayTypes DEF Sweep, HostIs
    <3> QED
      BY <3>1 DEF HostIs
  <2>3. CASE Refusing
    BY <2>1, <2>3 DEF Refusing, Active
  <2>4. ~ Served
    <3>1. \A t \in Tasks : task[t].pc = "sweeping"
      BY <1>6, AwayTypes DEF Sweep, HostIs
    <3> QED
      BY <1>6, <2>1, <3>1 DEF Served, Steady, LockInv, Installing
  <2> QED
    BY <2>2, <2>3, <2>4 DEF HostInv
<1>7. CASE ParentGone
  <2>1. UNCHANGED <<disk, shell, mutex, pool, table, started, task>> /\ Blank
    BY <1>4, <1>7 DEF ParentGone, manifests
  <2>2. CASE HostIs("down") \/ Refusing
    BY <2>1, <2>2 DEF HostIs, Refusing, Active
  <2>3. CASE Served
    <3>1. PoolInv'
      BY <2>1, <2>3 DEF Served, Steady, PoolInv, Blank, Managed, Active
    <3>2. \A t \in Tasks : Fits(task[t])'
      BY <2>1, <2>3 DEF Served, Steady, Fits, Born, Out, Leaving, Stopping, Managed, Active
    <3>3. OrphanInv' /\ TableInv'
      BY <2>1 DEF OrphanInv, TableInv, Blank, Managed
    <3>4. LockInv'
      BY <2>1, <2>3 DEF Served, Steady, LockInv
    <3> QED
      BY <1>0, <3>1, <3>2, <3>3, <3>4 DEF Served, Steady
  <2> QED
    BY <2>2, <2>3 DEF HostInv
<1> QED
  BY <1>1, <1>2, <1>3, <1>5, <1>6, <1>7 DEF RestartNext

(* A fresh host is one of them. *)
LEMMA HostInit == Init => HostInv
<1>1. Init => OrphanInv /\ TableInv
  BY DEF Init, OrphanInv, TableInv, Managed
<1> QED
  BY <1>1, TypeInit, StartInit, BlankInit, SteadyInit DEF HostInv, Served, Steady

(* Over any number of kills, teardowns and starts of the host: once all    *)
(* handlers of the host that serves have returned, the active instance of  *)
(* an app has a managed child, whether or not writes fail.                 *)
THEOREM ActivesServedOverHosts ==
  ASSUME Ops \subseteq {"start", "stop"}
  PROVE  RestartSpec => []ServedAtRest
<1>1. HostInv /\ [RestartNext]_vars => HostInv'
  BY HostNext DEF Plain
<1>2. HostInv => ServedAtRest
  <2>1. HostIs("down") /\ BlankInv => ServedAtRest
    BY AwayTypes DEF HostIs, Serves, BlankInv, Blank, ServedAtRest
  <2>2. Steady => ServedAtRest
    BY RestAgrees DEF ServedAtRest, Steady, PoolInv
  <2>3. Refusing => ServedAtRest
    BY DEF Refusing, ServedAtRest
  <2> QED
    BY <2>1, <2>2, <2>3 DEF HostInv, Served
<1> QED
  BY <1>1, <1>2, HostInit, PTL DEF RestartSpec

(* Over any number of hosts, once all handlers have returned: no managed   *)
(* child is left of an instance the manifest wants stopped or does not     *)
(* list, whatever the host before was doing when it was killed.            *)
THEOREM NoChildLeftOverHosts ==
  ASSUME Ops \subseteq {"start", "stop"}
  PROVE  RestartSpec => []NoOrphans
<1>1. HostInv /\ [RestartNext]_vars => HostInv'
  BY HostNext DEF Plain
<1>2. HostInv => NoOrphans
  <2>1. (HostIs("down") /\ BlankInv) \/ Refusing => NoOrphans
    BY AwayTypes DEF HostIs, Serves, BlankInv, Blank, Refusing, NoOrphans, Managed
  <2>2. Steady /\ OrphanInv => NoOrphans
    BY RestAgrees DEF NoOrphans, OrphanInv, Stopping
  <2> QED
    BY <2>1, <2>2 DEF HostInv, Served
<1> QED
  BY <1>1, <1>2, HostInit, PTL DEF RestartSpec

(* Over any number of hosts, once all handlers have returned and where     *)
(* writes succeed: every entry of the table names the active instance and  *)
(* its managed child, also when an earlier host was killed in the middle   *)
(* of starts and stops of the same app.                                    *)
THEOREM TableSettlesOverHosts ==
  ASSUME Ops \subseteq {"start", "stop"}, ~IoFails
  PROVE  RestartSpec => []TableTrueAtRest
<1>1. HostInv /\ [RestartNext]_vars => HostInv'
  BY HostNext DEF Plain
<1>2. HostInv => TableTrueAtRest
  <2>1. HostIs("down") /\ BlankInv => TableTrueAtRest
    BY AwayTypes DEF HostIs, Serves, BlankInv, Blank, TableTrueAtRest
  <2>2. ASSUME Steady, TableInv, AtRest, NEW a \in Apps, table[a] # NoEntry
        PROVE  TrueEntry(a) /\ shell = disk
    <3>1. shell = disk /\ ~ Cleared(a)
      BY <2>2, RestAgrees DEF Cleared, Clears
    <3> QED
      BY <2>2, <3>1 DEF TableInv
  <2> QED
    BY <2>1, <2>2 DEF HostInv, Served, Refusing, TableTrueAtRest, TrueEntry
<1> QED
  BY <1>1, <1>2, HostInit, PTL DEF RestartSpec
=============================================================================
