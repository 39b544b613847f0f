------------------------ MODULE RuntimeControlRoutes ------------------------
(***************************************************************************)
(* What the routes of host-control.json may name, and what starts and      *)
(* stops leave behind once they have all returned: proofs about            *)
(* RuntimeControl for any number of apps, handlers, starts and spawns.     *)
(* The first part allows any mix of operations without an operator's own   *)
(* cutovers; the last is about starts and stops, whose writes may fail     *)
(* but where the route table is concerned.                                 *)
(***************************************************************************)
EXTENDS RuntimeControlProofs

-----------------------------------------------------------------------------
(* No route dangles.                                                       *)

(* A start between its registration and its cutover or its discard.        *)
Pending(r) ==
  /\ r.op = "start"
  /\ r.pc \in {"register", "installCandidate", "spawn", "announce", "cutover",
               "abort", "unlist", "discard"}

Slots(r) == {r.active, r.candidate, r.previous} \ {None}

(* The slots of an app name instances of it, listed and already numbered.  *)
SlotsSound(m) ==
  \A a \in Apps : \A i \in Slots(m.routes[a]) :
    Registered(m, i) /\ AppOf(i) = a /\ i[2] <= started[a]

(* The instance of a pending start is no more than a candidate.            *)
NotServed(m, r) ==
  /\ AppOf(r.inst) = r.app
  /\ r.inst[2] <= started[r.app]
  /\ \A a \in Apps : r.inst \notin {m.routes[a].active, m.routes[a].previous}

TargetsPrevious(r) ==
  r.op = "rollback" => r.inst = r.seen.routes[r.app].previous

RouteInv ==
  /\ SlotsSound(disk)
  /\ \A t \in Tasks : Pending(task[t]) => NotServed(disk, task[t])
  /\ \A t \in Tasks : TargetsPrevious(task[t])

(* A step of a handler that neither begins a start's pending part nor a    *)
(* rollback.                                                               *)
RouteKept(t) ==
  /\ OnlyMoves(t)
  /\ Pending(task'[t]) => /\ Pending(task[t]) /\ task'[t].app = task[t].app
                          /\ task'[t].inst = task[t].inst
  /\ task'[t].op = "rollback" => /\ task[t].op = "rollback" /\ task'[t].app = task[t].app
                                 /\ task'[t].inst = task[t].inst
                                 /\ task'[t].seen = task[t].seen

(* Such a step keeps RouteInv if it leaves the disk alone ... *)
LEMMA RouteAside ==
  ASSUME RouteInv, NEW t \in Tasks, RouteKept(t), UNCHANGED <<disk, started>>
  PROVE  RouteInv'
<1>1. SlotsSound(disk)'
  BY DEF RouteInv, SlotsSound
<1>2. ASSUME NEW u \in Tasks, Pending(task'[u]) PROVE NotServed(disk, task[u])'
  BY <1>2 DEF RouteInv, RouteKept, OnlyMoves, NotServed
<1>3. ASSUME NEW u \in Tasks PROVE TargetsPrevious(task'[u])
  BY DEF RouteInv, RouteKept, OnlyMoves, TargetsPrevious
<1> QED
  BY <1>1, <1>2, <1>3 DEF RouteInv

(* ... or writes a manifest whose slots are sound and serve no pending start. *)
LEMMA RouteWritten ==
  ASSUME RouteInv, NEW t \in Tasks, RouteKept(t), UNCHANGED started,
         NEW m, disk' = m, SlotsSound(m),
         \A u \in Tasks : Pending(task'[u]) => NotServed(m, task[u])
  PROVE  RouteInv'
<1>1. SlotsSound(disk)'
  BY DEF SlotsSound
<1>2. ASSUME NEW u \in Tasks, Pending(task'[u]) PROVE NotServed(disk, task[u])'
  BY <1>2 DEF RouteKept, OnlyMoves, NotServed
<1>3. ASSUME NEW u \in Tasks PROVE TargetsPrevious(task'[u])
  BY DEF RouteInv, RouteKept, OnlyMoves, TargetsPrevious
<1> QED
  BY <1>1, <1>2, <1>3 DEF RouteInv

(* A change of wishes unlists nothing. *)
LEMMA StillListed ==
  ASSUME NEW m \in Manifest, NEW ids, NEW d \in {"Running", "Standby", "Stopped"},
         NEW i \in Instances, Registered(m, i)
  PROVE  WithDesired(m, ids, d)[i] # "absent"
  BY DEF WithDesired, Registered

(* Slots hold instances. *)
LEMMA SlotTypes ==
  ASSUME NEW m \in Manifest, NEW a \in Apps
  PROVE  Slots(m.routes[a]) \subseteq Instances
  BY DEF Slots, Manifest, RouteBinding

(* Registering a candidate keeps the slots sound and serves nobody. *)
LEMMA RegisterSound ==
  ASSUME NEW m \in Manifest, NEW a \in Apps, NEW i \in Instances, SlotsSound(m),
         AppOf(i) = a, i[2] <= started[a]
  PROVE  /\ SlotsSound(RegisterCandidate(m, a, i))
         /\ \A r : NotServed(m, r) => NotServed(RegisterCandidate(m, a, i), r)
<1> DEFINE n == RegisterCandidate(m, a, i)
<1>1. /\ n.instances = [m.instances EXCEPT ![i] = "Running"]
      /\ n.routes = WithRoute(m, a, m.routes[a].active, i, m.routes[a].previous)
  BY DEF RegisterCandidate
<1> HIDE DEF n
<1>2. /\ \A b \in Apps \ {a} : n.routes[b] = m.routes[b]
      /\ n.routes[a].active = m.routes[a].active /\ n.routes[a].candidate = i
      /\ n.routes[a].previous = m.routes[a].previous
  BY <1>1 DEF WithRoute, Manifest
<1>3. \A j \in Instances : Registered(m, j) \/ j = i => Registered(n, j)
  BY <1>1 DEF Registered, Manifest
<1>4. SlotsSound(n)
  <2> SUFFICES ASSUME NEW b \in Apps, NEW j \in Slots(n.routes[b])
               PROVE  Registered(n, j) /\ AppOf(j) = b /\ j[2] <= started[b]
    BY DEF SlotsSound
  <2>1. j \in Slots(m.routes[b]) \/ (b = a /\ j = i)
    BY <1>2 DEF Slots
  <2> QED
    BY <1>3, <2>1, SlotTypes DEF SlotsSound
<1>5. \A b \in Apps : /\ n.routes[b].active = m.routes[b].active
                      /\ n.routes[b].previous = m.routes[b].previous
  BY <1>2
<1>6. \A r : NotServed(m, r) => NotServed(n, r)
  BY <1>5 DEF NotServed
<1> QED
  BY <1>4, <1>6 DEF n

(* So does a cutover to a listed instance, for all starts but its own. *)
LEMMA CutoverSound ==
  ASSUME NEW m \in Manifest, NEW a \in Apps, NEW i \in Instances, SlotsSound(m),
         AppOf(i) = a, i[2] <= started[a], Registered(m, i)
  PROVE  /\ SlotsSound(CutoverRoute(m, a, i))
         /\ \A r : NotServed(m, r) /\ r.inst # i => NotServed(CutoverRoute(m, a, i), r)
<1> DEFINE n == CutoverRoute(m, a, i)
<1>1. \/ /\ n.instances = m.instances
         /\ n.routes = WithRoute(m, a, i, None, m.routes[a].previous)
      \/ /\ n.instances = [WithDesired(m, {m.routes[a].active}, "Standby") EXCEPT ![i] = "Running"]
         /\ n.routes = WithRoute(m, a, i, None, m.routes[a].active)
  BY DEF CutoverRoute
<1> HIDE DEF n
<1>2. /\ \A b \in Apps \ {a} : n.routes[b] = m.routes[b]
      /\ n.routes[a].active = i /\ n.routes[a].candidate = None
      /\ n.routes[a].previous \in {m.routes[a].active, m.routes[a].previous}
  BY <1>1 DEF WithRoute, Manifest
<1>3. \A j \in Instances : Registered(m, j) => Registered(n, j)
  <2> SUFFICES ASSUME NEW j \in Instances, Registered(m, j) PROVE n.instances[j] # "absent"
    BY DEF Registered
  <2>1. WithDesired(m, {m.routes[a].active}, "Standby")[j] # "absent"
    BY StillListed
  <2>2. WithDesired(m, {m.routes[a].active}, "Standby") \in [Instances -> Desired]
    BY PartTypes DEF Desired
  <2> QED
    BY <1>1, <2>1, <2>2 DEF Registered
<1>4. SlotsSound(n)
  <2> SUFFICES ASSUME NEW b \in Apps, NEW j \in Slots(n.routes[b])
               PROVE  Registered(n, j) /\ AppOf(j) = b /\ j[2] <= started[b]
    BY DEF SlotsSound
  <2>1. j \in Slots(m.routes[b]) \/ (b = a /\ j = i)
    BY <1>2 DEF Slots
  <2> QED
    BY <1>3, <2>1, SlotTypes DEF SlotsSound
<1>5. ASSUME NEW r, NotServed(m, r), r.inst # i PROVE NotServed(n, r)
  BY <1>2, <1>5 DEF NotServed
<1> QED
  BY <1>4, <1>5 DEF n

(* So does discarding an instance that is no more than a candidate. *)
LEMMA DiscardSound ==
  ASSUME NEW m \in Manifest, NEW a \in Apps, NEW i \in Instances, SlotsSound(m),
         AppOf(i) = a,
         \A b \in Apps : i \notin {m.routes[b].active, m.routes[b].previous}
  PROVE  /\ SlotsSound(DiscardCandidate(m, a, i))
         /\ \A r : NotServed(m, r) => NotServed(DiscardCandidate(m, a, i), r)
<1> DEFINE n == DiscardCandidate(m, a, i)
           c == IF m.routes[a].candidate = i THEN None ELSE m.routes[a].candidate
<1>1. /\ n.instances = [m.instances EXCEPT ![i] = "absent"]
      /\ n.routes = WithRoute(m, a, m.routes[a].active, c, m.routes[a].previous)
  BY DEF DiscardCandidate
<1> HIDE DEF n
<1>2. /\ \A b \in Apps \ {a} : n.routes[b] = m.routes[b]
      /\ n.routes[a].active = m.routes[a].active /\ n.routes[a].candidate = c
      /\ n.routes[a].previous = m.routes[a].previous
  BY <1>1 DEF WithRoute, Manifest
<1>3. \A j \in Instances \ {i} : Registered(m, j) => Registered(n, j)
  BY <1>1 DEF Registered, Manifest
<1>4. SlotsSound(n)
  <2> SUFFICES ASSUME NEW b \in Apps, NEW j \in Slots(n.routes[b])
               PROVE  Registered(n, j) /\ AppOf(j) = b /\ j[2] <= started[b]
    BY DEF SlotsSound
  <2>1. j \in Slots(m.routes[b])
    BY <1>2 DEF Slots
  <2>2. AppOf(j) = b
    BY <2>1 DEF SlotsSound
  <2>3. j # i
    <3>1. CASE b = a
      BY <1>2, <3>1 DEF Slots
    <3>2. CASE b # a
      BY <2>2, <3>2
    <3> QED
      BY <3>1, <3>2
  <2> QED
    BY <1>3, <2>1, <2>3, SlotTypes DEF SlotsSound
<1>5. \A b \in Apps : /\ n.routes[b].active = m.routes[b].active
                      /\ n.routes[b].previous = m.routes[b].previous
  BY <1>2
<1>6. \A r : NotServed(m, r) => NotServed(n, r)
  BY <1>5 DEF NotServed
<1> QED
  BY <1>4, <1>6 DEF n

(* So do a retirement and a stop. *)
LEMMA StopSound ==
  ASSUME NEW m \in Manifest, NEW a \in Apps, NEW i, NEW ids \in SUBSET Instances,
         SlotsSound(m)
  PROVE  /\ SlotsSound(RetirePrevious(m, i)) /\ SlotsSound(StopRoute(m, a, ids))
         /\ \A r : r.inst # None /\ NotServed(m, r) =>
              NotServed(RetirePrevious(m, i), r) /\ NotServed(StopRoute(m, a, ids), r)
<1> DEFINE p == RetirePrevious(m, i)
           n == StopRoute(m, a, ids)
<1>1. /\ p.instances = WithDesired(m, {i}, "Stopped") /\ p.routes = m.routes
      /\ n.instances = WithDesired(m, ids, "Stopped")
      /\ n.routes = WithRoute(m, a, None, None, m.routes[a].active)
  BY DEF RetirePrevious, StopRoute
<1> HIDE DEF p, n
<1>2. /\ \A b \in Apps \ {a} : n.routes[b] = m.routes[b]
      /\ n.routes[a].active = None /\ n.routes[a].candidate = None
      /\ n.routes[a].previous = m.routes[a].active
  BY <1>1 DEF WithRoute, Manifest
<1>3. \A j \in Instances : Registered(m, j) => Registered(p, j) /\ Registered(n, j)
  BY <1>1, StillListed DEF Registered
<1>4. ASSUME NEW b \in Apps PROVE Slots(n.routes[b]) \subseteq Slots(m.routes[b])
  BY <1>2 DEF Slots
<1>5. SlotsSound(p)
  BY <1>1, <1>3, SlotTypes DEF SlotsSound
<1>6. SlotsSound(n)
  BY <1>3, <1>4, SlotTypes DEF SlotsSound
<1>7. ASSUME NEW r, r.inst # None, NotServed(m, r)
      PROVE  NotServed(p, r) /\ NotServed(n, r)
  BY <1>1, <1>2, <1>7 DEF NotServed
<1> QED
  BY <1>5, <1>6, <1>7 DEF p, n

-----------------------------------------------------------------------------
(* The steps that neither write the disk nor begin anything.               *)

Quiet(t) == RouteKept(t) /\ UNCHANGED <<disk, started>>

(* A handler that returned, or is no start and no rollback. *)
LEMMA RouteReturns ==
  ASSUME NEW t \in Tasks, OnlyMoves(t), task'[t].op \notin {"start", "rollback"}
  PROVE  RouteKept(t)
  BY DEF RouteKept, Pending

(* A handler that goes on with the instance it has. *)
LEMMA RouteGoes ==
  ASSUME NEW t \in Tasks, OnlyMoves(t), task'[t].op = task[t].op,
         task'[t].app = task[t].app, task'[t].inst = task[t].inst,
         task[t].op = "rollback" => task'[t].seen = task[t].seen,
         Pending(task'[t]) => Pending(task[t])
  PROVE  RouteKept(t)
  BY DEF RouteKept

(* A handler that only changes where it is. *)
LEMMA RouteGoto ==
  ASSUME TypeInv, NEW t \in Tasks, NEW pc, Goto(t, pc),
         Pending(task'[t]) => Pending(task[t])
  PROVE  RouteKept(t)
<1>1. OnlyMoves(t) /\ task'[t].op = task[t].op /\ task'[t].app = task[t].app
      /\ task'[t].inst = task[t].inst /\ task'[t].seen = task[t].seen
  BY DEF Goto, OnlyMoves, TypeInv, TypeOK, TaskState
<1> QED
  BY <1>1, RouteGoes

(* A handler that returns. *)
LEMMA RouteReturn ==
  ASSUME TypeInv, NEW t \in Tasks, Return(t)
  PROVE  RouteKept(t)
<1>1. OnlyMoves(t) /\ task'[t].op = "none"
  BY IdleFields DEF Return, OnlyMoves, TypeInv, TypeOK
<1> QED
  BY <1>1, RouteReturns

(* The steps of a start between its registration and its cutover. *)
LEMMA StartQuiet ==
  ASSUME TypeInv, NEW t \in Tasks,
         \/ StartRefused(t) \/ StartRegisterFails(t) \/ StartInstallCandidate(t)
         \/ StartSpawned(t) \/ StartSpawnFails(t) \/ StartAnnounce(t)
  PROVE  Quiet(t)
<1>0. task \in [Tasks -> TaskState] /\ task[t] \in TaskState /\ WellPlaced(task[t])
  BY DEF TypeInv, TypeOK
<1>1. CASE StartRefused(t) \/ StartRegisterFails(t)
  BY <1>1, RouteReturn DEF StartRefused, StartRegisterFails, manifests, Quiet
<1>2. CASE StartInstallCandidate(t)
  <2>1. /\ OnlyMoves(t) /\ task'[t].op = task[t].op /\ task[t].op = "start"
        /\ task'[t].app = task[t].app /\ task'[t].inst = task[t].inst /\ Pending(task[t])
    BY <1>0, <1>2 DEF StartInstallCandidate, At, OnlyMoves, TaskState, Pending, WellPlaced
  <2> QED
    BY <1>2, <2>1, RouteGoes DEF StartInstallCandidate, Quiet
<1>3. CASE StartSpawned(t) \/ StartSpawnFails(t) \/ StartAnnounce(t)
  <2>1. Pending(task[t])
    BY <1>0, <1>3 DEF StartSpawned, StartSpawnFails, StartAnnounce, At, Pending, WellPlaced
  <2>2. Goto(t, "announce") \/ Goto(t, "unlist") \/ Goto(t, "cutover")
    BY <1>3 DEF StartSpawned, StartSpawnFails, StartAnnounce
  <2> QED
    BY <1>3, <2>1, <2>2, RouteGoto DEF StartSpawned, StartSpawnFails, StartAnnounce, manifests, Quiet
<1> QED
  BY <1>1, <1>2, <1>3

(* The steps after a cutover. *)
LEMMA CutoverQuiet ==
  ASSUME TypeInv, NEW t \in Tasks,
         \/ CutoverRefused(t) \/ CutoverInstall(t)
         \/ SyncReadPool(t) \/ SyncReadRoutes(t) \/ SyncPublish(t)
  PROVE  Quiet(t)
<1>0. task \in [Tasks -> TaskState] /\ task[t] \in TaskState /\ WellPlaced(task[t])
  BY DEF TypeInv, TypeOK
<1>1. CASE CutoverRefused(t)
  <2>1. task[t].op = "start" => Pending(task[t])
    BY <1>1 DEF CutoverRefused, At, Pending
  <2>2. (task[t].op = "start" /\ Goto(t, "abort")) \/ Return(t)
    BY <1>1 DEF CutoverRefused
  <2> QED
    BY <1>1, <2>1, <2>2, RouteGoto, RouteReturn DEF CutoverRefused, manifests, Quiet
<1>2. CASE CutoverInstall(t) \/ SyncReadPool(t) \/ SyncReadRoutes(t)
  <2>1. /\ OnlyMoves(t) /\ task'[t].op = task[t].op /\ task'[t].seen = task[t].seen
        /\ task'[t].app = task[t].app /\ task'[t].inst = task[t].inst
        /\ task'[t].pc \in {"snap", "routes", "publish"}
    BY <1>0, <1>2 DEF CutoverInstall, SyncReadPool, SyncReadRoutes, OnlyMoves, TaskState
  <2>2. ~Pending(task'[t])
    BY <2>1 DEF Pending
  <2> QED
    BY <1>2, <2>1, <2>2, RouteGoes DEF CutoverInstall, SyncReadPool, SyncReadRoutes, manifests, Quiet
<1>3. CASE SyncPublish(t)
  <2>1. Goto(t, "drain") \/ Goto(t, "rollback") \/ Return(t)
    BY <1>3 DEF SyncPublish, AfterSync
  <2>2. \A pc \in {"drain", "rollback"} : Goto(t, pc) => ~Pending(task'[t])
    BY <1>0 DEF Goto, Pending, TaskState
  <2> QED
    BY <1>3, <2>1, <2>2, RouteGoto, RouteReturn DEF SyncPublish, manifests, Quiet
<1> QED
  BY <1>1, <1>2, <1>3

(* Retirements and aborts, up to their edit of the manifest. *)
LEMMA RetireQuiet ==
  ASSUME TypeInv, NEW t \in Tasks,
         RetireStop(t) \/ RetireUnregister(t) \/ InstallEdit(t) \/ StartAbort(t) \/ StartUnlist(t)
  PROVE  Quiet(t)
<1>0. task \in [Tasks -> TaskState] /\ task[t] \in TaskState /\ WellPlaced(task[t])
  BY DEF TypeInv, TypeOK
<1>1. CASE RetireStop(t) \/ RetireUnregister(t) \/ InstallEdit(t)
  <2>1. \E pc \in {"unregister", "retire", "snap"} : Goto(t, pc)
    BY <1>1 DEF RetireStop, RetireUnregister, InstallEdit
  <2>2. \A pc \in {"unregister", "retire", "snap"} : Goto(t, pc) => ~Pending(task'[t])
    BY <1>0 DEF Goto, Pending, TaskState
  <2> QED
    BY <1>1, <2>1, <2>2, RouteGoto DEF RetireStop, RetireUnregister, InstallEdit, manifests, Quiet
<1>2. CASE StartAbort(t) \/ StartUnlist(t)
  <2>1. Pending(task[t]) /\ (Goto(t, "unlist") \/ Goto(t, "discard"))
    BY <1>0, <1>2 DEF StartAbort, StartUnlist, At, Pending, WellPlaced
  <2> QED
    BY <1>2, <2>1, RouteGoto DEF StartAbort, StartUnlist, manifests, Quiet
<1> QED
  BY <1>1, <1>2

(* A stop, but for its commit. *)
LEMMA StopQuiet ==
  ASSUME TypeInv, NEW t \in Tasks,
         \/ \E a \in Apps : StopBegin(t, a)
         \/ StopConflict(t) \/ StopInstall(t) \/ StopUnroute(t)
         \/ \E i \in Instances : StopKill(t, i)
  PROVE  Quiet(t)
<1>0. task \in [Tasks -> TaskState] /\ task[t] \in TaskState /\ WellPlaced(task[t])
  BY DEF TypeInv, TypeOK
<1>1. ASSUME NEW a \in Apps, StopBegin(t, a) PROVE Quiet(t)
  <2>1. \A ids : [Idle EXCEPT !.op = "stop", !.pc = "stop", !.app = a, !.ids = ids].op = "stop"
    BY DEF Idle
  <2>2. task' = task \/ \E ids : task' = [task EXCEPT ![t] =
          [Idle EXCEPT !.op = "stop", !.pc = "stop", !.app = a, !.ids = ids]]
    BY <1>1 DEF StopBegin
  <2>3. task[t].op = "none"
    BY <1>1, IdleFields DEF StopBegin
  <2>4. OnlyMoves(t) /\ task'[t].op \in {"none", "stop"}
    BY <1>0, <2>1, <2>2, <2>3 DEF OnlyMoves
  <2> QED
    BY <1>1, <2>4, RouteReturns DEF StopBegin, manifests, Quiet
<1>2. CASE StopConflict(t)
  BY <1>2, RouteReturn DEF StopConflict, manifests, Quiet
<1>3. CASE StopInstall(t) \/ StopUnroute(t)
  <2>1. Goto(t, "unroute") \/ Goto(t, "kill")
    BY <1>3 DEF StopInstall, StopUnroute
  <2>2. \A pc \in {"unroute", "kill"} : Goto(t, pc) => ~Pending(task'[t])
    BY <1>0 DEF Goto, Pending, TaskState
  <2> QED
    BY <1>3, <2>1, <2>2, RouteGoto DEF StopInstall, StopUnroute, manifests, Quiet
<1>4. ASSUME NEW i \in Instances, StopKill(t, i) PROVE Quiet(t)
  <2>1. task[t].op = "stop"
    BY <1>0, <1>4 DEF StopKill, At, WellPlaced
  <2>2. \/ task' = [task EXCEPT ![t] = Idle]
        \/ task' = [task EXCEPT ![t] = [task[t] EXCEPT !.ids = task[t].ids \ {i}]]
    BY <1>4 DEF StopKill
  <2>3. OnlyMoves(t) /\ task'[t].op \notin {"start", "rollback"}
    BY <1>0, <2>1, <2>2, IdleFields DEF OnlyMoves, TaskState
  <2> QED
    BY <1>4, <2>3, RouteReturns DEF StopKill, manifests, Quiet
<1> QED
  BY <1>1, <1>2, <1>3, <1>4

(* Rollbacks but for their begin and commit, single instances, watchdogs   *)
(* and dropped handlers. *)
LEMMA OtherQuiet ==
  ASSUME TypeInv, NEW t \in Tasks,
         \/ RollbackRespawn(t) \/ RollbackRestart(t) \/ RollbackInstall(t)
         \/ \E i \in Instances : \/ StopInstanceBegin(t, i) \/ RestartBegin(t, i)
                                 \/ WatchdogFires(t, i)
         \/ StopInstance(t) \/ RestartRead(t) \/ RestartStop(t) \/ RestartSpawned(t)
         \/ RestartFails(t) \/ CopyReadPool(t) \/ CopyToMirror(t) \/ Dropped(t)
  PROVE  Quiet(t)
<1>0. task \in [Tasks -> TaskState] /\ task[t] \in TaskState /\ WellPlaced(task[t])
  BY DEF TypeInv, TypeOK
<1>1. ASSUME NEW i \in Instances,
             StopInstanceBegin(t, i) \/ RestartBegin(t, i) \/ WatchdogFires(t, i)
      PROVE  Quiet(t)
  <2> DEFINE s == [Idle EXCEPT !.op = "stopInstance", !.inst = i, !.pc = "stopInstance"]
             q == [Idle EXCEPT !.op = "restart", !.inst = i, !.pc = "restartStop",
                     !.then = "unlocked"]
             w == [Idle EXCEPT !.op = "watchdog", !.inst = i, !.pc = "restart",
                     !.then = "watched"]
  <2>1. s.op = "stopInstance" /\ q.op = "restart" /\ w.op = "watchdog"
    BY DEF Idle
  <2>2. \/ task' = [task EXCEPT ![t] = s] \/ task' = [task EXCEPT ![t] = q]
        \/ task' = [task EXCEPT ![t] = w]
    BY <1>1 DEF StopInstanceBegin, RestartBegin, WatchdogFires
  <2>3. UNCHANGED <<disk, started>>
    BY <1>1 DEF StopInstanceBegin, RestartBegin, WatchdogFires, manifests
  <2> HIDE DEF s, q, w
  <2>4. OnlyMoves(t) /\ task'[t].op \in {"stopInstance", "restart", "watchdog"}
    BY <1>0, <2>1, <2>2 DEF OnlyMoves
  <2> QED
    BY <2>3, <2>4, RouteReturns DEF Quiet
<1>2. CASE \/ RollbackRespawn(t) \/ RollbackRestart(t) \/ StopInstance(t)
            \/ CopyReadPool(t) \/ CopyToMirror(t) \/ (RestartFails(t) /\ ~Return(t))
  <2>1. /\ OnlyMoves(t) /\ task'[t].op = task[t].op /\ task'[t].seen = task[t].seen
        /\ task'[t].app = task[t].app /\ task'[t].inst = task[t].inst
        /\ task'[t].pc \in {"copy", "mirror", "snap", "restartStop"}
    BY <1>0, <1>2 DEF RollbackRespawn, RollbackRestart, StopInstance, CopyReadPool,
       CopyToMirror, RestartFails, OnlyMoves, TaskState
  <2>2. ~Pending(task'[t])
    BY <2>1 DEF Pending
  <2>3. UNCHANGED <<disk, started>>
    BY <1>2 DEF RollbackRespawn, RollbackRestart, StopInstance, CopyReadPool, CopyToMirror,
       RestartFails, manifests
  <2> QED
    BY <2>1, <2>2, <2>3, RouteGoes DEF Quiet
<1>3. CASE RestartRead(t) \/ RestartStop(t) \/ RestartSpawned(t)
  <2>1. \/ \E pc \in {"restartStop", "respawnSelf", "copy"} : Goto(t, pc)
        \/ Return(t)
    BY <1>3 DEF RestartRead, RestartStop, RestartSpawned
  <2>2. \A pc \in {"restartStop", "respawnSelf", "copy"} : Goto(t, pc) => ~Pending(task'[t])
    BY <1>0 DEF Goto, Pending, TaskState
  <2>3. UNCHANGED <<disk, started>>
    BY <1>3 DEF RestartRead, RestartStop, RestartSpawned, manifests
  <2> QED
    BY <2>1, <2>2, <2>3, RouteGoto, RouteReturn DEF Quiet
<1>4. CASE RollbackInstall(t) \/ Dropped(t) \/ (RestartFails(t) /\ Return(t))
  <2>1. Return(t) /\ UNCHANGED <<disk, started>>
    BY <1>4 DEF RollbackInstall, RestartFails, Dropped, manifests
  <2> QED
    BY <2>1, RouteReturn DEF Quiet
<1> QED
  BY <1>1, <1>2, <1>3, <1>4

-----------------------------------------------------------------------------
(* The steps that begin something and the six that write the disk.         *)

(* Two pending starts have two instances: they are of two apps. *)
LEMMA OwnInstances ==
  ASSUME StartInv, RouteInv, NEW t \in Tasks, NEW u \in Tasks, t # u,
         Pending(task[t]), Pending(task[u])
  PROVE  task[t].inst # task[u].inst
<1>1. task[t].app # task[u].app
  BY DEF StartInv, OneStartPerApp, Pending
<1>2. AppOf(task[t].inst) = task[t].app /\ AppOf(task[u].inst) = task[u].app
  BY DEF RouteInv, NotServed
<1> QED
  BY <1>1, <1>2

(* A start begins, and gets an instance no route has named before. *)
LEMMA StartRoutes ==
  ASSUME TypeInv, RouteInv, NEW t \in Tasks,
         StartPrepared(t) \/ \E a \in Apps : StartBegin(t, a)
  PROVE  RouteInv'
<1>0. task \in [Tasks -> TaskState] /\ task[t] \in TaskState /\ WellPlaced(task[t])
      /\ disk \in Manifest /\ started \in [Apps -> 0 .. MaxStarts] /\ MaxStarts \in Nat
  BY ControlAssumption DEF TypeInv, TypeOK
<1>1. ASSUME NEW a \in Apps, StartBegin(t, a) PROVE RouteInv'
  <2> DEFINE r == [Idle EXCEPT !.op = "start", !.pc = "prepare", !.app = a]
  <2>1. r.op = "start" /\ r.pc = "prepare"
    BY DEF Idle
  <2>2. task' = [task EXCEPT ![t] = r]
    BY <1>1 DEF StartBegin
  <2> HIDE DEF r
  <2>3. RouteKept(t)
    BY <1>0, <2>1, <2>2 DEF RouteKept, OnlyMoves, Pending
  <2> QED
    BY <1>1, <2>3, RouteAside DEF StartBegin, manifests
<1>2. CASE StartPrepared(t)
  <2>1. PICK a \in Apps : a = task[t].app /\ task[t].op = "start"
    BY <1>0, <1>2 DEF StartPrepared, At, WellPlaced
  <2>2. PICK k \in 0 .. MaxStarts : k = started[a]
    BY <1>0
  <2>3. /\ started' = [started EXCEPT ![a] = k + 1] /\ disk' = disk
        /\ OnlyMoves(t) /\ task'[t].inst = <<a, k + 1>> /\ task'[t].app = a
        /\ task'[t].op = "start"
    BY <1>0, <1>2, <2>1, <2>2 DEF StartPrepared, FreshId, manifests, OnlyMoves, TaskState
  <2>4. \A b \in Apps : started[b] <= started'[b] /\ started[b] \in Nat /\ started'[b] \in Nat
    BY <1>0, <2>2, <2>3
  <2>5. \A i \in Instances : i[2] \in Nat
    BY DEF Instances
  <2>6. SlotsSound(disk)'
    BY <1>0, <2>3, <2>4, <2>5, SlotTypes DEF RouteInv, SlotsSound, Registered
  <2>7. ASSUME NEW u \in Tasks, u # t, Pending(task'[u]) PROVE NotServed(disk, task[u])'
    <3>1. task'[u] = task[u] /\ NotServed(disk, task[u])
      BY <2>3, <2>7 DEF OnlyMoves, RouteInv
    <3>2. task[u].inst \in Instances /\ task[u].app \in Apps
      BY <2>7, <3>1 DEF TypeInv, WellPlaced, Pending
    <3>3. task[u].inst[2] <= started'[task[u].app]
      BY <2>4, <2>5, <3>1, <3>2 DEF NotServed
    <3> QED
      BY <2>3, <3>1, <3>3 DEF NotServed
  <2>8. NotServed(disk, task[t])'
    <3>1. ASSUME NEW b \in Apps, <<a, k + 1>> \in Slots(disk.routes[b]) PROVE FALSE
      <4>1. AppOf(<<a, k + 1>>) = b /\ k + 1 <= started[b]
        BY <3>1 DEF RouteInv, SlotsSound
      <4> QED
        BY <2>2, <4>1 DEF AppOf
    <3>2. <<a, k + 1>> # None
      <4>1. k < MaxStarts
        BY <1>2, <2>1, <2>2 DEF StartPrepared
      <4>2. <<a, k + 1>> \in Instances
        BY <1>0, <4>1 DEF Instances
      <4> QED
        BY <4>2, NoneApart
    <3>3. \A b \in Apps : <<a, k + 1>> \notin {disk.routes[b].active, disk.routes[b].previous}
      BY <3>1, <3>2 DEF Slots
    <3>4. k + 1 <= started'[a]
      BY <1>0, <2>2, <2>3
    <3> QED
      BY <2>3, <3>3, <3>4 DEF NotServed, AppOf
  <2>9. ASSUME NEW u \in Tasks PROVE TargetsPrevious(task'[u])
    BY <2>3 DEF RouteInv, OnlyMoves, TargetsPrevious
  <2> QED
    BY <2>6, <2>7, <2>8, <2>9 DEF RouteInv
<1> QED
  BY <1>1, <1>2

(* A candidate is registered. *)
LEMMA RegisterRoutes ==
  ASSUME TypeInv, RouteInv, NEW t \in Tasks, StartRegister(t)
  PROVE  RouteInv'
<1>0. task \in [Tasks -> TaskState] /\ task[t] \in TaskState /\ WellPlaced(task[t])
      /\ disk \in Manifest
  BY DEF TypeInv, TypeOK
<1>1. PICK m \in Manifest : m = disk
  BY <1>0
<1>2. PICK a \in Apps, i \in Instances : a = task[t].app /\ i = task[t].inst
  BY <1>0 DEF StartRegister, At, WellPlaced
<1>3. /\ disk' = RegisterCandidate(m, a, i)
      /\ task' = [task EXCEPT ![t].next = RegisterCandidate(m, a, i),
                              ![t].pc = "installCandidate"]
      /\ started' = started
  BY <1>1, <1>2 DEF StartRegister, WriteIfRevisionMatches
<1>4. Pending(task[t])
  BY <1>0 DEF StartRegister, At, WellPlaced, Pending
<1>5. /\ OnlyMoves(t) /\ task'[t].op = task[t].op /\ task'[t].seen = task[t].seen
      /\ task'[t].app = task[t].app /\ task'[t].inst = task[t].inst
  BY <1>0, <1>3 DEF OnlyMoves, TaskState
<1>6. RouteKept(t)
  BY <1>4, <1>5, RouteGoes
<1>7. SlotsSound(m) /\ AppOf(i) = a /\ i[2] <= started[a]
  BY <1>1, <1>2, <1>4 DEF RouteInv, NotServed
<1>8. /\ SlotsSound(RegisterCandidate(m, a, i))
      /\ \A r : NotServed(m, r) => NotServed(RegisterCandidate(m, a, i), r)
  BY <1>7, RegisterSound
<1>9. \A u \in Tasks : Pending(task'[u]) => Pending(task[u])
  BY <1>6 DEF RouteKept, OnlyMoves
<1>10. \A u \in Tasks : Pending(task'[u]) => NotServed(RegisterCandidate(m, a, i), task[u])
  BY <1>1, <1>8, <1>9 DEF RouteInv
<1> QED
  BY <1>3, <1>6, <1>8, <1>10, RouteWritten

(* The cutover of a start. *)
LEMMA CutoverRoutes ==
  ASSUME TypeInv, StartInv, RouteInv, "switch" \notin Ops, NEW t \in Tasks, Cutover(t)
  PROVE  RouteInv'
<1>0. task \in [Tasks -> TaskState] /\ task[t] \in TaskState /\ WellPlaced(task[t])
      /\ disk \in Manifest
  BY DEF TypeInv, TypeOK
<1>1. PICK m \in Manifest : m = disk
  BY <1>0
<1>2. task[t].op = "start" /\ task[t].pc = "cutover" /\ Pending(task[t])
  BY <1>0 DEF Cutover, At, WellPlaced, TaskState, Pending
<1>3. PICK a \in Apps, i \in Instances : a = task[t].app /\ i = task[t].inst
  BY <1>0, <1>2 DEF WellPlaced
<1>4. /\ disk' = CutoverRoute(m, a, i) /\ Registered(m, i)
      /\ task' = [task EXCEPT ![t].next = CutoverRoute(m, a, i), ![t].pc = "installCutover"]
      /\ started' = started
  BY <1>1, <1>3 DEF Cutover, CutoverAllowed, WriteIfRevisionMatches
<1>5. /\ OnlyMoves(t) /\ task'[t].op = task[t].op /\ task'[t].seen = task[t].seen
      /\ task'[t].app = task[t].app /\ task'[t].inst = task[t].inst
      /\ task'[t].pc = "installCutover"
  BY <1>0, <1>4 DEF OnlyMoves, TaskState
<1>6. RouteKept(t) /\ ~Pending(task'[t])
  BY <1>5, RouteGoes DEF Pending
<1>7. SlotsSound(m) /\ AppOf(i) = a /\ i[2] <= started[a]
  BY <1>1, <1>2, <1>3 DEF RouteInv, NotServed
<1>8. /\ SlotsSound(CutoverRoute(m, a, i))
      /\ \A r : NotServed(m, r) /\ r.inst # i => NotServed(CutoverRoute(m, a, i), r)
  BY <1>4, <1>7, CutoverSound
<1>9. ASSUME NEW u \in Tasks, Pending(task'[u]) PROVE NotServed(CutoverRoute(m, a, i), task[u])
  <2>1. u # t /\ Pending(task[u]) /\ NotServed(m, task[u])
    BY <1>1, <1>6, <1>9 DEF RouteKept, OnlyMoves, RouteInv
  <2>2. task[u].inst # i
    BY <1>2, <1>3, <2>1, OwnInstances
  <2> QED
    BY <1>8, <2>1, <2>2
<1> QED
  BY <1>4, <1>6, <1>8, <1>9, RouteWritten

(* The edit that ends a retirement or takes a candidate back, or the       *)
(* failure to write it. *)
LEMMA EditRoutes ==
  ASSUME TypeInv, StartInv, RouteInv, NEW t \in Tasks, Retire(t) \/ Discard(t)
  PROVE  RouteInv'
<1>0. task \in [Tasks -> TaskState] /\ task[t] \in TaskState /\ WellPlaced(task[t])
      /\ disk \in Manifest
  BY DEF TypeInv, TypeOK
<1>1. PICK m \in Manifest : m = disk
  BY <1>0
<1>2. PICK a \in Apps, i \in Instances :
        /\ a = task[t].app
        /\ i = IF task[t].pc = "retire" THEN task[t].prev ELSE task[t].inst
  BY <1>0 DEF Retire, Discard, At, WellPlaced
<1>3. /\ started' = started
      /\ \E then : \/ task' = [task EXCEPT ![t].then = then, ![t].pc = "snap"]
                   \/ \E next : task' = [task EXCEPT ![t].next = next, ![t].then = then,
                                                     ![t].pc = "installEdit"]
  BY DEF Retire, Discard, EditOrSkip
<1>4. /\ OnlyMoves(t) /\ task'[t].op = task[t].op /\ task'[t].seen = task[t].seen
      /\ task'[t].app = task[t].app /\ task'[t].inst = task[t].inst
      /\ task'[t].pc \in {"snap", "installEdit"}
  <2>1. PICK then : \/ task' = [task EXCEPT ![t].then = then, ![t].pc = "snap"]
                    \/ \E next : task' = [task EXCEPT ![t].next = next, ![t].then = then,
                                                      ![t].pc = "installEdit"]
    BY <1>3
  <2>2. CASE task' = [task EXCEPT ![t].then = then, ![t].pc = "snap"]
    BY <1>0, <2>2 DEF OnlyMoves, TaskState
  <2>3. ASSUME NEW next, task' = [task EXCEPT ![t].next = next, ![t].then = then,
                                              ![t].pc = "installEdit"]
        PROVE  /\ OnlyMoves(t) /\ task'[t].op = task[t].op /\ task'[t].seen = task[t].seen
               /\ task'[t].app = task[t].app /\ task'[t].inst = task[t].inst
               /\ task'[t].pc \in {"snap", "installEdit"}
    BY <1>0, <2>3 DEF OnlyMoves, TaskState
  <2> QED
    BY <2>1, <2>2, <2>3
<1>5. RouteKept(t) /\ ~Pending(task'[t])
  BY <1>4, RouteGoes DEF Pending
<1>6. ASSUME NEW u \in Tasks, Pending(task'[u])
      PROVE  u # t /\ Pending(task[u]) /\ NotServed(m, task[u]) /\ task[u].inst # None
  <2>1. u # t /\ Pending(task[u]) /\ NotServed(m, task[u])
    BY <1>1, <1>5, <1>6 DEF RouteKept, OnlyMoves, RouteInv
  <2>2. task[u].inst \in Instances
    BY <2>1 DEF Pending, TypeInv, WellPlaced
  <2> QED
    BY <2>1, <2>2, NoneApart
<1>7. SlotsSound(m)
  BY <1>1 DEF RouteInv
<1>8. CASE disk' = disk
  BY <1>3, <1>5, <1>8, RouteAside
<1>9. CASE Retire(t) /\ disk' = RetirePrevious(m, i)
  <2>1. /\ SlotsSound(RetirePrevious(m, i))
        /\ \A r : r.inst # None /\ NotServed(m, r) => NotServed(RetirePrevious(m, i), r)
    BY <1>7, StopSound
  <2>2. \A u \in Tasks : Pending(task'[u]) => NotServed(RetirePrevious(m, i), task[u])
    BY <1>6, <2>1
  <2> QED
    BY <1>3, <1>5, <1>9, <2>1, <2>2, RouteWritten
<1>10. CASE Discard(t) /\ disk' = DiscardCandidate(m, a, i)
  <2>1. Pending(task[t]) /\ i = task[t].inst
    BY <1>0, <1>2, <1>10 DEF Discard, At, WellPlaced, Pending
  <2>2. AppOf(i) = a /\ \A b \in Apps : i \notin {m.routes[b].active, m.routes[b].previous}
    BY <1>1, <1>2, <2>1 DEF RouteInv, NotServed
  <2>3. /\ SlotsSound(DiscardCandidate(m, a, i))
        /\ \A r : NotServed(m, r) => NotServed(DiscardCandidate(m, a, i), r)
    BY <1>7, <2>2, DiscardSound
  <2>4. \A u \in Tasks : Pending(task'[u]) => NotServed(DiscardCandidate(m, a, i), task[u])
    BY <1>6, <2>3
  <2> QED
    BY <1>3, <1>5, <1>10, <2>3, <2>4, RouteWritten
<1>11. Retire(t) => disk' = disk \/ disk' = RetirePrevious(m, i)
  BY <1>1, <1>2 DEF Retire, EditOrSkip, At
<1>12. Discard(t) => disk' = disk \/ disk' = DiscardCandidate(m, a, i)
  BY <1>1, <1>2 DEF Discard, EditOrSkip, At
<1> QED
  BY <1>8, <1>9, <1>10, <1>11, <1>12

(* The commit of a stop. *)
LEMMA StopRoutes ==
  ASSUME TypeInv, RouteInv, NEW t \in Tasks, StopCommit(t)
  PROVE  RouteInv'
<1>0. task \in [Tasks -> TaskState] /\ task[t] \in TaskState /\ WellPlaced(task[t])
      /\ disk \in Manifest
  BY DEF TypeInv, TypeOK
<1>1. PICK m \in Manifest : m = disk
  BY <1>0
<1>2. PICK a \in Apps, ids \in SUBSET Instances : a = task[t].app /\ ids = task[t].ids
  BY <1>0 DEF StopCommit, At, WellPlaced, TaskState
<1>3. /\ disk' = StopRoute(m, a, ids) /\ started' = started
      /\ task' = [task EXCEPT ![t].next = StopRoute(m, a, ids), ![t].pc = "installStop"]
  BY <1>1, <1>2 DEF StopCommit, WriteIfRevisionMatches
<1>4. OnlyMoves(t) /\ task'[t].op = "stop"
  BY <1>0, <1>3 DEF StopCommit, At, WellPlaced, OnlyMoves, TaskState
<1>5. RouteKept(t) /\ ~Pending(task'[t])
  BY <1>4, RouteReturns DEF Pending
<1>6. ASSUME NEW u \in Tasks, Pending(task'[u])
      PROVE  NotServed(m, task[u]) /\ task[u].inst # None
  <2>1. Pending(task[u]) /\ NotServed(m, task[u])
    BY <1>1, <1>5, <1>6 DEF RouteKept, OnlyMoves, RouteInv
  <2>2. task[u].inst \in Instances
    BY <2>1 DEF Pending, TypeInv, WellPlaced
  <2> QED
    BY <2>1, <2>2, NoneApart
<1>7. SlotsSound(m)
  BY <1>1 DEF RouteInv
<1>8. SlotsSound(StopRoute(m, a, ids)) /\
      \A r : r.inst # None /\ NotServed(m, r) => NotServed(StopRoute(m, a, ids), r)
  BY <1>7, StopSound
<1>9. \A u \in Tasks : Pending(task'[u]) => NotServed(StopRoute(m, a, ids), task[u])
  BY <1>6, <1>8
<1> QED
  BY <1>3, <1>5, <1>8, <1>9, RouteWritten

(* A rollback takes up the previous instance and makes it active. *)
LEMMA RollbackRoutes ==
  ASSUME TypeInv, RouteInv, NEW t \in Tasks,
         RollbackCommit(t) \/ \E a \in Apps : RollbackBegin(t, a)
  PROVE  RouteInv'
<1>0. task \in [Tasks -> TaskState] /\ task[t] \in TaskState /\ WellPlaced(task[t])
      /\ disk \in Manifest
  BY DEF TypeInv, TypeOK
<1>1. ASSUME NEW a \in Apps, RollbackBegin(t, a) PROVE RouteInv'
  <2>1. PICK m \in Manifest : m = disk
    BY <1>0
  <2> DEFINE prev == m.routes[a].previous
             r == [Idle EXCEPT !.op = "rollback", !.app = a, !.seen = m, !.inst = prev,
                     !.pc = IF Ready(prev) THEN "rollback" ELSE "respawn"]
  <2>2. r.op = "rollback" /\ r.app = a /\ r.seen = m /\ r.inst = prev
    BY DEF Idle
  <2>3. task' = [task EXCEPT ![t] = r] /\ disk' = disk /\ started' = started
    BY <1>1, <2>1 DEF RollbackBegin, manifests
  <2> HIDE DEF r
  <2>4. OnlyMoves(t) /\ task'[t] = r
    BY <1>0, <2>3 DEF OnlyMoves
  <2>5. TargetsPrevious(task'[t]) /\ ~Pending(task'[t])
    BY <2>2, <2>4 DEF TargetsPrevious, Pending
  <2>6. SlotsSound(disk)'
    BY <2>3 DEF RouteInv, SlotsSound
  <2>7. ASSUME NEW u \in Tasks, Pending(task'[u]) PROVE NotServed(disk, task[u])'
    BY <2>3, <2>4, <2>5, <2>7 DEF RouteInv, OnlyMoves, NotServed
  <2>8. ASSUME NEW u \in Tasks PROVE TargetsPrevious(task'[u])
    BY <2>4, <2>5 DEF RouteInv, OnlyMoves
  <2> QED
    BY <2>6, <2>7, <2>8 DEF RouteInv
<1>2. CASE RollbackCommit(t)
  <2>1. PICK m \in Manifest : m = disk
    BY <1>0
  <2>2. task[t].op = "rollback"
    BY <1>0, <1>2 DEF RollbackCommit, At, WellPlaced
  <2>3. PICK a \in Apps, i \in Instances : a = task[t].app /\ i = task[t].inst
    BY <1>0, <2>2 DEF WellPlaced
  <2>4. CASE Return(t) /\ disk' = disk
    BY <1>2, <2>4, RouteReturn, RouteAside DEF RollbackCommit
  <2>5. CASE /\ Registered(task[t].seen, i)
             /\ WriteIfRevisionMatches(t, task[t].seen, CutoverRoute(task[t].seen, a, i),
                                       "installRollback")
    <3>1. /\ m = task[t].seen /\ Registered(m, i)
          /\ disk' = CutoverRoute(m, a, i)
          /\ task' = [task EXCEPT ![t].next = CutoverRoute(m, a, i),
                                  ![t].pc = "installRollback"]
      BY <2>1, <2>5 DEF WriteIfRevisionMatches
    <3>2. /\ OnlyMoves(t) /\ task'[t].op = task[t].op /\ task'[t].seen = task[t].seen
          /\ task'[t].app = task[t].app /\ task'[t].inst = task[t].inst
      BY <1>0, <3>1 DEF OnlyMoves, TaskState
    <3>3. RouteKept(t) /\ ~Pending(task'[t])
      BY <2>2, <3>2, RouteGoes DEF Pending
    <3>4. SlotsSound(m) /\ i = m.routes[a].previous
      BY <2>1, <2>2, <2>3, <3>1 DEF RouteInv, TargetsPrevious
    <3>5. AppOf(i) = a /\ i[2] <= started[a]
      BY <3>4, NoneApart DEF SlotsSound, Slots
    <3>6. /\ SlotsSound(CutoverRoute(m, a, i))
          /\ \A r : NotServed(m, r) /\ r.inst # i => NotServed(CutoverRoute(m, a, i), r)
      BY <3>1, <3>4, <3>5, CutoverSound
    <3>7. ASSUME NEW u \in Tasks, Pending(task'[u])
          PROVE  NotServed(CutoverRoute(m, a, i), task[u])
      <4>1. NotServed(m, task[u])
        BY <2>1, <3>3, <3>7 DEF RouteKept, OnlyMoves, RouteInv
      <4>2. task[u].inst # i
        BY <3>4, <4>1 DEF NotServed
      <4> QED
        BY <3>6, <4>1, <4>2
    <3> QED
      BY <1>2, <3>1, <3>3, <3>6, <3>7, RouteWritten DEF RollbackCommit
  <2> QED
    BY <1>2, <2>3, <2>4, <2>5 DEF RollbackCommit
<1> QED
  BY <1>1, <1>2

(* Every step of a running host keeps the routes sound. *)
LEMMA RouteNext ==
  TypeInv /\ StartInv /\ RouteInv /\ "switch" \notin Ops /\ [Next]_vars => RouteInv'
<1> SUFFICES ASSUME TypeInv, StartInv, RouteInv, "switch" \notin Ops, [Next]_vars
             PROVE  RouteInv'
  OBVIOUS
<1>1. ASSUME UNCHANGED <<disk, started, task>> PROVE RouteInv'
  BY <1>1 DEF RouteInv, SlotsSound, NotServed
<1>2. ASSUME NEW t \in Tasks, Quiet(t) PROVE RouteInv'
  BY <1>2, RouteAside DEF Quiet
<1>3. ASSUME NEW t \in Tasks, Begins(t) PROVE RouteInv'
  <2>1. \A i \in Instances : ~SwitchBegin(t, i)
    BY DEF SwitchBegin, Begin
  <2> QED
    BY <1>2, <1>3, <2>1, StartRoutes, RollbackRoutes, StopQuiet, OtherQuiet DEF Begins
<1>4. ASSUME NEW t \in Tasks, Takes(t) PROVE RouteInv'
  BY <1>2, <1>4, RegisterRoutes, CutoverRoutes, CutoverQuiet, EditRoutes, StopRoutes DEF Takes
<1>5. ASSUME NEW t \in Tasks, Goes(t) PROVE RouteInv'
  BY <1>2, <1>5, StartQuiet, StartRoutes, CutoverQuiet, RetireQuiet, StopQuiet, OtherQuiet,
     RollbackRoutes DEF Goes
<1>6. ASSUME NEW t \in Tasks, Dropped(t) PROVE RouteInv'
  BY <1>2, <1>6, OtherQuiet
<1>7. ASSUME NEW i \in Instances, ChildExits(i) \/ WatchdogGivesUp(i) PROVE RouteInv'
  BY <1>1, <1>7 DEF ChildExits, WatchdogGivesUp, manifests
<1>8. CASE UNCHANGED vars
  BY <1>1, <1>8 DEF vars, manifests
<1> QED
  BY <1>3, <1>4, <1>5, <1>6, <1>7, <1>8 DEF Next

(* A fresh manifest has no slots, and a host that ended has no handlers. *)
LEMMA FreshRoutes ==
  SlotsSound(EmptyManifest) /\ ~Pending(Idle) /\ TargetsPrevious(Idle)
<1>1. SlotsSound(EmptyManifest)
  BY DEF SlotsSound, Slots, EmptyManifest, EmptyRoute
<1> QED
  BY <1>1, IdleFields DEF Pending, TargetsPrevious

-----------------------------------------------------------------------------
(* Every candidate has its start.                                          *)

(* A start that has registered its candidate and still answers for it.     *)
Answers(r) == Pending(r) /\ r.pc # "register"

Owned(m, a) ==
  m.routes[a].candidate # None =>
    \E t \in Tasks : Answers(task[t]) /\ task[t].inst = m.routes[a].candidate

OwnedInv == \A a \in Apps : Owned(disk, a)

(* A handler that answers for a candidate goes on to do so. *)
AnswerKept(t) ==
  /\ OnlyMoves(t)
  /\ Answers(task[t]) => Answers(task'[t]) /\ task'[t].inst = task[t].inst

(* A candidate keeps its owner when the owner goes on with it ... *)
LEMMA OwnedAside ==
  ASSUME NEW t \in Tasks, AnswerKept(t), NEW m, NEW a \in Apps, Owned(m, a)
  PROVE  m.routes[a].candidate # None =>
           \E u \in Tasks : Answers(task'[u]) /\ task'[u].inst = m.routes[a].candidate
<1> SUFFICES ASSUME m.routes[a].candidate # None
             PROVE  \E u \in Tasks : Answers(task'[u]) /\ task'[u].inst = m.routes[a].candidate
  OBVIOUS
<1>1. PICK u \in Tasks : Answers(task[u]) /\ task[u].inst = m.routes[a].candidate
  BY DEF Owned
<1>2. Answers(task'[u]) /\ task'[u].inst = task[u].inst
  BY <1>1 DEF AnswerKept, OnlyMoves
<1> QED
  BY <1>1, <1>2

(* ... and when it is another handler that moves. *)
LEMMA OwnedByOther ==
  ASSUME NEW t \in Tasks, OnlyMoves(t), NEW m, NEW a \in Apps, Owned(m, a),
         m.routes[a].candidate # task[t].inst
  PROVE  m.routes[a].candidate # None =>
           \E u \in Tasks : Answers(task'[u]) /\ task'[u].inst = m.routes[a].candidate
<1> SUFFICES ASSUME m.routes[a].candidate # None
             PROVE  \E u \in Tasks : Answers(task'[u]) /\ task'[u].inst = m.routes[a].candidate
  OBVIOUS
<1>1. PICK u \in Tasks : Answers(task[u]) /\ task[u].inst = m.routes[a].candidate
  BY DEF Owned
<1>2. u # t /\ task'[u] = task[u]
  BY <1>1 DEF OnlyMoves
<1> QED
  BY <1>1, <1>2

(* The steps that write nothing keep the answers. *)
LEMMA AnswersGoOn ==
  ASSUME TypeInv, NEW t \in Tasks, Begins(t) \/ Goes(t) \/ CutoverRefused(t), Answers(task[t])
  PROVE  Answers(task'[t]) /\ task'[t].inst = task[t].inst
<1>0. task \in [Tasks -> TaskState] /\ task[t] \in TaskState /\ WellPlaced(task[t])
      /\ task[t] # Idle
  BY IdleFields DEF TypeInv, TypeOK, Answers, Pending
<1>1. ~Begins(t)
  BY <1>0 DEF Begins, StartBegin, StopBegin, RollbackBegin, SwitchBegin, StopInstanceBegin,
     RestartBegin, WatchdogFires, Begin
<1>2. Goes(t) =>
        \/ StartInstallCandidate(t) \/ StartSpawned(t) \/ StartSpawnFails(t)
        \/ StartAnnounce(t) \/ StartAbort(t) \/ StartUnlist(t)
  BY DEF Answers, Pending, Goes, At, StartRefused, StartPrepared, StartRegisterFails,
     CutoverInstall, SyncReadPool, SyncReadRoutes, SyncPublish, RetireStop, RetireUnregister,
     InstallEdit, StopConflict, StopInstall, StopUnroute, StopKill, RollbackRespawn,
     RollbackRestart,
     RollbackCommit, RollbackInstall, StopInstance, RestartRead, RestartStop,
     RestartSpawned, RestartFails, CopyReadPool, CopyToMirror
<1>3. CASE StartInstallCandidate(t)
  BY <1>0, <1>3 DEF StartInstallCandidate, Answers, Pending, TaskState
<1>4. ASSUME NEW pc \in {"announce", "unlist", "cutover", "discard", "abort"}, Goto(t, pc)
      PROVE  Answers(task'[t]) /\ task'[t].inst = task[t].inst
  BY <1>0, <1>4 DEF Goto, Answers, Pending, TaskState
<1>5. CASE StartSpawned(t) \/ StartSpawnFails(t) \/ StartAnnounce(t) \/ StartAbort(t)
           \/ StartUnlist(t)
  BY <1>4, <1>5 DEF StartSpawned, StartSpawnFails, StartAnnounce, StartAbort, StartUnlist
<1>6. CASE CutoverRefused(t)
  BY <1>4, <1>6 DEF CutoverRefused, Answers, Pending
<1> QED
  BY <1>1, <1>2, <1>3, <1>5, <1>6

(* A step of a handler touches no other. *)
LEMMA OneMoves ==
  ASSUME TypeInv, StartInv, NEW t \in Tasks, Begins(t) \/ Takes(t) \/ Goes(t)
  PROVE  OnlyMoves(t)
<1>1. CASE Begins(t)
  <2>1. ASSUME NEW a \in Apps, StartBegin(t, a) PROVE OnlyMoves(t)
    BY <2>1 DEF StartBegin, OnlyMoves, TypeInv, TypeOK
  <2> QED
    BY <1>1, <2>1, CutoverSteps, StopSteps, OtherSteps DEF Begins, StartKept
<1>2. CASE Takes(t)
  BY <1>2, StartSteps, CutoverSteps, RetireSteps, StopSteps DEF Takes, StartKept
<1>3. CASE Goes(t)
  BY <1>3, StartSteps, CutoverSteps, RetireSteps, StopSteps, OtherSteps DEF Goes, StartKept
<1> QED
  BY <1>1, <1>2, <1>3

(* A candidate that is registered has its start. *)
LEMMA RegisterOwned ==
  ASSUME TypeInv, StartInv, OwnedInv, NEW t \in Tasks, StartRegister(t)
  PROVE  OwnedInv'
<1>0. task \in [Tasks -> TaskState] /\ task[t] \in TaskState /\ WellPlaced(task[t])
      /\ disk \in Manifest
  BY DEF TypeInv, TypeOK
<1>1. PICK m \in Manifest : m = disk
  BY <1>0
<1>2. PICK a \in Apps, i \in Instances : a = task[t].app /\ i = task[t].inst
  BY <1>0 DEF StartRegister, At, WellPlaced
<1>3. /\ disk' = RegisterCandidate(m, a, i)
      /\ task' = [task EXCEPT ![t].next = RegisterCandidate(m, a, i),
                              ![t].pc = "installCandidate"]
  BY <1>1, <1>2 DEF StartRegister, WriteIfRevisionMatches
<1>4. OnlyMoves(t) /\ ~Answers(task[t]) /\ task'[t].inst = i /\ Answers(task'[t])
  BY <1>0, <1>2, <1>3 DEF StartRegister, At, OnlyMoves, TaskState, Answers, Pending, WellPlaced
<1>5. /\ disk'.routes[a].candidate = i
      /\ \A b \in Apps \ {a} : disk'.routes[b].candidate = m.routes[b].candidate
  BY <1>3 DEF RegisterCandidate, WithRoute, Manifest
<1>6. ASSUME NEW b \in Apps PROVE Owned(disk, b)'
  <2>1. CASE b = a
    BY <1>4, <1>5, <2>1 DEF Owned
  <2>2. CASE b # a
    BY <1>1, <1>4, <1>5, <2>2, OwnedAside DEF Owned, OwnedInv, AnswerKept
  <2> QED
    BY <2>1, <2>2
<1> QED
  BY <1>6 DEF OwnedInv

(* An edit after which the mover's own instance is nobody's candidate, and *)
(* every other candidate was one before. *)
LEMMA EditOwned ==
  ASSUME OwnedInv, NEW t \in Tasks, OnlyMoves(t),
         \A b \in Apps : disk'.routes[b].candidate \in {None, disk.routes[b].candidate},
         Answers(task[t]) =>
           \A b \in Apps : disk'.routes[b].candidate \in {None, disk.routes[b].candidate}
                              \ {task[t].inst}
  PROVE  OwnedInv'
<1> SUFFICES ASSUME NEW b \in Apps, disk'.routes[b].candidate # None
             PROVE  \E u \in Tasks : Answers(task'[u]) /\ task'[u].inst = disk'.routes[b].candidate
  BY DEF OwnedInv, Owned
<1>1. disk'.routes[b].candidate = disk.routes[b].candidate
  OBVIOUS
<1>2. PICK u \in Tasks : Answers(task[u]) /\ task[u].inst = disk.routes[b].candidate
  BY <1>1 DEF OwnedInv, Owned
<1>3. u # t
  BY <1>2
<1> QED
  BY <1>1, <1>2, <1>3 DEF OnlyMoves

(* A cutover and a discard empty the slot of their own app, and no other   *)
(* app has their instance. *)
LEMMA OwnEditOwned ==
  ASSUME TypeInv, StartInv, RouteInv, OwnedInv, "switch" \notin Ops, NEW t \in Tasks,
         \/ Cutover(t)
         \/ Discard(t) /\ disk' = DiscardCandidate(disk, task[t].app, task[t].inst)
  PROVE  OwnedInv'
<1>0. task \in [Tasks -> TaskState] /\ task[t] \in TaskState /\ WellPlaced(task[t])
      /\ disk \in Manifest
  BY DEF TypeInv, TypeOK
<1>1. PICK m \in Manifest : m = disk
  BY <1>0
<1>2. OnlyMoves(t)
  BY OneMoves DEF Takes
<1>3. task[t].op = "start" /\ Pending(task[t]) /\ task[t].inst \in Instances
  BY <1>0 DEF Cutover, Discard, At, WellPlaced, TaskState, Pending
<1>4. PICK a \in Apps, i \in Instances : a = task[t].app /\ i = task[t].inst
  BY <1>0, <1>3 DEF WellPlaced
<1>5. disk' = CutoverRoute(m, a, i) \/ disk' = DiscardCandidate(m, a, i)
  BY <1>1, <1>4 DEF Cutover, WriteIfRevisionMatches
<1>6. /\ disk'.routes[a].candidate \in {None, m.routes[a].candidate} \ {i}
      /\ \A b \in Apps \ {a} : disk'.routes[b] = m.routes[b]
  BY <1>5, NoneApart DEF CutoverRoute, DiscardCandidate, WithRoute, Manifest
<1>7. AppOf(i) = a /\ SlotsSound(m)
  BY <1>1, <1>3, <1>4 DEF RouteInv, NotServed
<1>8. \A b \in Apps \ {a} : m.routes[b].candidate # i
  BY <1>7, NoneApart DEF SlotsSound, Slots
<1> QED
  BY <1>1, <1>2, <1>4, <1>6, <1>8, EditOwned

(* The other edits are not made by a start that answers for a candidate. *)
LEMMA OtherEditOwned ==
  ASSUME TypeInv, StartInv, OwnedInv, NEW t \in Tasks,
         StopCommit(t) \/ RollbackCommit(t) \/ Retire(t)
  PROVE  OwnedInv'
<1>0. task \in [Tasks -> TaskState] /\ task[t] \in TaskState /\ WellPlaced(task[t])
      /\ disk \in Manifest
  BY DEF TypeInv, TypeOK
<1>1. PICK m \in Manifest : m = disk
  BY <1>0
<1>2. OnlyMoves(t)
  BY OneMoves DEF Takes, Goes
<1>3. ~Answers(task[t])
  BY DEF StopCommit, RollbackCommit, Retire, At, Answers, Pending
<1>4. CASE Retire(t)
  <2>1. disk' = m \/ disk' = RetirePrevious(m, task[t].prev)
    BY <1>1, <1>4 DEF Retire, EditOrSkip
  <2>2. disk'.routes = m.routes
    BY <2>1 DEF RetirePrevious
  <2> QED
    BY <1>1, <1>2, <1>3, <2>2, EditOwned
<1>5. CASE StopCommit(t) \/ RollbackCommit(t)
  <2>1. PICK a \in Apps : a = task[t].app
    BY <1>0, <1>5 DEF StopCommit, RollbackCommit, At, WellPlaced
  <2>2. \/ disk' = m
        \/ \E i : disk' = CutoverRoute(m, a, i)
        \/ \E ids : disk' = StopRoute(m, a, ids)
    BY <1>1, <1>5, <2>1 DEF StopCommit, RollbackCommit, WriteIfRevisionMatches
  <2>3. \A b \in Apps : disk'.routes[b].candidate \in {None, m.routes[b].candidate}
    BY <2>2 DEF CutoverRoute, StopRoute, WithRoute, Manifest
  <2> QED
    BY <1>1, <1>2, <1>3, <2>3, EditOwned
<1> QED
  BY <1>4, <1>5

(* A step of a handler that leaves the disk alone. *)
LEMMA QuietOwned ==
  ASSUME TypeInv, StartInv, OwnedInv, NEW t \in Tasks, disk' = disk,
         Begins(t) \/ Goes(t) \/ CutoverRefused(t)
  PROVE  OwnedInv'
<1>1. AnswerKept(t)
  BY OneMoves, AnswersGoOn DEF AnswerKept, Takes
<1>2. PICK m : m = disk
  OBVIOUS
<1> QED
  BY <1>1, <1>2, OwnedAside DEF OwnedInv, Owned

(* As long as writes do not fail and handlers are not dropped, every step  *)
(* leaves each candidate with a start. *)
LEMMA OwnedNext ==
  ASSUME TypeInv, LockInv, StartInv, RouteInv, OwnedInv, [Next]_vars,
         Ops \cap {"switch", "drop"} = {}, ~IoFails
  PROVE  OwnedInv'
<1>1. ASSUME UNCHANGED <<disk, task>> PROVE OwnedInv'
  BY <1>1 DEF OwnedInv, Owned
<1>2. ASSUME NEW t \in Tasks, Begins(t) PROVE OwnedInv'
  BY <1>2, QuietOwned DEF Begins, StartBegin, StopBegin, RollbackBegin, SwitchBegin,
     StopInstanceBegin, RestartBegin, WatchdogFires, manifests
<1>3. ASSUME NEW t \in Tasks, Takes(t) PROVE OwnedInv'
  <2>1. CASE CutoverRefused(t)
    BY <2>1, QuietOwned DEF CutoverRefused, manifests
  <2>2. CASE Discard(t)
    <3>1. shell = disk
      BY <2>2, NoneApart DEF Discard, EditOrSkip, Lock, LockInv
    <3>2. disk' = DiscardCandidate(disk, task[t].app, task[t].inst)
      BY <2>2, <3>1 DEF Discard, EditOrSkip, WriteMayFail
    <3> QED
      BY <2>2, <3>2, OwnEditOwned
  <2> QED
    BY <1>3, <2>1, <2>2, RegisterOwned, OwnEditOwned, OtherEditOwned DEF Takes
<1>4. ASSUME NEW t \in Tasks, Goes(t) PROVE OwnedInv'
  <2>1. CASE RollbackCommit(t)
    BY <2>1, OtherEditOwned
  <2>2. CASE disk' = disk
    BY <1>4, <2>2, QuietOwned
  <2> QED
    BY <1>4, <2>1, <2>2, StartQuiet, CutoverQuiet, RetireQuiet, StopQuiet, OtherQuiet
    DEF Goes, Quiet, StartPrepared, manifests
<1>5. ASSUME NEW t \in Tasks PROVE ~Dropped(t)
  BY DEF Dropped
<1>6. ASSUME NEW i \in Instances, ChildExits(i) \/ WatchdogGivesUp(i) PROVE OwnedInv'
  BY <1>1, <1>6 DEF ChildExits, WatchdogGivesUp, manifests
<1>7. CASE UNCHANGED vars
  BY <1>1, <1>7 DEF vars, manifests
<1> QED
  BY <1>2, <1>3, <1>4, <1>5, <1>6, <1>7 DEF Next

(* A candidate in the manifest always belongs to a start that still runs:  *)
(* no refused, failed or overtaken start leaves its candidate behind, as   *)
(* long as writes do not fail, no handler is dropped and operators do not  *)
(* cut over themselves.                                                    *)
THEOREM CandidatesHaveStarts ==
  ASSUME Ops \cap {"switch", "drop"} = {}, ~IoFails
  PROVE  Spec => []CandidateOwned
<1> DEFINE I == TypeInv /\ LockInv /\ StartInv /\ RouteInv /\ OwnedInv
<1>1. Init => I
  <2> SUFFICES ASSUME Init PROVE RouteInv /\ OwnedInv
    BY TypeInit, LockInit, StartInit
  <2>1. RouteInv
    BY FreshRoutes DEF Init, RouteInv
  <2>2. OwnedInv
    BY DEF Init, OwnedInv, Owned, EmptyManifest, EmptyRoute
  <2> QED
    BY <2>1, <2>2
<1>2. I /\ [Next]_vars => I'
  BY TypeNext, LockNext, StartNext, RouteNext, OwnedNext
<1>3. I => CandidateOwned
  BY DEF OwnedInv, Owned, CandidateOwned, Answers, Pending
<1> QED
  BY <1>1, <1>2, <1>3, PTL DEF Spec

-----------------------------------------------------------------------------
(* What is left when all handlers have returned.  Only starts and stops    *)
(* run; their writes may fail.                                             *)

Plain == Ops \subseteq {"start", "stop"}

(* A start whose instance has no child yet.                                *)
Early(r) == r.op = "start" /\ r.pc \in {"register", "installCandidate", "spawn"}

(* An instance past its own start's spawn: no handler brings it up again.  *)
Born(i) ==
  /\ i[2] <= started[AppOf(i)]
  /\ \A t \in Tasks : Early(task[t]) => task[t].inst # i

(* An instance that never serves again.                                    *)
Out(i) ==
  Born(i) /\ \A a \in Apps : i \notin {disk.routes[a].active, disk.routes[a].candidate}

Stopping(r) == r.pc \in {"installStop", "unroute", "kill"}

(* The instances a handler has taken off the routes and is to kill.        *)
Leaving(r) ==
  IF Stopping(r) THEN r.ids
  ELSE IF r.pc = "installCutover" THEN {r.next.routes[r.app].previous} \ {None}
  ELSE IF r.then = "drain" THEN {r.prev} ELSE {}

(* What a handler relies on, at each of its steps.                         *)
Fits(r) ==
  /\ r.op \in {"none", "start", "stop"}
  /\ \A i \in r.ids : Born(i) /\ AppOf(i) = r.app
  /\ \A i \in Leaving(r) : Out(i)
  /\ r.pc \in {"installCandidate", "spawn"} => disk.instances[r.inst] = "Running"
  /\ r.pc \in {"announce", "cutover"} /\ disk.routes[r.app].candidate = r.inst
       => Managed(r.inst)
  /\ r.pc \in {"unlist", "discard"} => ~Managed(r.inst)
  /\ r.pc \in {"drain", "unregister", "retire"} => r.then = "drain"
  /\ r.pc \in {"unregister", "retire"} => ~Managed(r.prev)
  /\ r.pc \in {"routes", "publish"} =>
       \A p \in r.snap : Active(disk, AppOf(p[1])) = p[1] => pool[p[1]] = p[2]
  /\ r.pc = "publish" => \A p \in r.snap : Active(disk, AppOf(p[1])) = p[1]

(* Who has a child, and who must have one.                                 *)
PoolInv ==
  /\ \A i \in Instances : Managed(i) => Born(i) /\ <<i, pool[i]>> \in alive
  /\ \A a \in Apps : Active(shell, a) # None => Born(Active(shell, a))
  /\ \A a \in Apps : Active(disk, a) # None => Managed(Active(disk, a))

Steady == /\ TypeInv /\ LockInv /\ StartInv /\ RouteInv
         /\ PoolInv /\ \A t \in Tasks : Fits(task[t])

(* The steps that are left, by what they change.                           *)
Asides(t) ==
  \/ \E a \in Apps : StartBegin(t, a) \/ StopBegin(t, a)
  \/ StartRefused(t) \/ StartRegisterFails(t) \/ StartInstallCandidate(t)
  \/ StartSpawnFails(t) \/ StartAnnounce(t) \/ CutoverRefused(t) \/ CutoverInstall(t)
  \/ SyncReadPool(t) \/ SyncReadRoutes(t) \/ SyncPublish(t)
  \/ RetireUnregister(t) \/ InstallEdit(t) \/ StartUnlist(t)
  \/ StopConflict(t) \/ StopInstall(t) \/ StopUnroute(t)

Kills(t) == RetireStop(t) \/ StartAbort(t) \/ \E i \in Instances : StopKill(t, i)

Writes(t) == StartRegister(t) \/ Cutover(t) \/ Retire(t) \/ Discard(t) \/ StopCommit(t)

PlainStep(t) == StartPrepared(t) \/ StartSpawned(t) \/ Asides(t) \/ Kills(t) \/ Writes(t)

(* Other handlers than starts and stops never run. *)
LEMMA PlainSteps ==
  ASSUME Plain, Steady, [Next]_vars
  PROVE  \/ UNCHANGED <<disk, shell, mutex, pool, alive, table, started, task>>
         \/ \E t \in Tasks : PlainStep(t)
<1>1. CASE UNCHANGED vars
  BY <1>1 DEF vars, manifests
<1>2. ASSUME NEW i \in Instances, ChildExits(i) \/ WatchdogGivesUp(i)
      PROVE  UNCHANGED <<disk, shell, mutex, pool, alive, table, started, task>>
  BY <1>2 DEF ChildExits, WatchdogGivesUp, Plain, manifests, processes
<1>3. ASSUME NEW t \in Tasks, Begins(t) PROVE PlainStep(t)
  <2>1. ASSUME NEW i \in Instances PROVE ~WatchdogFires(t, i)
    BY DEF WatchdogFires, Steady, PoolInv
  <2>2. ASSUME NEW i \in Instances
        PROVE  ~SwitchBegin(t, i) /\ ~StopInstanceBegin(t, i) /\ ~RestartBegin(t, i)
    BY DEF SwitchBegin, StopInstanceBegin, RestartBegin, Begin, Plain
  <2>3. ASSUME NEW a \in Apps PROVE ~RollbackBegin(t, a)
    BY DEF RollbackBegin, Begin, Plain
  <2> QED
    BY <1>3, <2>1, <2>2, <2>3 DEF Begins, PlainStep, Asides
<1>4. ASSUME NEW t \in Tasks, Takes(t) PROVE PlainStep(t)
  BY <1>4 DEF Takes, PlainStep, Asides, Writes
<1>5. ASSUME NEW t \in Tasks, Goes(t) PROVE PlainStep(t)
  <2>1. WellPlaced(task[t]) /\ task[t].op \in {"none", "start", "stop"}
    BY DEF Steady, TypeInv, Fits
  <2>2. /\ ~RollbackRespawn(t) /\ ~RollbackRestart(t) /\ ~RollbackCommit(t) /\ ~RollbackInstall(t) /\ ~StopInstance(t)
        /\ ~RestartRead(t) /\ ~RestartStop(t) /\ ~RestartSpawned(t) /\ ~RestartFails(t)
        /\ ~CopyReadPool(t) /\ ~CopyToMirror(t)
    BY <2>1 DEF RollbackRespawn, RollbackRestart, RollbackCommit, RollbackInstall,
       StopInstance, RestartRead, RestartStop, RestartSpawned, RestartFails, CopyReadPool, CopyToMirror, At, WellPlaced
  <2> QED
    BY <1>5, <2>2 DEF Goes, PlainStep, Asides, Kills
<1>6. ASSUME NEW t \in Tasks PROVE ~Dropped(t)
  BY DEF Dropped, Plain
<1> QED
  BY <1>1, <1>2, <1>3, <1>4, <1>5, <1>6 DEF Next

(* A step touches no other handler. *)
LEMMA PlainMoves ==
  ASSUME Steady, NEW t \in Tasks, PlainStep(t)
  PROVE  OnlyMoves(t)
<1>1. Begins(t) \/ Takes(t) \/ Goes(t)
  BY DEF PlainStep, Asides, Kills, Writes, Begins, Takes, Goes
<1> QED
  BY <1>1, OneMoves DEF Steady

(* Going somewhere changes nothing else of a handler. *)
LEMMA GotoFields ==
  ASSUME TypeInv, NEW t \in Tasks, NEW pc, Goto(t, pc)
  PROVE  /\ task'[t].pc = pc /\ task'[t].op = task[t].op /\ task'[t].app = task[t].app
         /\ task'[t].inst = task[t].inst /\ task'[t].prev = task[t].prev
         /\ task'[t].ids = task[t].ids /\ task'[t].next = task[t].next
         /\ task'[t].snap = task[t].snap /\ task'[t].then = task[t].then
<1>1. task \in [Tasks -> TaskState] /\ task[t] \in TaskState
  BY DEF TypeInv, TypeOK
<1>2. task' = [task EXCEPT ![t].pc = pc]
  BY DEF Goto
<1> QED
  BY <1>1, <1>2 DEF TaskState

(* What is left of a handler that returned. *)
LEMMA ReturnFields ==
  ASSUME TypeInv, NEW t \in Tasks, Return(t)
  PROVE  task'[t] = Idle
  BY DEF Return, TypeInv, TypeOK

(* No step but a start's own makes an instance one without a child. *)
EarlyKept(t) ==
  /\ OnlyMoves(t) /\ started' = started
  /\ Early(task'[t]) => Early(task[t]) /\ task'[t].inst = task[t].inst

(* A start is early only by its own preparation. *)
LEMMA NoneEarlier ==
  ASSUME Steady, NEW t \in Tasks, PlainStep(t), ~StartPrepared(t)
  PROVE  EarlyKept(t)
<1>0. /\ task \in [Tasks -> TaskState] /\ task[t] \in TaskState /\ WellPlaced(task[t])
      /\ TypeInv /\ OnlyMoves(t)
  BY PlainMoves DEF Steady, TypeInv, TypeOK
<1>1. ASSUME Quiet(t), ~Early(task'[t]) \/ Early(task[t]) PROVE EarlyKept(t)
  BY <1>1 DEF Quiet, RouteKept, EarlyKept, Early, Pending
<1>2. ASSUME NEW pc \in Pcs \ {"register", "installCandidate", "spawn"},
             Goto(t, pc) \/ Return(t)
      PROVE  ~Early(task'[t])
  BY <1>0, <1>2, GotoFields, ReturnFields, IdleFields DEF Early
<1>3. ASSUME NEW a \in Apps, StartBegin(t, a) PROVE EarlyKept(t)
  <2>1. [Idle EXCEPT !.op = "start", !.pc = "prepare", !.app = a].pc = "prepare"
    BY DEF Idle
  <2>2. task'[t].pc = "prepare"
    BY <1>0, <1>3, <2>1 DEF StartBegin
  <2> QED
    BY <1>0, <1>3, <2>2 DEF StartBegin, EarlyKept, Early
<1>4. CASE \/ StartRefused(t) \/ StartRegisterFails(t) \/ StartInstallCandidate(t)
           \/ StartSpawned(t) \/ StartSpawnFails(t) \/ StartAnnounce(t)
  <2>1. StartInstallCandidate(t) => Early(task[t])
    BY <1>0 DEF StartInstallCandidate, At, Early, WellPlaced
  <2>2. CASE ~StartInstallCandidate(t)
    <3>1. Return(t) \/ Goto(t, "announce") \/ Goto(t, "unlist") \/ Goto(t, "cutover")
      BY <1>4, <2>2 DEF StartRefused, StartRegisterFails, StartSpawned, StartSpawnFails, StartAnnounce
    <3>2. ~Early(task'[t])
      BY <1>2, <3>1 DEF Pcs, AwaitPcs
    <3> QED
      BY <1>0, <1>1, <1>4, <3>2, StartQuiet
  <2> QED
    BY <1>0, <1>1, <1>4, <2>1, <2>2, StartQuiet
<1>5. CASE CutoverRefused(t) \/ CutoverInstall(t)
           \/ SyncReadPool(t) \/ SyncReadRoutes(t) \/ SyncPublish(t)
  <2>1. \/ Return(t) \/ Goto(t, "abort") \/ Goto(t, "drain") \/ Goto(t, "rollback")
        \/ task'[t].pc \in {"snap", "routes", "publish"}
    BY <1>0, <1>5 DEF CutoverRefused, CutoverInstall, SyncReadPool, SyncReadRoutes,
       SyncPublish, AfterSync, TaskState
  <2>2. ~Early(task'[t])
    BY <1>2, <2>1 DEF Pcs, AwaitPcs, Early
  <2> QED
    BY <1>0, <1>1, <1>5, <2>2, CutoverQuiet
<1>6. CASE RetireStop(t) \/ RetireUnregister(t) \/ InstallEdit(t) \/ StartAbort(t)
           \/ StartUnlist(t)
  <2>1. \/ Goto(t, "unregister") \/ Goto(t, "retire") \/ Goto(t, "snap")
        \/ Goto(t, "unlist") \/ Goto(t, "discard")
    BY <1>6 DEF RetireStop, RetireUnregister, InstallEdit, StartAbort, StartUnlist
  <2>2. ~Early(task'[t])
    BY <1>2, <2>1 DEF Pcs, AwaitPcs
  <2> QED
    BY <1>0, <1>1, <1>6, <2>2, RetireQuiet
<1>7. CASE \/ StopConflict(t) \/ StopInstall(t) \/ StopUnroute(t)
           \/ (\E i \in Instances : StopKill(t, i)) \/ \E a \in Apps : StopBegin(t, a)
  <2>1. Quiet(t)
    BY <1>0, <1>7, StopQuiet
  <2>2. task[t].op # "start"
    <3>1. (\E a \in Apps : StopBegin(t, a)) => task[t].op = "none"
      BY IdleFields DEF StopBegin
    <3> QED
      BY <1>0, <1>7, <3>1 DEF StopConflict, StopInstall, StopUnroute, StopKill, At, WellPlaced
  <2>3. ~Early(task'[t])
    BY <2>1, <2>2 DEF Quiet, RouteKept, Early, Pending
  <2> QED
    BY <1>1, <2>1, <2>3
<1>8. CASE Writes(t)
  <2>1. CASE StartRegister(t)
    <3>1. \E next : task' = [task EXCEPT ![t].next = next, ![t].pc = "installCandidate"]
      BY <2>1 DEF StartRegister, WriteIfRevisionMatches
    <3>2. task'[t].inst = task[t].inst /\ Early(task[t])
      BY <1>0, <2>1, <3>1 DEF StartRegister, At, Early, WellPlaced, TaskState
    <3> QED
      BY <1>0, <2>1, <3>2 DEF StartRegister, EarlyKept
  <2>2. CASE Cutover(t) \/ StopCommit(t)
    <3>1. \E next : \E pc \in {"installCutover", "installStop"} :
            task' = [task EXCEPT ![t].next = next, ![t].pc = pc]
      BY <2>2 DEF Cutover, StopCommit, WriteIfRevisionMatches
    <3>2. task'[t].pc \in {"installCutover", "installStop"}
      BY <1>0, <3>1 DEF TaskState
    <3> QED
      BY <1>0, <2>2, <3>2 DEF Cutover, StopCommit, EarlyKept, Early
  <2>3. CASE Retire(t) \/ Discard(t)
    <3>1. PICK next, then : EditOrSkip(t, next, then)
      BY <2>3 DEF Retire, Discard
    <3>2. task'[t].pc \in {"installEdit", "snap"}
      BY <1>0, <3>1 DEF EditOrSkip, TaskState
    <3> QED
      BY <1>0, <2>3, <3>2 DEF Retire, Discard, EarlyKept, Early
  <2> QED
    BY <1>8, <2>1, <2>2, <2>3 DEF Writes
<1> QED
  BY <1>3, <1>4, <1>5, <1>6, <1>7, <1>8 DEF PlainStep, Asides, Kills

(* Who is past its spawn stays so. *)
LEMMA BornStays ==
  ASSUME Steady, NEW t \in Tasks, PlainStep(t), NEW i \in Instances, Born(i)
  PROVE  Born(i)'
<1>0. /\ task \in [Tasks -> TaskState] /\ task[t] \in TaskState /\ WellPlaced(task[t])
      /\ started \in [Apps -> 0 .. MaxStarts] /\ AppOf(i) \in Apps /\ i[2] \in Nat
      /\ MaxStarts \in Nat /\ OnlyMoves(t)
  BY PlainMoves, ControlAssumption DEF Steady, TypeInv, TypeOK, AppOf, Instances
<1>1. CASE ~StartPrepared(t)
  BY <1>1, NoneEarlier DEF EarlyKept, OnlyMoves, Born
<1>2. CASE StartPrepared(t)
  <2>1. PICK a \in Apps : a = task[t].app
    BY <1>0, <1>2 DEF StartPrepared, At, WellPlaced
  <2>2. PICK k \in 0 .. MaxStarts : k = started[a]
    BY <1>0
  <2>3. started' = [started EXCEPT ![a] = k + 1] /\ task'[t].inst = <<a, k + 1>>
    BY <1>0, <1>2, <2>1, <2>2 DEF StartPrepared, FreshId, TaskState
  <2>4. i[2] <= started'[AppOf(i)]
    BY <1>0, <2>2, <2>3 DEF Born
  <2>5. i # <<a, k + 1>>
    <3>1. i = <<a, k + 1>> => i[2] = k + 1 /\ AppOf(i) = a
      BY DEF AppOf
    <3> QED
      BY <1>0, <2>2, <3>1 DEF Born
  <2> QED
    BY <1>0, <2>3, <2>4, <2>5 DEF Born, OnlyMoves
<1> QED
  BY <1>1, <1>2

(* What an edit of the manifest leaves intact: it routes to no instance    *)
(* that is out, keeps the wish for the starts that spawn, and only a stop  *)
(* takes a running child off the wishes.                                   *)
WriteOk(t) ==
  /\ mutex = None /\ shell = disk /\ UNCHANGED <<shell, pool, alive, table>>
  /\ \A b \in Apps : \/ Active(disk', b) \in {Active(disk, b), None}
                     \/ Managed(Active(disk', b)) /\ ~Out(Active(disk', b))
  /\ \A b \in Apps : \/ disk'.routes[b].candidate \in {disk.routes[b].candidate, None}
                     \/ /\ task[t].op = "start" /\ task[t].app = b
                        /\ ~Out(disk'.routes[b].candidate)
  /\ \A u \in Tasks \ {t} : task[u].pc = "spawn" => disk'.instances[task[u].inst] = "Running"
  /\ \A i \in Instances :
       Managed(i) /\ disk'.instances[i] \notin {"Running", "Standby"}
         => \/ disk.instances[i] \notin {"Running", "Standby"}
            \/ Stopping(task'[t]) /\ i \in task'[t].ids

(* Registering a candidate and cutting over to it. *)
LEMMA StartWrites ==
  ASSUME Plain, Steady, NEW t \in Tasks, StartRegister(t) \/ Cutover(t)
  PROVE  WriteOk(t)
<1>0. /\ task \in [Tasks -> TaskState] /\ task[t] \in TaskState /\ WellPlaced(task[t])
      /\ TypeInv /\ disk \in Manifest /\ Fits(task[t]) /\ RemembersItself(task[t])
  BY DEF Steady, TypeInv, TypeOK, StartInv
<1>1. /\ mutex = None /\ shell = disk /\ UNCHANGED <<shell, pool, alive, table>>
  BY NoneApart DEF StartRegister, Cutover, Lock, Steady, LockInv, processes
<1>2. PICK m \in Manifest : m = disk
  BY <1>0
<1>3. task[t].op = "start" /\ Pending(task[t])
  BY <1>0 DEF StartRegister, Cutover, At, WellPlaced, Fits, Pending
<1>4. PICK a \in Apps, i \in Instances : a = task[t].app /\ i = task[t].inst
  BY <1>0, <1>3 DEF WellPlaced, StartRegister, Cutover, At
<1>5. \A u \in Tasks : task[u].pc = "spawn" =>
        /\ task[u].inst \in Instances /\ m.instances[task[u].inst] = "Running"
        /\ task[u].inst # m.routes[a].active
  <2> SUFFICES ASSUME NEW u \in Tasks, task[u].pc = "spawn"
               PROVE  /\ task[u].inst \in Instances /\ m.instances[task[u].inst] = "Running"
                      /\ task[u].inst # m.routes[a].active
    OBVIOUS
  <2>1. WellPlaced(task[u]) /\ Fits(task[u])
    BY DEF Steady, TypeInv
  <2>2. Pending(task[u]) /\ task[u].inst \in Instances
    BY <2>1 DEF WellPlaced, Pending
  <2>3. NotServed(m, task[u])
    BY <1>2, <2>2 DEF Steady, RouteInv
  <2> QED
    BY <1>2, <2>1, <2>2, <2>3 DEF Fits, NotServed
<1>6. CASE StartRegister(t)
  <2>1. disk' = RegisterCandidate(m, a, i)
    BY <1>1, <1>2, <1>4, <1>6 DEF StartRegister, WriteIfRevisionMatches
  <2>2. /\ disk'.instances = [m.instances EXCEPT ![i] = "Running"]
        /\ \A b \in Apps : disk'.routes[b].active = m.routes[b].active
        /\ \A b \in Apps \ {a} : disk'.routes[b].candidate = m.routes[b].candidate
        /\ disk'.routes[a].candidate = i
    BY <2>1 DEF RegisterCandidate, WithRoute, Manifest
  <2>3. ~Out(i)
    BY <1>3, <1>4, <1>6 DEF Out, Born, Early, StartRegister, At
  <2>4. \A j \in Instances : disk'.instances[j] \in {m.instances[j], "Running"}
    BY <2>2 DEF Manifest
  <2> QED
    BY <1>1, <1>2, <1>3, <1>4, <1>5, <2>2, <2>3, <2>4 DEF WriteOk, Active
<1>7. CASE Cutover(t)
  <2>1. disk' = CutoverRoute(m, a, i)
    BY <1>1, <1>2, <1>4, <1>7 DEF Cutover, WriteIfRevisionMatches
  <2>2. m.routes[a].candidate = i
    BY <1>0, <1>1, <1>2, <1>3, <1>4, <1>7 DEF Cutover, CutoverAllowed, At, RemembersItself
  <2>3. m.routes[a].active # i
    BY <1>2, <1>3, <1>4 DEF Steady, RouteInv, NotServed
  <2>4. /\ disk'.instances = [WithDesired(m, {m.routes[a].active}, "Standby") EXCEPT ![i] = "Running"]
        /\ disk'.routes = WithRoute(m, a, i, None, m.routes[a].active)
    BY <2>1, <2>3 DEF CutoverRoute
  <2>5. /\ \A b \in Apps \ {a} : disk'.routes[b] = m.routes[b]
        /\ disk'.routes[a].candidate = None /\ disk'.routes[a].active = i
    BY <2>4 DEF WithRoute, Manifest
  <2>6. ~Out(i) /\ Managed(i)
    BY <1>0, <1>2, <1>4, <1>7, <2>2 DEF Out, Fits, Cutover, At
  <2>7. \A j \in Instances : /\ disk'.instances[j] \in {m.instances[j], "Running", "Standby"}
                             /\ j # m.routes[a].active
                                  => disk'.instances[j] \in {m.instances[j], "Running"}
    BY <2>4 DEF WithDesired
  <2> QED
    BY <1>1, <1>2, <1>3, <1>4, <1>5, <2>5, <2>6, <2>7 DEF WriteOk, Active
<1> QED
  BY <1>6, <1>7

(* Retiring the previous instance, discarding a candidate, and a stop. *)
LEMMA EndWrites ==
  ASSUME Plain, Steady, NEW t \in Tasks, Retire(t) \/ Discard(t) \/ StopCommit(t)
  PROVE  WriteOk(t)
<1>0. /\ task \in [Tasks -> TaskState] /\ task[t] \in TaskState /\ WellPlaced(task[t])
      /\ TypeInv /\ disk \in Manifest /\ Fits(task[t])
  BY DEF Steady, TypeInv, TypeOK
<1>1. /\ mutex = None /\ shell = disk /\ UNCHANGED <<shell, pool, alive, table>>
  BY NoneApart DEF Retire, Discard, StopCommit, EditOrSkip, Lock, Steady, LockInv, processes
<1>2. PICK m \in Manifest : m = disk
  BY <1>0
<1>3. ASSUME NEW u \in Tasks, task[u].pc = "spawn"
      PROVE  /\ Early(task[u]) /\ Pending(task[u]) /\ task[u].inst \in Instances
             /\ m.instances[task[u].inst] = "Running"
  BY <1>2, <1>3 DEF Steady, TypeInv, WellPlaced, Fits, Early, Pending
<1>4. PICK a \in Apps : a = task[t].app
  BY <1>0 DEF Retire, Discard, StopCommit, At, WellPlaced
<1>5. CASE Retire(t)
  <2>1. PICK i \in Instances : i = task[t].prev
    BY <1>0, <1>5 DEF Retire, At, WellPlaced
  <2>2. disk' = RetirePrevious(m, i) \/ disk' = m
    BY <1>1, <1>2, <1>5, <2>1 DEF Retire, EditOrSkip
  <2>3. ~Managed(i) /\ Born(i)
    BY <1>0, <1>5, <2>1 DEF Retire, At, Fits, Leaving, Stopping, Out
  <2>4. /\ disk'.routes = m.routes
        /\ \A j \in Instances \ {i} : disk'.instances[j] = m.instances[j]
    BY <2>2 DEF RetirePrevious, WithDesired
  <2>5. \A u \in Tasks : task[u].pc = "spawn" => task[u].inst \in Instances \ {i}
    BY <1>3, <2>3 DEF Born
  <2> QED
    BY <1>1, <1>2, <1>3, <2>3, <2>4, <2>5 DEF WriteOk, Active
<1>6. CASE Discard(t)
  <2>1. PICK i \in Instances : i = task[t].inst
    BY <1>0, <1>6 DEF Discard, At, WellPlaced
  <2>2. disk' = DiscardCandidate(m, a, i) \/ disk' = m
    BY <1>1, <1>2, <1>4, <1>6, <2>1 DEF Discard, EditOrSkip
  <2>3. ~Managed(i) /\ Pending(task[t])
    BY <1>0, <1>6, <2>1 DEF Discard, At, Fits, WellPlaced, Pending
  <2>4. /\ \A b \in Apps : disk'.routes[b].active = m.routes[b].active
        /\ \A b \in Apps : disk'.routes[b].candidate \in {None, m.routes[b].candidate}
        /\ \A j \in Instances \ {i} : disk'.instances[j] = m.instances[j]
    BY <2>2 DEF DiscardCandidate, WithRoute, Manifest
  <2>5. \A u \in Tasks \ {t} : task[u].pc = "spawn" => task[u].inst \in Instances \ {i}
    BY <1>3, <2>1, <2>3, OwnInstances DEF Steady
  <2> QED
    BY <1>1, <1>2, <1>3, <2>3, <2>4, <2>5 DEF WriteOk, Active
<1>7. CASE StopCommit(t)
  <2>1. PICK ids \in SUBSET Instances : ids = task[t].ids
    BY <1>0 DEF TaskState
  <2>2. /\ disk' = StopRoute(m, a, ids)
        /\ task' = [task EXCEPT ![t].next = StopRoute(m, a, ids), ![t].pc = "installStop"]
    BY <1>1, <1>2, <1>4, <1>7, <2>1 DEF StopCommit, WriteIfRevisionMatches
  <2>3. Stopping(task'[t]) /\ task'[t].ids = ids
    BY <1>0, <2>1, <2>2 DEF TaskState, Stopping
  <2>4. /\ \A b \in Apps : disk'.routes[b].active \in {None, m.routes[b].active}
        /\ \A b \in Apps : disk'.routes[b].candidate \in {None, m.routes[b].candidate}
        /\ \A j \in Instances \ ids : disk'.instances[j] = m.instances[j]
    BY <2>2 DEF StopRoute, WithRoute, WithDesired, Manifest
  <2>5. \A u \in Tasks : task[u].pc = "spawn" => task[u].inst \in Instances \ ids
    BY <1>0, <1>3, <2>1 DEF Fits, Born
  <2> QED
    BY <1>1, <1>2, <1>3, <2>3, <2>4, <2>5 DEF WriteOk, Active
<1> QED
  BY <1>5, <1>6, <1>7

(* A kill hits neither an active instance nor a candidate about to be.     *)
KillOk(t, x) ==
  /\ UNCHANGED <<disk, shell, table>>
  /\ StopFrom(x)
  /\ \A b \in Apps : Active(disk, b) # x
  /\ \A u \in Tasks \ {t} :
       task[u].pc \in {"announce", "cutover"}
         /\ disk.routes[task[u].app].candidate = task[u].inst => task[u].inst # x

(* The three steps that kill a child are of that kind. *)
LEMMA KillsOk ==
  ASSUME Plain, Steady, NEW t \in Tasks, Kills(t)
  PROVE  \E x \in Instances : KillOk(t, x)
<1>0. /\ WellPlaced(task[t]) /\ Fits(task[t])
      /\ UNCHANGED <<disk, shell, table>>
  BY DEF Steady, TypeInv, Kills, RetireStop, StartAbort, StopKill, manifests
<1>1. ASSUME NEW u \in Tasks, task[u].pc \in {"announce", "cutover"}
      PROVE  Pending(task[u]) /\ task[u].app \in Apps
  BY <1>1 DEF Steady, TypeInv, WellPlaced, Fits, Pending
<1>2. ASSUME NEW x \in Instances, Out(x), StopFrom(x) PROVE KillOk(t, x)
  BY <1>0, <1>1, <1>2 DEF Out, KillOk, Active
<1>3. CASE RetireStop(t)
  <2>1. Out(task[t].prev) /\ task[t].prev \in Instances
    BY <1>0, <1>3 DEF RetireStop, At, Fits, Leaving, Stopping, WellPlaced
  <2> QED
    BY <1>2, <1>3, <2>1 DEF RetireStop
<1>4. CASE StartAbort(t)
  <2>1. Pending(task[t]) /\ task[t].inst \in Instances
    BY <1>0, <1>4 DEF StartAbort, At, WellPlaced, Pending
  <2>2. \A b \in Apps : Active(disk, b) # task[t].inst
    BY <2>1 DEF Steady, RouteInv, NotServed, Active
  <2>3. \A u \in Tasks \ {t} : task[u].pc \in {"announce", "cutover"}
          => task[u].inst # task[t].inst
    BY <1>1, <2>1, OwnInstances DEF Steady
  <2> QED
    BY <1>0, <1>4, <2>1, <2>2, <2>3 DEF StartAbort, KillOk
<1>5. ASSUME NEW i \in Instances, StopKill(t, i) PROVE KillOk(t, i)
  <2>1. Out(i) /\ StopFrom(i)
    BY <1>0, <1>5 DEF StopKill, At, Fits, Leaving, Stopping
  <2> QED
    BY <1>2, <2>1
<1> QED
  BY <1>3, <1>4, <1>5 DEF Kills

(* The other steps change neither the children nor the manifest on disk,   *)
(* but for the one that spawns. *)
LEMMA StillOk ==
  ASSUME NEW t \in Tasks, StartPrepared(t) \/ Asides(t)
  PROVE  UNCHANGED <<disk, pool, alive>>
<1>1. ASSUME NEW a \in Apps, StartBegin(t, a) \/ StopBegin(t, a)
      PROVE  UNCHANGED <<disk, pool, alive>>
  BY <1>1 DEF StartBegin, StopBegin, manifests, processes
<1>2. CASE \/ StartPrepared(t) \/ StartRefused(t) \/ StartRegisterFails(t)
           \/ StartInstallCandidate(t) \/ StartSpawnFails(t) \/ StartAnnounce(t)
  BY <1>2 DEF StartPrepared, StartRefused, StartRegisterFails, StartInstallCandidate,
     StartSpawnFails, StartAnnounce, manifests, processes
<1>3. CASE CutoverRefused(t) \/ CutoverInstall(t)
           \/ SyncReadPool(t) \/ SyncReadRoutes(t) \/ SyncPublish(t)
  BY <1>3 DEF CutoverRefused, CutoverInstall, SyncReadPool, SyncReadRoutes, SyncPublish,
     manifests, processes
<1>4. CASE RetireUnregister(t) \/ InstallEdit(t) \/ StartUnlist(t) \/ StopConflict(t)
           \/ StopInstall(t) \/ StopUnroute(t)
  BY <1>4 DEF RetireUnregister, InstallEdit, StartUnlist, StopConflict, StopInstall, StopUnroute,
     manifests, processes
<1> QED
  BY <1>1, <1>2, <1>3, <1>4 DEF Asides

(* An instance that never serves again stays out. *)
LEMMA OutStays ==
  ASSUME Plain, Steady, NEW t \in Tasks, PlainStep(t), NEW i \in Instances, Out(i)
  PROVE  Out(i)'
<1>1. Born(i)'
  BY BornStays DEF Out
<1>2. i # None
  BY NoneApart
<1>3. CASE Writes(t)
  <2>1. WriteOk(t)
    BY <1>3, StartWrites, EndWrites DEF Writes
  <2> QED
    BY <1>1, <1>2, <2>1 DEF WriteOk, Out, Active
<1>4. CASE ~Writes(t)
  <2>1. disk' = disk
    BY <1>4, StillOk, KillsOk DEF PlainStep, KillOk, StartSpawned, manifests
  <2> QED
    BY <1>1, <2>1 DEF Out
<1> QED
  BY <1>3, <1>4

(* A handler that does not move keeps what it relies on. *)
LEMMA OthersFit ==
  ASSUME Plain, Steady, NEW t \in Tasks, PlainStep(t), NEW u \in Tasks \ {t}
  PROVE  Fits(task[u])'
<1>0. /\ task'[u] = task[u] /\ task[u] \in TaskState /\ WellPlaced(task[u]) /\ Fits(task[u])
      /\ pool \in [Instances -> 0 .. MaxSpawns]
  BY PlainMoves DEF OnlyMoves, Steady, TypeInv, TypeOK
<1>1. PICK r \in TaskState : r = task[u]
  BY <1>0
<1>2. /\ r.ids \subseteq Instances /\ Leaving(r) \subseteq Instances
  <2>1. r.pc = "installCutover" => r.next \in Manifest /\ r.app \in Apps
    BY <1>0, <1>1 DEF TaskState, WellPlaced, Fits
  <2>2. r.then = "drain" => r.prev \in Instances
    BY <1>0, <1>1 DEF WellPlaced
  <2> QED
    BY <1>1, <2>1, <2>2 DEF TaskState, Leaving, Manifest, RouteBinding
<1>3. /\ r.op \in {"none", "start", "stop"}
      /\ \A i \in r.ids : Born(i)' /\ AppOf(i) = r.app
      /\ \A i \in Leaving(r) : Out(i)'
      /\ r.pc \in {"drain", "unregister", "retire"} => r.then = "drain"
  BY <1>0, <1>1, <1>2, BornStays, OutStays DEF Fits
<1>4. /\ r.pc \in {"installCandidate", "spawn", "announce", "cutover", "unlist", "discard"}
           => Pending(r) /\ r.inst \in Instances /\ r.app \in Apps
      /\ r.pc \in {"unregister", "retire"} => r.prev \in Instances /\ Born(r.prev)
      /\ r.pc \in {"routes", "publish"} => HoldsLock(r)
      /\ r.snap \subseteq Placed
  <2>1. r.pc \in {"unregister", "retire"} => r.prev \in Leaving(r)
    BY <1>3 DEF Leaving, Stopping
  <2>2. WellPlaced(r) /\ Fits(r)
    BY <1>0, <1>1
  <2>3. r.pc \in {"unregister", "retire"} => r.prev \in Instances /\ Born(r.prev)
    BY <2>1, <2>2 DEF WellPlaced, Fits, Out
  <2>4. r.pc \in {"routes", "publish"} => HoldsLock(r)
    BY <2>2 DEF WellPlaced, Fits, HoldsLock
  <2>5. r.pc \in {"installCandidate", "spawn", "announce", "cutover", "unlist", "discard"}
           => Pending(r) /\ r.inst \in Instances /\ r.app \in Apps
    BY <2>2 DEF WellPlaced, Fits, Pending
  <2> QED
    BY <2>3, <2>4, <2>5 DEF TaskState
<1>5. SUFFICES
      /\ r.pc \in {"installCandidate", "spawn"} => disk'.instances[r.inst] = "Running"
      /\ r.pc \in {"announce", "cutover"} /\ disk'.routes[r.app].candidate = r.inst
           => pool'[r.inst] # 0
      /\ r.pc \in {"unlist", "discard"} => pool'[r.inst] = 0
      /\ r.pc \in {"unregister", "retire"} => pool'[r.prev] = 0
      /\ r.pc \in {"routes", "publish"} =>
           \A p \in r.snap : Active(disk', AppOf(p[1])) = p[1] => pool'[p[1]] = p[2]
      /\ r.pc = "publish" => \A p \in r.snap : Active(disk', AppOf(p[1])) = p[1]
  BY <1>0, <1>1, <1>3 DEF Fits, Leaving, Managed
<1>6. Fits(r)
  BY <1>0, <1>1
<1>7. CASE UNCHANGED <<disk, pool>>
  BY <1>6, <1>7 DEF Fits, Managed
<1>8. CASE Kills(t)
  <2>1. PICK x \in Instances :
          /\ disk' = disk /\ pool' = [pool EXCEPT ![x] = 0]
          /\ \A b \in Apps : Active(disk, b) # x
          /\ r.pc \in {"announce", "cutover"} /\ disk.routes[r.app].candidate = r.inst
               => r.inst # x
    BY <1>1, <1>8, KillsOk DEF KillOk, StopFrom
  <2>2. /\ \A i \in Instances \ {x} : pool'[i] = pool[i]
        /\ pool'[x] = 0
    BY <1>0, <2>1
  <2>3. \A p \in r.snap : p[1] \in Instances /\ AppOf(p[1]) \in Apps
    BY <1>4 DEF Placed, Instances, AppOf
  <2> QED
    BY <1>4, <1>6, <2>1, <2>2, <2>3 DEF Fits, Managed
<1>9. CASE StartSpawned(t)
  <2>1. Early(task[t]) /\ Pending(task[t]) /\ task[t].inst \in Instances
    BY <1>9 DEF StartSpawned, At, Early, Pending, Steady, TypeInv, WellPlaced
  <2>2. PICK x \in Instances : x = task[t].inst
    BY <2>1
  <2>3. disk' = disk /\ pool' = [pool EXCEPT ![x] = spawns[x] + 1]
    BY <1>9, <2>2 DEF StartSpawned, SpawnInto, manifests
  <2>4. \A i \in Instances \ {x} : pool'[i] = pool[i]
    BY <2>3
  <2>5. r.pc \in {"announce", "cutover", "unlist", "discard"} => r.inst # x
    BY <1>1, <1>4, <2>1, <2>2, OwnInstances DEF Steady
  <2>6. r.pc \in {"unregister", "retire"} => r.prev # x
    BY <1>4, <2>1, <2>2 DEF Born
  <2>7. \A b \in Apps : Active(disk, b) # x
    BY <2>1, <2>2 DEF Steady, RouteInv, NotServed, Active
  <2>8. \A p \in r.snap : p[1] \in Instances /\ AppOf(p[1]) \in Apps
    BY <1>4 DEF Placed, Instances, AppOf
  <2> QED
    BY <1>4, <1>6, <2>3, <2>4, <2>5, <2>6, <2>7, <2>8 DEF Fits, Managed
<1>10. CASE WriteOk(t)
  <2>1. r.pc \notin {"installCandidate", "routes", "publish"}
    <3>1. ~HoldsLock(r)
      BY <1>1, <1>10, NoneApart DEF WriteOk, Steady, LockInv
    <3> QED
      BY <1>4, <3>1 DEF HoldsLock, Installing
  <2>2. r.pc = "spawn" => disk'.instances[r.inst] = "Running"
    BY <1>1, <1>10 DEF WriteOk
  <2>3. pool' = pool
    BY <1>10 DEF WriteOk
  <2>4. ASSUME r.pc \in {"announce", "cutover"}, disk'.routes[r.app].candidate = r.inst
        PROVE  disk.routes[r.app].candidate = r.inst
    <3>1. Pending(r) /\ r.inst # None /\ r.app \in Apps
      BY <1>4, <2>4, NoneApart
    <3>2. ~(task[t].op = "start" /\ task[t].app = r.app)
      BY <1>1, <3>1 DEF Steady, StartInv, OneStartPerApp, Pending
    <3> QED
      BY <1>10, <2>4, <3>1, <3>2 DEF WriteOk
  <2> QED
    BY <1>6, <2>1, <2>2, <2>3, <2>4 DEF Fits, Managed
<1> QED
  BY <1>7, <1>8, <1>9, <1>10, StillOk, StartWrites, EndWrites DEF PlainStep, Writes

(* What a handler keeps of its reliances wherever it goes. *)
Inherits(r) ==
  /\ r.op \in {"none", "start", "stop"}
  /\ \A i \in r.ids : Born(i) /\ AppOf(i) = r.app
  /\ \A i \in Leaving(r) : Out(i)

(* What a handler is to kill are instances. *)
LEMMA LeavingTypes ==
  ASSUME Steady, NEW t \in Tasks
  PROVE  task[t].ids \subseteq Instances /\ Leaving(task[t]) \subseteq Instances
<1>0. task[t] \in TaskState /\ WellPlaced(task[t]) /\ Fits(task[t])
  BY DEF Steady, TypeInv, TypeOK
<1>1. task[t].pc = "installCutover" => task[t].next \in Manifest /\ task[t].app \in Apps
  BY <1>0 DEF TaskState, WellPlaced, Fits
<1>2. task[t].then = "drain" => task[t].prev \in Instances
  BY <1>0 DEF WellPlaced
<1> QED
  BY <1>0, <1>1, <1>2 DEF TaskState, Leaving, Manifest, RouteBinding

(* A handler that goes on with what it had keeps that. *)
LEMMA Carried ==
  ASSUME Plain, Steady, NEW t \in Tasks, PlainStep(t),
         task'[t].op = task[t].op, task'[t].app = task[t].app,
         task'[t].ids \subseteq task[t].ids, Leaving(task'[t]) \subseteq Leaving(task[t])
  PROVE  Inherits(task[t])'
<1>1. Fits(task[t])
  BY DEF Steady
<1>2. \A i \in task[t].ids : Born(i)' /\ AppOf(i) = task[t].app
  BY <1>1, LeavingTypes, BornStays DEF Fits
<1>3. \A i \in Leaving(task[t]) : Out(i)'
  BY <1>1, LeavingTypes, OutStays DEF Fits
<1>4. task[t].op \in {"none", "start", "stop"}
  BY <1>1 DEF Fits
<1> QED
  BY <1>2, <1>3, <1>4 DEF Inherits

(* A handler that has returned relies on nothing. *)
LEMMA IdleFits ==
  ASSUME NEW t \in Tasks, task'[t] = Idle
  PROVE  Fits(task[t])'
<1>1. Idle.op = "none" /\ Idle.pc = "idle" /\ Idle.ids = {} /\ Idle.then = "none"
  BY DEF Idle
<1> QED
  BY <1>1 DEF Fits, Leaving, Stopping

(* The steps that only go on. *)
LEMMA GoingFits ==
  ASSUME Plain, Steady, NEW t \in Tasks, PlainStep(t),
         \/ StartSpawned(t) \/ StartSpawnFails(t) \/ StartAnnounce(t) \/ StartAbort(t)
         \/ StartUnlist(t) \/ RetireStop(t) \/ RetireUnregister(t) \/ InstallEdit(t)
         \/ StopInstall(t) \/ StopUnroute(t)
  PROVE  Fits(task[t])'
<1>0. /\ TypeInv /\ WellPlaced(task[t]) /\ Fits(task[t])
      /\ pool \in [Instances -> 0 .. MaxSpawns] /\ spawns \in [Instances -> 0 .. MaxSpawns]
  BY DEF Steady, TypeInv, TypeOK
<1>1. ASSUME NEW pc, Goto(t, pc), pc # "installCutover",
             pc \in {"unroute", "kill"} => Stopping(task[t]), ~Stopping(task[t]) \/ pc \in {"unroute", "kill"},
             task[t].pc # "installCutover", pc # "installStop"
      PROVE  Inherits(task[t])'
  <2>1. Leaving(task'[t]) \subseteq Leaving(task[t])
    BY <1>0, <1>1, GotoFields DEF Leaving, Stopping
  <2> QED
    BY <1>0, <1>1, <2>1, GotoFields, Carried
<1>2. ASSUME NEW pc, Goto(t, pc), Inherits(task[t])',
             pc \notin {"installCandidate", "spawn", "routes", "publish", "drain"},
             pc \in {"announce", "cutover"}
               /\ disk'.routes[task[t].app].candidate = task[t].inst => pool'[task[t].inst] # 0,
             pc \in {"unlist", "discard"} => pool'[task[t].inst] = 0,
             pc \in {"unregister", "retire"} => task[t].then = "drain" /\ pool'[task[t].prev] = 0
      PROVE  Fits(task[t])'
  BY <1>0, <1>2, GotoFields DEF Fits, Inherits, Managed
<1>3. CASE StartSpawned(t)
  <2>1. Goto(t, "announce") /\ task[t].pc = "spawn" /\ SpawnInto(task[t].inst)
        /\ task[t].inst \in Instances
    BY <1>0, <1>3 DEF StartSpawned, At, WellPlaced
  <2>2. pool'[task[t].inst] # 0
    BY <1>0, <2>1 DEF SpawnInto
  <2> QED
    BY <1>1, <1>2, <2>1, <2>2 DEF Stopping
<1>4. CASE StartSpawnFails(t)
  <2>1. Goto(t, "unlist") /\ task[t].pc = "spawn" /\ pool' = pool /\ task[t].inst \in Instances
    BY <1>0, <1>4 DEF StartSpawnFails, At, WellPlaced, processes
  <2>2. Early(task[t])
    BY <1>0, <2>1 DEF Early, WellPlaced
  <2>3. pool[task[t].inst] = 0
    BY <2>1, <2>2 DEF Steady, PoolInv, Born, Managed
  <2> QED
    BY <1>1, <1>2, <2>1, <2>3 DEF Stopping
<1>5. CASE StartAnnounce(t)
  <2>1. Goto(t, "cutover") /\ task[t].pc = "announce" /\ pool' = pool /\ disk' = disk
    BY <1>5 DEF StartAnnounce, At, processes, manifests
  <2> QED
    BY <1>0, <1>1, <1>2, <2>1 DEF Stopping, Fits, Managed
<1>6. CASE StartAbort(t)
  <2>1. Goto(t, "unlist") /\ task[t].pc = "abort" /\ task[t].inst \in Instances
    BY <1>0, <1>6 DEF StartAbort, At, WellPlaced
  <2>2. pool'[task[t].inst] = 0
    BY <1>0, <1>6, <2>1 DEF StartAbort, StopFrom
  <2> QED
    BY <1>1, <1>2, <2>1, <2>2 DEF Stopping
<1>7. CASE StartUnlist(t)
  <2>1. Goto(t, "discard") /\ task[t].pc = "unlist" /\ pool' = pool
    BY <1>7 DEF StartUnlist, At, processes
  <2> QED
    BY <1>0, <1>1, <1>2, <2>1 DEF Stopping, Fits, Managed
<1>8. CASE RetireStop(t)
  <2>1. Goto(t, "unregister") /\ task[t].pc = "drain" /\ task[t].prev \in Instances
    BY <1>0, <1>8 DEF RetireStop, At, WellPlaced
  <2>2. pool'[task[t].prev] = 0
    BY <1>0, <1>8, <2>1 DEF RetireStop, StopFrom
  <2> QED
    BY <1>0, <1>1, <1>2, <2>1, <2>2 DEF Stopping, Fits
<1>9. CASE RetireUnregister(t)
  <2>1. Goto(t, "retire") /\ task[t].pc = "unregister" /\ pool' = pool
    BY <1>9 DEF RetireUnregister, At, processes
  <2> QED
    BY <1>0, <1>1, <1>2, <2>1 DEF Stopping, Fits, Managed
<1>10. CASE InstallEdit(t)
  <2>1. Goto(t, "snap") /\ task[t].pc = "installEdit"
    BY <1>10 DEF InstallEdit, At
  <2> QED
    BY <1>1, <1>2, <2>1 DEF Stopping
<1>11. CASE StopInstall(t) \/ StopUnroute(t)
  <2>1. \/ Goto(t, "unroute") /\ task[t].pc = "installStop"
        \/ Goto(t, "kill") /\ task[t].pc = "unroute"
    BY <1>11 DEF StopInstall, StopUnroute, At
  <2> QED
    BY <1>1, <1>2, <2>1 DEF Stopping
<1> QED
  BY <1>3, <1>4, <1>5, <1>6, <1>7, <1>8, <1>9, <1>10, <1>11

(* The steps that begin, refuse or prepare something, and the kills of a stop. *)
Begun(t) == \E a \in Apps : StartBegin(t, a) \/ StopBegin(t, a)
Killed(t) == \E i \in Instances : StopKill(t, i)

(* Handlers that begin, are refused or prepared, register and kill. *)
LEMMA BeginningFits ==
  ASSUME Plain, Steady, NEW t \in Tasks, PlainStep(t),
         Begun(t) \/ StartRefused(t) \/ StartRegisterFails(t) \/ StopConflict(t)
           \/ StartPrepared(t) \/ StartInstallCandidate(t) \/ Killed(t)
  PROVE  Fits(task[t])'
<1>0. /\ TypeInv /\ WellPlaced(task[t]) /\ Fits(task[t])
      /\ task \in [Tasks -> TaskState] /\ task[t] \in TaskState
  BY DEF Steady, TypeInv, TypeOK
<1>1. ASSUME NEW a \in Apps, StartBegin(t, a) PROVE Fits(task[t])'
  <2> DEFINE r == [Idle EXCEPT !.op = "start", !.pc = "prepare", !.app = a]
  <2>1. r.op = "start" /\ r.pc = "prepare" /\ r.ids = {} /\ r.then = "none"
    BY DEF Idle
  <2>2. task' = [task EXCEPT ![t] = r]
    BY <1>1 DEF StartBegin
  <2> HIDE DEF r
  <2>3. task'[t] = r
    BY <1>0, <2>2
  <2> QED
    BY <2>1, <2>3 DEF Fits, Leaving, Stopping
<1>2. ASSUME NEW a \in Apps, StopBegin(t, a) PROVE Fits(task[t])'
  <2> DEFINE ids == {i \in Instances : AppOf(i) = a /\ (Managed(i) \/ Active(shell, a) = i)}
             r == [Idle EXCEPT !.op = "stop", !.pc = "stop", !.app = a, !.ids = ids]
  <2>1. r.op = "stop" /\ r.pc = "stop" /\ r.app = a /\ r.ids = ids /\ r.then = "none"
    BY DEF Idle
  <2>2. \A i \in ids : Born(i)' /\ AppOf(i) = a
    BY BornStays, NoneApart DEF Steady, PoolInv
  <2>3. task[t] = Idle /\ (task' = task \/ task' = [task EXCEPT ![t] = r])
    BY <1>2 DEF StopBegin, Begin
  <2> HIDE DEF r, ids
  <2>4. task'[t] = Idle \/ task'[t] = r
    BY <1>0, <2>3
  <2>5. CASE task'[t] = r
    BY <2>1, <2>2, <2>5 DEF Fits, Leaving, Stopping
  <2> QED
    BY <2>4, <2>5, IdleFits
<1>3. CASE StartRefused(t) \/ StartRegisterFails(t) \/ StopConflict(t)
  BY <1>0, <1>3, ReturnFields, IdleFits DEF StartRefused, StartRegisterFails, StopConflict
<1>4. CASE StartPrepared(t) \/ StartInstallCandidate(t)
  <2>1. /\ task'[t].op = task[t].op /\ task'[t].app = task[t].app
        /\ task'[t].ids = task[t].ids /\ task'[t].then = task[t].then
        /\ task'[t].prev = task[t].prev
        /\ \/ task[t].pc = "prepare" /\ task'[t].pc = "register"
           \/ /\ task[t].pc = "installCandidate" /\ task'[t].pc = "spawn"
              /\ task'[t].inst = task[t].inst
    BY <1>0, <1>4 DEF StartPrepared, StartInstallCandidate, At, TaskState
  <2>2. Inherits(task[t])'
    BY <2>1, Carried DEF Leaving, Stopping
  <2>3. StartInstallCandidate(t) => disk' = disk
    BY DEF StartInstallCandidate
  <2>4. task'[t].pc = "spawn" => disk'.instances[task'[t].inst] = "Running"
    BY <1>0, <1>4, <2>1, <2>3 DEF Fits, StartPrepared, At
  <2> QED
    BY <2>1, <2>2, <2>4 DEF Fits, Inherits
<1>5. ASSUME NEW i \in Instances, StopKill(t, i) PROVE Fits(task[t])'
  <2> DEFINE rest == task[t].ids \ {i}
  <2>1. task'[t] = Idle \/ task'[t] = [task[t] EXCEPT !.ids = rest]
    BY <1>0, <1>5 DEF StopKill
  <2>2. task[t].pc = "kill"
    BY <1>5 DEF StopKill, At
  <2>3. CASE task'[t] = [task[t] EXCEPT !.ids = rest]
    <3>1. /\ task'[t].op = task[t].op /\ task'[t].app = task[t].app
          /\ task'[t].ids = rest /\ task'[t].pc = "kill"
      BY <1>0, <2>2, <2>3 DEF TaskState
    <3>2. Inherits(task[t])'
      BY <2>2, <3>1, Carried DEF Leaving, Stopping
    <3> QED
      BY <3>1, <3>2 DEF Fits, Inherits
  <2> QED
    BY <2>1, <2>3, IdleFits
<1> QED
  BY <1>1, <1>2, <1>3, <1>4, <1>5 DEF Begun, Killed

(* A refused or installed cutover, and the syncs of the route table. *)
LEMMA SyncFits ==
  ASSUME Plain, Steady, NEW t \in Tasks, PlainStep(t),
         \/ CutoverRefused(t) \/ CutoverInstall(t)
         \/ SyncReadPool(t) \/ SyncReadRoutes(t) \/ SyncPublish(t)
  PROVE  Fits(task[t])'
<1>0. /\ TypeInv /\ WellPlaced(task[t]) /\ Fits(task[t])
      /\ task \in [Tasks -> TaskState] /\ task[t] \in TaskState
  BY DEF Steady, TypeInv, TypeOK
<1>1. CASE CutoverRefused(t)
  <2>1. Goto(t, "abort") /\ task[t].pc = "cutover"
    BY <1>0, <1>1 DEF CutoverRefused, At, WellPlaced, Fits
  <2>2. Inherits(task[t])'
    BY <1>0, <2>1, GotoFields, Carried DEF Leaving, Stopping
  <2> QED
    BY <1>0, <2>1, <2>2, GotoFields DEF Fits, Inherits
<1>2. CASE CutoverInstall(t)
  <2> DEFINE prev == task[t].next.routes[task[t].app].previous
             then == IF task[t].op = "switch" THEN "free"
                     ELSE IF prev \in {None, task[t].inst} THEN "armed" ELSE "drain"
  <2>1. task[t].pc = "installCutover"
        /\ task' = [task EXCEPT ![t].pc = "snap", ![t].prev = prev, ![t].then = then]
    BY <1>2 DEF CutoverInstall, At
  <2>2. then = "drain" => prev # None
    OBVIOUS
  <2>3. Leaving(task[t]) = {prev} \ {None}
    BY <2>1 DEF Leaving, Stopping
  <2> HIDE DEF prev, then
  <2>4. /\ task'[t].op = task[t].op /\ task'[t].app = task[t].app
        /\ task'[t].ids = task[t].ids /\ task'[t].then = then
        /\ task'[t].prev = prev /\ task'[t].pc = "snap"
    BY <1>0, <2>1 DEF TaskState
  <2>5. Leaving(task'[t]) \subseteq Leaving(task[t])
    BY <2>2, <2>3, <2>4 DEF Leaving, Stopping
  <2>6. Inherits(task[t])'
    BY <2>4, <2>5, Carried
  <2> QED
    BY <2>4, <2>6 DEF Fits, Inherits
<1>3. CASE SyncReadPool(t) \/ SyncReadRoutes(t)
  <2>1. /\ task'[t].op = task[t].op /\ task'[t].app = task[t].app
        /\ task'[t].ids = task[t].ids /\ task'[t].then = task[t].then
        /\ task'[t].prev = task[t].prev /\ task[t].pc \in {"snap", "routes"}
        /\ task'[t].pc \in {"routes", "publish"}
    BY <1>0, <1>3 DEF SyncReadPool, SyncReadRoutes, At, TaskState
  <2>2. Inherits(task[t])'
    BY <2>1, Carried DEF Leaving, Stopping
  <2>3. UNCHANGED <<disk, pool>>
    BY <1>3 DEF SyncReadPool, SyncReadRoutes, manifests, processes
  <2>4. CASE SyncReadPool(t)
    <3>1. task'[t].snap = {p \in Instances \X (1 .. MaxSpawns) : pool[p[1]] = p[2]}
          /\ task'[t].pc = "routes"
      BY <1>0, <2>4 DEF SyncReadPool, TaskState
    <3>2. \A p \in task'[t].snap : pool[p[1]] = p[2]
      BY <3>1
    <3> QED
      BY <2>2, <2>3, <3>1, <3>2 DEF Fits, Inherits
  <2>5. CASE SyncReadRoutes(t)
    <3>1. task'[t].snap = {p \in task[t].snap : Active(shell, AppOf(p[1])) = p[1]}
          /\ task'[t].pc = "publish" /\ task[t].pc = "routes"
      BY <1>0, <2>5 DEF SyncReadRoutes, At, TaskState
    <3>2. shell = disk
      <4>1. HoldsLock(task[t]) /\ task[t].pc \notin Installing
        BY <1>0, <3>1 DEF HoldsLock, Installing, WellPlaced, Fits
      <4> QED
        BY <4>1 DEF Steady, LockInv
    <3>3. \A p \in task[t].snap : Active(disk, AppOf(p[1])) = p[1] => pool[p[1]] = p[2]
      BY <1>0, <3>1 DEF Fits
    <3>4. \A p \in task'[t].snap : Active(disk', AppOf(p[1])) = p[1] /\ pool'[p[1]] = p[2]
      BY <2>3, <3>1, <3>2, <3>3
    <3> QED
      BY <2>2, <3>1, <3>4 DEF Fits, Inherits
  <2> QED
    BY <1>3, <2>4, <2>5
<1>4. CASE SyncPublish(t)
  <2>1. task[t].pc = "publish" /\ (Return(t) \/ (Goto(t, "drain") /\ task[t].then = "drain"))
    <3>1. task[t].then \notin {"respawned", "restarted"}
      BY <1>0 DEF WellPlaced, Fits
    <3>2. \/ task[t].then = "drain" /\ Goto(t, "drain")
          \/ task[t].then \in {"respawned", "restarted"} /\ Goto(t, "rollback")
          \/ Return(t)
      BY <1>4 DEF SyncPublish, AfterSync
    <3>3. task[t].pc = "publish"
      BY <1>4 DEF SyncPublish, At
    <3> QED
      BY <3>1, <3>2, <3>3
  <2>2. CASE Goto(t, "drain") /\ task[t].then = "drain"
    <3>1. Inherits(task[t])'
      BY <1>0, <2>1, <2>2, GotoFields, Carried DEF Leaving, Stopping
    <3> QED
      BY <1>0, <2>2, <3>1, GotoFields DEF Fits, Inherits
  <2> QED
    BY <1>0, <2>1, <2>2, ReturnFields, IdleFits
<1> QED
  BY <1>1, <1>2, <1>3, <1>4

(* The steps that write the manifest. *)
LEMMA WritingFits ==
  ASSUME Plain, Steady, NEW t \in Tasks, Writes(t)
  PROVE  Fits(task[t])'
<1>0. /\ TypeInv /\ WellPlaced(task[t]) /\ Fits(task[t]) /\ PlainStep(t)
      /\ task \in [Tasks -> TaskState] /\ task[t] \in TaskState /\ disk \in Manifest
  BY DEF Steady, TypeInv, TypeOK, PlainStep
<1>1. WriteOk(t)
  BY StartWrites, EndWrites DEF Writes
<1>2. PICK m \in Manifest : m = disk
  BY <1>0
<1>3. CASE StartRegister(t)
  <2>1. /\ task'[t].op = task[t].op /\ task'[t].app = task[t].app
        /\ task'[t].ids = task[t].ids /\ task'[t].then = task[t].then
        /\ task'[t].prev = task[t].prev /\ task'[t].inst = task[t].inst
        /\ task[t].pc = "register" /\ task'[t].pc = "installCandidate"
    BY <1>0, <1>3 DEF StartRegister, WriteIfRevisionMatches, At, TaskState
  <2>2. Inherits(task[t])'
    BY <1>0, <2>1, Carried DEF Leaving, Stopping
  <2>3. task[t].inst \in Instances
    BY <1>0, <2>1 DEF WellPlaced
  <2>4. disk' = RegisterCandidate(m, task[t].app, task[t].inst)
    BY <1>1, <1>2, <1>3 DEF StartRegister, WriteIfRevisionMatches, WriteOk
  <2>5. disk'.instances[task[t].inst] = "Running"
    BY <2>3, <2>4 DEF RegisterCandidate, Manifest
  <2> QED
    BY <2>1, <2>2, <2>5 DEF Fits, Inherits
<1>4. CASE Cutover(t)
  <2>1. task[t].op = "start" /\ Pending(task[t]) /\ task[t].pc = "cutover"
    BY <1>0, <1>4 DEF Cutover, At, WellPlaced, Fits, Pending
  <2>2. PICK a \in Apps, i \in Instances : a = task[t].app /\ i = task[t].inst
    BY <1>0, <2>1 DEF WellPlaced
  <2>3. /\ disk' = CutoverRoute(m, a, i)
        /\ task' = [task EXCEPT ![t].next = CutoverRoute(m, a, i), ![t].pc = "installCutover"]
    BY <1>1, <1>2, <1>4, <2>2 DEF Cutover, WriteIfRevisionMatches, WriteOk
  <2>4. m.routes[a].active # i
    BY <1>2, <2>1, <2>2 DEF Steady, RouteInv, NotServed
  <2>5. PICK prev \in Instances \union {None} : prev = m.routes[a].active
    BY DEF Manifest, RouteBinding
  <2>6. /\ \A b \in Apps \ {a} : disk'.routes[b] = m.routes[b]
        /\ disk'.routes[a].candidate = None /\ disk'.routes[a].active = i
        /\ disk'.routes[a].previous = prev
    BY <2>3, <2>4, <2>5 DEF CutoverRoute, WithRoute, Manifest
  <2>7. /\ task'[t].op = task[t].op /\ task'[t].app = a
        /\ task'[t].ids = task[t].ids /\ task'[t].pc = "installCutover"
        /\ task'[t].next.routes[a].previous = prev
    BY <1>0, <2>2, <2>3, <2>6 DEF TaskState
  <2>8. ASSUME prev # None PROVE Out(prev)'
    <3>1. Managed(prev) /\ prev \in Instances
      BY <1>2, <2>5, <2>8 DEF Steady, PoolInv, Active
    <3>2. Born(prev)'
      BY <1>0, <3>1, BornStays DEF Steady, PoolInv
    <3>3. \A b \in Apps : prev \in Slots(m.routes[b]) => b = a
      BY <1>2, <2>5, <2>8 DEF Steady, RouteInv, SlotsSound, Slots
    <3>4. \A b \in Apps : prev \notin {disk'.routes[b].active, disk'.routes[b].candidate}
      BY <2>4, <2>5, <2>6, <2>8, <3>3 DEF Slots
    <3> QED
      BY <3>2, <3>4 DEF Out
  <2>9. Leaving(task'[t]) = {prev} \ {None}
    BY <2>7 DEF Leaving, Stopping
  <2>10. \A j \in task[t].ids : Born(j)' /\ AppOf(j) = a
    BY <1>0, <2>2, LeavingTypes, BornStays DEF Fits
  <2> QED
    BY <2>1, <2>7, <2>8, <2>9, <2>10 DEF Fits
<1>5. CASE Retire(t) \/ Discard(t)
  <2>0. PICK then \in {"armed", "dropped"} : \E next : EditOrSkip(t, next, then)
    BY <1>5 DEF Retire, Discard
  <2>1. PICK next : EditOrSkip(t, next, then)
    BY <2>0
  <2>2. /\ task'[t].op = task[t].op /\ task'[t].app = task[t].app
        /\ task'[t].ids = task[t].ids /\ task'[t].then = then
        /\ task'[t].pc \in {"installEdit", "snap"}
    BY <1>0, <2>1 DEF EditOrSkip, TaskState
  <2>3. Leaving(task'[t]) = {}
    BY <2>2 DEF Leaving, Stopping
  <2>4. Inherits(task[t])'
    BY <1>0, <2>2, <2>3, Carried
  <2> QED
    BY <2>2, <2>4 DEF Fits, Inherits
<1>6. CASE StopCommit(t)
  <2>1. PICK a \in Apps, ids \in SUBSET Instances : a = task[t].app /\ ids = task[t].ids
    BY <1>0, <1>6 DEF StopCommit, At, WellPlaced, TaskState
  <2>2. /\ disk' = StopRoute(m, a, ids)
        /\ task' = [task EXCEPT ![t].next = StopRoute(m, a, ids), ![t].pc = "installStop"]
    BY <1>1, <1>2, <1>6, <2>1 DEF StopCommit, WriteIfRevisionMatches, WriteOk
  <2>3. /\ \A b \in Apps \ {a} : disk'.routes[b] = m.routes[b]
        /\ disk'.routes[a].active = None /\ disk'.routes[a].candidate = None
    BY <2>2 DEF StopRoute, WithRoute, Manifest
  <2>4. /\ task'[t].op = task[t].op /\ task'[t].app = a /\ task'[t].ids = ids
        /\ task'[t].pc = "installStop"
    BY <1>0, <2>1, <2>2 DEF TaskState
  <2>5. ASSUME NEW i \in ids PROVE Out(i)' /\ AppOf(i) = a
    <3>1. Born(i)' /\ AppOf(i) = a /\ i # None
      BY <1>0, <2>1, BornStays, NoneApart DEF Fits
    <3>2. \A b \in Apps : i \in Slots(m.routes[b]) => b = a
      BY <1>2, <3>1 DEF Steady, RouteInv, SlotsSound
    <3>3. \A b \in Apps : i \notin {disk'.routes[b].active, disk'.routes[b].candidate}
      BY <2>3, <3>1, <3>2 DEF Slots
    <3> QED
      BY <3>1, <3>3 DEF Out
  <2>6. Leaving(task'[t]) = ids
    BY <2>4 DEF Leaving, Stopping
  <2>7. \A i \in ids : Born(i)'
    BY <2>5 DEF Out
  <2> QED
    BY <1>0, <2>1, <2>4, <2>5, <2>6, <2>7 DEF Fits
<1> QED
  BY <1>3, <1>4, <1>5, <1>6 DEF Writes

(* Every handler keeps what it relies on. *)
LEMMA FitNext ==
  ASSUME Plain, Steady, NEW t \in Tasks, PlainStep(t)
  PROVE  (\A u \in Tasks : Fits(task[u]))'
<1>1. Fits(task[t])'
  <2>1. CASE Writes(t)
    BY <2>1, WritingFits
  <2>2. CASE Begun(t) \/ StartRefused(t) \/ StartRegisterFails(t) \/ StopConflict(t)
             \/ StartPrepared(t) \/ StartInstallCandidate(t) \/ Killed(t)
    BY <2>2, BeginningFits
  <2>3. CASE \/ StartSpawned(t) \/ StartSpawnFails(t) \/ StartAnnounce(t) \/ StartAbort(t)
             \/ StartUnlist(t) \/ RetireStop(t) \/ RetireUnregister(t) \/ InstallEdit(t)
             \/ StopInstall(t) \/ StopUnroute(t)
    BY <2>3, GoingFits
  <2>4. CASE \/ CutoverRefused(t) \/ CutoverInstall(t)
             \/ SyncReadPool(t) \/ SyncReadRoutes(t) \/ SyncPublish(t)
    BY <2>4, SyncFits
  <2> QED
    BY <2>1, <2>2, <2>3, <2>4 DEF PlainStep, Asides, Kills, Begun, Killed
<1>2. ASSUME NEW u \in Tasks PROVE Fits(task[u])'
  BY <1>1, OthersFit
<1> QED
  BY <1>2

(* The shell's manifest changes only to the one on disk. *)
LEMMA ShellCatchesUp ==
  ASSUME Steady, NEW t \in Tasks, PlainStep(t)
  PROVE  shell' \in {shell, disk}
<1>1. ASSUME task[t].pc \in Installing PROVE task[t].next = disk
  BY <1>1 DEF Steady, LockInv
<1>2. CASE StartInstallCandidate(t) \/ CutoverInstall(t) \/ InstallEdit(t) \/ StopInstall(t)
  BY <1>1, <1>2 DEF StartInstallCandidate, CutoverInstall, InstallEdit, StopInstall, At,
     Installing
<1>3. CASE Kills(t) \/ Writes(t) \/ StartPrepared(t) \/ StartSpawned(t)
  BY <1>3 DEF Kills, RetireStop, StartAbort, StopKill, Writes, StartRegister, Cutover, Retire,
     Discard, StopCommit, StartPrepared, StartSpawned, manifests
<1>4. CASE Begun(t)
  BY <1>4 DEF Begun, StartBegin, StopBegin, manifests
<1>5. CASE \/ StartRefused(t) \/ StartRegisterFails(t) \/ StartSpawnFails(t)
           \/ StartAnnounce(t) \/ CutoverRefused(t)
           \/ SyncReadPool(t) \/ SyncReadRoutes(t) \/ SyncPublish(t)
           \/ RetireUnregister(t) \/ StartUnlist(t) \/ StopConflict(t) \/ StopUnroute(t)
  BY <1>5 DEF StartRefused, StartRegisterFails, StartSpawnFails, StartAnnounce,
     CutoverRefused, SyncReadPool, SyncReadRoutes, SyncPublish, RetireUnregister, StartUnlist,
     StopConflict, StopUnroute, manifests
<1> QED
  BY <1>2, <1>3, <1>4, <1>5 DEF PlainStep, Asides, Begun

(* Children and active instances go together. *)
LEMMA PoolNext ==
  ASSUME Plain, Steady, NEW t \in Tasks, PlainStep(t)
  PROVE  PoolInv'
<1>0. /\ PoolInv /\ TypeInv
      /\ pool \in [Instances -> 0 .. MaxSpawns] /\ spawns \in [Instances -> 0 .. MaxSpawns]
      /\ disk \in Manifest /\ shell \in Manifest
  BY DEF Steady, TypeInv, TypeOK
<1>1. ASSUME NEW a \in Apps
      PROVE  /\ Active(disk, a) # None => Active(disk, a) \in Instances /\ Born(Active(disk, a))
             /\ Active(shell, a) # None => Active(shell, a) \in Instances /\ Born(Active(shell, a))
  BY <1>0 DEF PoolInv, Active, Manifest, RouteBinding
<1>2. ASSUME NEW a \in Apps, Active(shell', a) # None
      PROVE  Born(Active(shell, a))'
  <2>1. PICK i : i = Active(shell', a)
    OBVIOUS
  <2>2. i \in Instances /\ Born(i)
    BY <1>1, <1>2, <2>1, ShellCatchesUp
  <2>3. Born(i)'
    BY <2>2, BornStays
  <2> QED
    BY <2>1, <2>3 DEF Born, Active
<1>3. SUFFICES
      /\ \A i \in Instances : pool'[i] # 0 => Born(i)' /\ <<i, pool'[i]>> \in alive'
      /\ \A a \in Apps : Active(disk', a) # None => pool'[Active(disk', a)] # 0
  <2>1. \A a \in Apps : (Active(shell, a) # None => Born(Active(shell, a)))'
    BY <1>2 DEF Active
  <2> QED
    BY <2>1 DEF PoolInv, Managed, Active
<1>4. \A i \in Instances : Managed(i) => Born(i)'
  BY <1>0, BornStays DEF PoolInv
<1>5. CASE UNCHANGED <<pool, alive, disk>>
  BY <1>0, <1>4, <1>5 DEF PoolInv, Managed, Active
<1>6. CASE Writes(t)
  <2>1. WriteOk(t)
    BY <1>6, StartWrites, EndWrites DEF Writes
  <2>2. \A a \in Apps : Active(disk', a) # None => Managed(Active(disk', a))
    BY <1>0, <2>1 DEF WriteOk, PoolInv
  <2> QED
    BY <1>0, <1>4, <2>1, <2>2 DEF WriteOk, PoolInv, Managed
<1>7. CASE Kills(t)
  <2>1. PICK x \in Instances :
          /\ disk' = disk /\ pool' = [pool EXCEPT ![x] = 0]
          /\ alive' = alive \ {<<x, pool[x]>>}
          /\ \A b \in Apps : Active(disk, b) # x
    BY <1>7, KillsOk DEF KillOk, StopFrom
  <2>2. /\ \A i \in Instances \ {x} : pool'[i] = pool[i]
        /\ pool'[x] = 0
    BY <1>0, <2>1
  <2>3. ASSUME NEW i \in Instances, pool'[i] # 0
        PROVE  Born(i)' /\ <<i, pool'[i]>> \in alive'
    BY <1>0, <1>4, <2>1, <2>2, <2>3 DEF PoolInv, Managed
  <2>4. ASSUME NEW a \in Apps, Active(disk', a) # None PROVE pool'[Active(disk', a)] # 0
    BY <1>0, <1>1, <2>1, <2>2, <2>4 DEF PoolInv, Managed
  <2> QED
    BY <2>3, <2>4
<1>8. CASE StartSpawned(t)
  <2>1. Early(task[t]) /\ Pending(task[t]) /\ task[t].inst \in Instances
    BY <1>0, <1>8 DEF StartSpawned, At, Early, Pending, TypeInv, WellPlaced
  <2>2. PICK x \in Instances : x = task[t].inst
    BY <2>1
  <2>3. PICK k \in 0 .. MaxSpawns : k = spawns[x]
    BY <1>0
  <2>4. /\ disk' = disk /\ started' = started /\ pool' = [pool EXCEPT ![x] = k + 1]
        /\ alive' = alive \union {<<x, k + 1>>} /\ Goto(t, "announce")
    BY <1>8, <2>2, <2>3 DEF StartSpawned, SpawnInto, manifests
  <2>5. /\ \A i \in Instances \ {x} : pool'[i] = pool[i]
        /\ pool'[x] = k + 1
    BY <1>0, <2>4
  <2>6. Born(x)'
    <3>1. x[2] <= started'[AppOf(x)]
      BY <2>1, <2>2, <2>4 DEF Steady, RouteInv, NotServed
    <3>2. ASSUME NEW u \in Tasks, Early(task'[u]) PROVE task'[u].inst # x
      <4>1. u # t
        BY <1>0, <2>4, <3>2, GotoFields DEF Early
      <4>2. task'[u] = task[u] /\ Pending(task[u])
        BY <3>2, <4>1, PlainMoves DEF OnlyMoves, Early, Pending
      <4> QED
        BY <2>1, <2>2, <4>1, <4>2, OwnInstances DEF Steady
    <3> QED
      BY <3>1, <3>2 DEF Born
  <2>7. k + 1 # 0
    BY <2>3
  <2>8. ASSUME NEW i \in Instances, pool'[i] # 0
        PROVE  Born(i)' /\ <<i, pool'[i]>> \in alive'
    <3>1. CASE i = x
      BY <2>4, <2>5, <2>6, <3>1
    <3>2. CASE i # x
      BY <1>0, <1>4, <2>4, <2>5, <2>8, <3>2 DEF PoolInv, Managed
    <3> QED
      BY <3>1, <3>2
  <2>9. ASSUME NEW a \in Apps, Active(disk', a) # None PROVE pool'[Active(disk', a)] # 0
    BY <1>0, <1>1, <2>4, <2>5, <2>7, <2>9 DEF PoolInv, Managed
  <2> QED
    BY <2>8, <2>9
<1> QED
  BY <1>5, <1>6, <1>7, <1>8, StillOk DEF PlainStep

(* What the handlers rely on holds from the start, and after every step. *)
LEMMA SteadyInit == Init => Steady
<1> SUFFICES ASSUME Init PROVE Steady
  OBVIOUS
<1>1. RouteInv
  BY FreshRoutes DEF Init, RouteInv
<1>2. PoolInv
  BY DEF Init, PoolInv, Managed, Active, EmptyManifest, EmptyRoute
<1>3. \A t \in Tasks : Fits(task[t])
  <2>1. Idle.op = "none" /\ Idle.pc = "idle" /\ Idle.ids = {} /\ Idle.then = "none"
    BY DEF Idle
  <2>2. \A t \in Tasks : task[t] = Idle
    BY DEF Init
  <2> QED
    BY <2>1, <2>2 DEF Fits, Leaving, Stopping
<1> QED
  BY <1>1, <1>2, <1>3, TypeInit, LockInit, StartInit DEF Steady

(* Every step keeps it. *)
LEMMA SteadyNext ==
  ASSUME Plain, Steady, [Next]_vars
  PROVE  Steady'
<1>1. TypeInv' /\ LockInv' /\ StartInv' /\ RouteInv'
  BY TypeNext, LockNext, StartNext, RouteNext DEF Steady, Plain
<1>2. CASE UNCHANGED <<disk, shell, mutex, pool, alive, table, started, task>>
  <2>1. \A i \in Instances : Born(i)' <=> Born(i)
    BY <1>2 DEF Born
  <2>2. PoolInv'
    BY <1>2 DEF Steady, PoolInv, Born, Managed, Active
  <2>3. ASSUME NEW t \in Tasks PROVE Fits(task[t])'
    BY <1>2 DEF Steady, Fits, Born, Out, Leaving, Stopping, Managed, Active
  <2> QED
    BY <1>1, <2>2, <2>3 DEF Steady
<1>3. ASSUME NEW t \in Tasks, PlainStep(t) PROVE Steady'
  BY <1>1, <1>3, PoolNext, FitNext DEF Steady
<1> QED
  BY <1>2, <1>3, PlainSteps

(* Nobody at work: the shell's manifest is the one on disk. *)
LEMMA RestAgrees ==
  ASSUME Steady, AtRest
  PROVE  shell = disk /\ \A t \in Tasks : task[t].pc = "idle" /\ task[t].op = "none"
<1>1. Idle.op = "none" /\ Idle.pc = "idle"
  BY DEF Idle
<1> QED
  BY <1>1 DEF AtRest, Steady, LockInv, Installing

(* Once all handlers have returned, the active instance of an app has a    *)
(* managed child: a start whose candidate a stop has listed and kills does *)
(* not make it active after the stop has committed, however starts and     *)
(* stops interleave.                                                       *)
THEOREM ActivesAreServed ==
  ASSUME Ops \subseteq {"start", "stop"}
  PROVE  Spec => []ServedAtRest
<1>1. Init => Steady
  BY SteadyInit
<1>2. Steady /\ [Next]_vars => Steady'
  BY SteadyNext DEF Plain
<1>3. Steady => ServedAtRest
  BY RestAgrees DEF ServedAtRest, Steady, PoolInv
<1> QED
  BY <1>1, <1>2, <1>3, PTL DEF Spec

-----------------------------------------------------------------------------
(* No child is left behind.                                                *)

(* A managed child whose instance is not wanted waits for a stop's kill.   *)
OrphanInv ==
  \A i \in Instances :
    Managed(i) /\ disk.instances[i] \notin {"Running", "Standby"}
      => \E t \in Tasks : Stopping(task[t]) /\ i \in task[t].ids

(* A stop that is to kill goes on with its list, but for what it killed. *)
LEMMA StoppingGoesOn ==
  ASSUME Steady, NEW t \in Tasks, PlainStep(t), Stopping(task[t]),
         NEW i \in task[t].ids, pool'[i] # 0
  PROVE  Stopping(task'[t]) /\ i \in task'[t].ids
<1>0. /\ TypeInv /\ WellPlaced(task[t]) /\ task[t] # Idle /\ task[t].op = "stop"
      /\ task \in [Tasks -> TaskState] /\ task[t] \in TaskState /\ i \in Instances
      /\ pool \in [Instances -> 0 .. MaxSpawns]
  BY IdleFields DEF Steady, TypeInv, TypeOK, WellPlaced, Stopping, TaskState
<1>1. \/ StopInstall(t) \/ StopUnroute(t)
      \/ \E j \in Instances : StopKill(t, j)
  <2>1. ~StartPrepared(t) /\ ~StartSpawned(t) /\ ~Writes(t)
    BY DEF StartPrepared, StartSpawned, Writes, StartRegister, Cutover, Retire, Discard,
       StopCommit, At, Stopping
  <2>2. \A a \in Apps : ~StartBegin(t, a) /\ ~StopBegin(t, a)
    BY <1>0 DEF StartBegin, StopBegin, Begin
  <2>3. /\ ~StartRefused(t) /\ ~StartRegisterFails(t) /\ ~StopConflict(t)
        /\ ~StartInstallCandidate(t) /\ ~StartSpawnFails(t)
        /\ ~StartAnnounce(t) /\ ~CutoverRefused(t) /\ ~CutoverInstall(t)
        /\ ~SyncReadPool(t) /\ ~SyncReadRoutes(t) /\ ~SyncPublish(t)
        /\ ~RetireUnregister(t) /\ ~InstallEdit(t) /\ ~StartUnlist(t)
        /\ ~RetireStop(t) /\ ~StartAbort(t)
    BY DEF StartRefused, StartRegisterFails, StopConflict, StartInstallCandidate,
       StartSpawnFails, StartAnnounce, CutoverRefused,
       CutoverInstall, SyncReadPool, SyncReadRoutes, SyncPublish, RetireUnregister, InstallEdit,
       StartUnlist, RetireStop, StartAbort, At, Stopping
  <2> QED
    BY <2>1, <2>2, <2>3 DEF PlainStep, Asides, Kills
<1>2. CASE StopInstall(t) \/ StopUnroute(t)
  <2>1. Goto(t, "unroute") \/ Goto(t, "kill")
    BY <1>2 DEF StopInstall, StopUnroute
  <2> QED
    BY <1>0, <2>1, GotoFields DEF Stopping
<1>3. ASSUME NEW j \in Instances, StopKill(t, j)
      PROVE  Stopping(task'[t]) /\ i \in task'[t].ids
  <2> DEFINE rest == task[t].ids \ {j}
  <2>1. i # j
    BY <1>0, <1>3 DEF StopKill, StopFrom
  <2>2. rest # {}
    BY <2>1
  <2>3. task' = [task EXCEPT ![t] = [task[t] EXCEPT !.ids = rest]]
    BY <1>3, <2>2 DEF StopKill
  <2>4. task'[t].ids = rest /\ task'[t].pc = task[t].pc
    BY <1>0, <2>3 DEF TaskState
  <2> QED
    BY <2>1, <2>4 DEF Stopping
<1> QED
  BY <1>1, <1>2, <1>3

(* An unwanted child keeps the stop that will kill it. *)
LEMMA OrphanNext ==
  ASSUME Plain, Steady, OrphanInv, [Next]_vars
  PROVE  OrphanInv'
<1>1. CASE UNCHANGED <<disk, shell, mutex, pool, alive, table, started, task>>
  BY <1>1 DEF OrphanInv, Managed
<1>2. ASSUME NEW t \in Tasks, PlainStep(t) PROVE OrphanInv'
  <2> SUFFICES ASSUME NEW i \in Instances, pool'[i] # 0,
                      disk'.instances[i] \notin {"Running", "Standby"}
               PROVE  \E u \in Tasks : Stopping(task'[u]) /\ i \in task'[u].ids
    BY DEF OrphanInv, Managed
  <2>0. pool \in [Instances -> 0 .. MaxSpawns]
    BY DEF Steady, TypeInv, TypeOK
  <2>1. ASSUME Managed(i), disk.instances[i] \notin {"Running", "Standby"}
        PROVE  \E u \in Tasks : Stopping(task'[u]) /\ i \in task'[u].ids
    <3>1. PICK u \in Tasks : Stopping(task[u]) /\ i \in task[u].ids
      BY <2>1 DEF OrphanInv
    <3>2. CASE u = t
      BY <1>2, <3>1, <3>2, StoppingGoesOn
    <3>3. CASE u # t
      BY <1>2, <3>1, <3>3, PlainMoves DEF OnlyMoves
    <3> QED
      BY <3>2, <3>3
  <2>2. CASE UNCHANGED <<pool, disk>>
    BY <2>1, <2>2 DEF Managed
  <2>3. CASE Writes(t)
    <3>1. WriteOk(t)
      BY <2>3, StartWrites, EndWrites DEF Writes
    <3>2. Managed(i)
      BY <3>1 DEF WriteOk, Managed
    <3> QED
      BY <2>1, <3>1, <3>2 DEF WriteOk
  <2>4. CASE Kills(t)
    <3>1. PICK x \in Instances : disk' = disk /\ pool' = [pool EXCEPT ![x] = 0]
      BY <2>4, KillsOk DEF KillOk, StopFrom
    <3>2. Managed(i)
      BY <2>0, <3>1 DEF Managed
    <3> QED
      BY <2>1, <3>1, <3>2
  <2>5. CASE StartSpawned(t)
    <3>1. disk' = disk /\ disk.instances[task[t].inst] = "Running"
      BY <2>5 DEF StartSpawned, At, manifests, Steady, Fits
    <3>2. i # task[t].inst
      BY <3>1
    <3>3. Managed(i)
      BY <2>0, <2>5, <3>2 DEF StartSpawned, SpawnInto, Managed
    <3> QED
      BY <2>1, <3>1, <3>3
  <2> QED
    BY <1>2, <2>2, <2>3, <2>4, <2>5, StillOk DEF PlainStep
<1> QED
  BY <1>1, <1>2, PlainSteps

(* Once all handlers have returned, no managed child is left of an         *)
(* instance the manifest wants stopped or does not list: every start that  *)
(* is refused, overtaken or stopped half way has its child killed.         *)
THEOREM NoChildLeftBehind ==
  ASSUME Ops \subseteq {"start", "stop"}
  PROVE  Spec => []NoOrphans
<1>1. Init => Steady /\ OrphanInv
  <2>1. Init => OrphanInv
    BY DEF Init, OrphanInv, Managed
  <2> QED
    BY <2>1, SteadyInit
<1>2. Steady /\ OrphanInv /\ [Next]_vars => (Steady /\ OrphanInv)'
  BY SteadyNext, OrphanNext DEF Plain
<1>3. Steady /\ OrphanInv => NoOrphans
  <2> SUFFICES ASSUME Steady, OrphanInv, AtRest, NEW i \in Instances, Managed(i)
               PROVE  disk.instances[i] \in {"Running", "Standby"}
    BY DEF NoOrphans
  <2>1. \A t \in Tasks : ~Stopping(task[t])
    BY RestAgrees DEF Stopping
  <2> QED
    BY <2>1 DEF OrphanInv
<1> QED
  BY <1>1, <1>2, <1>3, PTL DEF Spec

-----------------------------------------------------------------------------
(* The route table settles, where writes succeed: a refused registration   *)
(* leaves its app's entry starting, a refused stop leaves it draining.     *)

(* The shell's manifest is the one on disk whenever a handler is to write  *)
(* it, so only the disk itself can refuse. *)
LEMMA NothingRefused ==
  ASSUME Steady, ~IoFails, NEW t \in Tasks
  PROVE  ~StartRegisterFails(t) /\ ~StopConflict(t)
<1>1. mutex = None => shell = disk
  BY NoneApart DEF Steady, LockInv
<1> QED
  BY <1>1 DEF StartRegisterFails, StopConflict, WriteMayFail

TrueEntry(a) ==
  LET i == Active(disk, a) IN
    i # None /\ Managed(i) /\ table[a] = Entry("Running", i, pool[i])

(* A handler that will publish the table, or take its app's entry away.    *)
Clears(r) ==
  \/ r.op = "start" /\ r.pc # "prepare"
  \/ r.op = "stop" /\ r.pc \in {"stop", "installStop", "unroute"}

Cleared(a) == \E t \in Tasks : Clears(task[t]) /\ task[t].app = a

(* An entry that is not true has a handler that will see to it.            *)
TableInv == \A a \in Apps : table[a] # NoEntry => TrueEntry(a) \/ Cleared(a)

(* Such a handler goes on to see to it, until it has. *)
LEMMA ClearsGoesOn ==
  ASSUME Steady, ~IoFails, NEW t \in Tasks, PlainStep(t), Clears(task[t]),
         ~SyncPublish(t), ~StopUnroute(t)
  PROVE  Clears(task'[t]) /\ task'[t].app = task[t].app
<1>0. /\ TypeInv /\ WellPlaced(task[t]) /\ Fits(task[t]) /\ task[t] # Idle
      /\ task \in [Tasks -> TaskState] /\ task[t] \in TaskState
  BY IdleFields DEF Steady, TypeInv, TypeOK, Clears
<1>1. ASSUME NEW pc \in Pcs, Goto(t, pc),
             IF task[t].op = "start" THEN pc # "prepare" ELSE pc \in {"installStop", "unroute"}
      PROVE  Clears(task'[t]) /\ task'[t].app = task[t].app
  BY <1>0, <1>1, GotoFields DEF Clears
<1>2. ~Begun(t) /\ ~StartRefused(t) /\ ~StartPrepared(t) /\ ~Killed(t)
  <2>1. ~Begun(t)
    <3>1. ASSUME NEW a \in Apps PROVE ~StartBegin(t, a) /\ ~StopBegin(t, a)
      BY <1>0 DEF StartBegin, StopBegin, Begin
    <3> QED
      BY <3>1 DEF Begun
  <2>2. task[t].pc \notin {"prepare", "kill"}
    BY <1>0 DEF Clears, WellPlaced
  <2>3. ~StartRefused(t) /\ ~StartPrepared(t)
    BY <2>2 DEF StartRefused, StartPrepared, At
  <2>4. ~Killed(t)
    BY <2>2 DEF Killed, StopKill, At
  <2> QED
    BY <2>1, <2>3, <2>4
<1>3. CASE \/ StartSpawned(t) \/ StartSpawnFails(t) \/ StartAnnounce(t) \/ StartAbort(t)
           \/ StartUnlist(t) \/ RetireStop(t) \/ RetireUnregister(t) \/ InstallEdit(t)
           \/ StopInstall(t) \/ CutoverRefused(t)
  <2>1. StopInstall(t) => task[t].op = "stop" /\ Goto(t, "unroute")
    BY <1>0 DEF StopInstall, At, WellPlaced
  <2>2. ~StopInstall(t) =>
          /\ task[t].op = "start"
          /\ \E pc \in {"announce", "unlist", "cutover", "discard", "unregister", "retire",
                        "snap", "abort"} : Goto(t, pc)
    BY <1>0, <1>3 DEF StartSpawned, StartSpawnFails, StartAnnounce, StartAbort, StartUnlist,
       RetireStop, RetireUnregister, InstallEdit, CutoverRefused, At, WellPlaced, Fits
  <2> QED
    BY <1>1, <2>1, <2>2 DEF Pcs, AwaitPcs
<1>4. CASE StartInstallCandidate(t) \/ CutoverInstall(t) \/ SyncReadPool(t) \/ SyncReadRoutes(t)
  <2>1. /\ task'[t].op = task[t].op /\ task'[t].app = task[t].app
        /\ task'[t].pc \in {"spawn", "snap", "routes", "publish"}
    BY <1>0, <1>4 DEF StartInstallCandidate, CutoverInstall, SyncReadPool, SyncReadRoutes,
       TaskState
  <2>2. task[t].op = "start"
    BY <1>0, <1>4 DEF StartInstallCandidate, CutoverInstall, SyncReadPool, SyncReadRoutes, At,
       Clears, Fits
  <2> QED
    BY <2>1, <2>2 DEF Clears
<1>5. CASE StartRegister(t) \/ Cutover(t) \/ StopCommit(t)
  <2>1. /\ task'[t].op = task[t].op /\ task'[t].app = task[t].app
        /\ task'[t].pc \in {"installCandidate", "installCutover", "installStop"}
    BY <1>0, <1>5 DEF StartRegister, Cutover, StopCommit, WriteIfRevisionMatches, TaskState
  <2>2. task[t].op = "start" \/ task'[t].pc = "installStop"
    BY <1>0, <1>5 DEF StartRegister, Cutover, StopCommit, WriteIfRevisionMatches, At,
       WellPlaced, Fits, TaskState
  <2> QED
    BY <2>1, <2>2 DEF Clears
<1>6. CASE Retire(t) \/ Discard(t)
  <2>1. PICK then : \E next : EditOrSkip(t, next, then)
    BY <1>6 DEF Retire, Discard
  <2>2. PICK next : EditOrSkip(t, next, then)
    BY <2>1
  <2>3. /\ task'[t].op = task[t].op /\ task'[t].app = task[t].app
        /\ task'[t].pc \in {"installEdit", "snap"}
    BY <1>0, <2>2 DEF EditOrSkip, TaskState
  <2>4. task[t].op = "start"
    BY <1>0, <1>6 DEF Retire, Discard, At, WellPlaced
  <2> QED
    BY <2>3, <2>4 DEF Clears
<1> QED
  BY <1>2, <1>3, <1>4, <1>5, <1>6, NothingRefused DEF PlainStep, Asides, Kills, Writes, Begun,
     Killed

(* An edit concerns the routes of an app whose handler will see to them. *)
LEMMA WritesClear ==
  ASSUME Plain, Steady, NEW t \in Tasks, Writes(t)
  PROVE  /\ Clears(task[t])
         /\ \A b \in Apps \ {task[t].app} : disk'.routes[b] = disk.routes[b]
<1>0. WellPlaced(task[t]) /\ Fits(task[t]) /\ disk \in Manifest /\ WriteOk(t)
  BY StartWrites, EndWrites DEF Steady, TypeInv, TypeOK, Writes
<1>1. Clears(task[t])
  BY <1>0 DEF Writes, StartRegister, Cutover, Retire, Discard, StopCommit, At, WellPlaced,
     Fits, Clears
<1>2. PICK m \in Manifest : m = disk
  BY <1>0
<1>3. PICK a : a = task[t].app
  OBVIOUS
<1>4. \/ \E i : disk' = RegisterCandidate(m, a, i)
      \/ \E i : disk' = CutoverRoute(m, a, i)
      \/ \E i : disk' = RetirePrevious(m, i)
      \/ \E i : disk' = DiscardCandidate(m, a, i)
      \/ \E ids : disk' = StopRoute(m, a, ids)
      \/ disk' = m
  BY <1>0, <1>2, <1>3 DEF Writes, StartRegister, Cutover, Retire, Discard, StopCommit,
     WriteIfRevisionMatches, EditOrSkip, WriteOk
<1>5. \A b \in Apps \ {a} : disk'.routes[b] = m.routes[b]
  <2>1. \/ \E u, v, w : disk'.routes = WithRoute(m, a, u, v, w)
        \/ disk'.routes = m.routes
    <3>1. ASSUME NEW i, disk' = RegisterCandidate(m, a, i)
          PROVE  disk'.routes = WithRoute(m, a, m.routes[a].active, i, m.routes[a].previous)
      BY <3>1 DEF RegisterCandidate
    <3>2. ASSUME NEW i, disk' = CutoverRoute(m, a, i)
          PROVE  \/ disk'.routes = WithRoute(m, a, i, None, m.routes[a].previous)
                 \/ disk'.routes = WithRoute(m, a, i, None, m.routes[a].active)
      BY <3>2 DEF CutoverRoute
    <3>3. ASSUME NEW i, disk' = RetirePrevious(m, i) PROVE disk'.routes = m.routes
      BY <3>3 DEF RetirePrevious
    <3>4. ASSUME NEW i, disk' = DiscardCandidate(m, a, i)
          PROVE  \E c : disk'.routes = WithRoute(m, a, m.routes[a].active, c,
                                                 m.routes[a].previous)
      BY <3>4 DEF DiscardCandidate
    <3>5. ASSUME NEW ids, disk' = StopRoute(m, a, ids)
          PROVE  disk'.routes = WithRoute(m, a, None, None, m.routes[a].active)
      BY <3>5 DEF StopRoute
    <3>6. CASE disk' = m
      BY <3>6
    <3> QED
      BY <1>4, <3>1, <3>2, <3>3, <3>4, <3>5, <3>6
  <2> QED
    BY <2>1 DEF WithRoute, Manifest
<1> QED
  BY <1>1, <1>2, <1>3, <1>5

(* What a start publishes is true: it holds the lock since it read the     *)
(* routes, and nobody kills an active instance. *)
LEMMA PublishTrue ==
  ASSUME Steady, NEW t \in Tasks, SyncPublish(t), NEW a \in Apps, table'[a] # NoEntry
  PROVE  TrueEntry(a)'
<1>0. task[t] \in TaskState /\ Fits(task[t]) /\ task[t].pc = "publish"
  BY DEF SyncPublish, At, Steady, TypeInv, TypeOK
<1>1. PICK snap \in SUBSET Placed : snap = task[t].snap
  BY <1>0 DEF TaskState
<1>2. table' = Rebuilt(snap) /\ UNCHANGED <<disk, pool>>
  BY <1>1 DEF SyncPublish, manifests, processes
<1>3. \E p \in snap : AppOf(p[1]) = a
  BY <1>2 DEF Rebuilt
<1>4. PICK p \in snap : AppOf(p[1]) = a /\ table'[a] = Entry("Running", p[1], p[2])
  <2> DEFINE p == CHOOSE q \in snap : AppOf(q[1]) = a
  <2>1. p \in snap /\ AppOf(p[1]) = a
    BY <1>3
  <2>2. table'[a] = Entry("Running", p[1], p[2])
    BY <1>2, <1>3 DEF Rebuilt
  <2> QED
    BY <2>1, <2>2
<1>5. p[1] \in Instances /\ p[2] \in 1 .. MaxSpawns
  BY <1>4 DEF Placed
<1>6. Active(disk, a) = p[1] /\ pool[p[1]] = p[2]
  BY <1>0, <1>1, <1>4 DEF Fits
<1>7. p[1] # None /\ p[2] # 0
  BY <1>5, NoneApart
<1> QED
  BY <1>2, <1>4, <1>6, <1>7 DEF TrueEntry, Managed, Active

(* Entries that are not touched. *)
LEMMA KeptTrue ==
  ASSUME Plain, Steady, ~IoFails, NEW t \in Tasks, PlainStep(t), NEW a \in Apps,
         table'[a] = table[a], TrueEntry(a)
  PROVE  TrueEntry(a)' \/ Cleared(a)'
<1>0. /\ disk \in Manifest /\ pool \in [Instances -> 0 .. MaxSpawns]
  BY DEF Steady, TypeInv, TypeOK
<1>1. PICK i \in Instances : /\ i = Active(disk, a) /\ i # None
                             /\ pool[i] # 0 /\ table[a] = Entry("Running", i, pool[i])
  BY <1>0 DEF TrueEntry, Managed, Active, Manifest, RouteBinding
<1>2. ASSUME Active(disk', a) = i, pool'[i] = pool[i] PROVE TrueEntry(a)'
  BY <1>1, <1>2 DEF TrueEntry, Managed, Active
<1>3. CASE UNCHANGED <<disk, pool>>
  BY <1>1, <1>2, <1>3
<1>4. CASE Writes(t)
  <2>1. UNCHANGED pool
    BY <1>4, StartWrites, EndWrites DEF Writes, WriteOk
  <2>2. CASE a = task[t].app
    <3>1. ~SyncPublish(t) /\ ~StopUnroute(t)
      BY <1>4 DEF Writes, SyncPublish, StopUnroute, StartRegister, Cutover, Retire, Discard,
         StopCommit, At
    <3>2. Clears(task'[t]) /\ task'[t].app = a
      BY <1>4, <2>2, <3>1, WritesClear, ClearsGoesOn
    <3> QED
      BY <3>2 DEF Cleared
  <2>3. CASE a # task[t].app
    BY <1>1, <1>2, <1>4, <2>1, <2>3, WritesClear DEF Active
  <2> QED
    BY <2>2, <2>3
<1>5. CASE Kills(t)
  <2>1. PICK x \in Instances :
          /\ disk' = disk /\ pool' = [pool EXCEPT ![x] = 0]
          /\ \A b \in Apps : Active(disk, b) # x
    BY <1>5, KillsOk DEF KillOk, StopFrom
  <2>2. pool'[i] = pool[i]
    BY <1>0, <1>1, <2>1
  <2> QED
    BY <1>1, <1>2, <2>1, <2>2
<1>6. CASE StartSpawned(t)
  <2>1. disk' = disk /\ pool[task[t].inst] = 0
    BY <1>6 DEF StartSpawned, SpawnInto, Managed, manifests
  <2>2. pool'[i] = pool[i]
    BY <1>0, <1>1, <1>6, <2>1 DEF StartSpawned, SpawnInto
  <2> QED
    BY <1>1, <1>2, <2>1, <2>2
<1> QED
  BY <1>3, <1>4, <1>5, <1>6, StillOk DEF PlainStep

(* Only these steps touch the table. *)
LEMMA TableSteps ==
  ASSUME Plain, Steady, ~IoFails, NEW t \in Tasks, PlainStep(t), ~SyncPublish(t),
         table' # table
  PROVE  /\ \A b \in Apps \ {task'[t].app} : table'[b] = table[b] \/ table'[b] = NoEntry
         /\ \A b \in Apps : table'[b] \in {NoEntry, table[b]} \/ Clears(task'[t])
<1>0. /\ TypeInv /\ WellPlaced(task[t]) /\ task \in [Tasks -> TaskState]
      /\ task[t] \in TaskState /\ table \in [Apps -> RouteEntry]
  BY DEF Steady, TypeInv, TypeOK
<1>1. CASE StartPrepared(t)
  <2>1. task[t].op = "start" /\ task[t].pc = "prepare"
    BY <1>0, <1>1 DEF StartPrepared, At, WellPlaced
  <2>2. /\ task'[t].op = "start" /\ task'[t].pc = "register"
        /\ task'[t].app = task[t].app
    BY <1>0, <1>1, <2>1 DEF StartPrepared, TaskState
  <2>3. \A b \in Apps \ {task[t].app} : table'[b] = table[b]
    BY <1>0, <1>1 DEF StartPrepared
  <2> QED
    BY <2>2, <2>3 DEF Clears
<1>2. ASSUME NEW a \in Apps, StopBegin(t, a)
      PROVE  /\ \A b \in Apps \ {task'[t].app} : table'[b] = table[b] \/ table'[b] = NoEntry
             /\ \A b \in Apps : table'[b] \in {NoEntry, table[b]} \/ Clears(task'[t])
  <2>1. CASE table' = [table EXCEPT ![a] = NoEntry]
    BY <1>0, <2>1
  <2> DEFINE ids == {i \in Instances : AppOf(i) = a /\ (Managed(i) \/ Active(shell, a) = i)}
             r == [Idle EXCEPT !.op = "stop", !.pc = "stop", !.app = a, !.ids = ids]
  <2>2. CASE ids = {}
    <3>1. table' = [table EXCEPT ![a] = NoEntry]
      BY <1>2, <2>2 DEF StopBegin
    <3> QED
      BY <2>1, <3>1
  <2>3. CASE ids # {}
    <3>1. table' = [table EXCEPT ![a] = Draining(@)] /\ task' = [task EXCEPT ![t] = r]
      BY <1>2, <2>3 DEF StopBegin
    <3>2. r.op = "stop" /\ r.pc = "stop" /\ r.app = a
      BY DEF Idle
    <3> HIDE DEF r, ids
    <3>3. task'[t] = r
      BY <1>0, <3>1
    <3>4. \A b \in Apps \ {a} : table'[b] = table[b]
      BY <1>0, <3>1
    <3> QED
      BY <3>2, <3>3, <3>4 DEF Clears
  <2> QED
    BY <2>2, <2>3
<1>3. CASE StopUnroute(t)
  BY <1>0, <1>3 DEF StopUnroute
<1>4. Writes(t) \/ Kills(t) \/ StartSpawned(t) => table' = table
  BY KillsOk, StartWrites, EndWrites DEF Writes, WriteOk, KillOk, StartSpawned
<1>5. ASSUME NEW a \in Apps, StartBegin(t, a) PROVE table' = table
  BY <1>5 DEF StartBegin
<1>6. CASE StartRefused(t) \/ StartInstallCandidate(t) \/ StartSpawnFails(t)
           \/ StartAnnounce(t) \/ CutoverRefused(t) \/ CutoverInstall(t)
  BY <1>6 DEF StartRefused, StartInstallCandidate, StartSpawnFails, StartAnnounce,
     CutoverRefused, CutoverInstall
<1>7. CASE SyncReadPool(t) \/ SyncReadRoutes(t) \/ RetireUnregister(t)
  BY <1>7 DEF SyncReadPool, SyncReadRoutes, RetireUnregister
<1>8. CASE InstallEdit(t) \/ StartUnlist(t) \/ StopInstall(t)
  BY <1>8 DEF InstallEdit, StartUnlist, StopInstall
<1> QED
  BY <1>1, <1>2, <1>3, <1>4, <1>5, <1>6, <1>7, <1>8, NothingRefused DEF PlainStep, Asides

(* An entry stays true or keeps the handler that will see to it. *)
LEMMA TableNext ==
  ASSUME Plain, Steady, ~IoFails, TableInv, [Next]_vars
  PROVE  TableInv'
<1>1. CASE UNCHANGED <<disk, shell, mutex, pool, alive, table, started, task>>
  BY <1>1 DEF TableInv, TrueEntry, Cleared, Managed, Active
<1>2. ASSUME NEW t \in Tasks, PlainStep(t) PROVE TableInv'
  <2> SUFFICES ASSUME NEW a \in Apps, table'[a] # NoEntry PROVE TrueEntry(a)' \/ Cleared(a)'
    BY DEF TableInv
  <2>1. CASE SyncPublish(t)
    BY <2>1, PublishTrue
  <2>2. CASE ~SyncPublish(t) /\ table'[a] # table[a]
    <3>1. Clears(task'[t]) /\ task'[t].app = a
      BY <1>2, <2>2, TableSteps
    <3> QED
      BY <3>1 DEF Cleared
  <2>3. CASE ~SyncPublish(t) /\ table'[a] = table[a]
    <3>1. CASE TrueEntry(a)
      BY <1>2, <2>3, <3>1, KeptTrue
    <3>2. ASSUME NEW u \in Tasks, Clears(task[u]), task[u].app = a PROVE Cleared(a)'
      <4>1. CASE u # t
        BY <1>2, <3>2, <4>1, PlainMoves DEF OnlyMoves, Cleared
      <4>2. CASE u = t
        <5>1. ~StopUnroute(t)
          <6>1. StopUnroute(t) => table'[a] = NoEntry
            BY <3>2, <4>2 DEF StopUnroute, Steady, TypeInv, TypeOK
          <6> QED
            BY <6>1
        <5> QED
          BY <1>2, <2>3, <3>2, <4>2, <5>1, ClearsGoesOn DEF Cleared
      <4> QED
        BY <4>1, <4>2
    <3> QED
      BY <2>3, <3>1, <3>2 DEF TableInv, Cleared
  <2> QED
    BY <2>1, <2>2, <2>3
<1> QED
  BY <1>1, <1>2, PlainSteps

(* Once all handlers have returned, an entry of the table the proxy reads  *)
(* is Running and names the app's active instance and its managed child:   *)
(* no request goes to a retired or killed child, in whatever order starts  *)
(* and stops published and cleared their entries.                          *)
THEOREM TableSettles ==
  ASSUME Ops \subseteq {"start", "stop"}, ~IoFails
  PROVE  Spec => []TableTrueAtRest
<1>1. Init => Steady /\ TableInv
  <2>1. Init => TableInv
    BY DEF Init, TableInv
  <2> QED
    BY <2>1, SteadyInit
<1>2. Steady /\ TableInv /\ [Next]_vars => (Steady /\ TableInv)'
  BY SteadyNext, TableNext DEF Plain
<1>3. Steady /\ TableInv => TableTrueAtRest
  <2> SUFFICES ASSUME Steady, TableInv, AtRest, NEW a \in Apps, table[a] # NoEntry
               PROVE  TrueEntry(a) /\ shell = disk
    BY DEF TableTrueAtRest, TrueEntry
  <2>1. shell = disk /\ ~Cleared(a)
    BY RestAgrees DEF Cleared, Clears
  <2> QED
    BY <2>1 DEF TableInv
<1> QED
  BY <1>1, <1>2, <1>3, PTL DEF Spec
=============================================================================
