---------------------------- MODULE HostRestart ----------------------------
(***************************************************************************)
(* The host process around the control plane: it may die at any moment, be *)
(* torn down, and be started again on what it left behind.  What survives  *)
(* a host is host-control.json and, when it was killed, its children; the  *)
(* shell state, the pool, the route table, locks, handlers and watchdogs   *)
(* are memory.                                                             *)
(*                                                                         *)
(* The next host first settles what it finds (bootstrap_supervisor_for_    *)
(* shell with the policy of `serve', CliOwned) and serves afterwards.  A   *)
(* host of a fresh workspace has nothing to settle: it serves at once.     *)
(***************************************************************************)
EXTENDS RuntimeControl

(* A host that does not serve runs no handler: it is down, or sweeps what  *)
(* an earlier one left after it settled the manifest.                      *)
Away(phase) == [Idle EXCEPT !.pc = phase]
HostIs(phase) == \A t \in Tasks : task[t] = Away(phase)
Serves == \E t \in Tasks : task[t].pc \notin {"down", "sweeping"}

-----------------------------------------------------------------------------
(* What ends with the process.                                             *)
Forget ==
  /\ shell' = EmptyManifest
  /\ mutex' = None
  /\ pool' = [i \in Instances |-> 0] /\ mirror' = [i \in Instances |-> 0]
  /\ table' = [a \in Apps |-> NoEntry]
  /\ inflight' = {} /\ watch' = [i \in Instances |-> 0]
  /\ task' = [t \in Tasks |-> Away("down")]

(* Children started that have not entered the pool: each is in a process   *)
(* group of its own and outlives a host that is killed.                    *)
HalfStarted ==
  {<<i, spawns[i] + 1>> : i \in {j \in Instances :
      /\ spawns[j] < MaxSpawns
      /\ \E t \in Tasks : /\ task[t].inst = j
                          /\ task[t].pc \in {"spawn", "respawn", "respawnSelf"}}}

HostKilled ==
  /\ ~ HostIs("down")
  /\ \E left \in SUBSET HalfStarted :
       /\ alive' = alive \union left
       /\ spawns' = [i \in Instances |->
                       IF <<i, spawns[i] + 1>> \in left THEN spawns[i] + 1 ELSE spawns[i]]
  /\ Forget
  /\ UNCHANGED <<disk, started>>

(* teardown_managed_children: the pool is stopped and what escaped it is   *)
(* swept; a child still on its way is killed as its handle is dropped.     *)
HostTornDown ==
  /\ Serves
  /\ alive' = {}
  /\ Forget
  /\ UNCHANGED <<disk, started, spawns>>

(* A child that polls its parent finds it gone and exits, unless that      *)
(* watch is disabled.                                                      *)
ParentGone ==
  /\ ~ Serves
  /\ \E p \in alive : alive' = alive \ {p}
  /\ UNCHANGED <<manifests, mutex, pool, spawns, mirror, table, inflight, watch,
                 started, task>>

-----------------------------------------------------------------------------
(* Nothing runs, so no instance is wanted and no route has an active one.  *)
Settled(m) ==
  [instances |-> [i \in Instances |->
                    IF m.instances[i] = "Running" THEN "Stopped" ELSE m.instances[i]],
   routes |-> [a \in Apps |->
                 IF m.routes[a].active = None THEN m.routes[a]
                 ELSE [EmptyRoute EXCEPT !.previous = m.routes[a].active]]]

(* Mutant: a host that finds nothing running in the manifest does not      *)
(* sweep.                                                                  *)
BootSweepsIfListed ==
  /\ HostIs("down")
  /\ \/ disk' = Settled(disk)
     \/ IoFails /\ disk' = disk
  /\ shell' = Settled(disk)
  /\ task' = [t \in Tasks |-> IF Settled(disk) = disk THEN Idle ELSE Away("sweeping")]
  /\ UNCHANGED <<mutex, processes, mirror, table, inflight, watch, started>>

(* The host goes on with the settled manifest, also when it could not be   *)
(* written.                                                                *)
Boot ==
  /\ HostIs("down")
  /\ \/ disk' = Settled(disk)
     \/ IoFails /\ disk' = disk
  /\ shell' = Settled(disk)
  /\ task' = [t \in Tasks |-> Away("sweeping")]
  /\ UNCHANGED <<mutex, processes, mirror, table, inflight, watch, started>>

(* sweep_stale_app_runtimes finds the workspace's processes by their       *)
(* command line, whatever the manifest and the pid files say; then the     *)
(* host listens.                                                           *)
Sweep ==
  /\ HostIs("sweeping")
  /\ alive' = {}
  /\ task' = [t \in Tasks |-> Idle]
  /\ UNCHANGED <<manifests, mutex, pool, spawns, mirror, table, inflight, watch,
                 started>>

-----------------------------------------------------------------------------
RestartNext == Next \/ HostKilled \/ HostTornDown \/ ParentGone \/ Boot \/ Sweep

RestartSpec == Init /\ [][RestartNext]_vars

-----------------------------------------------------------------------------
(* A host that serves knows every child that runs for its workspace: its   *)
(* own are in the pool, and none is left of a host that was killed, also   *)
(* in the middle of a spawn or while it was itself settling.               *)
NoStrays == Serves => \A p \in alive : pool[p[1]] = p[2]
=============================================================================
