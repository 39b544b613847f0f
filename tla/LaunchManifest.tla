--------------------------- MODULE LaunchManifest ---------------------------
(***************************************************************************)
(* The launch manifest (crates/mei-host-core/src/app_runtime/              *)
(* launch_manifest.rs) and the edits the host makes to it: the desired     *)
(* instances and, per app, the route slots active, candidate and previous. *)
(*                                                                         *)
(* The code compares manifests by revision, a SHA-256 of their content.    *)
(* Here a manifest is its own revision: equal content is equal revision,   *)
(* which keeps the ABA the code has.                                       *)
(***************************************************************************)
CONSTANTS
  Apps,       \* app ids
  Instances,  \* instance ids
  None        \* an empty route slot

Desired == {"absent", "Running", "Standby", "Stopped"}
RouteBinding == [active : Instances \union {None},
                 candidate : Instances \union {None},
                 previous : Instances \union {None}]
Manifest == [instances : [Instances -> Desired], routes : [Apps -> RouteBinding]]

(* The manifest the models begin with.  A workspace without the file is    *)
(* not modelled: its revision is empty, not that of this manifest, and     *)
(* every compare-and-swap is refused until something writes the file, as   *)
(* enabling an app does.                                                   *)
EmptyRoute == [active |-> None, candidate |-> None, previous |-> None]
EmptyManifest == [instances |-> [i \in Instances |-> "absent"],
                  routes |-> [a \in Apps |-> EmptyRoute]]

Registered(m, i) == m.instances[i] # "absent"

(* get_mut on a missing instance changes nothing.                          *)
WithDesired(m, ids, d) ==
  [i \in Instances |-> IF i \in ids /\ Registered(m, i) THEN d ELSE m.instances[i]]

WithRoute(m, a, active, candidate, previous) ==
  [m.routes EXCEPT ![a] = [active |-> active, candidate |-> candidate,
                           previous |-> previous]]

(* A start lists its new instance as the candidate of the app.             *)
RegisterCandidate(m, a, i) ==
  LET r == m.routes[a] IN
    [instances |-> [m.instances EXCEPT ![i] = "Running"],
     routes |-> WithRoute(m, a, r.active, i, r.previous)]

(* Mutant: the candidate slot survives the cutover.                        *)
CutoverKeepsCandidate(m, a, i) ==
  LET r == m.routes[a] IN
    [instances |-> [WithDesired(m, {r.active}, "Standby") EXCEPT ![i] = "Running"],
     routes |-> WithRoute(m, a, i, r.candidate, r.active)]

(* Active moves to `i', which is listed; the old active becomes previous.  *)
CutoverRoute(m, a, i) ==
  LET r == m.routes[a] IN
    IF r.active = i
      THEN [instances |-> m.instances, routes |-> WithRoute(m, a, i, None, r.previous)]
      ELSE [instances |-> [WithDesired(m, {r.active}, "Standby") EXCEPT ![i] = "Running"],
            routes |-> WithRoute(m, a, i, None, r.active)]

(* Mutant: the instance is unlisted, the slot keeps naming it.             *)
DiscardInstanceOnly(m, a, i) ==
  [instances |-> [m.instances EXCEPT ![i] = "absent"], routes |-> m.routes]

(* A failed start takes its instance back.                                 *)
DiscardCandidate(m, a, i) ==
  LET r == m.routes[a] IN
    [instances |-> [m.instances EXCEPT ![i] = "absent"],
     routes |-> WithRoute(m, a, r.active,
                          IF r.candidate = i THEN None ELSE r.candidate, r.previous)]

RetirePrevious(m, i) ==
  [instances |-> WithDesired(m, {i}, "Stopped"), routes |-> m.routes]

StopRoute(m, a, ids) ==
  [instances |-> WithDesired(m, ids, "Stopped"),
   routes |-> WithRoute(m, a, None, None, m.routes[a].active)]
=============================================================================
