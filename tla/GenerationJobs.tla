---------------------------- MODULE GenerationJobs ----------------------------
(***************************************************************************)
(* The host's generation jobs (generation_lifecycle.rs, build_ops.rs,      *)
(* route_lifecycle.rs and the kernel's build store): the activation of a   *)
(* build generation for all apps, its rollback, and the cleanup of old     *)
(* generations.  A job runs while it holds the one job slot of the shell   *)
(* state.  Beside it run an operator's cutover of one app, under the       *)
(* manifest_mutation lock, and the prebuild that the start of an app does, *)
(* which holds neither.                                                    *)
(*                                                                         *)
(* An instance is named by its app and its generation, which is the id an  *)
(* activation gives it.                                                    *)
(* A step is what a handler does between two awaits, or between two shared *)
(* structures.                                                             *)
(***************************************************************************)
EXTENDS Naturals, FiniteSets

CONSTANTS
  Apps, Tasks, None,
  MaxGen,      \* generations are numbered in the order of their tags
  Built,       \* generations built for every app when the host starts
  Retain,      \* how many of the newest generations a cleanup retains
  DefaultApp,  \* the workspace's default app
  MaxCalls     \* bound: calls of handlers

Gens == 1 .. MaxGen
Instances == Apps \X Gens
Today == MaxGen   \* the generation a prebuild writes, by today's date

ASSUME GenerationAssumption ==
  /\ MaxGen \in Nat /\ Retain \in Nat /\ MaxCalls \in Nat
  /\ Built \subseteq Gens /\ \E g \in Built : \A h \in Built : h <= g
  /\ DefaultApp \in Apps
  /\ None \notin Tasks /\ None \notin Instances /\ None \notin Gens

INSTANCE LaunchManifest

VARIABLES
  disk,      \* launchManifest in host-control.json
  shell,     \* ShellState.launch_manifest
  mutex,     \* holder of manifest_mutation
  pool,      \* instances with a child the supervisor manages
  mirror,    \* instances ShellState.app_runtime_by_instance has an endpoint of
  dirs,      \* app -> generation -> its directory: absent, open (no bundle) or built
  current,   \* app -> the generation env/current points to
  links,     \* links.build: candidate and previous generation
  job,       \* ShellState.ops_job: the kind of job that runs, "none"
  preview,   \* ShellState.cleanup_preview
  task,      \* task -> the handler or job it runs and where it is
  calls      \* calls of handlers so far

vars == <<disk, shell, mutex, pool, mirror, dirs, current, links, job, preview, task, calls>>
builds == <<dirs, current, links>>
children == <<pool, mirror>>

NoLinks == [candidate |-> None, previous |-> None]

Idle == [op |-> "none", pc |-> "idle", gen |-> None, todo |-> {}, done |-> {},
         inst |-> None, seen |-> EmptyManifest, next |-> EmptyManifest,
         keep |-> {}, was |-> None, view |-> None, old |-> None]

-----------------------------------------------------------------------------
At(t, pc) == task[t].pc = pc
Goto(t, pc) == task' = [task EXCEPT ![t].pc = pc]
Return(t) == task' = [task EXCEPT ![t] = Idle]

(* instance_is_ready: the shell names an endpoint, also one that is stale  *)
(* or a placeholder, or the supervisor manages a child.                    *)
Ready(i) == i \in mirror \union pool

MayCall(t) == task[t] = Idle /\ calls < MaxCalls /\ calls' = calls + 1

Named(i, g) == i # None /\ i[2] = g
Slots == {"active", "candidate", "previous"}

(* workspace_builds_view: a generation is coherent when every app has its  *)
(* bundle, and active when every app's env/current points to it.           *)
Coherent(g) == \A a \in Apps : dirs[a][g] = "built"
Common(pointers) ==
  IF \E g \in Gens : \A a \in Apps : pointers[a] = g
    THEN CHOOSE g \in Gens : \A a \in Apps : pointers[a] = g ELSE None

(* What an instance's bundle is protected by: a route slot that names it,  *)
(* or a desired state of Running or Standby.                               *)
Protects(m, i) ==
  \/ \E a \in Apps, s \in Slots : m.routes[a][s] = i
  \/ m.instances[i] \in {"Running", "Standby"}

(* What the view's revision is a digest of.                                *)
View == [dirs |-> dirs, current |-> current, links |-> links,
         slots |-> [g \in Gens |-> {s \in Slots : \E a \in Apps : Named(disk.routes[a][s], g)}],
         kept |-> {i \in Instances : Protects(disk, i)}]

(* attach_build_generation makes the directory, without a bundle.          *)
WithDirs(d, apps, g) ==
  [a \in Apps |-> IF a \in apps /\ d[a][g] = "absent" THEN [d[a] EXCEPT ![g] = "open"] ELSE d[a]]
Attach(apps, g) ==
  /\ dirs' = WithDirs(dirs, apps, g)
  /\ current' = [a \in Apps |-> IF a \in apps THEN g ELSE current[a]]

NotCandidate(l, g) == IF l.candidate = g THEN None ELSE l.candidate

(* register_candidates_on_manifest                                         *)
RegisterGeneration(m, g) ==
  [instances |-> [i \in Instances |-> IF i[2] = g THEN "Running" ELSE m.instances[i]],
   routes |-> [a \in Apps |-> [m.routes[a] EXCEPT !.candidate = <<a, g>>]]]

-----------------------------------------------------------------------------
(* The job slot: a request looks at it, reads the builds and validates,    *)
(* then takes it.                                                          *)

AskSwitch(t, op, g) ==
  /\ MayCall(t)
  /\ job = "none"
  /\ Coherent(g)
  /\ op = "rollback" =>
       links.previous = g \/ \E a \in Apps : Named(shell.routes[a].previous, g)
  /\ task' = [task EXCEPT ![t] = [Idle EXCEPT !.op = op, !.pc = "begin", !.gen = g]]
  /\ UNCHANGED <<disk, shell, mutex, children, builds, job, preview>>

AskPreview(t, apps) ==
  /\ MayCall(t)
  /\ job = "none"
  /\ task' = [task EXCEPT ![t] = [Idle EXCEPT !.op = "preview", !.pc = "offer",
                                    !.todo = apps, !.view = View]]
  /\ UNCHANGED <<disk, shell, mutex, children, builds, job, preview>>

Offer(t) ==
  /\ At(t, "offer")
  /\ preview' = [view |-> task[t].view, apps |-> task[t].todo]
  /\ Return(t)
  /\ UNCHANGED <<disk, shell, mutex, children, builds, job, calls>>

AskCleanup(t) ==
  /\ MayCall(t)
  /\ job = "none"
  /\ preview # None
  /\ preview.view = View
  /\ task' = [task EXCEPT ![t] = [Idle EXCEPT !.op = "cleanup", !.pc = "begin",
                                    !.todo = preview.apps, !.seen = shell]]
  /\ UNCHANGED <<disk, shell, mutex, children, builds, job, preview>>

(* begin_ops_job looks at the slot again; its mutant trusts the request.   *)
SlotTrusted == TRUE
SlotFree == job = "none"

First(op) == CASE op = "activate" -> "validate" [] op = "rollback" -> "roll"
               [] op = "cleanup" -> "keep"

BeginJob(t) ==
  /\ At(t, "begin")
  /\ SlotFree
  /\ job' = task[t].op
  /\ preview' = IF task[t].op = "cleanup" THEN None ELSE preview
  /\ task' = [task EXCEPT ![t].pc = First(task[t].op),
                ![t].todo = IF task[t].op = "rollback" THEN Apps ELSE @]
  /\ UNCHANGED <<disk, shell, mutex, children, builds, calls>>

BeginRefused(t) ==
  /\ At(t, "begin")
  /\ ~ SlotFree
  /\ Return(t)
  /\ UNCHANGED <<disk, shell, mutex, children, builds, job, preview, calls>>

(* finish_ops_job_success, finish_ops_job_failure                          *)
Finish(t) ==
  /\ At(t, "finish")
  /\ job' = "none"
  /\ Return(t)
  /\ UNCHANGED <<disk, shell, mutex, children, builds, preview, calls>>

-----------------------------------------------------------------------------
(* run_generation_activate                                                 *)

(* Mutant: the job relies on the request's validation.                     *)
Trusts(g) == TRUE
Validates(g) == Coherent(g)

(* The builds are validated again; then the manifest on disk is read and   *)
(* every app's instance of the generation is added to it as a candidate.   *)
Validate(t) ==
  /\ At(t, "validate")
  /\ LET g == task[t].gen IN
       task' = IF Validates(g)
         THEN [task EXCEPT ![t].pc = "write", ![t].was = Common(current),
                           ![t].next = RegisterGeneration(disk, g)]
         ELSE [task EXCEPT ![t].pc = "finish"]
  /\ UNCHANGED <<disk, shell, mutex, children, builds, job, preview, calls>>

(* It is written back as a whole, without the lock and without comparing   *)
(* revisions, and installed in the shell state.                            *)
Write(t) ==
  /\ At(t, "write")
  /\ disk' = task[t].next
  /\ Goto(t, "install")
  /\ UNCHANGED <<shell, mutex, children, builds, job, preview, calls>>

WriteFails(t) ==
  /\ At(t, "write")
  /\ Goto(t, "finish")
  /\ UNCHANGED <<disk, shell, mutex, children, builds, job, preview, calls>>

Install(t) ==
  /\ At(t, "install")
  /\ shell' = task[t].next
  /\ task' = [task EXCEPT ![t].pc = "launch", ![t].seen = task[t].next, ![t].todo = Apps]
  /\ UNCHANGED <<disk, mutex, children, builds, job, preview, calls>>

(* launch_specs: an instance that has a child already is taken as it is.   *)
Launch(t, a) ==
  /\ At(t, "launch")
  /\ a \in task[t].todo
  /\ pool' = pool \union {<<a, task[t].gen>>}
  /\ task' = [task EXCEPT ![t].todo = @ \ {a}]
  /\ UNCHANGED <<disk, shell, mutex, mirror, builds, job, preview, calls>>

(* What failed, all candidates are stopped.                                *)
Abandon(t) == task' = [task EXCEPT ![t].pc = "stop", ![t].todo = Apps]

LaunchFails(t, a) ==
  /\ At(t, "launch")
  /\ a \in task[t].todo /\ <<a, task[t].gen>> \notin pool
  /\ mirror' = pool
  /\ Abandon(t)
  /\ UNCHANGED <<disk, shell, mutex, pool, builds, job, preview, calls>>

Launched(t) ==
  /\ At(t, "launch")
  /\ task[t].todo = {}
  /\ mirror' = pool
  /\ task' = [task EXCEPT ![t].pc = "cutover", ![t].todo = Apps]
  /\ UNCHANGED <<disk, shell, mutex, pool, builds, job, preview, calls>>

(* Without the runtime's binary no child is started: the instances have    *)
(* placeholders for endpoints.                                             *)
LaunchedPending(t) ==
  /\ At(t, "launch")
  /\ task[t].todo = Apps
  /\ mirror' = mirror \union (Apps \X {task[t].gen})
  /\ Goto(t, "cutover")
  /\ UNCHANGED <<disk, shell, mutex, pool, builds, job, preview, calls>>

(* stop_instances stops one child after the other and drops the endpoints  *)
(* at the end; launch_candidates_and_cutover calls it, and then its caller *)
(* does.                                                                   *)
StopCandidate(t, a) ==
  /\ task[t].pc \in {"stop", "stopAgain"}
  /\ a \in task[t].todo
  /\ pool' = pool \ {<<a, task[t].gen>>}
  /\ task' = [task EXCEPT ![t].todo = @ \ {a}]
  /\ UNCHANGED <<disk, shell, mutex, mirror, builds, job, preview, calls>>

CandidatesStopped(t) ==
  /\ task[t].pc \in {"stop", "stopAgain"}
  /\ task[t].todo = {}
  /\ mirror' = pool
  /\ task' = IF At(t, "stop") THEN [task EXCEPT ![t].pc = "stopAgain", ![t].todo = Apps]
                              ELSE [task EXCEPT ![t].pc = "finish"]
  /\ UNCHANGED <<disk, shell, mutex, pool, builds, job, preview, calls>>

(* env/current of every app, and the links.                                *)
Activated(t) ==
  /\ At(t, "links")
  /\ LET g == task[t].gen IN
       /\ Attach(Apps, g)
       /\ links' = [candidate |-> NotCandidate(links, g),
                    previous |-> IF task[t].was = g THEN None ELSE task[t].was]
  /\ Goto(t, "finish")
  /\ UNCHANGED <<disk, shell, mutex, children, job, preview, calls>>

-----------------------------------------------------------------------------
(* execute_cutover, for each app of an activation in turn, each expecting  *)
(* the revision the one before it committed, and for an operator.          *)

SwitchBegin(t, i) ==
  /\ MayCall(t)
  /\ Registered(shell, i)
  /\ task' = [task EXCEPT ![t] = [Idle EXCEPT !.op = "switch", !.pc = "cutover",
                                    !.gen = i[2], !.todo = {i[1]}, !.seen = shell]]
  /\ UNCHANGED <<disk, shell, mutex, children, builds, job, preview>>

(* Mutant: the revision the caller expects is not compared.                *)
ExpectsAny(t) == TRUE
Expects(t) == shell = task[t].seen

Cutover(t, a) ==
  /\ At(t, "cutover")
  /\ a \in task[t].todo
  /\ mutex = None
  /\ LET i == <<a, task[t].gen>> IN
       /\ Expects(t)
       /\ Ready(i)
       /\ Registered(shell, i)
       /\ disk = shell
       /\ disk' = CutoverRoute(shell, a, i)
       /\ Attach({a}, task[t].gen)
       /\ task' = [task EXCEPT ![t].next = CutoverRoute(shell, a, i),
                     ![t].pc = "installCutover", ![t].todo = @ \ {a}]
  /\ mutex' = t
  /\ UNCHANGED <<shell, children, links, job, preview, calls>>

(* Another revision, an instance that is not ready, a write that fails.    *)
CutoverFails(t) ==
  /\ At(t, "cutover")
  /\ task[t].todo # {}
  /\ mutex = None
  /\ IF task[t].op = "switch" THEN Return(t) ELSE Abandon(t)
  /\ UNCHANGED <<disk, shell, mutex, children, builds, job, preview, calls>>

After(me) ==
  CASE me.op = "activate" /\ me.todo # {} -> "cutover"
    [] me.op = "activate" /\ me.todo = {} -> "links"
    [] me.op = "rollback" -> "roll"
    [] OTHER -> "idle"

CutoverInstall(t) ==
  /\ At(t, "installCutover")
  /\ shell' = task[t].next
  /\ mutex' = None
  /\ IF After(task[t]) = "idle" THEN Return(t)
       ELSE task' = [task EXCEPT ![t].seen = task[t].next, ![t].pc = After(task[t])]
  /\ UNCHANGED <<disk, children, builds, job, preview, calls>>

-----------------------------------------------------------------------------
(* run_generation_rollback: execute_rollback for every app in turn; an app *)
(* that cannot be rolled back is skipped.                                  *)

(* Mutant: an app that is skipped is tried again.                          *)
RollSkipRetries(t, a) ==
  /\ At(t, "roll")
  /\ a \in task[t].todo
  /\ mutex = None
  /\ disk.routes[a].previous = None
  /\ UNCHANGED vars

RollSkip(t, a) ==
  /\ At(t, "roll")
  /\ a \in task[t].todo
  /\ mutex = None
  /\ disk.routes[a].previous = None
  /\ task' = [task EXCEPT ![t].todo = @ \ {a}]
  /\ UNCHANGED <<disk, shell, mutex, children, builds, job, preview, calls>>

RollBegin(t, a) ==
  /\ At(t, "roll")
  /\ a \in task[t].todo
  /\ mutex = None
  /\ disk.routes[a].previous # None
  /\ mutex' = t
  /\ task' = [task EXCEPT ![t].pc = "ready", ![t].todo = @ \ {a},
                ![t].inst = disk.routes[a].previous, ![t].seen = disk]
  /\ UNCHANGED <<disk, shell, children, builds, job, preview, calls>>

(* ensure_instance_ready spawns an instance that is not ready; whether it  *)
(* comes up or not, the mirror is brought up to date.                      *)
RollReady(t) ==
  /\ At(t, "ready")
  /\ IF Ready(task[t].inst) THEN UNCHANGED children
       ELSE /\ pool' = pool \union {task[t].inst}
            /\ mirror' = pool'
  /\ Goto(t, "rollWrite")
  /\ UNCHANGED <<disk, shell, mutex, builds, job, preview, calls>>

RollNotReady(t) ==
  /\ At(t, "ready")
  /\ ~ Ready(task[t].inst)
  /\ mirror' = pool
  /\ mutex' = None
  /\ Goto(t, "roll")
  /\ UNCHANGED <<disk, shell, pool, builds, job, preview, calls>>

RollWrite(t) ==
  /\ At(t, "rollWrite")
  /\ LET i == task[t].inst IN
       /\ disk = task[t].seen
       /\ Registered(disk, i)
       /\ disk' = CutoverRoute(disk, i[1], i)
       /\ Attach({i[1]}, i[2])
       /\ task' = [task EXCEPT ![t].next = CutoverRoute(disk, i[1], i),
                     ![t].pc = "installCutover",
                     ![t].done = IF i[2] = task[t].gen THEN @ \union {i[1]} ELSE @]
  /\ UNCHANGED <<shell, mutex, children, links, job, preview, calls>>

RollWriteFails(t) ==
  /\ At(t, "rollWrite")
  /\ mutex' = None
  /\ Goto(t, "roll")
  /\ UNCHANGED <<disk, shell, children, builds, job, preview, calls>>

RollEnd(t) ==
  /\ At(t, "roll")
  /\ task[t].todo = {}
  /\ Goto(t, IF task[t].done # {} THEN "finish" ELSE "legacy")
  /\ UNCHANGED <<disk, shell, mutex, children, builds, job, preview, calls>>

(* run_legacy_symlink_activation, when no app went back to the generation: *)
(* the pointers of all apps move, and move back if the refresh fails.      *)
LegacySwitch(t) ==
  /\ At(t, "legacy")
  /\ LET g == task[t].gen IN
       IF Coherent(g) /\ links.previous = g
         THEN /\ Attach(Apps, g)
              /\ task' = [task EXCEPT ![t].pc = "refresh",
                            ![t].old = [current |-> current, links |-> links]]
         ELSE Goto(t, "finish") /\ UNCHANGED <<dirs, current>>
  /\ UNCHANGED <<disk, shell, mutex, children, links, job, preview, calls>>

LegacyDone(t) ==
  /\ At(t, "refresh")
  /\ LET g == task[t].gen
         old == task[t].old
         was == Common(old.current) IN
       links' = [candidate |-> NotCandidate(old.links, g),
                 previous |-> IF was = g THEN None ELSE was]
  /\ Goto(t, "finish")
  /\ UNCHANGED <<disk, shell, mutex, children, dirs, current, job, preview, calls>>

LegacyRestore(t) ==
  /\ At(t, "refresh")
  /\ LET old == task[t].old.current IN
       /\ current' = old
       /\ dirs' = [a \in Apps |-> IF old[a] = None THEN dirs[a]
                                  ELSE WithDirs(dirs, {a}, old[a])[a]]
  /\ links' = task[t].old.links
  /\ Goto(t, "finish")
  /\ UNCHANGED <<disk, shell, mutex, children, job, preview, calls>>

-----------------------------------------------------------------------------
(* clean_env_generations                                                   *)

Newest(apps) ==
  LET present == {g \in Gens : \E a \in apps : dirs[a][g] # "absent"} IN
    {g \in present : Cardinality({h \in present : h > g}) < Retain}

(* What is kept is decided once, with the manifest the request copied ...  *)
Keep(t) ==
  /\ At(t, "keep")
  /\ task' = [task EXCEPT ![t].pc = "remove",
       ![t].keep = {g \in Gens : \/ \E a \in Apps : current[a] = g
                                 \/ g \in {links.candidate, links.previous}
                                 \/ \E i \in Instances : i[2] = g /\ Protects(task[t].seen, i)
                                 \/ g \in Newest(task[t].todo)}]
  /\ UNCHANGED <<disk, shell, mutex, children, builds, job, preview, calls>>

(* ... and then every other directory is removed, app by app.              *)
Remove(t, a) ==
  /\ At(t, "remove")
  /\ a \in task[t].todo
  /\ dirs' = [dirs EXCEPT ![a] = [g \in Gens |-> IF g \in task[t].keep THEN @[g] ELSE "absent"]]
  /\ task' = [task EXCEPT ![t].todo = @ \ {a}]
  /\ UNCHANGED <<disk, shell, mutex, children, current, links, job, preview, calls>>

(* All done, or a directory cannot be read or removed.                     *)
Removed(t) ==
  /\ At(t, "remove")
  /\ Goto(t, "finish")
  /\ UNCHANGED <<disk, shell, mutex, children, builds, job, preview, calls>>

-----------------------------------------------------------------------------
(* The prebuild of a start (prebuild_pipeline): today's generation of the  *)
(* app is wiped and pointed to before it is built ...                      *)
Prebuild(t, a) ==
  /\ MayCall(t)
  /\ dirs' = [dirs EXCEPT ![a][Today] = "open"]
  /\ current' = [current EXCEPT ![a] = Today]
  /\ links' = [links EXCEPT !.candidate = Today]
  /\ task' = [task EXCEPT ![t] = [Idle EXCEPT !.op = "prebuild", !.pc = "building",
                                    !.todo = {a}]]
  /\ UNCHANGED <<disk, shell, mutex, children, job, preview>>

PrebuildFails(t) ==
  /\ At(t, "building")
  /\ Return(t)
  /\ UNCHANGED <<disk, shell, mutex, children, builds, job, preview, calls>>

(* ... and promoted for every app, the ones that were not built included.  *)
Promote(t) ==
  /\ At(t, "building")
  /\ \A a \in task[t].todo : dirs[a][Today] # "absent"
  /\ LET made == [a \in Apps |-> IF a \in task[t].todo
                                   THEN [dirs[a] EXCEPT ![Today] = "built"] ELSE dirs[a]] IN
       IF \A a \in Apps : current[a] = Today
         THEN /\ dirs' = made
              /\ links' = [links EXCEPT !.candidate = Today]
              /\ UNCHANGED current
         ELSE /\ dirs' = WithDirs(made, Apps, Today)
              /\ current' = [a \in Apps |-> Today]
              /\ links' = [candidate |-> None,
                           previous |-> IF current[DefaultApp] \in {Today, None}
                                          THEN links.previous ELSE current[DefaultApp]]
  /\ Return(t)
  /\ UNCHANGED <<disk, shell, mutex, children, job, preview, calls>>

-----------------------------------------------------------------------------
Init ==
  /\ disk = EmptyManifest /\ shell = EmptyManifest
  /\ mutex = None
  /\ pool = {} /\ mirror = {}
  /\ dirs = [a \in Apps |-> [g \in Gens |-> IF g \in Built THEN "built" ELSE "absent"]]
  /\ LET newest == CHOOSE g \in Built : \A h \in Built : h <= g IN
       /\ current = [a \in Apps |-> newest]
       /\ links = [candidate |-> newest, previous |-> None]
  /\ job = "none"
  /\ preview = None
  /\ task = [t \in Tasks |-> Idle]
  /\ calls = 0

Takes(t) == \E a \in Apps : Cutover(t, a) \/ RollSkip(t, a) \/ RollBegin(t, a)

Goes(t) ==
  \/ Offer(t) \/ BeginJob(t) \/ BeginRefused(t) \/ Finish(t)
  \/ Validate(t) \/ Write(t) \/ WriteFails(t) \/ Install(t)
  \/ Launched(t) \/ LaunchedPending(t)
  \/ CandidatesStopped(t) \/ Activated(t) \/ CutoverInstall(t)
  \/ RollReady(t) \/ RollNotReady(t) \/ RollWrite(t) \/ RollWriteFails(t) \/ RollEnd(t)
  \/ LegacySwitch(t) \/ LegacyDone(t) \/ LegacyRestore(t)
  \/ Keep(t) \/ Removed(t) \/ PrebuildFails(t) \/ Promote(t)
  \/ \E a \in Apps : Launch(t, a) \/ LaunchFails(t, a) \/ StopCandidate(t, a) \/ Remove(t, a)

Asks(t) ==
  \/ \E op \in {"activate", "rollback"}, g \in Gens : AskSwitch(t, op, g)
  \/ AskPreview(t, Apps) \/ \E a \in Apps : AskPreview(t, {a})
  \/ AskCleanup(t)
  \/ \E i \in Instances : SwitchBegin(t, i)
  \/ \E a \in Apps : Prebuild(t, a)

Next == \E t \in Tasks : Asks(t) \/ Takes(t) \/ Goes(t) \/ CutoverFails(t)

Spec == Init /\ [][Next]_vars

(* A job that can go on does: launches, builds and kills have timeouts,    *)
(* and the tokio mutex serves its waiters in order of arrival.             *)
Fairness == \A t \in Tasks : WF_vars(Goes(t)) /\ SF_vars(Takes(t) \/ CutoverFails(t))
FairSpec == Spec /\ Fairness

-----------------------------------------------------------------------------
(* Properties                                                              *)

Kinds == {"activate", "rollback", "cleanup"}

PcsOf(op) ==
  CASE op = "none" -> {"idle"}
    [] op = "preview" -> {"offer"}
    [] op = "prebuild" -> {"building"}
    [] op = "switch" -> {"cutover", "installCutover"}
    [] op = "cleanup" -> {"begin", "keep", "remove", "finish"}
    [] op = "activate" -> {"begin", "validate", "write", "install", "launch", "cutover",
                           "installCutover", "links", "stop", "stopAgain", "finish"}
    [] op = "rollback" -> {"begin", "roll", "ready", "rollWrite", "installCutover",
                           "legacy", "refresh", "finish"}

Ops == Kinds \union {"none", "preview", "prebuild", "switch"}

Some(S) == S \union {None}
Dirs == [Apps -> [Gens -> {"absent", "open", "built"}]]
Pointers == [Apps -> Some(Gens)]
Links == [candidate : Some(Gens), previous : Some(Gens)]
ViewState == [dirs : Dirs, current : Pointers, links : Links,
              slots : [Gens -> SUBSET Slots], kept : SUBSET Instances]
TaskState == [op : Ops, pc : UNION {PcsOf(op) : op \in Ops}, gen : Some(Gens),
              todo : SUBSET Apps, done : SUBSET Apps, inst : Some(Instances),
              seen : Manifest, next : Manifest, keep : SUBSET Gens, was : Some(Gens),
              view : Some(ViewState), old : Some([current : Pointers, links : Links])]

(* Every variable keeps its type, and every handler its own steps.         *)
TypeOK ==
  /\ disk \in Manifest /\ shell \in Manifest
  /\ mutex \in Some(Tasks)
  /\ pool \subseteq Instances /\ mirror \subseteq Instances
  /\ dirs \in Dirs /\ current \in Pointers /\ links \in Links
  /\ job \in Kinds \union {"none"}
  /\ preview \in Some([view : ViewState, apps : SUBSET Apps])
  /\ task \in [Tasks -> TaskState]
  /\ \A t \in Tasks : task[t].pc \in PcsOf(task[t].op)
  /\ calls \in 0 .. MaxCalls

Runs(t) == task[t].op \in Kinds /\ ~ At(t, "begin")

(* The job slot names the job that runs, and one job runs at a time:       *)
(* whatever requests have looked at an empty slot, one of them takes it.   *)
OneJob ==
  /\ \A t \in Tasks : Runs(t) => job = task[t].op
  /\ \A t, u \in Tasks : Runs(t) /\ Runs(u) => t = u
  /\ job # "none" => \E t \in Tasks : Runs(t)

(* From its validation to its last cutover an activation can rely on the   *)
(* bundles of its generation: no cleanup removes them, also one previewed  *)
(* and asked for before; only a prebuild of today's generation wipes one.  *)
ValidatedStays ==
  \A t \in Tasks :
    /\ task[t].op = "activate" /\ task[t].gen # Today
    /\ task[t].pc \in {"write", "install", "launch", "cutover", "installCutover", "links"}
    => Coherent(task[t].gen)

(* An activation that commits the cutover of its last app has moved every  *)
(* app: what others commit between two of its cutovers makes it fail.      *)
SwitchIsWhole ==
  [][\A t \in Tasks :
       /\ task[t].op = "activate" /\ task[t].pc = "cutover"
       /\ task'[t].pc = "installCutover" /\ task'[t].todo = {}
       => \A a \in Apps : disk'.routes[a].active = <<a, task[t].gen>>]_vars

(* "On failure stop candidates and leave routes unchanged"                 *)
(* (route_lifecycle.rs:413): what a failed activation stops is no app's    *)
(* active instance.                                                        *)
StopsOnlyCandidates ==
  [][\A a \in Apps : shell.routes[a].active \notin pool \ pool']_vars

(* Every job ends, and the slot is free for the next.                      *)
JobEnds == job # "none" ~> job = "none"

=============================================================================
