------------------------ MODULE GenerationJobsProofs ------------------------
(***************************************************************************)
(* Proofs about GenerationJobs for any apps, generations, handlers and     *)
(* calls.                                                                  *)
(***************************************************************************)
EXTENDS GenerationJobs, TLAPS

(* What a handler has chosen by the time it is where it is.                *)
Chosen(r) ==
  /\ r.op \in {"activate", "rollback", "switch"} => r.gen \in Gens
  /\ r.pc \in {"ready", "rollWrite"} => r.inst \in Instances
  /\ r.pc = "refresh" => r.old \in [current : Pointers, links : Links]
  /\ r.pc = "offer" => r.view \in ViewState

Placed(r) == r.pc \in PcsOf(r.op) /\ Chosen(r)

TypeInv == TypeOK /\ \A t \in Tasks : Chosen(task[t])

Typed(tasks) == tasks \in [Tasks -> TaskState] /\ \A t \in Tasks : Placed(tasks[t])

-----------------------------------------------------------------------------
(* Data.                                                                   *)

(* None is not a task, a generation or an instance. *)
LEMMA NoneApart == None \notin Tasks /\ None \notin Gens /\ None \notin Instances
  BY GenerationAssumption

(* Today's generation is a generation: some generation is built. *)
LEMMA TodayIsOne == Today \in Gens /\ MaxGen \in Nat /\ Gens \subseteq Nat
  BY GenerationAssumption DEF Today, Gens

(* An app and a generation make an instance. *)
LEMMA InstanceOf == \A a \in Apps, g \in Gens : <<a, g>> \in Instances
  BY DEF Instances

(* The empty manifest is a manifest. *)
LEMMA EmptyType == EmptyManifest \in Manifest
  BY DEF EmptyManifest, EmptyRoute, Manifest, RouteBinding, Desired

(* A cutover makes a manifest of a manifest. *)
LEMMA CutoverType ==
  ASSUME NEW m \in Manifest, NEW a \in Apps, NEW i \in Instances
  PROVE  CutoverRoute(m, a, i) \in Manifest
<1>1. /\ m.routes[a].active \in Instances \union {None}
      /\ m.routes[a].previous \in Instances \union {None}
      /\ m.instances \in [Instances -> Desired]
      /\ m.routes \in [Apps -> RouteBinding]
  BY DEF Manifest, RouteBinding
<1>2. "Running" \in Desired /\ "Standby" \in Desired
  BY DEF Desired
<1>3. WithDesired(m, {m.routes[a].active}, "Standby") \in [Instances -> Desired]
  BY <1>1, <1>2 DEF WithDesired
<1>4. \A x, y, z \in Instances \union {None} : WithRoute(m, a, x, y, z) \in [Apps -> RouteBinding]
  BY <1>1 DEF WithRoute, RouteBinding
<1> QED
  BY <1>1, <1>2, <1>3, <1>4 DEF CutoverRoute, Manifest

(* After a cutover the app's active instance is the one cut over to, and   *)
(* the other apps' active instances are what they were.                    *)
LEMMA CutoverActive ==
  ASSUME NEW m \in Manifest, NEW a \in Apps, NEW i \in Instances
  PROVE  /\ CutoverRoute(m, a, i).routes[a].active = i
         /\ \A b \in Apps \ {a} : CutoverRoute(m, a, i).routes[b] = m.routes[b]
  BY DEF CutoverRoute, WithRoute, Manifest, RouteBinding

(* Registering a generation makes a manifest of a manifest. *)
LEMMA RegisterType ==
  ASSUME NEW m \in Manifest, NEW g \in Gens
  PROVE  RegisterGeneration(m, g) \in Manifest
<1>1. m.instances \in [Instances -> Desired] /\ m.routes \in [Apps -> RouteBinding]
  BY DEF Manifest
<1>2. "Running" \in Desired
  BY DEF Desired
<1>3. \A a \in Apps : [m.routes[a] EXCEPT !.candidate = <<a, g>>] \in RouteBinding
  BY <1>1, InstanceOf DEF RouteBinding
<1> QED
  BY <1>1, <1>2, <1>3 DEF RegisterGeneration, Manifest

(* Attaching a generation makes directories that were absent.              *)
LEMMA WithDirsType ==
  ASSUME NEW d \in Dirs, NEW apps, NEW g \in Gens
  PROVE  /\ WithDirs(d, apps, g) \in Dirs
         /\ \A a \in Apps, h \in Gens : d[a][h] = "built" => WithDirs(d, apps, g)[a][h] = "built"
  BY DEF WithDirs, Dirs

(* The generation common to all pointers, if any, is a generation. *)
LEMMA CommonType ==
  ASSUME NEW pointers PROVE Common(pointers) \in Some(Gens)
  BY DEF Common, Some

(* The view a revision is taken of is well typed. *)
LEMMA ViewType == TypeOK => View \in ViewState
  BY DEF TypeOK, View, ViewState, Slots

-----------------------------------------------------------------------------
(* Where a handler is tells what it runs.                                  *)

(* The steps of each handler. *)
LEMMA PcFacts ==
  ASSUME NEW op \in Ops, NEW pc \in PcsOf(op)
  PROVE  /\ pc = "idle" => op = "none"
         /\ pc = "offer" => op = "preview"
         /\ pc = "building" => op = "prebuild"
         /\ pc \in {"keep", "remove"} => op = "cleanup"
         /\ pc \in {"validate", "write", "install", "launch", "links", "stop", "stopAgain"}
              => op = "activate"
         /\ pc \in {"roll", "ready", "rollWrite", "legacy", "refresh"} => op = "rollback"
         /\ pc = "cutover" => op \in {"activate", "switch"}
         /\ pc = "installCutover" => op \in {"activate", "switch", "rollback"}
         /\ pc \in {"begin", "finish"} => op \in Kinds
  BY DEF Ops, Kinds, PcsOf

(* A handler's steps are steps. *)
LEMMA PcsKnown == \A op \in Ops : PcsOf(op) \subseteq UNION {PcsOf(o) : o \in Ops}
  OBVIOUS

(* A handler that has returned is well typed. *)
LEMMA IdleType == Idle \in TaskState /\ Placed(Idle) /\ Idle.op = "none" /\ Idle.pc = "idle"
<1>1. "none" \in Ops /\ "idle" \in PcsOf("none")
  BY DEF Ops, PcsOf
<1> QED
  BY <1>1, EmptyType, PcsKnown DEF Idle, TaskState, Placed, Chosen, Some

(* A handler's step changes its own record only. *)
LEMMA OneTask ==
  ASSUME TypeInv, NEW t \in Tasks, NEW r \in TaskState, Placed(r),
         task' = [task EXCEPT ![t] = r]
  PROVE  Typed(task') /\ task'[t] = r
  BY DEF TypeInv, TypeOK, Typed, Placed

(* A handler that moves on to another of its steps stays well typed. *)
LEMMA GotoType ==
  ASSUME TypeInv, NEW t \in Tasks, NEW pc \in PcsOf(task[t].op), Goto(t, pc),
         pc \notin {"ready", "rollWrite", "refresh", "offer"}
  PROVE  Typed(task')
<1>1. task[t] \in TaskState /\ Chosen(task[t])
  BY DEF TypeInv, TypeOK
<1>2. [task[t] EXCEPT !.pc = pc] \in TaskState
  BY <1>1, PcsKnown DEF TaskState
<1>3. Placed([task[t] EXCEPT !.pc = pc])
  BY <1>1 DEF Placed, Chosen, TaskState
<1> QED
  BY <1>2, <1>3, OneTask DEF Goto

(* So does an activation that gives up. *)
LEMMA AbandonType ==
  ASSUME TypeInv, NEW t \in Tasks, "stop" \in PcsOf(task[t].op), Abandon(t)
  PROVE  Typed(task')
<1> DEFINE r == [task[t] EXCEPT !.pc = "stop", !.todo = Apps]
<1>1. task[t] \in TaskState /\ Chosen(task[t]) /\ task \in [Tasks -> TaskState]
  BY DEF TypeInv, TypeOK
<1>2. r \in TaskState /\ Placed(r)
  BY <1>1, PcsKnown DEF TaskState, Placed, Chosen
<1>3. task' = [task EXCEPT ![t] = r]
  BY <1>1 DEF Abandon
<1> QED
  BY <1>2, <1>3, OneTask

(* A handler that returns leaves the tasks well typed. *)
LEMMA ReturnType ==
  ASSUME TypeInv, NEW t \in Tasks, Return(t) PROVE Typed(task')
  BY IdleType, OneTask DEF Return

(* A new call's record, and when calls stay counted. *)
LEMMA CallType ==
  ASSUME TypeInv, NEW t \in Tasks, MayCall(t)
  PROVE  calls' \in 0 .. MaxCalls /\ task[t] = Idle
  BY GenerationAssumption DEF MayCall, TypeInv, TypeOK

-----------------------------------------------------------------------------
(* TypeInv is inductive.                                                   *)

(* The host starts well typed. *)
LEMMA TypeInit == Init => TypeInv
<1> SUFFICES ASSUME Init PROVE TypeInv
  OBVIOUS
<1> DEFINE newest == CHOOSE g \in Built : \A h \in Built : h <= g
<1>1. newest \in Gens
  BY GenerationAssumption
<1>2. /\ current \in Pointers /\ links \in Links /\ dirs \in Dirs
  BY <1>1 DEF Init, Pointers, Links, Dirs, Some
<1>3. task \in [Tasks -> TaskState] /\ \A t \in Tasks : Placed(task[t])
  BY IdleType DEF Init
<1>4. calls \in 0 .. MaxCalls
  BY GenerationAssumption DEF Init
<1> QED
  BY <1>2, <1>3, <1>4, EmptyType DEF Init, TypeInv, TypeOK, Placed, Some

(* What is left to show of a step is the type of what it changes. *)
LEMMA TypeParts ==
  ASSUME Typed(task'), calls' \in 0 .. MaxCalls,
         disk' \in Manifest, shell' \in Manifest, mutex' \in Some(Tasks),
         pool' \subseteq Instances, mirror' \subseteq Instances,
         dirs' \in Dirs, current' \in Pointers, links' \in Links,
         job' \in Kinds \union {"none"}, preview' \in Some([view : ViewState, apps : SUBSET Apps])
  PROVE  TypeInv'
  BY DEF TypeInv, TypeOK, Typed, Placed

(* A step that changes no shared structure leaves their types. *)
LEMMA TypeQuiet ==
  ASSUME TypeInv, Typed(task'), calls' \in 0 .. MaxCalls,
         UNCHANGED <<disk, shell, mutex, children, builds, job, preview>>
  PROVE  TypeInv'
  BY TypeParts DEF TypeInv, TypeOK, builds, children

(* A request leaves the types. *)
LEMMA TypeAsks == \A t \in Tasks : TypeInv /\ Asks(t) => TypeInv'
<1> SUFFICES ASSUME NEW t \in Tasks, TypeInv, Asks(t) PROVE TypeInv'
  OBVIOUS
<1>1. Idle \in TaskState /\ shell \in Manifest
  BY IdleType DEF TypeInv, TypeOK
<1>2. ASSUME NEW op \in {"activate", "rollback"}, NEW g \in Gens, AskSwitch(t, op, g)
      PROVE  TypeInv'
  <2> DEFINE r == [Idle EXCEPT !.op = op, !.pc = "begin", !.gen = g]
  <2>1. op \in Ops /\ "begin" \in PcsOf(op)
    BY <1>2 DEF Ops, Kinds, PcsOf
  <2>2. r \in TaskState /\ Placed(r)
    BY <1>1, <2>1, PcsKnown DEF TaskState, Placed, Chosen, Some
  <2> QED
    BY <1>2, <2>2, OneTask, CallType, TypeQuiet DEF AskSwitch
<1>3. ASSUME NEW apps \in SUBSET Apps, AskPreview(t, apps) PROVE TypeInv'
  <2> DEFINE r == [Idle EXCEPT !.op = "preview", !.pc = "offer", !.todo = apps, !.view = View]
  <2>1. "preview" \in Ops /\ "offer" \in PcsOf("preview")
    BY DEF Ops, PcsOf
  <2>2. View \in ViewState
    BY ViewType DEF TypeInv
  <2>3. r \in TaskState /\ Placed(r)
    BY <1>1, <2>1, <2>2, PcsKnown DEF TaskState, Placed, Chosen, Some
  <2> QED
    BY <1>3, <2>3, OneTask, CallType, TypeQuiet DEF AskPreview
<1>4. CASE AskCleanup(t)
  <2> DEFINE r == [Idle EXCEPT !.op = "cleanup", !.pc = "begin", !.todo = preview.apps, !.seen = shell]
  <2>1. "cleanup" \in Ops /\ "begin" \in PcsOf("cleanup")
    BY DEF Ops, Kinds, PcsOf
  <2>2. preview.apps \in SUBSET Apps
    BY <1>4 DEF AskCleanup, TypeInv, TypeOK, Some
  <2>3. r \in TaskState /\ Placed(r)
    BY <1>1, <2>1, <2>2, PcsKnown DEF TaskState, Placed, Chosen, Some
  <2> QED
    BY <1>4, <2>3, OneTask, CallType, TypeQuiet DEF AskCleanup
<1>5. ASSUME NEW i \in Instances, SwitchBegin(t, i) PROVE TypeInv'
  <2> DEFINE r == [Idle EXCEPT !.op = "switch", !.pc = "cutover", !.gen = i[2],
                     !.todo = {i[1]}, !.seen = shell]
  <2>1. "switch" \in Ops /\ "cutover" \in PcsOf("switch")
    BY DEF Ops, PcsOf
  <2>2. i[1] \in Apps /\ i[2] \in Gens
    BY DEF Instances
  <2>3. r \in TaskState /\ Placed(r)
    BY <1>1, <2>1, <2>2, PcsKnown DEF TaskState, Placed, Chosen, Some
  <2> QED
    BY <1>5, <2>3, OneTask, CallType, TypeQuiet DEF SwitchBegin
<1>6. ASSUME NEW a \in Apps, Prebuild(t, a) PROVE TypeInv'
  <2> DEFINE r == [Idle EXCEPT !.op = "prebuild", !.pc = "building", !.todo = {a}]
  <2>1. "prebuild" \in Ops /\ "building" \in PcsOf("prebuild")
    BY DEF Ops, PcsOf
  <2>2. r \in TaskState /\ Placed(r)
    BY <1>1, <2>1, PcsKnown DEF TaskState, Placed, Chosen, Some
  <2>3. Typed(task') /\ calls' \in 0 .. MaxCalls
    BY <1>6, <2>2, OneTask, CallType DEF Prebuild
  <2>4. dirs' \in Dirs /\ current' \in Pointers /\ links' \in Links
    BY <1>6, TodayIsOne DEF Prebuild, TypeInv, TypeOK, Dirs, Pointers, Links, Some
  <2> QED
    BY <1>6, <2>3, <2>4, TypeParts DEF Prebuild, children, TypeInv, TypeOK
<1> QED
  BY <1>2, <1>3, <1>4, <1>5, <1>6 DEF Asks

(* What the records of a handler that runs hold. *)
LEMMA TaskFacts ==
  ASSUME TypeInv, NEW t \in Tasks
  PROVE  /\ task[t] \in TaskState /\ task[t].op \in Ops /\ task[t].pc \in PcsOf(task[t].op)
         /\ Chosen(task[t])
         /\ task[t].seen \in Manifest /\ task[t].next \in Manifest
         /\ task[t].todo \in SUBSET Apps /\ task[t].done \in SUBSET Apps
         /\ calls \in 0 .. MaxCalls
  BY DEF TypeInv, TypeOK, TaskState

(* A job that goes on to another of its steps and changes no shared        *)
(* structure leaves the types.                                             *)
LEMMA TypeMoves ==
  ASSUME TypeInv, NEW t \in Tasks, NEW pc \in PcsOf(task[t].op), Goto(t, pc),
         pc \notin {"ready", "rollWrite", "refresh", "offer"},
         UNCHANGED <<disk, shell, mutex, children, builds, job, preview, calls>>
  PROVE  TypeInv'
  BY GotoType, TypeQuiet, TaskFacts

(* The steps of a request that takes, or does not get, the job slot.       *)
LEMMA TypeSlot ==
  ASSUME TypeInv, NEW t \in Tasks
  PROVE  Offer(t) \/ BeginJob(t) \/ BeginRefused(t) \/ Finish(t) => TypeInv'
<1>1. CASE Offer(t)
  <2>1. preview' \in Some([view : ViewState, apps : SUBSET Apps])
    BY <1>1, TaskFacts DEF Offer, At, Chosen, Some
  <2>2. Typed(task')
    BY <1>1, ReturnType DEF Offer
  <2> QED
    BY <1>1, <2>1, <2>2, TypeParts DEF Offer, builds, children, TypeInv, TypeOK
<1>2. CASE BeginJob(t)
  <2>1. task[t].op \in Kinds
    BY <1>2, TaskFacts, PcFacts DEF BeginJob, At
  <2>2. First(task[t].op) \in PcsOf(task[t].op) \ {"ready", "rollWrite", "refresh", "offer"}
    BY <2>1 DEF Kinds, First, PcsOf
  <2> DEFINE r == [task[t] EXCEPT !.pc = First(task[t].op),
                     !.todo = IF task[t].op = "rollback" THEN Apps ELSE @]
  <2>3. r \in TaskState /\ Placed(r)
    BY <2>2, TaskFacts, PcsKnown DEF TaskState, Placed, Chosen
  <2>4. task' = [task EXCEPT ![t] = r]
    BY <1>2 DEF BeginJob, TypeInv, TypeOK
  <2>5. Typed(task')
    BY <2>3, <2>4, OneTask
  <2>6. job' \in Kinds \union {"none"} /\ preview' \in Some([view : ViewState, apps : SUBSET Apps])
    BY <1>2, <2>1 DEF BeginJob, TypeInv, TypeOK, Some
  <2> QED
    BY <1>2, <2>5, <2>6, TypeParts DEF BeginJob, builds, children, TypeInv, TypeOK
<1>3. CASE BeginRefused(t)
  BY <1>3, ReturnType, TypeQuiet, TaskFacts DEF BeginRefused
<1>4. CASE Finish(t)
  <2>1. Typed(task')
    BY <1>4, ReturnType DEF Finish
  <2> QED
    BY <1>4, <2>1, TypeParts DEF Finish, builds, children, TypeInv, TypeOK
<1> QED
  BY <1>1, <1>2, <1>3, <1>4

(* The steps of an activation up to its first cutover. *)
LEMMA TypeActivate ==
  ASSUME TypeInv, NEW t \in Tasks
  PROVE  Validate(t) \/ Write(t) \/ WriteFails(t) \/ Install(t) \/ Launched(t)
           \/ LaunchedPending(t) \/ CandidatesStopped(t) \/ Activated(t) => TypeInv'
<1>1. TypeOK /\ task[t] \in TaskState
  BY DEF TypeInv, TypeOK
<1>2. ASSUME At(t, "validate") \/ At(t, "write") \/ At(t, "install") \/ At(t, "launch")
               \/ At(t, "links") \/ At(t, "stop") \/ At(t, "stopAgain")
      PROVE  /\ task[t].op = "activate" /\ task[t].gen \in Gens
             /\ {"write", "install", "launch", "cutover", "stop", "stopAgain", "finish"}
                  \subseteq PcsOf(task[t].op)
  <2>1. task[t].op = "activate"
    BY <1>2, TaskFacts, PcFacts DEF At
  <2> QED
    BY <2>1, TaskFacts DEF Chosen, PcsOf
<1>3. CASE Validate(t)
  <2> DEFINE g == task[t].gen
             r == IF Validates(g)
                    THEN [task[t] EXCEPT !.pc = "write", !.was = Common(current),
                                         !.next = RegisterGeneration(disk, g)]
                    ELSE [task[t] EXCEPT !.pc = "finish"]
  <2>1. RegisterGeneration(disk, g) \in Manifest /\ Common(current) \in Some(Gens)
    BY <1>1, <1>2, <1>3, RegisterType, CommonType DEF Validate, TypeOK
  <2>2. r \in TaskState /\ Placed(r)
    BY <1>2, <1>3, <2>1, TaskFacts, PcsKnown DEF Validate, TaskState, Placed, Chosen
  <2>3. task' = [task EXCEPT ![t] = r]
    BY <1>1, <1>3 DEF Validate, TypeOK
  <2> QED
    BY <1>3, <2>2, <2>3, OneTask, TypeQuiet, TaskFacts DEF Validate
<1>4. CASE Write(t)
  <2>1. Typed(task')
    BY <1>2, <1>4, GotoType DEF Write
  <2> QED
    BY <1>1, <1>4, <2>1, TypeParts, TaskFacts DEF Write, builds, children, TypeOK
<1>5. CASE WriteFails(t)
  BY <1>2, <1>5, TypeMoves DEF WriteFails
<1>6. CASE Install(t)
  <2> DEFINE r == [task[t] EXCEPT !.pc = "launch", !.seen = task[t].next, !.todo = Apps]
  <2>1. r \in TaskState /\ Placed(r)
    BY <1>2, <1>6, TaskFacts, PcsKnown DEF Install, TaskState, Placed, Chosen
  <2>2. task' = [task EXCEPT ![t] = r]
    BY <1>1, <1>6 DEF Install, TypeOK
  <2>3. Typed(task')
    BY <2>1, <2>2, OneTask
  <2> QED
    BY <1>1, <1>6, <2>3, TypeParts, TaskFacts DEF Install, builds, children, TypeOK
<1>7. CASE Launched(t)
  <2> DEFINE r == [task[t] EXCEPT !.pc = "cutover", !.todo = Apps]
  <2>1. r \in TaskState /\ Placed(r)
    BY <1>2, <1>7, TaskFacts, PcsKnown DEF Launched, TaskState, Placed, Chosen
  <2>2. task' = [task EXCEPT ![t] = r]
    BY <1>1, <1>7 DEF Launched, TypeOK
  <2>3. Typed(task')
    BY <2>1, <2>2, OneTask
  <2> QED
    BY <1>1, <1>7, <2>3, TypeParts DEF Launched, builds, TypeOK
<1>8. CASE LaunchedPending(t)
  <2>1. Typed(task')
    BY <1>2, <1>8, GotoType DEF LaunchedPending
  <2>2. mirror' \subseteq Instances
    BY <1>1, <1>2, <1>8 DEF LaunchedPending, TypeOK, Instances
  <2> QED
    BY <1>1, <1>8, <2>1, <2>2, TypeParts DEF LaunchedPending, builds, TypeOK
<1>10. CASE CandidatesStopped(t)
  <2> DEFINE r == IF At(t, "stop") THEN [task[t] EXCEPT !.pc = "stopAgain", !.todo = Apps]
                                   ELSE [task[t] EXCEPT !.pc = "finish"]
  <2>1. r \in TaskState /\ Placed(r)
    BY <1>2, <1>10, TaskFacts, PcsKnown DEF CandidatesStopped, At, TaskState, Placed, Chosen
  <2>2. task' = [task EXCEPT ![t] = r]
    BY <1>1, <1>10 DEF CandidatesStopped, TypeOK
  <2>3. Typed(task')
    BY <2>1, <2>2, OneTask
  <2> QED
    BY <1>1, <1>10, <2>3, TypeParts DEF CandidatesStopped, builds, TypeOK
<1>9. CASE Activated(t)
  <2>1. Typed(task')
    BY <1>2, <1>9, GotoType DEF Activated
  <2>2. dirs' \in Dirs /\ current' \in Pointers
    BY <1>1, <1>2, <1>9, WithDirsType DEF Activated, Attach, TypeOK, Pointers, Some
  <2>3. links' \in Links
    BY <1>1, <1>9 DEF Activated, NotCandidate, TypeOK, TaskState, Links, Some
  <2> QED
    BY <1>1, <1>9, <2>1, <2>2, <2>3, TypeParts DEF Activated, children, TypeOK
<1> QED
  BY <1>3, <1>4, <1>5, <1>6, <1>7, <1>8, <1>9, <1>10

(* The steps of an activation and a cleanup that take one app. *)
LEMMA TypeOneApp ==
  ASSUME TypeInv, NEW t \in Tasks, NEW a \in Apps
  PROVE  Launch(t, a) \/ LaunchFails(t, a) \/ StopCandidate(t, a) \/ Remove(t, a) => TypeInv'
<1>1. TypeOK /\ task[t] \in TaskState
  BY DEF TypeInv, TypeOK
<1> DEFINE r == [task[t] EXCEPT !.todo = @ \ {a}]
<1>2. r \in TaskState /\ Placed(r)
  BY TaskFacts DEF TaskState, Placed, Chosen
<1>3. CASE Launch(t, a)
  <2>1. task' = [task EXCEPT ![t] = r]
    BY <1>1, <1>3 DEF Launch, TypeOK
  <2>2. <<a, task[t].gen>> \in Instances
    BY <1>3, TaskFacts, PcFacts, InstanceOf DEF Launch, At, Chosen
  <2>3. Typed(task')
    BY <1>2, <2>1, OneTask
  <2> QED
    BY <1>1, <1>3, <2>2, <2>3, TypeParts DEF Launch, builds, children, TypeOK
<1>4. CASE LaunchFails(t, a)
  <2>1. "stop" \in PcsOf(task[t].op)
    BY <1>4, TaskFacts, PcFacts DEF LaunchFails, At, PcsOf
  <2>2. Typed(task')
    BY <1>4, <2>1, AbandonType DEF LaunchFails
  <2> QED
    BY <1>1, <1>4, <2>2, TypeParts DEF LaunchFails, builds, TypeOK
<1>6. CASE StopCandidate(t, a)
  <2>1. task' = [task EXCEPT ![t] = r]
    BY <1>1, <1>6 DEF StopCandidate, TypeOK
  <2>2. Typed(task')
    BY <1>2, <2>1, OneTask
  <2> QED
    BY <1>1, <1>6, <2>2, TypeParts DEF StopCandidate, builds, TypeOK
<1>5. CASE Remove(t, a)
  <2>1. task' = [task EXCEPT ![t] = r]
    BY <1>1, <1>5 DEF Remove, TypeOK
  <2>2. Typed(task')
    BY <1>2, <2>1, OneTask
  <2>3. dirs' \in Dirs
    BY <1>1, <1>5 DEF Remove, TypeOK, Dirs
  <2> QED
    BY <1>1, <1>5, <2>2, <2>3, TypeParts DEF Remove, children, TypeOK
<1> QED
  BY <1>3, <1>4, <1>5, <1>6

(* The steps of a cutover. *)
LEMMA TypeCutover ==
  ASSUME TypeInv, NEW t \in Tasks
  PROVE  (\E a \in Apps : Cutover(t, a)) \/ CutoverFails(t) \/ CutoverInstall(t) => TypeInv'
<1>1. TypeOK /\ task[t] \in TaskState
  BY DEF TypeInv, TypeOK
<1>2. ASSUME NEW a \in Apps, Cutover(t, a) PROVE TypeInv'
  <2> DEFINE i == <<a, task[t].gen>>
             r == [task[t] EXCEPT !.next = CutoverRoute(shell, a, i),
                     !.pc = "installCutover", !.todo = @ \ {a}]
  <2>1. task[t].op \in {"activate", "switch"} /\ task[t].gen \in Gens
    BY <1>2, TaskFacts, PcFacts DEF Cutover, At, Chosen
  <2>2. i \in Instances /\ CutoverRoute(shell, a, i) \in Manifest
    BY <1>1, <2>1, InstanceOf, CutoverType DEF TypeOK
  <2>3. "installCutover" \in PcsOf(task[t].op)
    BY <2>1 DEF PcsOf
  <2>4. r \in TaskState /\ Placed(r)
    BY <2>2, <2>3, TaskFacts, PcsKnown DEF TaskState, Placed, Chosen
  <2>5. task' = [task EXCEPT ![t] = r]
    BY <1>1, <1>2 DEF Cutover, TypeOK
  <2>6. Typed(task')
    BY <2>4, <2>5, OneTask
  <2>7. dirs' \in Dirs /\ current' \in Pointers
    BY <1>1, <1>2, <2>1, WithDirsType DEF Cutover, Attach, TypeOK, Pointers, Some
  <2> QED
    BY <1>1, <1>2, <2>2, <2>6, <2>7, TypeParts DEF Cutover, children, TypeOK, Some
<1>3. CASE CutoverFails(t)
  <2>1. task[t].op \in {"activate", "switch"}
    BY <1>3, TaskFacts, PcFacts DEF CutoverFails, At
  <2>2. task[t].op = "activate" => "stop" \in PcsOf(task[t].op)
    BY DEF PcsOf
  <2>3. Typed(task')
    BY <1>3, <2>1, <2>2, AbandonType, ReturnType DEF CutoverFails
  <2> QED
    BY <1>3, <2>3, TypeQuiet, TaskFacts DEF CutoverFails
<1>4. CASE CutoverInstall(t)
  <2> DEFINE r == [task[t] EXCEPT !.seen = task[t].next, !.pc = After(task[t])]
  <2>1. task[t].op \in {"activate", "switch", "rollback"}
    BY <1>4, TaskFacts, PcFacts DEF CutoverInstall, At
  <2>2. After(task[t]) # "idle" =>
          After(task[t]) \in PcsOf(task[t].op) /\ After(task[t]) \in {"cutover", "links", "roll"}
    BY <2>1 DEF After, PcsOf
  <2>3. After(task[t]) # "idle" => r \in TaskState /\ Placed(r)
    BY <2>2, TaskFacts, PcsKnown DEF TaskState, Placed, Chosen
  <2>4. After(task[t]) # "idle" => task' = [task EXCEPT ![t] = r]
    BY <1>1, <1>4 DEF CutoverInstall, TypeOK
  <2>5. Typed(task')
    BY <1>4, <2>3, <2>4, OneTask, ReturnType DEF CutoverInstall
  <2> QED
    BY <1>1, <1>4, <2>5, TypeParts, TaskFacts DEF CutoverInstall, builds, children, TypeOK, Some
<1> QED
  BY <1>2, <1>3, <1>4

(* The steps of a rollback before the legacy switch. *)
LEMMA TypeRoll ==
  ASSUME TypeInv, NEW t \in Tasks
  PROVE  (\E a \in Apps : RollSkip(t, a) \/ RollBegin(t, a)) \/ RollReady(t) \/ RollNotReady(t)
           \/ RollWrite(t) \/ RollWriteFails(t) \/ RollEnd(t) => TypeInv'
<1>1. TypeOK /\ task[t] \in TaskState
  BY DEF TypeInv, TypeOK
<1>2. ASSUME At(t, "roll") \/ At(t, "ready") \/ At(t, "rollWrite")
      PROVE  /\ {"roll", "ready", "rollWrite", "installCutover", "legacy", "finish"}
                  \subseteq PcsOf(task[t].op)
  BY <1>2, TaskFacts, PcFacts DEF At, PcsOf
<1>3. ASSUME NEW a \in Apps, RollSkip(t, a) PROVE TypeInv'
  <2> DEFINE r == [task[t] EXCEPT !.todo = @ \ {a}]
  <2>1. r \in TaskState /\ Placed(r)
    BY TaskFacts DEF TaskState, Placed, Chosen
  <2>2. task' = [task EXCEPT ![t] = r]
    BY <1>1, <1>3 DEF RollSkip, TypeOK
  <2> QED
    BY <1>3, <2>1, <2>2, OneTask, TypeQuiet, TaskFacts DEF RollSkip
<1>4. ASSUME NEW a \in Apps, RollBegin(t, a) PROVE TypeInv'
  <2> DEFINE r == [task[t] EXCEPT !.pc = "ready", !.todo = @ \ {a},
                     !.inst = disk.routes[a].previous, !.seen = disk]
  <2>1. disk.routes[a].previous \in Instances
    BY <1>1, <1>4 DEF RollBegin, TypeOK, Manifest, RouteBinding
  <2>2. r \in TaskState /\ Placed(r)
    BY <1>1, <1>2, <1>4, <2>1, TaskFacts, PcsKnown
      DEF RollBegin, TypeOK, TaskState, Placed, Chosen, Some
  <2>3. task' = [task EXCEPT ![t] = r]
    BY <1>1, <1>4 DEF RollBegin, TypeOK
  <2>4. Typed(task')
    BY <2>2, <2>3, OneTask
  <2> QED
    BY <1>1, <1>4, <2>4, TypeParts DEF RollBegin, builds, children, TypeOK, Some
<1>5. CASE RollReady(t)
  <2>1. task[t].inst \in Instances
    BY <1>5, TaskFacts DEF RollReady, At, Chosen
  <2> DEFINE r == [task[t] EXCEPT !.pc = "rollWrite"]
  <2>2. r \in TaskState /\ Placed(r)
    BY <1>2, <1>5, <2>1, TaskFacts, PcsKnown DEF RollReady, TaskState, Placed, Chosen
  <2>3. Typed(task')
    BY <1>5, <2>2, OneTask DEF RollReady, Goto
  <2> QED
    BY <1>1, <1>5, <2>1, <2>3, TypeParts DEF RollReady, builds, children, TypeOK
<1>6. CASE RollNotReady(t)
  <2>1. Typed(task')
    BY <1>2, <1>6, GotoType DEF RollNotReady
  <2> QED
    BY <1>1, <1>6, <2>1, TypeParts DEF RollNotReady, builds, children, TypeOK, Some
<1>7. CASE RollWrite(t)
  <2> DEFINE i == task[t].inst
             r == [task[t] EXCEPT !.next = CutoverRoute(disk, i[1], i), !.pc = "installCutover",
                     !.done = IF i[2] = task[t].gen THEN @ \union {i[1]} ELSE @]
  <2>1. i \in Instances /\ i[1] \in Apps /\ i[2] \in Gens
    BY <1>7, TaskFacts DEF RollWrite, At, Chosen, Instances
  <2>2. CutoverRoute(disk, i[1], i) \in Manifest
    BY <1>1, <2>1, CutoverType DEF TypeOK
  <2>3. r \in TaskState /\ Placed(r)
    BY <1>2, <1>7, <2>1, <2>2, TaskFacts, PcsKnown DEF RollWrite, TaskState, Placed, Chosen
  <2>4. task' = [task EXCEPT ![t] = r]
    BY <1>1, <1>7 DEF RollWrite, TypeOK
  <2>5. Typed(task')
    BY <2>3, <2>4, OneTask
  <2>6. dirs' \in Dirs /\ current' \in Pointers
    BY <1>1, <1>7, <2>1, WithDirsType DEF RollWrite, Attach, TypeOK, Pointers, Some
  <2> QED
    BY <1>1, <1>7, <2>2, <2>5, <2>6, TypeParts DEF RollWrite, children, TypeOK
<1>8. CASE RollWriteFails(t)
  <2>1. Typed(task')
    BY <1>2, <1>8, GotoType DEF RollWriteFails
  <2> QED
    BY <1>1, <1>8, <2>1, TypeParts DEF RollWriteFails, builds, children, TypeOK, Some
<1>9. CASE RollEnd(t)
  BY <1>2, <1>9, TypeMoves DEF RollEnd
<1> QED
  BY <1>3, <1>4, <1>5, <1>6, <1>7, <1>8, <1>9

(* The steps of the legacy switch. *)
LEMMA TypeLegacy ==
  ASSUME TypeInv, NEW t \in Tasks
  PROVE  LegacySwitch(t) \/ LegacyDone(t) \/ LegacyRestore(t) => TypeInv'
<1>1. TypeOK /\ task[t] \in TaskState
  BY DEF TypeInv, TypeOK
<1>2. ASSUME At(t, "legacy") \/ At(t, "refresh")
      PROVE  /\ task[t].gen \in Gens /\ {"refresh", "finish"} \subseteq PcsOf(task[t].op)
  <2>1. task[t].op = "rollback"
    BY <1>2, TaskFacts, PcFacts DEF At
  <2> QED
    BY <2>1, TaskFacts DEF Chosen, PcsOf
<1>3. CASE LegacySwitch(t)
  <2> DEFINE r == [task[t] EXCEPT !.pc = "refresh", !.old = [current |-> current, links |-> links]]
  <2>1. CASE Coherent(task[t].gen) /\ links.previous = task[t].gen
    <3>1. r \in TaskState /\ Placed(r)
      BY <1>1, <1>2, <1>3, TaskFacts, PcsKnown
        DEF LegacySwitch, TypeOK, TaskState, Placed, Chosen, Some
    <3>2. task' = [task EXCEPT ![t] = r]
      BY <1>1, <1>3, <2>1 DEF LegacySwitch, TypeOK
    <3>3. Typed(task')
      BY <3>1, <3>2, OneTask
    <3>4. dirs' \in Dirs /\ current' \in Pointers
      BY <1>1, <1>2, <1>3, <2>1, WithDirsType DEF LegacySwitch, Attach, TypeOK, Pointers, Some
    <3> QED
      BY <1>1, <1>3, <3>3, <3>4, TypeParts DEF LegacySwitch, children, TypeOK
  <2>2. CASE ~ (Coherent(task[t].gen) /\ links.previous = task[t].gen)
    BY <1>2, <1>3, <2>2, TypeMoves DEF LegacySwitch, builds
  <2> QED
    BY <2>1, <2>2
<1>4. ASSUME At(t, "refresh")
      PROVE  task[t].old.current \in Pointers /\ task[t].old.links \in Links
  BY <1>4, TaskFacts DEF Chosen, At
<1>5. CASE LegacyDone(t)
  <2>1. Typed(task')
    BY <1>2, <1>5, GotoType DEF LegacyDone
  <2>2. links' \in Links
    BY <1>2, <1>4, <1>5, CommonType DEF LegacyDone, NotCandidate, Links, Some
  <2> QED
    BY <1>1, <1>5, <2>1, <2>2, TypeParts DEF LegacyDone, children, TypeOK
<1>6. CASE LegacyRestore(t)
  <2>1. Typed(task')
    BY <1>2, <1>6, GotoType DEF LegacyRestore
  <2>2. \A a \in Apps : task[t].old.current[a] # None => task[t].old.current[a] \in Gens
    BY <1>4, <1>6 DEF LegacyRestore, Pointers, Some
  <2>3. dirs' \in Dirs
    BY <1>1, <1>6, <2>2, WithDirsType DEF LegacyRestore, TypeOK, Dirs
  <2> QED
    BY <1>1, <1>4, <1>6, <2>1, <2>3, TypeParts DEF LegacyRestore, children, TypeOK
<1> QED
  BY <1>3, <1>5, <1>6

(* The steps of a cleanup and of a prebuild. *)
LEMMA TypeStore ==
  ASSUME TypeInv, NEW t \in Tasks
  PROVE  Keep(t) \/ Removed(t) \/ PrebuildFails(t) \/ Promote(t) => TypeInv'
<1>1. TypeOK /\ task[t] \in TaskState
  BY DEF TypeInv, TypeOK
<1>2. ASSUME At(t, "keep") \/ At(t, "remove")
      PROVE  {"remove", "finish"} \subseteq PcsOf(task[t].op)
  BY <1>2, TaskFacts, PcFacts DEF At, PcsOf
<1>3. CASE Keep(t)
  <2>1. PICK kept \in SUBSET Gens : task' = [task EXCEPT ![t].pc = "remove", ![t].keep = kept]
    BY <1>3 DEF Keep
  <2> DEFINE r == [task[t] EXCEPT !.pc = "remove", !.keep = kept]
  <2>2. r \in TaskState /\ Placed(r)
    BY <1>2, <1>3, TaskFacts, PcsKnown DEF Keep, TaskState, Placed, Chosen
  <2>3. task' = [task EXCEPT ![t] = r]
    BY <1>1, <2>1 DEF TypeOK
  <2> QED
    BY <1>3, <2>2, <2>3, OneTask, TypeQuiet, TaskFacts DEF Keep
<1>4. CASE Removed(t)
  BY <1>2, <1>4, TypeMoves DEF Removed
<1>5. CASE PrebuildFails(t)
  BY <1>5, ReturnType, TypeQuiet, TaskFacts DEF PrebuildFails
<1>6. CASE Promote(t)
  <2> DEFINE made == [a \in Apps |-> IF a \in task[t].todo
                        THEN [dirs[a] EXCEPT ![Today] = "built"] ELSE dirs[a]]
  <2>1. made \in Dirs
    BY <1>1, TodayIsOne DEF TypeOK, Dirs
  <2>2. WithDirs(made, Apps, Today) \in Dirs
    BY <2>1, TodayIsOne, WithDirsType
  <2>3. dirs' \in Dirs /\ current' \in Pointers
    BY <1>1, <1>6, <2>1, <2>2, TodayIsOne DEF Promote, TypeOK, Pointers, Some
  <2>4. links' \in Links
    BY <1>1, <1>6, TodayIsOne, GenerationAssumption DEF Promote, TypeOK, Pointers, Links, Some
  <2>5. Typed(task')
    BY <1>6, ReturnType DEF Promote
  <2> QED
    BY <1>1, <1>6, <2>3, <2>4, <2>5, TypeParts DEF Promote, children, TypeOK
<1> QED
  BY <1>3, <1>4, <1>5, <1>6

(* Every step preserves the types. *)
LEMMA TypeNext == TypeInv /\ [Next]_vars => TypeInv'
<1>1. TypeInv /\ UNCHANGED vars => TypeInv'
  BY DEF TypeInv, TypeOK, vars
<1>2. \A t \in Tasks : TypeInv /\ (Takes(t) \/ Goes(t) \/ CutoverFails(t)) => TypeInv'
  BY TypeSlot, TypeActivate, TypeOneApp, TypeCutover, TypeRoll, TypeLegacy, TypeStore
    DEF Takes, Goes
<1> QED
  BY <1>1, <1>2, TypeAsks DEF Next

(* Every reachable state of the jobs is well typed, and every handler is   *)
(* at a step of its own: what a step reads of its handler's record has     *)
(* been written by an earlier step.                                        *)
THEOREM GenerationTypeCorrect == Spec => []TypeOK
<1>1. TypeInv => TypeOK
  BY DEF TypeInv
<1> QED
  BY <1>1, TypeInit, TypeNext, PTL DEF Spec

-----------------------------------------------------------------------------
(* One job.                                                                *)

(* A step of one handler leaves the others where they are. *)
LEMMA OthersStay ==
  ASSUME TypeInv, NEW t \in Tasks, Asks(t) \/ Takes(t) \/ Goes(t) \/ CutoverFails(t)
  PROVE  \A u \in Tasks \ {t} : task'[u] = task[u]
<1>1. DOMAIN task = Tasks
  BY DEF TypeInv, TypeOK
<1>2. CASE Asks(t)
  BY <1>1, <1>2 DEF Asks, AskSwitch, AskPreview, AskCleanup, SwitchBegin, Prebuild
<1>3. CASE Takes(t) \/ CutoverFails(t)
  BY <1>1, <1>3 DEF Takes, Cutover, RollSkip, RollBegin, CutoverFails, Abandon, Return
<1>4. CASE Goes(t)
  BY <1>1, <1>4 DEF Goes, Offer, BeginJob, BeginRefused, Finish, Validate, Write, WriteFails,
       Install, Launched, LaunchedPending, CandidatesStopped, Activated, CutoverInstall, RollReady,
       RollNotReady, RollWrite, RollWriteFails, RollEnd, LegacySwitch, LegacyDone, LegacyRestore,
       Keep, Removed, PrebuildFails, Promote, Launch, LaunchFails, StopCandidate, Remove, Abandon,
       Goto, Return
<1> QED
  BY <1>2, <1>3, <1>4

(* A handler that runs a job, or a cutover, goes on with it. *)
Proceeds(t) ==
  task'[t].op = task[t].op /\ task[t].pc # "begin" /\ task'[t].pc # "begin"

(* So do the steps under the manifest lock ...                             *)
LEMMA TakesProceed ==
  ASSUME TypeInv, NEW t \in Tasks, NEW a \in Apps
  PROVE  Cutover(t, a) \/ RollSkip(t, a) \/ RollBegin(t, a) => Proceeds(t)
<1>1. task \in [Tasks -> TaskState]
  BY DEF TypeInv, TypeOK
<1>2. CASE Cutover(t, a)
  BY <1>1, <1>2 DEF Cutover, Proceeds, At, TaskState
<1>3. CASE RollSkip(t, a)
  BY <1>1, <1>3 DEF RollSkip, Proceeds, At, TaskState
<1>4. CASE RollBegin(t, a)
  BY <1>1, <1>4 DEF RollBegin, Proceeds, At, TaskState
<1> QED
  BY <1>2, <1>3, <1>4

(* ... those of an activation and of a cleanup ...                         *)
LEMMA JobProceeds ==
  ASSUME TypeInv, NEW t \in Tasks
  PROVE  Validate(t) \/ Write(t) \/ WriteFails(t) \/ Install(t) \/ Launched(t)
           \/ LaunchedPending(t) \/ CandidatesStopped(t) \/ Activated(t) \/ Keep(t) \/ Removed(t)
         => Proceeds(t) /\ job' = job
<1>1. task \in [Tasks -> TaskState]
  BY DEF TypeInv, TypeOK
<1>2. CASE Validate(t)
  BY <1>1, <1>2 DEF Validate, Proceeds, At, TaskState
<1>3. CASE Write(t) \/ WriteFails(t)
  BY <1>1, <1>3 DEF Write, WriteFails, Goto, Proceeds, At, TaskState
<1>4. CASE Install(t)
  BY <1>1, <1>4 DEF Install, Proceeds, At, TaskState
<1>5. CASE Launched(t)
  BY <1>1, <1>5 DEF Launched, Proceeds, At, TaskState
<1>6. CASE CandidatesStopped(t)
  BY <1>1, <1>6 DEF CandidatesStopped, Proceeds, At, TaskState
<1>7. CASE Activated(t) \/ Removed(t) \/ LaunchedPending(t)
  BY <1>1, <1>7 DEF Activated, Removed, LaunchedPending, Goto, Proceeds, At, TaskState
<1>8. CASE Keep(t)
  BY <1>1, <1>8 DEF Keep, Proceeds, At, TaskState
<1> QED
  BY <1>2, <1>3, <1>4, <1>5, <1>6, <1>7, <1>8

(* ... those that take one app ...                                         *)
LEMMA OneAppProceeds ==
  ASSUME TypeInv, NEW t \in Tasks, NEW a \in Apps
  PROVE  Launch(t, a) \/ LaunchFails(t, a) \/ StopCandidate(t, a) \/ Remove(t, a)
           => Proceeds(t) /\ job' = job
<1>1. task \in [Tasks -> TaskState]
  BY DEF TypeInv, TypeOK
<1>2. CASE Launch(t, a)
  BY <1>1, <1>2 DEF Launch, Proceeds, At, TaskState
<1>3. CASE LaunchFails(t, a)
  BY <1>1, <1>3 DEF LaunchFails, Abandon, Proceeds, At, TaskState
<1>4. CASE Remove(t, a)
  BY <1>1, <1>4 DEF Remove, Proceeds, At, TaskState
<1>5. CASE StopCandidate(t, a)
  BY <1>1, <1>5 DEF StopCandidate, Proceeds, At, TaskState
<1> QED
  BY <1>2, <1>3, <1>4, <1>5

(* ... and those of a rollback.                                            *)
LEMMA RollProceeds ==
  ASSUME TypeInv, NEW t \in Tasks
  PROVE  RollReady(t) \/ RollNotReady(t) \/ RollWrite(t) \/ RollWriteFails(t) \/ RollEnd(t)
           \/ LegacySwitch(t) \/ LegacyDone(t) \/ LegacyRestore(t)
         => Proceeds(t) /\ job' = job
<1>1. task \in [Tasks -> TaskState]
  BY DEF TypeInv, TypeOK
<1>2. CASE RollReady(t) \/ RollNotReady(t) \/ RollWriteFails(t) \/ RollEnd(t)
  BY <1>1, <1>2 DEF RollReady, RollNotReady, RollWriteFails, RollEnd, Goto, Proceeds, At, TaskState
<1>3. CASE RollWrite(t)
  BY <1>1, <1>3 DEF RollWrite, Proceeds, At, TaskState
<1>4. CASE LegacySwitch(t)
  BY <1>1, <1>4 DEF LegacySwitch, Goto, Proceeds, At, TaskState
<1>5. CASE LegacyDone(t) \/ LegacyRestore(t)
  BY <1>1, <1>5 DEF LegacyDone, LegacyRestore, Goto, Proceeds, At, TaskState
<1> QED
  BY <1>2, <1>3, <1>4, <1>5

(* Only the two steps at the slot change it, and no other step starts or   *)
(* ends a job.                                                             *)
LEMMA SlotSteps ==
  ASSUME TypeInv, NEW t \in Tasks, Asks(t) \/ Takes(t) \/ Goes(t) \/ CutoverFails(t)
  PROVE  \/ BeginJob(t) \/ Finish(t)
         \/ job' = job /\ (Runs(t)' <=> Runs(t)) /\ (Runs(t) => task'[t].op = task[t].op)
<1>1. /\ task \in [Tasks -> TaskState] /\ Idle.op = "none"
      /\ task[t].op \in Ops /\ task[t].pc \in PcsOf(task[t].op)
  BY IdleType, TaskFacts DEF TypeInv, TypeOK
<1>2. task[t].pc \in {"offer", "building"} => ~ Runs(t)
  BY <1>1, PcFacts DEF Runs, Kinds
<1>4. task[t].op = "switch" => ~ Runs(t)
  BY DEF Runs, Kinds
<1>5. CASE Asks(t)
  <2>1. ~ Runs(t)
    BY <1>1, <1>5 DEF Asks, AskSwitch, AskPreview, AskCleanup, SwitchBegin, Prebuild, MayCall,
                     Runs, Kinds
  <2>2. ~ Runs(t)'
    <3>1. CASE (\E op \in {"activate", "rollback"}, g \in Gens : AskSwitch(t, op, g)) \/ AskCleanup(t)
      <4>1. task'[t].pc = "begin"
        BY <1>1, <3>1, IdleType DEF AskSwitch, AskCleanup, TaskState
      <4> QED
        BY <4>1 DEF Runs, At
    <3>2. CASE (\E apps \in SUBSET Apps : AskPreview(t, apps)) \/ (\E i \in Instances : SwitchBegin(t, i))
               \/ (\E a \in Apps : Prebuild(t, a))
      <4>1. CASE \E apps \in SUBSET Apps : AskPreview(t, apps)
        BY <1>1, <4>1, IdleType DEF AskPreview, TaskState, Runs, Kinds
      <4>2. CASE \E i \in Instances : SwitchBegin(t, i)
        BY <1>1, <4>2, IdleType DEF SwitchBegin, TaskState, Runs, Kinds
      <4>3. CASE \E a \in Apps : Prebuild(t, a)
        BY <1>1, <4>3, IdleType DEF Prebuild, TaskState, Runs, Kinds
      <4> QED
        BY <3>2, <4>1, <4>2, <4>3
    <3> QED
      BY <1>5, <3>1, <3>2 DEF Asks
  <2>3. job' = job
    BY <1>5 DEF Asks, AskSwitch, AskPreview, AskCleanup, SwitchBegin, Prebuild
  <2> QED
    BY <2>1, <2>2, <2>3
<1>6. CASE Offer(t) \/ PrebuildFails(t) \/ Promote(t) \/ BeginRefused(t)
  <2>1. ~ Runs(t)
    BY <1>2, <1>6 DEF Offer, PrebuildFails, Promote, BeginRefused, Runs, At
  <2>2. task'[t].op = "none" /\ job' = job
    BY <1>1, <1>6 DEF Offer, PrebuildFails, Promote, BeginRefused, Return
  <2> QED
    BY <2>1, <2>2 DEF Runs, Kinds
<1>7. CASE Takes(t) \/ CutoverFails(t) \/ CutoverInstall(t)
  <2>1. job' = job
    BY <1>7 DEF Takes, Cutover, RollSkip, RollBegin, CutoverFails, CutoverInstall
  <2>2. CASE Return(t) /\ ~ Runs(t)
    BY <1>1, <2>1, <2>2 DEF Return, Runs, Kinds
  <2>3. CASE task'[t].op = task[t].op /\ task[t].pc # "begin" /\ task'[t].pc # "begin"
    BY <2>1, <2>3 DEF Runs, At
  <2>4. CASE Takes(t)
    <3>1. \A a \in Apps : Cutover(t, a) \/ RollSkip(t, a) \/ RollBegin(t, a) => Proceeds(t)
      BY TakesProceed
    <3>2. Proceeds(t)
      BY <2>4, <3>1 DEF Takes
    <3> QED
      BY <2>3, <3>2 DEF Proceeds
  <2>5. CASE CutoverFails(t)
    <3>1. CASE task[t].op = "switch"
      BY <1>4, <2>2, <2>5, <3>1 DEF CutoverFails
    <3>2. CASE task[t].op # "switch"
      BY <1>1, <2>3, <2>5, <3>2 DEF CutoverFails, Abandon, At, TaskState
    <3> QED
      BY <3>1, <3>2
  <2>6. CASE CutoverInstall(t)
    <3>1. task[t].op \in {"activate", "switch", "rollback"} /\ task[t].pc = "installCutover"
      BY <1>1, <2>6, PcFacts DEF CutoverInstall, At
    <3>2. CASE task[t].op = "switch"
      BY <1>4, <2>2, <2>6, <3>2 DEF CutoverInstall, After
    <3>3. CASE task[t].op # "switch"
      BY <1>1, <2>3, <2>6, <3>1, <3>3 DEF CutoverInstall, After, TaskState
    <3> QED
      BY <3>2, <3>3
  <2> QED
    BY <1>7, <2>4, <2>5, <2>6
<1>8. CASE Goes(t) /\ ~ (BeginJob(t) \/ Finish(t) \/ CutoverInstall(t) \/ Offer(t) \/ PrebuildFails(t)
                          \/ Promote(t) \/ BeginRefused(t))
  <2>1. Proceeds(t) /\ job' = job
    BY <1>8, JobProceeds, OneAppProceeds, RollProceeds DEF Goes
  <2> QED
    BY <2>1 DEF Proceeds, Runs, At
<1> QED
  BY <1>5, <1>6, <1>7, <1>8

(* OneJob is inductive: a job begins while no job runs, since the job that *)
(* runs is named by the slot, and the job that ends is the one it names.   *)
LEMMA OneJobNext == TypeInv /\ OneJob /\ [Next]_vars => OneJob'
<1> SUFFICES ASSUME TypeInv, OneJob, [Next]_vars PROVE OneJob'
  OBVIOUS
<1>1. CASE UNCHANGED vars
  BY <1>1 DEF OneJob, Runs, At, vars
<1>2. ASSUME NEW t \in Tasks, Asks(t) \/ Takes(t) \/ Goes(t) \/ CutoverFails(t) PROVE OneJob'
  <2>1. \A u \in Tasks \ {t} : task'[u] = task[u] /\ (Runs(u)' <=> Runs(u))
    BY <1>2, OthersStay DEF Runs, At
  <2>2. CASE BeginJob(t)
    <3>1. task[t].op \in Kinds /\ task'[t].op = task[t].op /\ job' = task[t].op
      BY <2>2, TaskFacts, PcFacts DEF BeginJob, At, TypeInv, TypeOK, TaskState
    <3>2. \A u \in Tasks : ~ Runs(u)
      BY <2>2 DEF BeginJob, SlotFree, OneJob, Runs, Kinds
    <3>3. task'[t].pc # "begin"
      BY <2>2, <3>1 DEF BeginJob, First, Kinds, TypeInv, TypeOK, TaskState
    <3>4. Runs(t)'
      BY <3>1, <3>3 DEF Runs, At
    <3> QED
      BY <2>1, <3>1, <3>2, <3>4 DEF OneJob
  <2>3. CASE Finish(t)
    <3>1. Runs(t)
      BY <2>3, TaskFacts, PcFacts DEF Finish, At, Runs
    <3>2. ~ Runs(t)' /\ job' = "none"
      BY <2>3, IdleType DEF Finish, Return, Runs, Kinds, TypeInv, TypeOK
    <3> QED
      BY <2>1, <3>1, <3>2 DEF OneJob
  <2>4. CASE job' = job /\ (Runs(t)' <=> Runs(t)) /\ (Runs(t) => task'[t].op = task[t].op)
    BY <2>1, <2>4 DEF OneJob
  <2> QED
    BY <1>2, <2>2, <2>3, <2>4, SlotSteps
<1> QED
  BY <1>1, <1>2 DEF Next

(* However many requests look at an empty slot before one takes it, one    *)
(* job runs at a time and the slot names it.                               *)
THEOREM OneJobAtATime == Spec => []OneJob
<1>1. Init => OneJob
  BY IdleType DEF Init, OneJob, Runs, Kinds
<1> QED
  BY <1>1, OneJobNext, TypeInit, TypeNext, PTL DEF Spec

-----------------------------------------------------------------------------
(* Activations.                                                            *)

(* An activation between its validation and its last cutover. *)
ActivePcs == {"write", "install", "launch", "cutover", "installCutover", "links"}
Activation(r) == r.op = "activate" /\ r.pc \in ActivePcs

(* The apps that are done with have been moved to the generation, in the   *)
(* manifest the next cutover expects or the one this cutover committed.    *)
MovedIn(m, r) == \A a \in Apps \ r.todo : m.routes[a].active = <<a, r.gen>>
Moved(r) ==
  r.op = "activate" =>
    /\ r.pc = "cutover" => MovedIn(r.seen, r)
    /\ r.pc = "installCutover" => MovedIn(r.next, r)

(* The steps after which a handler is in the middle of an activation. *)
LEMMA ActivationSteps ==
  ASSUME TypeInv, NEW t \in Tasks, Asks(t) \/ Takes(t) \/ Goes(t) \/ CutoverFails(t),
         Activation(task'[t])
  PROVE  Validate(t) \/ Write(t) \/ Install(t) \/ Launched(t) \/ LaunchedPending(t)
           \/ CutoverInstall(t) \/ \E a \in Apps : Launch(t, a) \/ Cutover(t, a)
<1>1. /\ task \in [Tasks -> TaskState] /\ Idle.op = "none" /\ Idle \in TaskState
      /\ task[t].op \in Ops /\ task[t].pc \in PcsOf(task[t].op)
  BY IdleType, TaskFacts DEF TypeInv, TypeOK
<1>2. ~ Return(t)
  BY <1>1 DEF Return, Activation
<1>3. task[t].pc \in {"roll", "ready", "rollWrite", "legacy", "refresh"} => ~ Proceeds(t)
  BY <1>1, PcFacts DEF Proceeds, Activation
<1>4. ASSUME Asks(t) PROVE FALSE
  <2>1. CASE (\E op \in {"activate", "rollback"}, g \in Gens : AskSwitch(t, op, g))
    BY <1>1, <2>1 DEF AskSwitch, Activation, ActivePcs, TaskState
  <2>2. CASE \E apps \in SUBSET Apps : AskPreview(t, apps)
    BY <1>1, <2>2 DEF AskPreview, Activation, ActivePcs, TaskState
  <2>3. CASE AskCleanup(t)
    BY <1>1, <2>3 DEF AskCleanup, Activation, ActivePcs, TaskState
  <2>4. CASE \E i \in Instances : SwitchBegin(t, i)
    BY <1>1, <2>4 DEF SwitchBegin, Activation, ActivePcs, TaskState
  <2>5. CASE \E a \in Apps : Prebuild(t, a)
    BY <1>1, <2>5 DEF Prebuild, Activation, ActivePcs, TaskState
  <2> QED
    BY <1>4, <2>1, <2>2, <2>3, <2>4, <2>5 DEF Asks
<1>5. ASSUME NEW a \in Apps, RollSkip(t, a) \/ RollBegin(t, a) PROVE FALSE
  BY <1>3, <1>5, TakesProceed DEF RollSkip, RollBegin, At
<1>6. ~ (Offer(t) \/ BeginRefused(t) \/ Finish(t) \/ PrebuildFails(t) \/ Promote(t))
  BY <1>2 DEF Offer, BeginRefused, Finish, PrebuildFails, Promote
<1>7. ~ BeginJob(t)
  BY <1>1 DEF BeginJob, First, Activation, ActivePcs, TaskState
<1>8. ~ (RollReady(t) \/ RollNotReady(t) \/ RollWrite(t) \/ RollWriteFails(t) \/ RollEnd(t)
         \/ LegacySwitch(t) \/ LegacyDone(t) \/ LegacyRestore(t))
  BY <1>3, RollProceeds DEF RollReady, RollNotReady, RollWrite, RollWriteFails, RollEnd,
       LegacySwitch, LegacyDone, LegacyRestore, At
<1>9. ~ (WriteFails(t) \/ CandidatesStopped(t) \/ Activated(t) \/ Keep(t) \/ Removed(t))
  <2>1. ~ (WriteFails(t) \/ CandidatesStopped(t) \/ Activated(t) \/ Removed(t))
    BY <1>1 DEF WriteFails, CandidatesStopped, Activated, Removed, Goto, Activation, ActivePcs,
                TaskState
  <2>2. ~ Keep(t)
    BY <1>1 DEF Keep, Activation, ActivePcs, TaskState
  <2> QED
    BY <2>1, <2>2
<1>10. ASSUME NEW a \in Apps, LaunchFails(t, a) \/ StopCandidate(t, a) \/ Remove(t, a)
       PROVE  FALSE
  <2>1. CASE LaunchFails(t, a)
    BY <1>1, <2>1 DEF LaunchFails, Abandon, Activation, ActivePcs, TaskState
  <2>3. CASE StopCandidate(t, a)
    BY <1>1, <2>3 DEF StopCandidate, Activation, ActivePcs, TaskState
  <2>2. CASE Remove(t, a)
    BY <1>1, <2>2, PcFacts, OneAppProceeds DEF Remove, At, Proceeds, Activation
  <2> QED
    BY <1>10, <2>1, <2>2, <2>3
<1>11. ~ CutoverFails(t)
  BY <1>1, <1>2 DEF CutoverFails, Abandon, Activation, ActivePcs, TaskState
<1> QED
  BY <1>4, <1>5, <1>6, <1>7, <1>8, <1>9, <1>10, <1>11 DEF Takes, Goes

(* The steps in the middle of an activation keep its generation, and it is *)
(* in the middle already, or it has just been validated.                   *)
LEMMA ActivationGoes ==
  ASSUME TypeInv, NEW t \in Tasks, Asks(t) \/ Takes(t) \/ Goes(t) \/ CutoverFails(t),
         Activation(task'[t])
  PROVE  /\ task'[t].gen = task[t].gen
         /\ Activation(task[t]) \/ (Validate(t) /\ Validates(task[t].gen))
<1>1. task \in [Tasks -> TaskState] /\ task[t].op \in Ops /\ task[t].pc \in PcsOf(task[t].op)
  BY TaskFacts DEF TypeInv, TypeOK
<1>2. CASE Validate(t)
  BY <1>1, <1>2 DEF Validate, Activation, ActivePcs, TaskState
<1>3. CASE Write(t) \/ Install(t) \/ Launched(t) \/ LaunchedPending(t)
  <2>1. Activation(task[t])
    BY <1>1, <1>3, PcFacts DEF Write, Install, Launched, LaunchedPending, At, Activation, ActivePcs
  <2>2. CASE Write(t)
    BY <1>1, <2>1, <2>2 DEF Write, Goto, TaskState
  <2>3. CASE Install(t)
    BY <1>1, <2>1, <2>3 DEF Install, TaskState
  <2>4. CASE Launched(t)
    BY <1>1, <2>1, <2>4 DEF Launched, TaskState
  <2>5. CASE LaunchedPending(t)
    BY <1>1, <2>1, <2>5 DEF LaunchedPending, Goto, TaskState
  <2> QED
    BY <1>3, <2>2, <2>3, <2>4, <2>5
<1>4. CASE CutoverInstall(t)
  <2>1. task[t].pc = "installCutover" /\ task'[t].op = "activate"
    BY <1>4 DEF CutoverInstall, At, Activation
  <2>2. task'[t].op = task[t].op /\ task'[t].gen = task[t].gen
    BY <1>1, <1>4, <2>1, IdleType DEF CutoverInstall, Return, TaskState
  <2> QED
    BY <2>1, <2>2 DEF Activation, ActivePcs
<1>5. ASSUME NEW a \in Apps, Launch(t, a)
      PROVE  task'[t].gen = task[t].gen /\ Activation(task[t])
  <2>1. task'[t].op = task[t].op /\ task'[t].gen = task[t].gen /\ task'[t].pc = task[t].pc
    BY <1>1, <1>5 DEF Launch, TaskState
  <2> QED
    BY <2>1 DEF Activation
<1>6. ASSUME NEW a \in Apps, Cutover(t, a)
      PROVE  task'[t].gen = task[t].gen /\ Activation(task[t])
  <2>1. task'[t].op = task[t].op /\ task'[t].gen = task[t].gen /\ task[t].pc = "cutover"
    BY <1>1, <1>6 DEF Cutover, At, TaskState
  <2> QED
    BY <2>1 DEF Activation, ActivePcs
<1> QED
  BY <1>2, <1>3, <1>4, <1>5, <1>6, ActivationSteps

(* A bundle stays, unless a cleanup removes it or it is today's and a      *)
(* prebuild wipes it.                                                      *)
LEMMA BundlesStay ==
  ASSUME TypeInv, NEW t \in Tasks, Asks(t) \/ Takes(t) \/ Goes(t) \/ CutoverFails(t),
         \A a \in Apps : ~ Remove(t, a),
         NEW b \in Apps, NEW h \in Gens \ {Today}, dirs[b][h] = "built"
  PROVE  dirs'[b][h] = "built"
<1>1. TypeOK /\ dirs \in Dirs
  BY DEF TypeInv, TypeOK
<1>2. ASSUME NEW apps, NEW g \in Gens, Attach(apps, g) PROVE dirs'[b][h] = "built"
  BY <1>1, <1>2, WithDirsType DEF Attach
<1>3. CASE Asks(t)
  <2>1. ASSUME NEW a \in Apps, Prebuild(t, a) PROVE dirs'[b][h] = "built"
    BY <1>1, <2>1 DEF Prebuild, Dirs
  <2> QED
    BY <1>3, <2>1 DEF Asks, AskSwitch, AskPreview, AskCleanup, SwitchBegin, builds
<1>4. CASE Takes(t) \/ CutoverFails(t)
  <2>1. ASSUME NEW a \in Apps, Cutover(t, a) PROVE dirs'[b][h] = "built"
    <3>1. task[t].gen \in Gens
      BY <2>1, TaskFacts, PcFacts DEF Cutover, At, Chosen
    <3> QED
      BY <1>2, <2>1, <3>1 DEF Cutover
  <2> QED
    BY <1>4, <2>1 DEF Takes, RollSkip, RollBegin, CutoverFails, builds
<1>5. CASE Activated(t)
  <2>1. task[t].gen \in Gens
    BY <1>5, TaskFacts, PcFacts DEF Activated, At, Chosen
  <2> QED
    BY <1>2, <1>5, <2>1 DEF Activated
<1>6. CASE RollWrite(t)
  <2>1. task[t].inst[2] \in Gens
    BY <1>6, TaskFacts DEF RollWrite, At, Chosen, Instances
  <2> QED
    BY <1>2, <1>6, <2>1 DEF RollWrite
<1>7. CASE LegacySwitch(t)
  <2>1. task[t].gen \in Gens
    BY <1>7, TaskFacts, PcFacts DEF LegacySwitch, At, Chosen
  <2> QED
    BY <1>2, <1>7, <2>1 DEF LegacySwitch
<1>8. CASE LegacyRestore(t)
  <2> DEFINE old == task[t].old.current
  <2>1. old \in Pointers
    BY <1>8, TaskFacts DEF LegacyRestore, At, Chosen
  <2>2. old[b] # None => old[b] \in Gens
    BY <2>1 DEF Pointers, Some
  <2>3. dirs'[b] = IF old[b] = None THEN dirs[b] ELSE WithDirs(dirs, {b}, old[b])[b]
    BY <1>8 DEF LegacyRestore
  <2> QED
    BY <1>1, <2>2, <2>3, WithDirsType
<1>9. CASE Promote(t)
  <2> DEFINE made == [a \in Apps |-> IF a \in task[t].todo
                        THEN [dirs[a] EXCEPT ![Today] = "built"] ELSE dirs[a]]
  <2>1. made \in Dirs /\ made[b][h] = "built"
    BY <1>1, TodayIsOne DEF Dirs
  <2> HIDE DEF made
  <2>2. WithDirs(made, Apps, Today)[b][h] = "built"
    BY <2>1, TodayIsOne, WithDirsType
  <2>3. dirs' = made \/ dirs' = WithDirs(made, Apps, Today)
    BY <1>9 DEF Promote, made
  <2> QED
    BY <2>1, <2>2, <2>3
<1>10. CASE Goes(t) /\ UNCHANGED dirs
  BY <1>10
<1>11. Goes(t) => \/ Activated(t) \/ RollWrite(t) \/ LegacySwitch(t) \/ LegacyRestore(t) \/ Promote(t)
                  \/ UNCHANGED dirs
  BY DEF Goes, Offer, BeginJob, BeginRefused, Finish, Validate, Write, WriteFails, Install,
       Launched, LaunchedPending, CandidatesStopped, CutoverInstall, RollReady, RollNotReady,
       RollWriteFails, RollEnd, LegacyDone, Keep, Removed, PrebuildFails, Launch, LaunchFails,
       StopCandidate, builds
<1> QED
  BY <1>3, <1>4, <1>5, <1>6, <1>7, <1>8, <1>9, <1>10, <1>11

(* ValidatedStays is inductive, given that one job runs at a time: a       *)
(* cleanup that removes directories is not beside an activation.           *)
LEMMA ValidatedNext == TypeInv /\ OneJob /\ ValidatedStays /\ [Next]_vars => ValidatedStays'
<1> SUFFICES ASSUME TypeInv, OneJob, ValidatedStays, [Next]_vars PROVE ValidatedStays'
  OBVIOUS
<1>1. CASE UNCHANGED vars
  BY <1>1 DEF ValidatedStays, Coherent, vars
<1>2. ASSUME NEW t \in Tasks, Asks(t) \/ Takes(t) \/ Goes(t) \/ CutoverFails(t),
             NEW u \in Tasks, Activation(task'[u]), task'[u].gen # Today
      PROVE  \A b \in Apps : dirs'[b][task'[u].gen] = "built"
  <2> DEFINE h == task[u].gen
  <2>1. /\ task'[u].gen = h
        /\ Activation(task[u]) \/ (u = t /\ Validate(t) /\ Validates(h))
    <3>1. CASE u = t
      BY <1>2, <3>1, ActivationGoes
    <3>2. CASE u # t
      BY <1>2, <3>2, OthersStay
    <3> QED
      BY <3>1, <3>2
  <2>2. h \in Gens /\ Coherent(h)
    <3>1. task[u].op = "activate"
      BY <2>1, TaskFacts, PcFacts DEF Activation, Validate, At
    <3>2. Activation(task[u]) => Coherent(h)
      BY <1>2, <2>1 DEF ValidatedStays, Activation, ActivePcs
    <3> QED
      BY <2>1, <3>1, <3>2, TaskFacts DEF Chosen, Validates
  <2>3. \A a \in Apps : ~ Remove(t, a)
    <3> SUFFICES ASSUME NEW a \in Apps, Remove(t, a) PROVE FALSE
      OBVIOUS
    <3>1. task[t].op = "cleanup" /\ Runs(t)
      BY TaskFacts, PcFacts DEF Remove, At, Runs, Kinds
    <3>2. ~ Validate(t)
      BY DEF Remove, Validate, At
    <3>3. Runs(u) /\ task[u].op = "activate"
      BY <2>1, <3>2 DEF Activation, ActivePcs, Runs, Kinds, At
    <3> QED
      BY <3>1, <3>3 DEF OneJob
  <2>4. \A b \in Apps : dirs'[b][h] = "built"
    <3> SUFFICES ASSUME NEW b \in Apps PROVE dirs'[b][h] = "built"
      OBVIOUS
    <3>1. dirs[b][h] = "built" /\ h \in Gens \ {Today}
      BY <1>2, <2>1, <2>2 DEF Coherent
    <3> HIDE DEF h
    <3> QED
      BY <1>2, <2>3, <3>1, BundlesStay
  <2> QED
    BY <2>1, <2>4
<1>3. CASE Next
  <2>1. \A u \in Tasks : Activation(task'[u]) /\ task'[u].gen # Today
          => \A b \in Apps : dirs'[b][task'[u].gen] = "built"
    BY <1>2, <1>3 DEF Next
  <2> QED
    BY <2>1 DEF ValidatedStays, Coherent, Activation, ActivePcs
<1> QED
  BY <1>1, <1>3

(* From its validation to its last cutover an activation of a generation   *)
(* other than today's has all its bundles, whatever cleanups, prebuilds,   *)
(* rollbacks and operators do.                                             *)
THEOREM ValidatedBundlesStay == Spec => []ValidatedStays
<1>1. Init => OneJob /\ ValidatedStays
  BY IdleType DEF Init, OneJob, ValidatedStays, Runs, Kinds
<1> QED
  BY <1>1, OneJobNext, ValidatedNext, TypeInit, TypeNext, PTL DEF Spec

(* Every app an activation is done with has been moved, in the manifest    *)
(* its next cutover expects.                                               *)
AllMoved == \A t \in Tasks : Moved(task[t])

(* AllMoved is inductive. *)
LEMMA MovedNext == TypeInv /\ AllMoved /\ [Next]_vars => AllMoved'
<1> SUFFICES ASSUME TypeInv, AllMoved, [Next]_vars PROVE AllMoved'
  OBVIOUS
<1>1. CASE UNCHANGED vars
  BY <1>1 DEF AllMoved, vars
<1>2. ASSUME NEW t \in Tasks, Asks(t) \/ Takes(t) \/ Goes(t) \/ CutoverFails(t)
      PROVE  Moved(task'[t])
  <2>1. task \in [Tasks -> TaskState] /\ task[t] \in TaskState /\ Moved(task[t]) /\ shell \in Manifest
    BY DEF TypeInv, TypeOK, AllMoved
  <2>2. CASE ~ Activation(task'[t])
    BY <2>2 DEF Moved, Activation, ActivePcs
  <2>3. CASE Validate(t)
    BY <2>1, <2>3 DEF Validate, Moved, TaskState
  <2>4. CASE Write(t) \/ Install(t)
    BY <2>1, <2>4 DEF Write, Install, Goto, Moved, TaskState
  <2>5. CASE Launched(t) \/ LaunchedPending(t)
    BY <2>1, <2>5 DEF Launched, LaunchedPending, Goto, Moved, MovedIn, TaskState
  <2>6. CASE CutoverInstall(t) /\ Activation(task'[t])
    <3>1. ~ Return(t)
      BY <2>1, <2>6, IdleType DEF Return, Activation
    <3>2. /\ task'[t].op = task[t].op /\ task'[t].gen = task[t].gen /\ task'[t].todo = task[t].todo
          /\ task'[t].seen = task[t].next /\ task[t].pc = "installCutover"
          /\ task'[t].pc = After(task[t])
      BY <2>1, <2>6, <3>1 DEF CutoverInstall, At, TaskState
    <3>3. After(task[t]) # "installCutover"
      BY DEF After
    <3> QED
      BY <2>1, <3>2, <3>3 DEF Moved, MovedIn
  <2>7. ASSUME NEW a \in Apps, Launch(t, a) PROVE Moved(task'[t])
    BY <2>1, <2>7 DEF Launch, At, Moved, TaskState
  <2>8. ASSUME NEW a \in Apps, Cutover(t, a), Activation(task'[t]) PROVE Moved(task'[t])
    <3> DEFINE i == <<a, task[t].gen>>
    <3>1. /\ task'[t].op = task[t].op /\ task'[t].gen = task[t].gen
          /\ task'[t].todo = task[t].todo \ {a} /\ task'[t].next = CutoverRoute(shell, a, i)
          /\ task[t].pc = "cutover" /\ task'[t].pc = "installCutover" /\ shell = task[t].seen
      BY <2>1, <2>8 DEF Cutover, Expects, At, TaskState
    <3>2. task[t].gen \in Gens /\ i \in Instances
      BY <2>8, <3>1, TaskFacts, InstanceOf DEF Chosen, Activation
    <3>3. /\ CutoverRoute(shell, a, i).routes[a].active = i
          /\ \A b \in Apps \ {a} : CutoverRoute(shell, a, i).routes[b] = shell.routes[b]
      BY <2>1, <3>2, CutoverActive
    <3>4. task[t].op = "activate" => MovedIn(shell, task[t])
      BY <2>1, <3>1 DEF Moved
    <3> QED
      BY <3>1, <3>3, <3>4 DEF Moved, MovedIn
  <2> QED
    BY <1>2, <2>2, <2>3, <2>4, <2>5, <2>6, <2>7, <2>8, ActivationSteps
<1>3. CASE Next
  <2>1. PICK t \in Tasks : Asks(t) \/ Takes(t) \/ Goes(t) \/ CutoverFails(t)
    BY <1>3 DEF Next
  <2> QED
    BY <1>2, <2>1, OthersStay DEF AllMoved
<1> QED
  BY <1>1, <1>3

(* When the last cutover of an activation is committed, the manifest on    *)
(* disk has every app at the generation: a commit of anybody else in       *)
(* between would have changed the revision the cutover expects.            *)
THEOREM SwitchesAreWhole == Spec => SwitchIsWhole
<1> DEFINE Whole == \A t \in Tasks :
       /\ task[t].op = "activate" /\ task[t].pc = "cutover"
       /\ task'[t].pc = "installCutover" /\ task'[t].todo = {}
       => \A a \in Apps : disk'.routes[a].active = <<a, task[t].gen>>
<1>1. Init => AllMoved
  BY IdleType DEF Init, AllMoved, Moved
<1>2. TypeInv /\ TypeInv' /\ AllMoved /\ AllMoved' /\ [Next]_vars => [Whole]_vars
  <2> SUFFICES ASSUME TypeInv, AllMoved, AllMoved', Next, NEW t \in Tasks,
                      task[t].op = "activate", task[t].pc = "cutover",
                      task'[t].pc = "installCutover", task'[t].todo = {}
               PROVE  \A a \in Apps : disk'.routes[a].active = <<a, task[t].gen>>
    OBVIOUS
  <2>1. PICK u \in Tasks : Asks(u) \/ Takes(u) \/ Goes(u) \/ CutoverFails(u)
    BY DEF Next
  <2>2. u = t
    BY <2>1, OthersStay
  <2>3. task[t].pc # "idle" /\ task \in [Tasks -> TaskState] /\ shell \in Manifest
    BY DEF TypeInv, TypeOK
  <2>4. ~ Asks(t)
    BY <2>3, IdleType DEF Asks, AskSwitch, AskPreview, AskCleanup, SwitchBegin, Prebuild, MayCall
  <2>5. ~ Goes(t)
    BY DEF Goes, At, Offer, BeginJob, BeginRefused, Finish, Validate, Write, WriteFails,
       Install, Launched, LaunchedPending, CandidatesStopped, Activated, CutoverInstall, RollReady,
       RollNotReady, RollWrite, RollWriteFails, RollEnd, LegacySwitch, LegacyDone, LegacyRestore,
       Keep, Removed, PrebuildFails, Promote, Launch, LaunchFails, StopCandidate, Remove
  <2>6. ~ CutoverFails(t)
    BY <2>3, IdleType DEF CutoverFails, Return, Abandon, TaskState
  <2>7. PICK a \in Apps : Cutover(t, a)
    BY <2>1, <2>2, <2>4, <2>5, <2>6 DEF Takes, RollSkip, RollBegin, At
  <2> DEFINE i == <<a, task[t].gen>>
  <2>8. /\ disk' = CutoverRoute(shell, a, i) /\ shell = task[t].seen
        /\ task'[t].todo = task[t].todo \ {a}
    BY <2>3, <2>7 DEF Cutover, Expects, TaskState
  <2>9. i \in Instances
    BY TaskFacts, InstanceOf DEF Chosen
  <2>10. \A b \in Apps \ {a} : shell.routes[b].active = <<b, task[t].gen>>
    BY <2>8 DEF AllMoved, Moved, MovedIn
  <2> QED
    BY <2>3, <2>8, <2>9, <2>10, CutoverActive
<1> QED
  BY <1>1, <1>2, MovedNext, TypeInit, TypeNext, PTL DEF Spec, SwitchIsWhole
=============================================================================
