---------------------------- MODULE RuntimeActor ----------------------------
(***************************************************************************)
(* The host's runtime command actor (host-shell/src/runtime_actor.rs): a   *)
(* router task with a bounded mailbox, one lane task per app with a        *)
(* bounded queue of its own, and a semaphore that caps simultaneous        *)
(* starts.  Callers (HTTP handlers, the demand loader, teardown) send a    *)
(* command and await its reply on a oneshot channel.                       *)
(*                                                                         *)
(* A step is the code between two awaits of one task.  What a start or a   *)
(* stop does to the manifest and to processes is the business of module    *)
(* RuntimeControl; here it is a step that ends with a reply.               *)
(***************************************************************************)
EXTENDS Naturals, Sequences, FiniteSets

CONSTANTS
  Apps,         \* app ids
  Clients,      \* tasks that call RuntimeActorHandle::start / ::stop
  Kinds,        \* which of the two calls the clients make
  MailboxCap,   \* capacity of the router's channel   (64 in the code)
  LaneCap,      \* capacity of a lane's channel       (16 in the code)
  StartLimit,   \* permits of the start semaphore     (4 by default)
  MayPanic      \* whether a lane task may panic inside start or stop

ASSUME ActorAssumption ==
  /\ Kinds \subseteq {"start", "stop"}
  /\ MailboxCap \in Nat \ {0}
  /\ LaneCap \in Nat \ {0}
  /\ StartLimit \in Nat \ {0}
  /\ MayPanic \in BOOLEAN
  /\ IsFiniteSet(Apps)

VARIABLES
  call,       \* client -> the step its call is at, and the command it sent
  outcome,    \* client -> how its last call ended
  mailbox,    \* the router's channel
  router,     \* what the router task is doing, and the command it forwards
  inflight,   \* starts_inflight: apps with an admitted start
  lane,       \* app -> what its lane task is doing, and for which command
  queue,      \* app -> the lane's channel
  permits,    \* free permits of the start semaphore
  torn        \* whether teardown has sent Shutdown

vars == <<call, outcome, mailbox, router, inflight, lane, queue, permits, torn>>

-----------------------------------------------------------------------------
(* Commands.  A command carries the client that awaits its reply.          *)

Command == [kind : {"start", "stop"}, app : Apps, from : Clients]
Finished == [kind : {"finished"}, app : Apps]
Shutdown == [kind |-> "shutdown"]
NoCommand == [kind |-> "none"]

ASSUME NobodyIsNoCommand == NoCommand \notin Clients \union Apps

Listening == [pc |-> "listening", cmd |-> NoCommand]
Down == [pc |-> "down", cmd |-> NoCommand]
Lane(pc, cmd) == [pc |-> pc, cmd |-> cmd]
Ended == [pc |-> "idle", cmd |-> NoCommand]

IsStartOf(cmd, a) == cmd.kind = "start" /\ cmd.app = a

(* A start of `a' that the router admitted and that has not replied.       *)
Forwarding(a) == IsStartOf(router.cmd, a)
Queued(a) == \E i \in DOMAIN queue[a] : queue[a][i].kind = "start"
Executing(a) == lane[a].cmd.kind = "start"
Admitted(a) == Forwarding(a) \/ Queued(a) \/ Executing(a)

(* The lane replied but the router has not processed StartFinished yet.    *)
Notifying(a) ==
  \/ lane[a].pc = "finishing"
  \/ \E i \in DOMAIN mailbox : mailbox[i] = [kind |-> "finished", app |-> a]

Starting == {a \in Apps : lane[a].pc = "starting"}

-----------------------------------------------------------------------------
(* A reply, or a dropped reply channel, ends the calls of `clients'.       *)

End(clients, how) ==
  /\ call' = [c \in Clients |-> IF c \in clients THEN Ended ELSE call[c]]
  /\ outcome' = [c \in Clients |-> IF c \in clients THEN how ELSE outcome[c]]

Senders(commands) ==
  {c \in Clients : \E i \in DOMAIN commands :
                      commands[i] \in Command /\ commands[i].from = c}

(* lane_for: the lane of `a' is spawned the first time it is needed.  The  *)
(* sender of a lane that died stays in the map.                            *)
LaneFor(a) ==
  lane' = IF lane[a].pc = "none"
            THEN [lane EXCEPT ![a] = Lane("idle", NoCommand)]
            ELSE lane

-----------------------------------------------------------------------------
(* The callers.                                                            *)

Call(c, k, a) ==
  /\ call[c] = Ended
  /\ call' = [call EXCEPT ![c] =
                [pc |-> "sending", cmd |-> [kind |-> k, app |-> a, from |-> c]]]
  /\ outcome' = [outcome EXCEPT ![c] = "pending"]
  /\ UNCHANGED <<mailbox, router, inflight, lane, queue, permits, torn>>

Send(c) ==
  /\ call[c].pc = "sending"
  /\ router # Down
  /\ Len(mailbox) < MailboxCap
  /\ mailbox' = Append(mailbox, call[c].cmd)
  /\ call' = [call EXCEPT ![c].pc = "waiting"]
  /\ UNCHANGED <<outcome, router, inflight, lane, queue, permits, torn>>

SendFails(c) ==
  /\ call[c].pc = "sending"
  /\ router = Down
  /\ End({c}, "unavailable")
  /\ UNCHANGED <<mailbox, router, inflight, lane, queue, permits, torn>>

(* managed_teardown sends Shutdown once.                                   *)
Teardown ==
  /\ ~torn
  /\ Len(mailbox) < MailboxCap
  /\ mailbox' = Append(mailbox, Shutdown)
  /\ torn' = TRUE
  /\ UNCHANGED <<call, outcome, router, inflight, lane, queue, permits>>

-----------------------------------------------------------------------------
(* The router task.                                                        *)

Receive(kind) ==
  /\ router = Listening
  /\ mailbox # <<>>
  /\ Head(mailbox).kind = kind
  /\ mailbox' = Tail(mailbox)

RouterReject ==
  /\ Receive("start")
  /\ Head(mailbox).app \in inflight
  /\ End({Head(mailbox).from}, "rejected")
  /\ UNCHANGED <<router, inflight, lane, queue, permits, torn>>

(* Mutant: the duplicate check is lost.                                    *)
AdmitUnchecked ==
  /\ Receive("start")
  /\ inflight' = inflight \union {Head(mailbox).app}
  /\ router' = [pc |-> "forwarding", cmd |-> Head(mailbox)]
  /\ LaneFor(Head(mailbox).app)
  /\ UNCHANGED <<call, outcome, queue, permits, torn>>

RouterAdmit ==
  /\ Receive("start")
  /\ Head(mailbox).app \notin inflight
  /\ inflight' = inflight \union {Head(mailbox).app}
  /\ router' = [pc |-> "forwarding", cmd |-> Head(mailbox)]
  /\ LaneFor(Head(mailbox).app)
  /\ UNCHANGED <<call, outcome, queue, permits, torn>>

RouterStop ==
  /\ Receive("stop")
  /\ router' = [pc |-> "forwarding", cmd |-> Head(mailbox)]
  /\ LaneFor(Head(mailbox).app)
  /\ UNCHANGED <<call, outcome, inflight, queue, permits, torn>>

(* Mutant: a stop overtakes what the lane has queued.                      *)
ForwardFirst ==
  /\ router.pc = "forwarding"
  /\ LET a == router.cmd.app IN
       /\ lane[a].pc \notin {"none", "dead"}
       /\ Len(queue[a]) < LaneCap
       /\ queue' = [queue EXCEPT ![a] = <<router.cmd>> \o @]
  /\ router' = Listening
  /\ UNCHANGED <<call, outcome, mailbox, inflight, lane, permits, torn>>

(* lane.send(..).await: the router waits while the lane's channel is full. *)
RouterForward ==
  /\ router.pc = "forwarding"
  /\ LET a == router.cmd.app IN
       /\ lane[a].pc \notin {"none", "dead"}
       /\ Len(queue[a]) < LaneCap
       /\ queue' = [queue EXCEPT ![a] = Append(@, router.cmd)]
  /\ router' = Listening
  /\ UNCHANGED <<call, outcome, mailbox, inflight, lane, permits, torn>>

(* The lane's receiver is gone: the send fails, the caller is told and the *)
(* lane is forgotten.                                                      *)
RouterLaneGone ==
  /\ router.pc = "forwarding"
  /\ LET cmd == router.cmd IN
       /\ lane[cmd.app].pc = "dead"
       /\ lane' = [lane EXCEPT ![cmd.app] = Lane("none", NoCommand)]
       /\ inflight' = IF cmd.kind = "start" THEN inflight \ {cmd.app} ELSE inflight
       /\ End({cmd.from}, "unavailable")
  /\ router' = Listening
  /\ UNCHANGED <<mailbox, queue, permits, torn>>

(* Mutant: StartFinished is consumed and the marker stays.                 *)
FinishedIgnored ==
  /\ Receive("finished")
  /\ UNCHANGED <<inflight, call, outcome, router, lane, queue, permits, torn>>

RouterFinished ==
  /\ Receive("finished")
  /\ inflight' = inflight \ {Head(mailbox).app}
  /\ UNCHANGED <<call, outcome, router, lane, queue, permits, torn>>

(* The loop breaks: the receiver is dropped with what it holds, and with   *)
(* the map the lanes' senders.                                             *)
RouterShutdown ==
  /\ Receive("shutdown")
  /\ router' = Down
  /\ End(Senders(Tail(mailbox)), "dropped")
  /\ UNCHANGED <<inflight, lane, queue, permits, torn>>

-----------------------------------------------------------------------------
(* A lane task.                                                            *)

LaneTake(a) ==
  /\ lane[a].pc = "idle"
  /\ queue[a] # <<>>
  /\ queue' = [queue EXCEPT ![a] = Tail(@)]
  /\ lane' = [lane EXCEPT ![a] =
                Lane(IF Head(queue[a]).kind = "start" THEN "permit" ELSE "stopping",
                     Head(queue[a]))]
  /\ UNCHANGED <<call, outcome, mailbox, router, inflight, permits, torn>>

(* Mutant: the limiter is consulted but not charged.                       *)
AcquireUncharged(a) ==
  /\ lane[a].pc = "permit"
  /\ permits > 0
  /\ lane' = [lane EXCEPT ![a].pc = "starting"]
  /\ UNCHANGED <<permits, call, outcome, mailbox, router, inflight, queue, torn>>

(* Mutant: the caller is answered when its start begins.                   *)
AcquireReplies(a) ==
  /\ lane[a].pc = "permit"
  /\ permits > 0
  /\ permits' = permits - 1
  /\ lane' = [lane EXCEPT ![a].pc = "starting"]
  /\ End({lane[a].cmd.from}, "done")
  /\ UNCHANGED <<mailbox, router, inflight, queue, torn>>

LaneAcquire(a) ==
  /\ lane[a].pc = "permit"
  /\ permits > 0
  /\ permits' = permits - 1
  /\ lane' = [lane EXCEPT ![a].pc = "starting"]
  /\ UNCHANGED <<call, outcome, mailbox, router, inflight, queue, torn>>

(* Mutant: the permit outlives the start.                                  *)
ReturnKeepingPermit(a) ==
  /\ lane[a].pc = "starting"
  /\ lane' = [lane EXCEPT ![a] = Lane("finishing", NoCommand)]
  /\ End({lane[a].cmd.from}, "done")
  /\ UNCHANGED <<permits, mailbox, router, inflight, queue, torn>>

(* start_app_with_launch returns: the permit is dropped, then the reply is *)
(* sent.                                                                   *)
LaneStarted(a) ==
  /\ lane[a].pc = "starting"
  /\ permits' = permits + 1
  /\ lane' = [lane EXCEPT ![a] = Lane("finishing", NoCommand)]
  /\ End({lane[a].cmd.from}, "done")
  /\ UNCHANGED <<mailbox, router, inflight, queue, torn>>

(* router_tx.send(StartFinished).await; an error is ignored.               *)
LaneNotify(a) ==
  /\ lane[a].pc = "finishing"
  /\ \/ /\ router = Down
        /\ UNCHANGED mailbox
     \/ /\ router # Down
        /\ Len(mailbox) < MailboxCap
        /\ mailbox' = Append(mailbox, [kind |-> "finished", app |-> a])
  /\ lane' = [lane EXCEPT ![a] = Lane("idle", NoCommand)]
  /\ UNCHANGED <<call, outcome, router, inflight, queue, permits, torn>>

LaneStopped(a) ==
  /\ lane[a].pc = "stopping"
  /\ lane' = [lane EXCEPT ![a] = Lane("idle", NoCommand)]
  /\ End({lane[a].cmd.from}, "done")
  /\ UNCHANGED <<mailbox, router, inflight, queue, permits, torn>>

(* Mutant: the unwinding frees a permit the lane never took.               *)
PanicFreesPermit(a) ==
  /\ MayPanic
  /\ lane[a].pc \in {"starting", "stopping"}
  /\ permits' = permits + 1
  /\ End({lane[a].cmd.from} \union Senders(queue[a]), "dropped")
  /\ queue' = [queue EXCEPT ![a] = <<>>]
  /\ lane' = [lane EXCEPT ![a] = Lane("dead", NoCommand)]
  /\ UNCHANGED <<mailbox, router, inflight, torn>>

(* The task unwinds: the permit, the reply it holds and the channel with   *)
(* its commands are dropped.                                               *)
LanePanics(a) ==
  /\ MayPanic
  /\ lane[a].pc \in {"starting", "stopping"}
  /\ permits' = IF lane[a].pc = "starting" THEN permits + 1 ELSE permits
  /\ End({lane[a].cmd.from} \union Senders(queue[a]), "dropped")
  /\ queue' = [queue EXCEPT ![a] = <<>>]
  /\ lane' = [lane EXCEPT ![a] = Lane("dead", NoCommand)]
  /\ UNCHANGED <<mailbox, router, inflight, torn>>

-----------------------------------------------------------------------------
Init ==
  /\ call = [c \in Clients |-> Ended]
  /\ outcome = [c \in Clients |-> "none"]
  /\ mailbox = <<>>
  /\ router = Listening
  /\ inflight = {}
  /\ lane = [a \in Apps |-> Lane("none", NoCommand)]
  /\ queue = [a \in Apps |-> <<>>]
  /\ permits = StartLimit
  /\ torn = FALSE

RouterStep ==
  \/ RouterReject \/ RouterAdmit \/ RouterStop
  \/ RouterForward \/ RouterLaneGone
  \/ RouterFinished \/ RouterShutdown

LaneStep(a) ==
  \/ LaneTake(a) \/ LaneAcquire(a) \/ LaneStarted(a)
  \/ LaneNotify(a) \/ LaneStopped(a)

Next ==
  \/ \E c \in Clients, k \in Kinds, a \in Apps : Call(c, k, a)
  \/ \E c \in Clients : Send(c) \/ SendFails(c)
  \/ Teardown
  \/ RouterStep
  \/ \E a \in Apps : LaneStep(a) \/ LanePanics(a)

Spec == Init /\ [][Next]_vars

(* The runtime polls every ready task, starts and stops end (they are      *)
(* bounded by timeouts), and a tokio channel or semaphore serves its       *)
(* waiters in order, so a waiter that is passed over forever is excluded.  *)
Fairness ==
  /\ WF_vars(RouterStep)
  /\ \A c \in Clients : SF_vars(Send(c)) /\ WF_vars(SendFails(c))
  /\ \A a \in Apps :
       /\ WF_vars(LaneTake(a)) /\ SF_vars(LaneAcquire(a)) /\ WF_vars(LaneStarted(a))
       /\ SF_vars(LaneNotify(a)) /\ WF_vars(LaneStopped(a))

FairSpec == Spec /\ Fairness

-----------------------------------------------------------------------------
(* Properties.                                                             *)

(* Every variable keeps its type, and the free permits of the semaphore    *)
(* stay between none and the limit.                                        *)
TypeOK ==
  /\ call \in [Clients -> {Ended} \union [pc : {"sending", "waiting"}, cmd : Command]]
  /\ outcome \in [Clients -> {"none", "pending", "done", "rejected",
                              "unavailable", "dropped"}]
  /\ mailbox \in Seq(Command \union Finished \union {Shutdown})
  /\ router \in {Listening, Down} \union [pc : {"forwarding"}, cmd : Command]
  /\ inflight \subseteq Apps
  /\ lane \in [Apps -> [pc : {"none", "idle", "permit", "starting", "finishing",
                              "stopping", "dead"},
                        cmd : Command \union {NoCommand}]]
  /\ queue \in [Apps -> Seq(Command)]
  /\ permits \in 0 .. StartLimit
  /\ torn \in BOOLEAN

(* However many callers press start, the actor holds at most one start of  *)
(* an app: in the router's hand, in the lane's queue or running.           *)
SingleStart ==
  \A a \in Apps :
    /\ \A i, j \in DOMAIN queue[a] :
         queue[a][i].kind = "start" /\ queue[a][j].kind = "start" => i = j
    /\ ~(Forwarding(a) /\ Queued(a))
    /\ ~(Forwarding(a) /\ Executing(a))
    /\ ~(Queued(a) /\ Executing(a))

(* The semaphore caps simultaneous slow starts over all lanes, also after  *)
(* a lane died holding a permit.                                           *)
StartsLimited == Cardinality(Starting) <= StartLimit

(* The duplicate marker of an app is never lost before its start is over,  *)
(* nor kept without a start, or its StartFinished, that will clear it,     *)
(* unless the app's lane panicked: nobody sends StartFinished then.        *)
MarkerOwned ==
  \A a \in Apps : /\ Admitted(a) => a \in inflight
                  /\ router # Down /\ lane[a].pc # "dead" =>
                       (a \in inflight => Admitted(a) \/ Notifying(a))

OfApp(a) == {cmd \in Command : cmd.app = a}

(* What waits or runs in the actor on the way to the lane of `a', oldest   *)
(* first; what the router has of other apps stands among it.               *)
Line(a) == <<lane[a].cmd>> \o queue[a] \o <<router.cmd>> \o mailbox

(* "Commands for the same app preserve arrival order" (runtime_actor.rs):  *)
(* two commands of an app that are in the actor after a step and were      *)
(* there before it stood in the same order then.                           *)
ArrivalOrder ==
  [][\A a \in Apps :
       LET old == Line(a)  new == Line(a)' IN
         \A i, j \in DOMAIN new : i < j /\ {new[i], new[j]} \subseteq OfApp(a) =>
           \A m, n \in DOMAIN old :
             old[m] = new[i] /\ old[n] = new[j] => m < n]_vars

(* With callers that only start apps (the demand loader, the one caller    *)
(* the host has), the router finds room in the lane at once: it never      *)
(* waits for a busy lane, so one slow app cannot hold up another.          *)
RouterNeverWaits ==
  router.pc = "forwarding" => Len(queue[router.cmd.app]) < LaneCap

(* Every call comes back, with a result or an error, also when the router  *)
(* is torn down or a lane panics with the caller's command in its queue.   *)
EveryCallReturns == \A c \in Clients : (call[c] # Ended) ~> (call[c] = Ended)

(* An app is not locked out of starting: its marker is cleared in the end, *)
(* whatever its callers and the other lanes do, unless its lane panicked.  *)
MarkerCleared ==
  \A a \in Apps :
    (a \in inflight) ~> (a \notin inflight \/ router = Down \/ lane[a].pc = "dead")

(* The abstract view: the app whose start a client waits for, and the      *)
(* client whose start a lane runs.                                         *)
Wanted == [c \in Clients |-> IF call[c].cmd.kind = "start" THEN call[c].cmd.app ELSE NoCommand]
Runs == [a \in Apps |-> IF lane[a].pc = "starting" THEN lane[a].cmd.from ELSE NoCommand]

Work == INSTANCE ExclusiveWork
          WITH Callers <- Clients, Keys <- Apps, None <- NoCommand,
               wants <- Wanted, worker <- Runs

(* Mailbox, router, lanes and semaphore make the start of an app exclusive *)
(* work: it runs for one client at a time, one that asked for it and has   *)
(* not been answered, also when lanes die and the router is torn down.     *)
ImplementsExclusiveWork == Work!Spec
=============================================================================
