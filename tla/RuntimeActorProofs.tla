------------------------- MODULE RuntimeActorProofs -------------------------
(***************************************************************************)
(* Proofs about RuntimeActor for any number of apps and callers, any       *)
(* channel capacities and any start limit, with or without panics: types   *)
(* and permits, one start per app and its marker, the refinement of        *)
(* ExclusiveWork, and the order of an app's commands.                      *)
(***************************************************************************)
EXTENDS RuntimeActor, FiniteSetTheorems, TLAPS

(* The semaphore's free permits and the lanes inside a start add up.       *)
PermitsCounted == permits + Cardinality(Starting) = StartLimit

TypeInv == TypeOK /\ PermitsCounted

-----------------------------------------------------------------------------
(* Facts about commands and replies.                                       *)

(* The lanes inside a start can be counted, because the apps can. *)
LEMMA StartingFinite == IsFiniteSet(Starting) /\ Cardinality(Starting) \in Nat
<1>1. Starting \subseteq Apps
  BY DEF Starting
<1>2. IsFiniteSet(Starting)
  BY <1>1, ActorAssumption, FS_Subset
<1> QED
  BY <1>2, FS_CardinalityType

(* A lane that enters or leaves "starting" moves the count by one.         *)
LEMMA StartingGrows ==
  ASSUME NEW a \in Apps, lane[a].pc # "starting",
         Starting' = Starting \union {a}
  PROVE  Cardinality(Starting') = Cardinality(Starting) + 1
<1>1. a \notin Starting
  BY DEF Starting
<1> QED
  BY <1>1, StartingFinite, FS_AddElement

(* A lane that leaves its start makes their number one less. *)
LEMMA StartingShrinks ==
  ASSUME NEW a \in Apps, lane[a].pc = "starting",
         Starting' = Starting \ {a}
  PROVE  Cardinality(Starting') = Cardinality(Starting) - 1
<1>1. a \in Starting
  BY DEF Starting
<1> QED
  BY <1>1, StartingFinite, FS_RemoveElement

(* What Head and Tail of the mailbox are.                                  *)
LEMMA MailboxHead ==
  ASSUME TypeOK, NEW kind \in {"start", "stop", "finished", "shutdown"}, Receive(kind)
  PROVE  /\ mailbox' \in Seq(Command \union Finished \union {Shutdown})
         /\ kind \in {"start", "stop"} => Head(mailbox) \in Command
         /\ kind = "finished" => Head(mailbox) \in Finished
<1>1. Head(mailbox) \in Command \union Finished \union {Shutdown}
  BY DEF TypeOK, Receive
<1> QED
  BY <1>1 DEF TypeOK, Receive, Command, Finished, Shutdown

(* A reply, or a dropped reply channel, leaves the callers well typed. *)
LEMMA EndTypes ==
  ASSUME TypeOK, NEW C, NEW how \in {"done", "rejected", "unavailable", "dropped"},
         End(C, how)
  PROVE  /\ call' \in [Clients -> {Ended} \union [pc : {"sending", "waiting"}, cmd : Command]]
         /\ outcome' \in [Clients -> {"none", "pending", "done", "rejected",
                                      "unavailable", "dropped"}]
  BY DEF TypeOK, End

-----------------------------------------------------------------------------
(* TypeInv is inductive.                                                   *)

(* The actor starts well typed, with all its permits. *)
LEMMA TypeInit == Init => TypeInv
<1> SUFFICES ASSUME Init PROVE TypeInv
  OBVIOUS
<1>1. Starting = {}
  BY DEF Init, Starting, Lane
<1>2. PermitsCounted
  BY <1>1, FS_EmptySet, ActorAssumption DEF PermitsCounted, Init
<1>3. TypeOK
  <2>1. call \in [Clients -> {Ended} \union [pc : {"sending", "waiting"}, cmd : Command]]
    BY DEF Init
  <2>2. mailbox \in Seq(Command \union Finished \union {Shutdown})
    BY DEF Init
  <2>3. queue \in [Apps -> Seq(Command)]
    BY DEF Init
  <2>4. lane \in [Apps -> [pc : {"none", "idle", "permit", "starting", "finishing",
                                "stopping", "dead"},
                          cmd : Command \union {NoCommand}]]
    BY DEF Init, Lane
  <2>5. permits \in 0 .. StartLimit
    BY ActorAssumption DEF Init
  <2> QED
    BY <2>1, <2>2, <2>3, <2>4, <2>5 DEF Init, TypeOK
<1> QED
  BY <1>2, <1>3 DEF TypeInv

(* While no lane enters or leaves "starting", the count stands.            *)
LEMMA PermitsStand ==
  ASSUME TypeInv, Starting' = Starting, permits' = permits
  PROVE  permits' \in 0 .. StartLimit /\ PermitsCounted'
BY DEF TypeInv, TypeOK, PermitsCounted

(* What callers and teardown send keeps the types. *)
LEMMA TypeCallers ==
  ASSUME TypeInv, NEW c \in Clients,
         \/ \E k \in Kinds, a \in Apps : Call(c, k, a)
         \/ Send(c)
         \/ SendFails(c)
         \/ Teardown
  PROVE  TypeInv'
<1> USE DEF TypeInv
<1>0. Starting' = Starting /\ permits' = permits
  BY DEF Call, Send, SendFails, Teardown, Starting
<1>1. CASE \E k \in Kinds, a \in Apps : Call(c, k, a)
  <2> PICK k \in Kinds, a \in Apps : Call(c, k, a)
    BY <1>1
  <2>1. [kind |-> k, app |-> a, from |-> c] \in Command
    BY ActorAssumption DEF Command
  <2>2. call' \in [Clients -> {Ended} \union [pc : {"sending", "waiting"}, cmd : Command]]
    BY <2>1 DEF Call, TypeOK
  <2> QED
    BY <1>0, <2>2, PermitsStand DEF Call, TypeOK
<1>2. CASE Send(c)
  <2>1. call[c].cmd \in Command
    BY <1>2 DEF Send, TypeOK, Ended
  <2>2. call[c] \in [pc : {"sending", "waiting"}, cmd : Command]
    BY <1>2 DEF Send, TypeOK, Ended
  <2>3. [call[c] EXCEPT !.pc = "waiting"] \in [pc : {"sending", "waiting"}, cmd : Command]
    BY <2>2
  <2>4. call' = [call EXCEPT ![c] = [call[c] EXCEPT !.pc = "waiting"]]
    BY <1>2 DEF Send
  <2>5. call' \in [Clients -> {Ended} \union [pc : {"sending", "waiting"}, cmd : Command]]
    BY <2>3, <2>4 DEF TypeOK
  <2> QED
    BY <1>0, <1>2, <2>1, <2>5, PermitsStand DEF Send, TypeOK
<1>3. CASE SendFails(c)
  BY <1>0, <1>3, PermitsStand, EndTypes DEF SendFails, TypeOK
<1>4. CASE Teardown
  BY <1>0, <1>4, PermitsStand DEF Teardown, TypeOK
<1> QED
  BY <1>1, <1>2, <1>3, <1>4

(* lane_for only ever spawns an idle lane.                                 *)
LEMMA LaneForTypes ==
  ASSUME TypeOK, NEW a \in Apps, LaneFor(a)
  PROVE  /\ Starting' = Starting
         /\ lane' \in [Apps -> [pc : {"none", "idle", "permit", "starting", "finishing",
                                     "stopping", "dead"},
                               cmd : Command \union {NoCommand}]]
BY DEF TypeOK, LaneFor, Starting, Lane, NoCommand

(* Every step of the router keeps the types. *)
LEMMA TypeRouter ==
  ASSUME TypeInv, RouterStep
  PROVE  TypeInv'
<1> USE DEF TypeInv
<1>1. CASE RouterReject
  <2>1. Receive("start") /\ Starting' = Starting
    BY <1>1 DEF RouterReject, Starting
  <2> QED
    BY <1>1, <2>1, MailboxHead, EndTypes, PermitsStand DEF RouterReject, TypeOK
<1>2. CASE RouterAdmit
  <2>1. Receive("start") /\ LaneFor(Head(mailbox).app) /\ permits' = permits
    BY <1>2 DEF RouterAdmit
  <2>2. Head(mailbox) \in Command /\ Head(mailbox).app \in Apps
    BY <2>1, MailboxHead DEF Command
  <2> QED
    BY <1>2, <2>1, <2>2, MailboxHead, LaneForTypes, PermitsStand DEF RouterAdmit, TypeOK
<1>3. CASE RouterStop
  <2>1. Receive("stop") /\ LaneFor(Head(mailbox).app) /\ permits' = permits
    BY <1>3 DEF RouterStop
  <2>2. Head(mailbox) \in Command /\ Head(mailbox).app \in Apps
    BY <2>1, MailboxHead DEF Command
  <2> QED
    BY <1>3, <2>1, <2>2, MailboxHead, LaneForTypes, PermitsStand DEF RouterStop, TypeOK
<1>4. CASE RouterForward
  <2>1. router.cmd \in Command /\ router.cmd.app \in Apps
    BY <1>4 DEF RouterForward, TypeOK, Listening, Down, Command
  <2>2. Starting' = Starting /\ permits' = permits
    BY <1>4 DEF RouterForward, Starting
  <2>3. queue' \in [Apps -> Seq(Command)]
    BY <1>4, <2>1 DEF RouterForward, TypeOK
  <2> QED
    BY <1>4, <2>2, <2>3, PermitsStand DEF RouterForward, TypeOK
<1>5. CASE RouterLaneGone
  <2>1. router.cmd \in Command /\ router.cmd.app \in Apps
    BY <1>5 DEF RouterLaneGone, TypeOK, Listening, Down, Command
  <2>2. Starting' = Starting /\ permits' = permits
    BY <1>5, <2>1 DEF RouterLaneGone, Starting, TypeOK, Lane
  <2>3. lane' \in [Apps -> [pc : {"none", "idle", "permit", "starting", "finishing",
                                 "stopping", "dead"},
                           cmd : Command \union {NoCommand}]]
    BY <1>5, <2>1 DEF RouterLaneGone, TypeOK, Lane
  <2>4. inflight' \subseteq Apps
    BY <1>5 DEF RouterLaneGone, TypeOK
  <2> QED
    BY <1>5, <2>2, <2>3, <2>4, EndTypes, PermitsStand DEF RouterLaneGone, TypeOK
<1>6. CASE RouterFinished
  <2>1. Receive("finished") /\ Starting' = Starting
    BY <1>6 DEF RouterFinished, Starting
  <2> QED
    BY <1>6, <2>1, MailboxHead, PermitsStand DEF RouterFinished, TypeOK
<1>7. CASE RouterShutdown
  <2>1. Receive("shutdown") /\ Starting' = Starting
    BY <1>7 DEF RouterShutdown, Starting
  <2> QED
    BY <1>7, <2>1, MailboxHead, EndTypes, PermitsStand DEF RouterShutdown, TypeOK
<1> QED
  BY <1>1, <1>2, <1>3, <1>4, <1>5, <1>6, <1>7 DEF RouterStep

(* Every step of a lane keeps the types and the count of permits, panics included. *)
LEMMA TypeLane ==
  ASSUME TypeInv, NEW a \in Apps, LaneStep(a) \/ LanePanics(a)
  PROVE  TypeInv'
<1> USE DEF TypeInv
<1> DEFINE LaneType ==
      [Apps -> [pc : {"none", "idle", "permit", "starting", "finishing", "stopping", "dead"},
                cmd : Command \union {NoCommand}]]
<1>1. CASE LaneTake(a)
  <2>1. Head(queue[a]) \in Command /\ Tail(queue[a]) \in Seq(Command)
    BY <1>1 DEF LaneTake, TypeOK
  <2>2. lane' \in LaneType /\ queue' \in [Apps -> Seq(Command)]
    BY <1>1, <2>1 DEF LaneTake, TypeOK, Lane
  <2>3. Starting' = Starting /\ permits' = permits
    BY <1>1 DEF LaneTake, Starting, TypeOK, Lane
  <2> QED
    BY <1>1, <2>2, <2>3, PermitsStand DEF LaneTake, TypeOK
<1>2. CASE LaneAcquire(a)
  <2>1. lane' \in LaneType
    BY <1>2 DEF LaneAcquire, TypeOK
  <2>2. Starting' = Starting \union {a}
    BY <1>2 DEF LaneAcquire, Starting, TypeOK
  <2>3. Cardinality(Starting') = Cardinality(Starting) + 1
    BY <1>2, <2>2, StartingGrows DEF LaneAcquire
  <2>4. permits' \in 0 .. StartLimit /\ PermitsCounted'
    BY <1>2, <2>3, StartingFinite, ActorAssumption DEF LaneAcquire, PermitsCounted, TypeOK
  <2> QED
    BY <1>2, <2>1, <2>4 DEF LaneAcquire, TypeOK
<1>3. CASE LaneStarted(a)
  <2>1. lane' \in LaneType
    BY <1>3 DEF LaneStarted, TypeOK, Lane
  <2>2. Starting' = Starting \ {a}
    BY <1>3 DEF LaneStarted, Starting, TypeOK, Lane
  <2>3. /\ Cardinality(Starting') = Cardinality(Starting) - 1
        /\ Cardinality(Starting') \in Nat
    BY <1>3, <2>2, StartingShrinks, StartingFinite, FS_RemoveElement, FS_CardinalityType
       DEF LaneStarted
  <2>4. permits' \in 0 .. StartLimit /\ PermitsCounted'
    BY <1>3, <2>3, StartingFinite, ActorAssumption DEF LaneStarted, PermitsCounted, TypeOK
  <2> QED
    BY <1>3, <2>1, <2>4, EndTypes DEF LaneStarted, TypeOK
<1>4. CASE LaneNotify(a)
  <2>1. lane' \in LaneType
    BY <1>4 DEF LaneNotify, TypeOK, Lane
  <2>2. Starting' = Starting /\ permits' = permits
    BY <1>4 DEF LaneNotify, Starting, TypeOK, Lane
  <2>3. [kind |-> "finished", app |-> a] \in Finished
    BY DEF Finished
  <2>4. mailbox' \in Seq(Command \union Finished \union {Shutdown})
    <3>1. CASE UNCHANGED mailbox
      BY <3>1 DEF TypeOK
    <3>2. CASE mailbox' = Append(mailbox, [kind |-> "finished", app |-> a])
      BY <2>3, <3>2 DEF TypeOK
    <3> QED
      BY <1>4, <3>1, <3>2 DEF LaneNotify
  <2> QED
    BY <1>4, <2>1, <2>2, <2>4, PermitsStand DEF LaneNotify, TypeOK
<1>5. CASE LaneStopped(a)
  <2>1. lane' \in LaneType
    BY <1>5 DEF LaneStopped, TypeOK, Lane
  <2>2. Starting' = Starting /\ permits' = permits
    BY <1>5 DEF LaneStopped, Starting, TypeOK, Lane
  <2> QED
    BY <1>5, <2>1, <2>2, EndTypes, PermitsStand DEF LaneStopped, TypeOK
<1>6. CASE LanePanics(a)
  <2>1. lane' \in LaneType /\ queue' \in [Apps -> Seq(Command)]
    BY <1>6 DEF LanePanics, TypeOK, Lane
  <2>2. CASE lane[a].pc = "starting"
    <3>1. Starting' = Starting \ {a}
      BY <1>6, <2>2 DEF LanePanics, Starting, TypeOK, Lane
    <3>2. /\ Cardinality(Starting') = Cardinality(Starting) - 1
          /\ Cardinality(Starting') \in Nat
      BY <2>2, <3>1, StartingShrinks, StartingFinite, FS_RemoveElement, FS_CardinalityType
    <3>3. permits' \in 0 .. StartLimit /\ PermitsCounted'
      BY <1>6, <2>2, <3>2, StartingFinite, ActorAssumption DEF LanePanics, PermitsCounted, TypeOK
    <3> QED
      BY <1>6, <2>1, <3>3, EndTypes DEF LanePanics, TypeOK
  <2>3. CASE lane[a].pc = "stopping"
    <3>1. Starting' = Starting /\ permits' = permits
      BY <1>6, <2>3 DEF LanePanics, Starting, TypeOK, Lane
    <3> QED
      BY <1>6, <2>1, <3>1, EndTypes, PermitsStand DEF LanePanics, TypeOK
  <2> QED
    BY <1>6, <2>2, <2>3 DEF LanePanics
<1> QED
  BY <1>1, <1>2, <1>3, <1>4, <1>5, <1>6 DEF LaneStep

(* Every step of the actor keeps the types. *)
LEMMA TypeStep == TypeInv /\ [Next]_vars => TypeInv'
<1> SUFFICES ASSUME TypeInv, [Next]_vars PROVE TypeInv'
  OBVIOUS
<1>1. CASE UNCHANGED vars
  BY <1>1 DEF vars, TypeInv, TypeOK, PermitsCounted, Starting
<1>2. CASE Teardown
  <2>1. Starting' = Starting /\ permits' = permits
    BY <1>2 DEF Teardown, Starting
  <2> QED
    BY <1>2, <2>1, PermitsStand DEF Teardown, TypeInv, TypeOK
<1>3. CASE Next /\ ~Teardown
  BY <1>3, TypeCallers, TypeRouter, TypeLane DEF Next
<1> QED
  BY <1>1, <1>2, <1>3

(* Every state of the actor is well typed; in particular the semaphore     *)
(* never holds more permits than it was created with, nor fewer than none. *)
THEOREM TypeCorrect == Spec => []TypeOK
<1>1. Spec => []TypeInv
  BY TypeInit, TypeStep, PTL DEF Spec
<1>2. TypeInv => TypeOK
  BY DEF TypeInv
<1> QED
  BY <1>1, <1>2, PTL

(* At no time are more lanes inside a start than the limiter has permits,  *)
(* whichever starts end, fail or panic.                                    *)
THEOREM StartLimitHolds == Spec => []StartsLimited
<1>1. Spec => []TypeInv
  BY TypeInit, TypeStep, PTL DEF Spec
<1>2. TypeInv => StartsLimited
  BY StartingFinite, ActorAssumption DEF TypeInv, TypeOK, PermitsCounted, StartsLimited
<1> QED
  BY <1>1, <1>2, PTL

-----------------------------------------------------------------------------
(* One start per app.  A start that was admitted is in one place at a      *)
(* time, the router's hand, the lane's queue, the lane, and after its end  *)
(* as a StartFinished in the lane's hand or in the mailbox; while it is in *)
(* any of them the marker of its app stands.                               *)

Starts == {cmd \in Command : cmd.kind = "start"}
HasStart(q) == \E i \in DOMAIN q : q[i].kind = "start"
OneStart(q) == \A i, j \in DOMAIN q : q[i].kind = "start" /\ q[j].kind = "start" => i = j

Note(a) == [kind |-> "finished", app |-> a]
HasNote(m, a) == \E i \in DOMAIN m : m[i] = Note(a)
OneNote(m, a) == \A i, j \in DOMAIN m : m[i] = Note(a) /\ m[j] = Note(a) => i = j

LaneShape(l) ==
  /\ l.pc \in {"permit", "starting"} => l.cmd.kind = "start"
  /\ l.pc = "stopping" => l.cmd.kind = "stop"
  /\ l.pc \notin {"permit", "starting", "stopping"} => l.cmd.kind = "none"

Token(a) ==
  /\ OneStart(queue[a]) /\ OneNote(mailbox, a) /\ LaneShape(lane[a])
  /\ Forwarding(a) => /\ ~HasStart(queue[a]) /\ ~Executing(a)
                      /\ lane[a].pc # "finishing" /\ ~HasNote(mailbox, a)
  /\ HasStart(queue[a]) => /\ ~Executing(a)
                           /\ lane[a].pc # "finishing" /\ ~HasNote(mailbox, a)
  /\ Executing(a) => ~HasNote(mailbox, a)
  /\ lane[a].pc = "finishing" => ~HasNote(mailbox, a)
  /\ \/ Forwarding(a) \/ HasStart(queue[a]) \/ Executing(a)
     \/ lane[a].pc = "finishing" \/ HasNote(mailbox, a)
     => a \in inflight

Tokens == \A a \in Apps : Token(a)

Message == Command \union Finished \union {Shutdown}

(* A channel has an element of S, and at most one.                         *)
Has(q, S) == \E i \in DOMAIN q : q[i] \in S
One(q, S) == \A i, j \in DOMAIN q : q[i] \in S /\ q[j] \in S => i = j

(* What joins the end of a channel.                                        *)
LEMMA AppendHas ==
  ASSUME NEW T, NEW q \in Seq(T), NEW x \in T, NEW S
  PROVE  /\ Has(Append(q, x), S) <=> Has(q, S) \/ x \in S
         /\ One(q, S) /\ ~(Has(q, S) /\ x \in S) => One(Append(q, x), S)
<1> DEFINE r == Append(q, x)
<1>1. /\ DOMAIN q = 1 .. Len(q) /\ DOMAIN r = 1 .. Len(q) + 1 /\ Len(q) \in Nat
      /\ \A i \in 1 .. Len(q) : r[i] = q[i]
      /\ r[Len(q) + 1] = x
  OBVIOUS
<1> HIDE DEF r
<1>2. \A i \in DOMAIN r : i = Len(q) + 1 \/ i \in DOMAIN q
  BY <1>1
<1>3. \A i \in DOMAIN q : i \in DOMAIN r /\ i # Len(q) + 1 /\ r[i] = q[i]
  BY <1>1
<1>4. Len(q) + 1 \in DOMAIN r
  BY <1>1
<1>5. Has(r, S) <=> Has(q, S) \/ x \in S
  BY <1>1, <1>2, <1>3, <1>4 DEF Has
<1>6. One(q, S) /\ ~(Has(q, S) /\ x \in S) => One(r, S)
  BY <1>1, <1>2, <1>3, <1>4 DEF Has, One
<1> QED
  BY <1>5, <1>6 DEF r

(* What leaves the front of a channel.                                     *)
LEMMA TailHas ==
  ASSUME NEW T, NEW q \in Seq(T), q # <<>>, NEW S
  PROVE  /\ Has(q, S) <=> Has(Tail(q), S) \/ Head(q) \in S
         /\ One(q, S) => One(Tail(q), S)
         /\ One(q, S) /\ Head(q) \in S => ~Has(Tail(q), S)
<1> DEFINE r == Tail(q)
<1>1. /\ DOMAIN q = 1 .. Len(q) /\ DOMAIN r = 1 .. Len(q) - 1 /\ Len(q) \in Nat \ {0}
      /\ \A i \in 1 .. Len(q) - 1 : r[i] = q[i + 1]
      /\ Head(q) = q[1]
  OBVIOUS
<1> HIDE DEF r
<1>2. \A i \in DOMAIN r : i \in Nat /\ i >= 1 /\ i + 1 \in DOMAIN q /\ r[i] = q[i + 1]
  BY <1>1
<1>3. \A i \in DOMAIN q : i = 1 \/ (i - 1 \in DOMAIN r /\ r[i - 1] = q[i])
  BY <1>1
<1>4. 1 \in DOMAIN q
  BY <1>1
<1>5. Has(q, S) <=> Has(r, S) \/ Head(q) \in S
  BY <1>1, <1>2, <1>3, <1>4 DEF Has
<1>6. One(q, S) => One(r, S)
  BY <1>2 DEF One
<1>7. One(q, S) /\ Head(q) \in S => ~Has(r, S)
  BY <1>1, <1>2, <1>4 DEF One, Has
<1> QED
  BY <1>5, <1>6, <1>7 DEF r

(* Starts in a queue, and notes in the mailbox, in these terms.            *)
LEMMA StartsHave ==
  ASSUME NEW q \in Seq(Command)
  PROVE  /\ HasStart(q) <=> Has(q, Starts)
         /\ OneStart(q) <=> One(q, Starts)
<1>1. \A i \in DOMAIN q : q[i] \in Starts <=> q[i].kind = "start"
  BY DEF Starts
<1> QED
  BY <1>1 DEF HasStart, Has, OneStart, One

(* A command that joins a queue. *)
LEMMA QueueAppend ==
  ASSUME NEW q \in Seq(Command), NEW cmd \in Command
  PROVE  /\ HasStart(Append(q, cmd)) <=> HasStart(q) \/ cmd.kind = "start"
         /\ OneStart(q) /\ ~(HasStart(q) /\ cmd.kind = "start") => OneStart(Append(q, cmd))
<1>1. Append(q, cmd) \in Seq(Command) /\ (cmd \in Starts <=> cmd.kind = "start")
  BY DEF Starts
<1> QED
  BY <1>1, AppendHas, StartsHave

(* A command that leaves a queue. *)
LEMMA QueueTail ==
  ASSUME NEW q \in Seq(Command), q # <<>>
  PROVE  /\ HasStart(q) <=> HasStart(Tail(q)) \/ Head(q).kind = "start"
         /\ OneStart(q) => OneStart(Tail(q))
         /\ OneStart(q) /\ Head(q).kind = "start" => ~HasStart(Tail(q))
<1>1. Tail(q) \in Seq(Command) /\ (Head(q) \in Starts <=> Head(q).kind = "start")
  BY DEF Starts
<1> QED
  BY <1>1, TailHas, StartsHave

(* A message that joins the mailbox. *)
LEMMA MailAppend ==
  ASSUME NEW m \in Seq(Message), NEW x \in Message, NEW a \in Apps
  PROVE  /\ HasNote(Append(m, x), a) <=> HasNote(m, a) \/ x = Note(a)
         /\ OneNote(m, a) /\ ~(HasNote(m, a) /\ x = Note(a)) => OneNote(Append(m, x), a)
<1>1. \A q : (HasNote(q, a) <=> Has(q, {Note(a)})) /\ (OneNote(q, a) <=> One(q, {Note(a)}))
  BY DEF HasNote, Has, OneNote, One
<1> QED
  BY <1>1, AppendHas

(* A message that leaves the mailbox. *)
LEMMA MailTail ==
  ASSUME NEW m \in Seq(Message), m # <<>>, NEW a \in Apps
  PROVE  /\ HasNote(m, a) <=> HasNote(Tail(m), a) \/ Head(m) = Note(a)
         /\ OneNote(m, a) => OneNote(Tail(m), a)
         /\ OneNote(m, a) /\ Head(m) = Note(a) => ~HasNote(Tail(m), a)
<1>1. \A q : (HasNote(q, a) <=> Has(q, {Note(a)})) /\ (OneNote(q, a) <=> One(q, {Note(a)}))
  BY DEF HasNote, Has, OneNote, One
<1> QED
  BY <1>1, TailHas

(* The actor holds no start at first.                                      *)
LEMMA TokenInit == Init => Tokens
<1> SUFFICES ASSUME Init, NEW a \in Apps PROVE Token(a)
  BY DEF Tokens
<1>1. queue[a] = <<>> /\ mailbox = <<>> /\ lane[a] = Lane("none", NoCommand)
  BY DEF Init
<1>2. ~HasStart(queue[a]) /\ OneStart(queue[a]) /\ ~HasNote(mailbox, a) /\ OneNote(mailbox, a)
  BY <1>1 DEF HasStart, OneStart, HasNote, OneNote
<1>3. ~Forwarding(a) /\ ~Executing(a) /\ lane[a].pc # "finishing" /\ LaneShape(lane[a])
  BY <1>1 DEF Init, Forwarding, IsStartOf, Listening, NoCommand, Executing, LaneShape, Lane
<1> QED
  BY <1>2, <1>3 DEF Token

(* What the mailbox loses its head to.                                     *)
LEMMA ReceiveNotes ==
  ASSUME TypeOK, Tokens, NEW a \in Apps,
         NEW kind \in {"start", "stop", "finished", "shutdown"}, Receive(kind)
  PROVE  /\ OneNote(mailbox', a)
         /\ HasNote(mailbox', a) => HasNote(mailbox, a)
         /\ Head(mailbox) # Note(a) => (HasNote(mailbox', a) <=> HasNote(mailbox, a))
         /\ Head(mailbox) = Note(a) => HasNote(mailbox, a) /\ ~HasNote(mailbox', a)
         /\ Head(mailbox) = Note(a) <=> kind = "finished" /\ Head(mailbox).app = a
         /\ kind \in {"start", "stop"} => Head(mailbox) \in Command
<1>1. mailbox \in Seq(Message) /\ mailbox # <<>> /\ mailbox' = Tail(mailbox)
      /\ Head(mailbox).kind = kind
  BY DEF TypeOK, Receive, Message
<1>2. OneNote(mailbox, a)
  BY DEF Tokens, Token
<1>3. kind = "finished" => Head(mailbox) \in Finished
  BY MailboxHead
<1>4. Head(mailbox) = Note(a) <=> kind = "finished" /\ Head(mailbox).app = a
  BY <1>1, <1>3 DEF Note, Finished
<1> QED
  BY <1>1, <1>2, <1>4, MailTail, MailboxHead

(* What a message that joins the mailbox changes of its notes.             *)
LEMMA SendNotes ==
  ASSUME TypeOK, Tokens, NEW a \in Apps, NEW x \in Message, mailbox' = Append(mailbox, x)
  PROVE  /\ HasNote(mailbox', a) <=> HasNote(mailbox, a) \/ x = Note(a)
         /\ ~(HasNote(mailbox, a) /\ x = Note(a)) => OneNote(mailbox', a)
<1>1. mailbox \in Seq(Message) /\ OneNote(mailbox, a)
  BY DEF TypeOK, Message, Tokens, Token
<1> QED
  BY <1>1, MailAppend

(* No step of the actor duplicates a start or drops the marker before the  *)
(* start is over.                                                          *)
LEMMA TokenStep == TypeInv /\ Tokens /\ [Next]_vars => Tokens'
<1> SUFFICES ASSUME TypeInv, Tokens, [Next]_vars, NEW a \in Apps PROVE Token(a)'
  BY DEF Tokens
<1>0. /\ TypeOK /\ Token(a)
      /\ \A b \in Apps : queue[b] \in Seq(Command)
      /\ lane \in [Apps -> [pc : {"none", "idle", "permit", "starting", "finishing",
                                  "stopping", "dead"},
                            cmd : Command \union {NoCommand}]]
  BY DEF TypeInv, TypeOK, Tokens
<1>1. ASSUME router' = router, inflight' = inflight, lane' = lane, queue' = queue,
             OneNote(mailbox', a), HasNote(mailbox', a) <=> HasNote(mailbox, a)
      PROVE  Token(a)'
  BY <1>0, <1>1 DEF Token, Forwarding, Executing
<1>2. ASSUME NEW x \in Message, mailbox' = Append(mailbox, x), x.kind # "finished",
             router' = router, inflight' = inflight, lane' = lane, queue' = queue
      PROVE  Token(a)'
  <2>1. x # Note(a)
    BY <1>2 DEF Note
  <2> QED
    BY <1>0, <1>1, <1>2, <2>1, SendNotes
<1>3. ASSUME NEW cmd \in Command, mailbox' = mailbox \/ Receive("start") \/ Receive("stop"),
             Forwarding(a)' <=> cmd.kind = "start" /\ cmd.app = a,
             ~Forwarding(a),
             cmd.kind = "start" => cmd.app \notin inflight /\ inflight' = inflight \union {cmd.app},
             cmd.kind # "start" => inflight' = inflight,
             LaneFor(cmd.app), queue' = queue
      PROVE  Token(a)'
  <2>1. OneNote(mailbox', a) /\ (HasNote(mailbox', a) <=> HasNote(mailbox, a))
    BY <1>0, <1>3, ReceiveNotes DEF Token
  <2>2. lane'[a] = lane[a] \/ (lane[a].pc = "none" /\ lane'[a] = Lane("idle", NoCommand))
    BY <1>0, <1>3 DEF LaneFor
  <2>3. /\ Executing(a)' <=> Executing(a)
        /\ lane'[a].pc = "finishing" <=> lane[a].pc = "finishing"
        /\ LaneShape(lane'[a])
    BY <1>0, <2>2 DEF Executing, Token, LaneShape, Lane, NoCommand
  <2> QED
    BY <1>0, <1>3, <2>1, <2>3 DEF Token
<1>4. CASE UNCHANGED vars
  BY <1>0, <1>1, <1>4 DEF vars, Token
<1>5. CASE Teardown
  BY <1>2, <1>5 DEF Teardown, Message, Shutdown
<1>6. ASSUME NEW c \in Clients,
             (\E k \in Kinds, b \in Apps : Call(c, k, b)) \/ Send(c) \/ SendFails(c)
      PROVE  Token(a)'
  <2>1. CASE Send(c)
    <3>1. call[c].cmd \in Command
      BY <1>0, <2>1 DEF Send, TypeOK, Ended
    <3> QED
      BY <1>2, <2>1, <3>1 DEF Send, Message, Command
  <2> QED
    BY <1>0, <1>1, <1>6, <2>1 DEF Call, SendFails, Token
<1>7. CASE RouterReject
  <2>1. Receive("start")
    BY <1>7 DEF RouterReject
  <2> QED
    BY <1>0, <1>1, <1>7, <2>1, ReceiveNotes DEF RouterReject
<1>8. CASE RouterAdmit \/ RouterStop
  <2>1. Receive("start") \/ Receive("stop")
    BY <1>8 DEF RouterAdmit, RouterStop
  <2>2. Head(mailbox) \in Command
    BY <1>0, <2>1, MailboxHead
  <2>3. ~Forwarding(a)
    BY <2>1 DEF Receive, Forwarding, IsStartOf, Listening, NoCommand
  <2>4. Forwarding(a)' <=> Head(mailbox).kind = "start" /\ Head(mailbox).app = a
    BY <1>8 DEF RouterAdmit, RouterStop, Forwarding, IsStartOf
  <2> QED
    BY <1>3, <1>8, <2>1, <2>2, <2>3, <2>4 DEF RouterAdmit, RouterStop, Receive
<1>9. CASE RouterForward
  <2>1. router.cmd \in Command /\ router.cmd.app \in Apps
    BY <1>0, <1>9 DEF RouterForward, TypeOK, Listening, Down, Command
  <2>2. ~Forwarding(a)'
    BY <1>9 DEF RouterForward, Forwarding, IsStartOf, Listening, NoCommand
  <2>3. mailbox' = mailbox /\ inflight' = inflight /\ lane' = lane
    BY <1>9 DEF RouterForward
  <2>4. CASE router.cmd.app # a
    <3>1. queue'[a] = queue[a]
      BY <1>9, <2>4 DEF RouterForward, TypeInv, TypeOK
    <3> QED
      BY <1>0, <2>2, <2>3, <3>1 DEF Token, Executing
  <2>5. CASE router.cmd.app = a
    <3>1. queue'[a] = Append(queue[a], router.cmd)
      BY <1>0, <1>9, <2>5 DEF RouterForward, TypeOK
    <3>2. Forwarding(a) <=> router.cmd.kind = "start"
      BY <2>5 DEF Forwarding, IsStartOf
    <3>3. OneStart(queue'[a]) /\ (HasStart(queue'[a]) <=> HasStart(queue[a]) \/ Forwarding(a))
      BY <1>0, <2>1, <3>1, <3>2, QueueAppend DEF Token
    <3> QED
      BY <1>0, <2>2, <2>3, <3>3 DEF Token, Executing
  <2> QED
    BY <2>4, <2>5
<1>10. CASE RouterLaneGone
  <2>1. router.cmd \in Command /\ router.cmd.app \in Apps
    BY <1>0, <1>10 DEF RouterLaneGone, TypeOK, Listening, Down, Command
  <2>2. ~Forwarding(a)' /\ mailbox' = mailbox /\ queue' = queue
    BY <1>10 DEF RouterLaneGone, Forwarding, IsStartOf, Listening, NoCommand
  <2>3. \/ lane'[a] = lane[a]
        \/ /\ router.cmd.app = a /\ lane[a].pc = "dead" /\ lane'[a] = Lane("none", NoCommand)
    BY <1>0, <1>10 DEF RouterLaneGone
  <2>4. LaneShape(lane'[a]) /\ (Executing(a)' <=> Executing(a))
        /\ (lane'[a].pc = "finishing" <=> lane[a].pc = "finishing")
    BY <1>0, <2>3 DEF Executing, Token, LaneShape, Lane, NoCommand
  <2>5. a \in inflight => a \in inflight' \/ Forwarding(a)
    BY <1>10 DEF RouterLaneGone, Forwarding, IsStartOf
  <2> QED
    BY <1>0, <2>2, <2>4, <2>5 DEF Token
<1>11. CASE RouterFinished
  <2>1. Receive("finished") /\ UNCHANGED <<router, lane, queue>>
        /\ inflight' = inflight \ {Head(mailbox).app}
    BY <1>11 DEF RouterFinished
  <2> QED
    BY <1>0, <2>1, ReceiveNotes DEF Token, Forwarding, Executing
<1>12. CASE RouterShutdown
  <2>1. Receive("shutdown") /\ UNCHANGED <<inflight, lane, queue>> /\ router' = Down
    BY <1>12 DEF RouterShutdown
  <2>2. ~Forwarding(a)'
    BY <2>1 DEF Forwarding, IsStartOf, Down, NoCommand
  <2> QED
    BY <1>0, <2>1, <2>2, ReceiveNotes DEF Token, Executing
<1>13. ASSUME NEW b \in Apps, LaneStep(b) \/ LanePanics(b), b # a PROVE Token(a)'
  <2>1. lane'[a] = lane[a] /\ queue'[a] = queue[a] /\ router' = router /\ inflight' = inflight
    BY <1>0, <1>13 DEF LaneStep, LaneTake, LaneAcquire, LaneStarted, LaneNotify, LaneStopped,
       LanePanics, TypeOK
  <2>2. OneNote(mailbox', a) /\ (HasNote(mailbox', a) <=> HasNote(mailbox, a))
    <3>1. CASE mailbox' = mailbox
      BY <1>0, <3>1 DEF Token
    <3>2. CASE mailbox' = Append(mailbox, Note(b))
      <4>1. Note(b) \in Message /\ Note(b) # Note(a)
        BY <1>13 DEF Note, Message, Finished
      <4> QED
        BY <1>0, <3>2, <4>1, SendNotes
    <3> QED
      BY <1>13, <3>1, <3>2 DEF LaneStep, LaneTake, LaneAcquire, LaneStarted, LaneNotify,
         LaneStopped, LanePanics, Note
  <2> QED
    BY <1>0, <2>1, <2>2 DEF Token, Forwarding, Executing
<1>14. CASE LaneTake(a)
  <2>1. /\ lane[a].pc = "idle" /\ queue[a] # <<>> /\ queue'[a] = Tail(queue[a])
        /\ lane'[a] = Lane(IF Head(queue[a]).kind = "start" THEN "permit" ELSE "stopping",
                           Head(queue[a]))
        /\ UNCHANGED <<mailbox, router, inflight>>
    BY <1>0, <1>14 DEF LaneTake, TypeOK
  <2>2. Head(queue[a]) \in Command
    BY <1>0, <2>1
  <2>3. LaneShape(lane'[a]) /\ (Executing(a)' <=> Head(queue[a]).kind = "start")
        /\ lane'[a].pc # "finishing" /\ ~Executing(a)
    BY <1>0, <2>1, <2>2 DEF LaneShape, Lane, Executing, Command, Token
  <2>4. /\ OneStart(queue'[a]) /\ (HasStart(queue'[a]) => HasStart(queue[a]))
        /\ Head(queue[a]).kind = "start" => HasStart(queue[a]) /\ ~HasStart(queue'[a])
    BY <1>0, <2>1, QueueTail DEF Token
  <2> QED
    BY <1>0, <2>1, <2>3, <2>4 DEF Token, Forwarding
<1>15. CASE LaneAcquire(a) \/ LaneStopped(a)
  <2>1. UNCHANGED <<mailbox, router, inflight, queue>>
    BY <1>15 DEF LaneAcquire, LaneStopped
  <2>2. LaneShape(lane'[a]) /\ (Executing(a)' <=> Executing(a))
        /\ lane'[a].pc # "finishing"
    BY <1>0, <1>15 DEF LaneAcquire, LaneStopped, LaneShape, Lane, NoCommand, Executing, Token
  <2> QED
    BY <1>0, <2>1, <2>2 DEF Token, Forwarding
<1>16. CASE LaneStarted(a)
  <2>1. UNCHANGED <<mailbox, router, inflight, queue>>
    BY <1>16 DEF LaneStarted
  <2>2. LaneShape(lane'[a]) /\ ~Executing(a)' /\ Executing(a)
    BY <1>0, <1>16 DEF LaneStarted, LaneShape, Lane, NoCommand, Executing, Token
  <2> QED
    BY <1>0, <2>1, <2>2 DEF Token, Forwarding
<1>17. CASE LaneNotify(a)
  <2>1. UNCHANGED <<router, inflight, queue>> /\ lane[a].pc = "finishing"
        /\ lane'[a] = Lane("idle", NoCommand)
    BY <1>0, <1>17 DEF LaneNotify, TypeOK
  <2>2. LaneShape(lane'[a]) /\ ~Executing(a)' /\ lane'[a].pc # "finishing"
    BY <2>1 DEF LaneShape, Lane, NoCommand, Executing
  <2>3. OneNote(mailbox', a)
    <3>1. CASE mailbox' = mailbox
      BY <1>0, <3>1 DEF Token
    <3>2. CASE mailbox' = Append(mailbox, Note(a))
      <4>1. Note(a) \in Message
        BY DEF Note, Message, Finished
      <4> QED
        BY <1>0, <2>1, <3>2, <4>1, SendNotes DEF Token
    <3> QED
      BY <1>17, <3>1, <3>2 DEF LaneNotify, Note
  <2> QED
    BY <1>0, <2>1, <2>2, <2>3 DEF Token, Forwarding
<1>18. CASE LanePanics(a)
  <2>1. /\ UNCHANGED <<mailbox, router, inflight>> /\ queue'[a] = <<>>
        /\ lane'[a] = Lane("dead", NoCommand)
    BY <1>0, <1>18 DEF LanePanics, TypeOK
  <2>2. LaneShape(lane'[a]) /\ ~Executing(a)' /\ lane'[a].pc # "finishing"
    BY <2>1 DEF LaneShape, Lane, NoCommand, Executing
  <2>3. OneStart(queue'[a]) /\ ~HasStart(queue'[a])
    BY <2>1 DEF OneStart, HasStart
  <2> QED
    BY <1>0, <2>1, <2>2, <2>3 DEF Token, Forwarding
<1> QED
  BY <1>4, <1>5, <1>6, <1>7, <1>8, <1>9, <1>10, <1>11, <1>12, <1>13, <1>14, <1>15, <1>16,
     <1>17, <1>18 DEF Next, RouterStep, LaneStep

(* However many callers press start and however lanes die, the actor holds *)
(* at most one start of an app.                                            *)
THEOREM OneStartHeld == Spec => []SingleStart
<1>1. Tokens => SingleStart
  BY DEF Tokens, Token, SingleStart, OneStart, HasStart, Queued
<1> QED
  BY <1>1, TypeInit, TypeStep, TokenInit, TokenStep, PTL DEF Spec

-----------------------------------------------------------------------------
(* Where the callers only start apps.                                      *)

OnlyStarts ==
  /\ \A c \in Clients : call[c] = Ended \/ call[c].cmd \in Starts
  /\ mailbox \in Seq(Starts \union Finished \union {Shutdown})
  /\ router \in {Listening, Down} \/ router.cmd \in Starts
  /\ queue \in [Apps -> Seq(Starts)]

(* A marker is kept by its start or by the StartFinished that clears it.   *)
MarkerKept(a) ==
  router # Down /\ lane[a].pc # "dead" /\ a \in inflight =>
    \/ Forwarding(a) \/ HasStart(queue[a]) \/ Executing(a)
    \/ lane[a].pc = "finishing" \/ HasNote(mailbox, a)

(* Callers that only start apps put nothing else into the actor.           *)
LEMMA OnlyStartsStep ==
  ASSUME "stop" \notin Kinds
  PROVE  TypeInv /\ OnlyStarts /\ [Next]_vars => OnlyStarts'
<1> SUFFICES ASSUME TypeInv, OnlyStarts, [Next]_vars PROVE OnlyStarts'
  OBVIOUS
<1>0. /\ TypeOK /\ OnlyStarts
      /\ queue \in [Apps -> Seq(Starts)]
      /\ mailbox \in Seq(Starts \union Finished \union {Shutdown})
      /\ \A c \in Clients : call[c] = Ended \/ call[c].cmd \in Starts
  BY DEF TypeInv, OnlyStarts
<1>1. ASSUME NEW C, NEW how, End(C, how)
      PROVE  \A c \in Clients : call'[c] = Ended \/ call'[c].cmd \in Starts
  BY <1>0, <1>1 DEF End
<1>2. ASSUME NEW kind, Receive(kind)
      PROVE  /\ mailbox' \in Seq(Starts \union Finished \union {Shutdown})
             /\ kind \in {"start", "stop"} => Head(mailbox) \in Starts
  <2>1. Head(mailbox) \in Starts \union Finished \union {Shutdown}
    BY <1>0, <1>2 DEF Receive
  <2> QED
    BY <1>0, <1>2, <2>1 DEF Receive, Finished, Shutdown
<1>3. ASSUME NEW c \in Clients, NEW k \in Kinds, NEW a \in Apps, Call(c, k, a)
      PROVE  OnlyStarts'
  <2>1. k = "start"
    BY ActorAssumption
  <2>2. [kind |-> k, app |-> a, from |-> c] \in Starts
    BY <2>1 DEF Starts, Command
  <2>3. \A d \in Clients : call'[d] = Ended \/ call'[d].cmd \in Starts
    BY <1>0, <1>3, <2>2 DEF Call, TypeOK
  <2> QED
    BY <1>0, <1>3, <2>3 DEF Call, OnlyStarts
<1>4. ASSUME NEW c \in Clients, Send(c) \/ SendFails(c) PROVE OnlyStarts'
  <2>1. CASE Send(c)
    <3>1. call[c].cmd \in Starts
      BY <1>0, <2>1 DEF Send, Ended
    <3>2. \A d \in Clients : call'[d].cmd = call[d].cmd /\ (d # c => call'[d] = call[d])
      BY <1>0, <2>1 DEF Send, TypeOK
    <3>3. \A d \in Clients : call'[d] = Ended \/ call'[d].cmd \in Starts
      BY <1>0, <3>1, <3>2
    <3>4. mailbox' \in Seq(Starts \union Finished \union {Shutdown})
      BY <1>0, <2>1, <3>1 DEF Send
    <3> QED
      BY <1>0, <2>1, <3>3, <3>4 DEF Send, OnlyStarts
  <2>2. CASE SendFails(c)
    BY <1>0, <1>1, <2>2 DEF SendFails, OnlyStarts
  <2> QED
    BY <1>4, <2>1, <2>2
<1>5. CASE Teardown
  BY <1>0, <1>5 DEF Teardown, OnlyStarts
<1>6. CASE RouterStep
  <2>1. CASE RouterReject \/ RouterFinished \/ RouterShutdown
    <3>1. mailbox' \in Seq(Starts \union Finished \union {Shutdown})
      BY <1>2, <2>1 DEF RouterReject, RouterFinished, RouterShutdown
    <3>2. \A c \in Clients : call'[c] = Ended \/ call'[c].cmd \in Starts
      BY <1>0, <1>1, <2>1 DEF RouterReject, RouterFinished, RouterShutdown
    <3> QED
      BY <1>0, <2>1, <3>1, <3>2 DEF RouterReject, RouterFinished, RouterShutdown, OnlyStarts
  <2>2. CASE RouterAdmit \/ RouterStop
    <3>1. Head(mailbox) \in Starts /\ router'.cmd = Head(mailbox)
      BY <1>2, <2>2 DEF RouterAdmit, RouterStop
    <3>2. mailbox' \in Seq(Starts \union Finished \union {Shutdown})
      BY <1>2, <2>2 DEF RouterAdmit, RouterStop
    <3> QED
      BY <1>0, <2>2, <3>1, <3>2 DEF RouterAdmit, RouterStop, OnlyStarts
  <2>3. CASE RouterForward
    <3>1. router.cmd \in Starts
      BY <2>3 DEF RouterForward, OnlyStarts, Listening, Down
    <3>2. queue' \in [Apps -> Seq(Starts)]
      <4>1. router.cmd.app \in Apps
        BY <3>1 DEF Starts, Command
      <4>2. Append(queue[router.cmd.app], router.cmd) \in Seq(Starts)
        BY <1>0, <3>1, <4>1
      <4> QED
        BY <1>0, <2>3, <4>1, <4>2 DEF RouterForward
    <3> QED
      BY <1>0, <2>3, <3>2 DEF RouterForward, OnlyStarts
  <2>4. CASE RouterLaneGone
    <3>1. \A c \in Clients : call'[c] = Ended \/ call'[c].cmd \in Starts
      BY <1>1, <2>4 DEF RouterLaneGone
    <3> QED
      BY <1>0, <2>4, <3>1 DEF RouterLaneGone, OnlyStarts
  <2> QED
    BY <1>6, <2>1, <2>2, <2>3, <2>4 DEF RouterStep
<1>7. ASSUME NEW a \in Apps, LaneStep(a) \/ LanePanics(a) PROVE OnlyStarts'
  <2>1. router' = router
    BY <1>7 DEF LaneStep, LaneTake, LaneAcquire, LaneStarted, LaneNotify, LaneStopped, LanePanics
  <2>2. \A c \in Clients : call'[c] = Ended \/ call'[c].cmd \in Starts
    BY <1>0, <1>1, <1>7 DEF LaneStep, LaneTake, LaneAcquire, LaneStarted, LaneNotify,
       LaneStopped, LanePanics
  <2>3. queue' \in [Apps -> Seq(Starts)]
    <3>1. CASE LaneTake(a)
      <4>1. Tail(queue[a]) \in Seq(Starts)
        BY <1>0, <3>1 DEF LaneTake
      <4> QED
        BY <1>0, <3>1, <4>1 DEF LaneTake
    <3>2. CASE LanePanics(a)
      BY <1>0, <3>2 DEF LanePanics
    <3> QED
      BY <1>0, <1>7, <3>1, <3>2 DEF LaneStep, LaneAcquire, LaneStarted, LaneNotify, LaneStopped
  <2>4. mailbox' \in Seq(Starts \union Finished \union {Shutdown})
    <3>1. CASE mailbox' = Append(mailbox, [kind |-> "finished", app |-> a])
      <4>1. [kind |-> "finished", app |-> a] \in Finished
        BY DEF Finished
      <4> QED
        BY <1>0, <3>1, <4>1
    <3> QED
      BY <1>0, <1>7, <3>1 DEF LaneStep, LaneTake, LaneAcquire, LaneStarted, LaneNotify,
         LaneStopped, LanePanics
  <2> QED
    BY <2>1, <2>2, <2>3, <2>4 DEF OnlyStarts
<1>8. CASE UNCHANGED vars
  BY <1>0, <1>8 DEF vars, OnlyStarts
<1> QED
  BY <1>3, <1>4, <1>5, <1>6, <1>7, <1>8 DEF Next

(* The actor starts without commands and markers.                          *)
LEMMA OnlyStartsInit == Init => OnlyStarts /\ \A a \in Apps : MarkerKept(a)
<1> SUFFICES ASSUME Init PROVE OnlyStarts /\ \A a \in Apps : MarkerKept(a)
  OBVIOUS
<1>1. mailbox \in Seq(Starts \union Finished \union {Shutdown}) /\ queue \in [Apps -> Seq(Starts)]
  BY DEF Init
<1> QED
  BY <1>1 DEF Init, OnlyStarts, MarkerKept

(* A marker stays only while something will clear it.                      *)
LEMMA MarkerKeptStep ==
  TypeInv /\ Tokens /\ OnlyStarts /\ (\A a \in Apps : MarkerKept(a)) /\ [Next]_vars
    => \A a \in Apps : MarkerKept(a)'
<1> SUFFICES ASSUME TypeInv, Tokens, OnlyStarts, NEW a \in Apps, MarkerKept(a), [Next]_vars,
                    router' # Down, lane'[a].pc # "dead", a \in inflight'
             PROVE  \/ Forwarding(a)' \/ HasStart(queue'[a]) \/ Executing(a)'
                    \/ lane'[a].pc = "finishing" \/ HasNote(mailbox', a)
  BY DEF MarkerKept
<1>0. /\ TypeOK /\ Token(a)
      /\ \A b \in Apps : queue[b] \in Seq(Command)
      /\ lane \in [Apps -> [pc : {"none", "idle", "permit", "starting", "finishing",
                                  "stopping", "dead"},
                            cmd : Command \union {NoCommand}]]
      /\ mailbox \in Seq(Message)
  BY DEF TypeInv, TypeOK, Tokens, Message
<1> DEFINE Kept == \/ Forwarding(a) \/ HasStart(queue[a]) \/ Executing(a)
                   \/ lane[a].pc = "finishing" \/ HasNote(mailbox, a)
<1>1. ASSUME router' = router, inflight' = inflight, lane' = lane, queue' = queue,
             HasNote(mailbox, a) => HasNote(mailbox', a)
      PROVE  Kept'
  BY <1>0, <1>1 DEF MarkerKept, Forwarding, Executing
<1>2. CASE Teardown \/ \E c \in Clients : Send(c)
  <2>1. ASSUME NEW c \in Clients, Send(c) PROVE call[c].cmd \in Message
    BY <1>0, <2>1 DEF Send, TypeOK, Ended, Message
  <2>2. Shutdown \in Message
    BY DEF Message
  <2>3. HasNote(mailbox, a) => HasNote(mailbox', a)
    BY <1>0, <1>2, <2>1, <2>2, SendNotes DEF Teardown, Send
  <2> QED
    BY <1>1, <1>2, <2>3 DEF Teardown, Send
<1>3. CASE UNCHANGED vars \/ \E c \in Clients : SendFails(c) \/ \E k \in Kinds, b \in Apps : Call(c, k, b)
  BY <1>1, <1>3 DEF vars, SendFails, Call
<1>4. CASE RouterReject
  <2>1. Receive("start")
    BY <1>4 DEF RouterReject
  <2> QED
    BY <1>0, <1>1, <1>4, <2>1, ReceiveNotes DEF RouterReject
<1>5. CASE RouterAdmit \/ RouterStop
  <2>1. Receive("start") \/ Receive("stop")
    BY <1>5 DEF RouterAdmit, RouterStop
  <2>2. HasNote(mailbox', a) <=> HasNote(mailbox, a)
    BY <1>0, <2>1, ReceiveNotes
  <2>3. Head(mailbox) \in Command /\ LaneFor(Head(mailbox).app) /\ queue' = queue
    BY <1>0, <1>5, <2>1, MailboxHead DEF RouterAdmit, RouterStop
  <2>4. lane'[a] = lane[a] \/ (lane[a].pc = "none" /\ lane'[a] = Lane("idle", NoCommand))
    BY <1>0, <2>3 DEF LaneFor
  <2>5. Executing(a) => Executing(a)'
    BY <1>0, <2>4 DEF Executing, Token, LaneShape
  <2>6. CASE a \in inflight
    <3>1. router # Down /\ ~Forwarding(a)
      BY <2>1 DEF Receive, Listening, Down, Forwarding, IsStartOf, NoCommand
    <3>2. lane[a].pc # "dead"
      BY <2>4 DEF Lane
    <3> QED
      BY <2>2, <2>3, <2>4, <2>5, <2>6, <3>1, <3>2 DEF MarkerKept
  <2>7. CASE a \notin inflight
    BY <1>5, <2>7 DEF RouterAdmit, RouterStop, Receive, Forwarding, IsStartOf
  <2> QED
    BY <2>6, <2>7
<1>6. CASE RouterForward
  <2>1. router.cmd \in Command /\ router.cmd.app \in Apps /\ router # Down
    BY <1>0, <1>6 DEF RouterForward, TypeOK, Listening, Down, Command
  <2>2. mailbox' = mailbox /\ inflight' = inflight /\ lane' = lane
    BY <1>6 DEF RouterForward
  <2>3. HasStart(queue[a]) \/ Forwarding(a) => HasStart(queue'[a])
    <3>1. CASE router.cmd.app # a
      BY <1>0, <1>6, <3>1 DEF RouterForward, TypeOK, Forwarding, IsStartOf
    <3>2. CASE router.cmd.app = a
      <4>1. queue'[a] = Append(queue[a], router.cmd)
        BY <1>0, <1>6, <3>2 DEF RouterForward, TypeOK
      <4> QED
        BY <1>0, <2>1, <4>1, QueueAppend DEF Forwarding, IsStartOf
    <3> QED
      BY <3>1, <3>2
  <2> QED
    BY <2>1, <2>2, <2>3 DEF MarkerKept, Executing
<1>7. CASE RouterLaneGone
  <2>1. router.cmd \in Starts /\ router.cmd.app \in Apps /\ router # Down
    BY <1>7 DEF RouterLaneGone, OnlyStarts, Starts, Listening, Down, Command
  <2>2. mailbox' = mailbox /\ queue' = queue /\ inflight' = inflight \ {router.cmd.app}
    BY <1>7, <2>1 DEF RouterLaneGone, Starts
  <2>3. router.cmd.app # a /\ lane'[a] = lane[a]
    BY <1>0, <1>7, <2>2 DEF RouterLaneGone
  <2>4. ~Forwarding(a)
    BY <2>3 DEF Forwarding, IsStartOf
  <2> QED
    BY <2>1, <2>2, <2>3, <2>4 DEF MarkerKept, Executing
<1>8. CASE RouterFinished
  <2>1. Receive("finished") /\ UNCHANGED <<router, lane, queue>>
        /\ inflight' = inflight \ {Head(mailbox).app}
    BY <1>8 DEF RouterFinished
  <2>2. Head(mailbox) # Note(a)
    BY <2>1 DEF Note
  <2>3. HasNote(mailbox', a) <=> HasNote(mailbox, a)
    BY <1>0, <2>1, <2>2, ReceiveNotes
  <2> QED
    BY <2>1, <2>3 DEF MarkerKept, Forwarding, Executing
<1>9. CASE RouterShutdown
  BY <1>9 DEF RouterShutdown
<1>10. ASSUME NEW b \in Apps, b # a, LaneStep(b) \/ LanePanics(b) PROVE Kept'
  <2>1. lane'[a] = lane[a] /\ queue'[a] = queue[a] /\ router' = router /\ inflight' = inflight
    BY <1>0, <1>10 DEF LaneStep, LaneTake, LaneAcquire, LaneStarted, LaneNotify, LaneStopped,
       LanePanics, TypeOK
  <2>2. HasNote(mailbox, a) => HasNote(mailbox', a)
    <3>1. CASE mailbox' = Append(mailbox, Note(b))
      <4>1. Note(b) \in Message
        BY DEF Note, Message, Finished
      <4> QED
        BY <1>0, <3>1, <4>1, SendNotes
    <3> QED
      BY <1>10, <3>1 DEF LaneStep, LaneTake, LaneAcquire, LaneStarted, LaneNotify,
         LaneStopped, LanePanics, Note
  <2> QED
    BY <2>1, <2>2 DEF MarkerKept, Forwarding, Executing
<1>11. CASE LaneTake(a)
  <2>1. /\ lane[a].pc = "idle" /\ queue[a] # <<>> /\ queue'[a] = Tail(queue[a])
        /\ lane'[a].cmd = Head(queue[a])
        /\ UNCHANGED <<mailbox, router, inflight>>
    BY <1>0, <1>11 DEF LaneTake, TypeOK, Lane
  <2>2. HasStart(queue[a]) => HasStart(queue'[a]) \/ Executing(a)'
    BY <1>0, <2>1, QueueTail DEF Executing
  <2>3. ~Executing(a)
    BY <1>0, <2>1 DEF Token, LaneShape, Executing
  <2> QED
    BY <2>1, <2>2, <2>3 DEF MarkerKept, Forwarding
<1>12. CASE LaneAcquire(a) \/ LaneStopped(a)
  <2>1. UNCHANGED <<mailbox, router, inflight, queue>> /\ lane[a].pc \in {"permit", "stopping"}
    BY <1>12 DEF LaneAcquire, LaneStopped
  <2>2. Executing(a) => Executing(a)'
    BY <1>0, <1>12 DEF LaneAcquire, LaneStopped, LaneShape, Executing, Token
  <2> QED
    BY <2>1, <2>2 DEF MarkerKept, Forwarding
<1>13. CASE LaneStarted(a)
  BY <1>0, <1>13 DEF LaneStarted, Lane
<1>14. CASE LaneNotify(a)
  <2>1. router' = router /\ mailbox' = Append(mailbox, Note(a))
    BY <1>14 DEF LaneNotify, Note
  <2>2. Note(a) \in Message
    BY DEF Note, Message, Finished
  <2> QED
    BY <1>0, <2>1, <2>2, SendNotes
<1>15. CASE LanePanics(a)
  BY <1>0, <1>15 DEF LanePanics, Lane
<1> QED
  BY <1>2, <1>3, <1>4, <1>5, <1>6, <1>7, <1>8, <1>9, <1>10, <1>11, <1>12, <1>13, <1>14, <1>15
     DEF Next, RouterStep, LaneStep

(* Where callers only start apps, a marker and its start, or the           *)
(* StartFinished that clears it, come and go together, lanes that die      *)
(* aside.                                                                  *)
THEOREM MarkersOwned ==
  ASSUME "stop" \notin Kinds
  PROVE  Spec => []MarkerOwned
<1> DEFINE Kept == \A a \in Apps : MarkerKept(a)
<1>1. Tokens /\ Kept => MarkerOwned
  BY DEF Tokens, Token, MarkerKept, MarkerOwned, Admitted, Queued, HasStart, Notifying, HasNote, Note
<1>2. OnlyStarts /\ TypeInv /\ [Next]_vars => OnlyStarts'
  BY OnlyStartsStep
<1>3. Init => Kept
  BY OnlyStartsInit
<1>4. TypeInv /\ Tokens /\ OnlyStarts /\ Kept /\ [Next]_vars => Kept'
  BY MarkerKeptStep
<1> HIDE DEF Kept
<1> QED
  BY <1>1, <1>2, <1>3, <1>4, OnlyStartsInit, TypeInit, TypeStep, TokenInit, TokenStep, PTL
     DEF Spec

(* Where callers only start apps, the lane a start is forwarded to has     *)
(* nothing queued: the router never waits, whatever the capacities are.    *)
THEOREM RouterNeverBlocks ==
  ASSUME "stop" \notin Kinds
  PROVE  Spec => []RouterNeverWaits
<1>1. TypeInv /\ Tokens /\ OnlyStarts => RouterNeverWaits
  <2> SUFFICES ASSUME TypeInv, Tokens, OnlyStarts, router.pc = "forwarding"
               PROVE  Len(queue[router.cmd.app]) < LaneCap
    BY DEF RouterNeverWaits
  <2> DEFINE a == router.cmd.app
  <2>1. a \in Apps /\ Forwarding(a)
    BY DEF OnlyStarts, Starts, Command, Listening, Down, Forwarding, IsStartOf
  <2>2. ~HasStart(queue[a])
    BY <2>1 DEF Tokens, Token
  <2>3. queue[a] \in Seq(Starts)
    BY <2>1 DEF OnlyStarts
  <2> HIDE DEF a
  <2>4. Len(queue[a]) = 0
    <3>1. Len(queue[a]) \in Nat /\ DOMAIN queue[a] = 1 .. Len(queue[a])
          /\ \A i \in DOMAIN queue[a] : queue[a][i] \in Starts
      BY <2>3
    <3> QED
      BY <2>2, <3>1 DEF HasStart, Starts
  <2> QED
    BY <2>4, ActorAssumption DEF a
<1>2. OnlyStarts /\ TypeInv /\ [Next]_vars => OnlyStarts'
  BY OnlyStartsStep
<1> QED
  BY <1>1, <1>2, OnlyStartsInit, TypeInit, TypeStep, TokenInit, TokenStep, PTL DEF Spec

-----------------------------------------------------------------------------
(* The start of an app is exclusive work.  A caller's command is in one    *)
(* place of the actor at most, and as long as it is, its caller waits: so  *)
(* whoever is answered or dropped is not the caller whose start still runs *)
(* in a lane.                                                              *)

Sent(c) == {cmd \in Command : cmd.from = c}
Other(c) == Sent(c) \ {call[c].cmd}

Homed ==
  /\ \A c \in Clients : call[c] = Ended \/ call[c].cmd \in Sent(c)
  /\ \A a \in Apps : /\ queue[a] \in Seq(OfApp(a))
                     /\ lane[a].cmd \in OfApp(a) \union {NoCommand}

(* Where a command of c is.  What a router that is down left in its        *)
(* mailbox has been dropped.                                               *)
InMail(c) == router # Down /\ Has(mailbox, Sent(c))
InHand(c) == router.cmd \in Sent(c)
InQueue(c, a) == Has(queue[a], Sent(c))
InLane(c, a) == lane[a].cmd \in Sent(c)
Held(c) == InMail(c) \/ InHand(c) \/ \E a \in Apps : InQueue(c, a) \/ InLane(c, a)

Once(c) ==
  /\ router # Down => One(mailbox, Sent(c))
  /\ InMail(c) => ~InHand(c)
  /\ \A a \in Apps :
       /\ One(queue[a], Sent(c))
       /\ InMail(c) \/ InHand(c) => ~InQueue(c, a) /\ ~InLane(c, a)
       /\ \A b \in Apps : /\ InQueue(c, a) => ~InLane(c, b) /\ (InQueue(c, b) => a = b)
                          /\ InLane(c, a) /\ InLane(c, b) => a = b

Own(c) ==
  /\ router # Down => ~Has(mailbox, Other(c))
  /\ router.cmd \notin Other(c)
  /\ \A a \in Apps : ~Has(queue[a], Other(c)) /\ lane[a].cmd \notin Other(c)

Owns(c) == (Held(c) => call[c].pc = "waiting") /\ Once(c) /\ Own(c)

(* Commands stay with their app and their caller.                          *)
LEMMA HomedStep == TypeInv /\ Homed /\ [Next]_vars => Homed'
<1> SUFFICES ASSUME TypeInv, Homed, [Next]_vars PROVE Homed'
  OBVIOUS
<1>0. TypeOK /\ Homed
  BY DEF TypeInv
<1> DEFINE Mine(c) == call[c] = Ended \/ call[c].cmd \in Sent(c)
           AtHome(a) == /\ queue[a] \in Seq(OfApp(a))
                        /\ lane[a].cmd \in OfApp(a) \union {NoCommand}
<1>1. ASSUME NEW c \in Clients PROVE Mine(c)'
  <2>1. Mine(c)
    BY DEF Homed
  <2>2. ASSUME NEW k \in Kinds, NEW a \in Apps, Call(c, k, a) PROVE Mine(c)'
    <3>1. [kind |-> k, app |-> a, from |-> c] \in Sent(c)
      BY ActorAssumption DEF Sent, Command
    <3> QED
      BY <1>0, <2>2, <3>1 DEF Call, TypeOK
  <2>3. CASE Send(c)
    <3>1. call'[c].cmd = call[c].cmd /\ call[c] # Ended
      BY <1>0, <2>3 DEF Send, TypeOK, Ended
    <3> QED
      BY <2>1, <3>1
  <2>4. ASSUME NEW d \in Clients, d # c, Send(d) \/ \E k \in Kinds, a \in Apps : Call(d, k, a)
        PROVE  call'[c] = call[c]
    BY <1>0, <2>4 DEF Send, Call, TypeOK
  <2>5. ASSUME NEW C, NEW how, End(C, how) PROVE Mine(c)'
    BY <2>1, <2>5 DEF End
  <2>6. CASE RouterStep \/ \E d \in Clients : SendFails(d)
    BY <2>1, <2>5, <2>6 DEF RouterStep, RouterReject, RouterAdmit, RouterStop, RouterForward,
       RouterLaneGone, RouterFinished, RouterShutdown, SendFails
  <2>7. CASE \E a \in Apps : LaneStep(a) \/ LanePanics(a)
    BY <2>1, <2>5, <2>7 DEF LaneStep, LaneTake, LaneAcquire, LaneStarted, LaneNotify,
       LaneStopped, LanePanics
  <2>8. CASE Teardown \/ UNCHANGED vars
    BY <2>1, <2>8 DEF Teardown, vars
  <2> QED
    BY <2>1, <2>2, <2>3, <2>4, <2>6, <2>7, <2>8 DEF Next
<1>2. ASSUME NEW a \in Apps PROVE AtHome(a)'
  <2>1. AtHome(a)
    BY DEF Homed
  <2>2. ASSUME queue'[a] = queue[a], lane'[a].cmd \in {lane[a].cmd, NoCommand} PROVE AtHome(a)'
    BY <2>1, <2>2
  <2>3. ASSUME NEW b \in Apps, LaneFor(b) PROVE lane'[a].cmd \in {lane[a].cmd, NoCommand}
    BY <1>0, <2>3 DEF LaneFor, TypeOK, Lane
  <2>4. CASE RouterAdmit \/ RouterStop
    <3>1. Head(mailbox).app \in Apps
      BY <1>0, <2>4, MailboxHead DEF RouterAdmit, RouterStop, Command
    <3> QED
      BY <2>2, <2>3, <2>4, <3>1 DEF RouterAdmit, RouterStop
  <2>5. CASE RouterForward
    <3>1. router.cmd \in OfApp(router.cmd.app) /\ router.cmd.app \in Apps
      BY <1>0, <2>5 DEF RouterForward, TypeOK, Listening, Down, Command, OfApp
    <3>2. queue'[a] = IF a = router.cmd.app THEN Append(queue[a], router.cmd) ELSE queue[a]
      BY <1>0, <2>5, <3>1 DEF RouterForward, TypeOK
    <3>3. lane' = lane
      BY <2>5 DEF RouterForward
    <3> QED
      BY <2>1, <3>1, <3>2, <3>3
  <2>6. CASE RouterLaneGone
    <3>1. router.cmd.app \in Apps
      BY <1>0, <2>6 DEF RouterLaneGone, TypeOK, Listening, Down, Command
    <3> QED
      BY <1>0, <2>2, <2>6, <3>1 DEF RouterLaneGone, TypeOK, Lane
  <2>7. CASE RouterReject \/ RouterFinished \/ RouterShutdown
    BY <2>2, <2>7 DEF RouterReject, RouterFinished, RouterShutdown
  <2>8. ASSUME NEW b \in Apps, LaneStep(b) \/ LanePanics(b) PROVE AtHome(a)'
    <3>1. CASE b # a
      BY <1>0, <2>2, <2>8, <3>1 DEF LaneStep, LaneTake, LaneAcquire, LaneStarted, LaneNotify,
         LaneStopped, LanePanics, TypeOK
    <3>2. CASE LaneTake(a)
      <4>1. queue[a] # <<>> /\ queue'[a] = Tail(queue[a]) /\ lane'[a].cmd = Head(queue[a])
        BY <1>0, <3>2 DEF LaneTake, TypeOK, Lane
      <4> QED
        BY <2>1, <4>1
    <3>3. CASE LanePanics(a)
      BY <1>0, <3>3 DEF LanePanics, TypeOK, Lane
    <3>4. CASE LaneAcquire(a) \/ LaneStarted(a) \/ LaneNotify(a) \/ LaneStopped(a)
      BY <1>0, <2>2, <3>4 DEF LaneAcquire, LaneStarted, LaneNotify, LaneStopped, TypeOK, Lane
    <3> QED
      BY <2>8, <3>1, <3>2, <3>3, <3>4 DEF LaneStep
  <2>9. CASE UNCHANGED vars \/ Teardown
             \/ \E c \in Clients : Send(c) \/ SendFails(c) \/ \E k \in Kinds, b \in Apps : Call(c, k, b)
    BY <2>2, <2>9 DEF vars, Teardown, Send, SendFails, Call
  <2> QED
    BY <2>4, <2>5, <2>6, <2>7, <2>8, <2>9 DEF Next, RouterStep
<1> QED
  BY <1>1, <1>2 DEF Homed

(* Commands that end and reach nobody else: what stays is as it was.       *)
LEMMA Fewer ==
  ASSUME NEW c \in Clients, Owns(c),
         call'[c] = call[c] \/ ~Held(c)',
         router'.cmd = router.cmd \/ router'.cmd = NoCommand,
         \A a \in Apps : lane'[a].cmd = lane[a].cmd \/ lane'[a].cmd = NoCommand,
         \A a \in Apps : queue'[a] = queue[a] \/ queue'[a] = <<>>,
         router' # Down =>
           /\ router # Down
           /\ \A S \in SUBSET Sent(c) :
                (Has(mailbox', S) => Has(mailbox, S)) /\ (One(mailbox, S) => One(mailbox', S))
  PROVE  Owns(c)'
<1>1. Sent(c) \in SUBSET Sent(c) /\ NoCommand \notin Sent(c)
  BY DEF Sent, Command, NoCommand
<1>2. \A S : ~Has(<<>>, S) /\ One(<<>>, S)
  BY DEF Has, One
<1>3. Once(c)'
  <2>1. /\ InMail(c)' => InMail(c)
        /\ InHand(c)' => InHand(c)
        /\ \A a \in Apps : (InQueue(c, a)' => InQueue(c, a)) /\ (InLane(c, a)' => InLane(c, a))
    BY <1>1, <1>2 DEF InMail, InHand, InQueue, InLane
  <2>2. /\ router' # Down => One(mailbox', Sent(c))
        /\ \A a \in Apps : One(queue'[a], Sent(c))
    BY <1>1, <1>2 DEF Owns, Once
  <2> QED
    BY <2>1, <2>2 DEF Owns, Once
<1>4. CASE call'[c] = call[c]
  <2>1. Other(c)' = Other(c) /\ Other(c) \in SUBSET Sent(c) /\ NoCommand \notin Other(c)
    BY <1>1, <1>4 DEF Other
  <2>2. Own(c)'
    BY <1>2, <2>1 DEF Owns, Own
  <2>3. Held(c)' => Held(c)
    BY <1>1, <1>2 DEF Held, InMail, InHand, InQueue, InLane
  <2> QED
    BY <1>3, <1>4, <2>2, <2>3 DEF Owns
<1>5. CASE ~Held(c)'
  <2>1. \A x : x \in Other(c)' => x \in Sent(c)
    BY DEF Other
  <2>2. \A q : Has(q, Other(c)') => Has(q, Sent(c))
    BY <2>1 DEF Has
  <2>3. Own(c)'
    BY <1>5, <2>1, <2>2 DEF Own, Held, InMail, InHand, InQueue, InLane
  <2> QED
    BY <1>3, <1>5, <2>3 DEF Owns
<1> QED
  BY <1>4, <1>5

(* The message the router takes.                                           *)
LEMMA ReceiveHas ==
  ASSUME TypeOK, NEW kind, Receive(kind), NEW S
  PROVE  /\ Has(mailbox, S) <=> Has(mailbox', S) \/ Head(mailbox) \in S
         /\ One(mailbox, S) => One(mailbox', S)
         /\ One(mailbox, S) /\ Head(mailbox) \in S => ~Has(mailbox', S)
<1>1. mailbox \in Seq(Message) /\ mailbox # <<>> /\ mailbox' = Tail(mailbox)
  BY DEF TypeOK, Receive, Message
<1> QED
  BY <1>1, TailHas

Owned == \A c \in Clients : Owns(c)

(* What callers and teardown send.                                         *)
LEMMA OwnedCallers ==
  ASSUME TypeInv, Homed, Owned, NEW c \in Clients,
         \/ \E d \in Clients : Send(d) \/ SendFails(d) \/ \E k \in Kinds, a \in Apps : Call(d, k, a)
         \/ Teardown
  PROVE  Owns(c)'
<1>0. TypeOK /\ Owns(c) /\ mailbox \in Seq(Message)
  BY DEF TypeInv, TypeOK, Owned, Message
<1>1. CASE \E d \in Clients : SendFails(d) \/ \E k \in Kinds, a \in Apps : Call(d, k, a)
  <2>1. PICK d \in Clients : SendFails(d) \/ \E k \in Kinds, a \in Apps : Call(d, k, a)
    BY <1>1
  <2>2. /\ UNCHANGED <<mailbox, router, lane, queue>>
        /\ call[d].pc # "waiting" /\ (c # d => call'[c] = call[c])
    BY <1>0, <2>1 DEF SendFails, Call, End, Ended, TypeOK
  <2>3. c = d => ~Held(c)
    BY <1>0, <2>2 DEF Owns
  <2>4. Held(c)' <=> Held(c)
    BY <2>2 DEF Held, InMail, InHand, InQueue, InLane
  <2>5. call'[c] = call[c] \/ ~Held(c)'
    BY <2>2, <2>3, <2>4
  <2> QED
    BY <1>0, <2>2, <2>5, Fewer
<1>2. ASSUME NEW x \in Message, x \notin Sent(c), mailbox' = Append(mailbox, x),
             UNCHANGED <<router, lane, queue>>, call'[c] = call[c]
      PROVE  Owns(c)'
  <2>1. \A S \in SUBSET Sent(c) :
           (Has(mailbox', S) => Has(mailbox, S)) /\ (One(mailbox, S) => One(mailbox', S))
    BY <1>0, <1>2, AppendHas
  <2> QED
    BY <1>0, <1>2, <2>1, Fewer
<1>3. CASE Teardown
  <2>1. Shutdown \in Message /\ Shutdown \notin Sent(c)
    BY DEF Message, Sent, Command, Shutdown
  <2> QED
    BY <1>2, <1>3, <2>1 DEF Teardown
<1>4. ASSUME NEW d \in Clients, Send(d) PROVE Owns(c)'
  <2> DEFINE x == call[d].cmd
  <2>1. /\ call[d].pc = "sending" /\ router # Down /\ mailbox' = Append(mailbox, x)
        /\ UNCHANGED <<router, lane, queue>>
    BY <1>4 DEF Send
  <2>2. x \in Sent(d) /\ x \in Message
    BY <2>1 DEF Homed, Ended, Sent, Message
  <2>3. CASE c # d
    <3>1. x \notin Sent(c)
      BY <2>2, <2>3 DEF Sent
    <3>2. call'[c] = call[c]
      BY <1>0, <1>4, <2>3 DEF Send, TypeOK
    <3> QED
      BY <1>2, <2>1, <2>2, <3>1, <3>2
  <2>4. CASE c = d
    <3>1. call'[c].pc = "waiting" /\ call'[c].cmd = x
      BY <1>0, <1>4, <2>4 DEF Send, TypeOK, Ended
    <3>2. ~Held(c) /\ ~Has(mailbox, Sent(c)) /\ Other(c)' = Other(c) /\ x \notin Other(c)
      BY <1>0, <2>1, <2>4, <3>1 DEF Owns, Held, InMail, Other
    <3>3. One(mailbox, Sent(c)) /\ ~Has(mailbox, Other(c))
      BY <1>0, <2>1 DEF Owns, Once, Own
    <3>4. One(mailbox', Sent(c)) /\ ~Has(mailbox', Other(c))
      BY <1>0, <2>1, <2>2, <3>2, <3>3, AppendHas
    <3>5. /\ ~InHand(c)' /\ \A a \in Apps : ~InQueue(c, a)' /\ ~InLane(c, a)'
      BY <2>1, <3>2 DEF Held, InHand, InQueue, InLane
    <3>6. Once(c)'
      BY <1>0, <2>1, <3>4, <3>5 DEF Owns, Once
    <3>7. Own(c)'
      BY <1>0, <2>1, <3>2, <3>4 DEF Owns, Own
    <3> QED
      BY <3>1, <3>6, <3>7 DEF Owns
  <2> QED
    BY <2>3, <2>4
<1> QED
  BY <1>1, <1>3, <1>4

(* What the router does with the command it takes.                         *)
LEMMA OwnedRouter ==
  ASSUME TypeInv, Owned, NEW c \in Clients, RouterStep
  PROVE  Owns(c)'
<1>0. TypeOK /\ Owns(c)
  BY DEF TypeInv, Owned
<1>1. ASSUME NEW kind, Receive(kind)
      PROVE  \A S \in SUBSET Sent(c) :
               (Has(mailbox', S) => Has(mailbox, S)) /\ (One(mailbox, S) => One(mailbox', S))
  BY <1>0, <1>1, ReceiveHas
<1>2. CASE RouterReject
  <2>1. /\ Receive("start") /\ UNCHANGED <<router, lane, queue>> /\ router # Down
        /\ End({Head(mailbox).from}, "rejected") /\ Head(mailbox) \in Command
    BY <1>0, <1>2, MailboxHead DEF RouterReject, Receive, Listening, Down
  <2>2. CASE c # Head(mailbox).from
    <3>1. call'[c] = call[c]
      BY <2>1, <2>2 DEF End
    <3> QED
      BY <1>0, <1>1, <2>1, <3>1, Fewer
  <2>3. CASE c = Head(mailbox).from
    <3>1. Head(mailbox) \in Sent(c)
      BY <2>1, <2>3 DEF Sent
    <3>2. InMail(c) /\ ~Has(mailbox', Sent(c))
      BY <1>0, <2>1, <3>1, ReceiveHas DEF InMail, Owns, Once
    <3>3. ~Held(c)'
      BY <1>0, <2>1, <3>2 DEF Held, InMail, InHand, InQueue, InLane, Owns, Once
    <3> QED
      BY <1>0, <1>1, <2>1, <3>3, Fewer
  <2> QED
    BY <2>2, <2>3
<1>3. CASE RouterFinished
  <2>1. Receive("finished") /\ UNCHANGED <<call, router, lane, queue>> /\ router # Down
    BY <1>3 DEF RouterFinished, Receive, Listening, Down
  <2> QED
    BY <1>0, <1>1, <2>1, Fewer
<1>4. CASE RouterShutdown
  <2>1. /\ Receive("shutdown") /\ UNCHANGED <<lane, queue>> /\ router # Down /\ router' = Down
        /\ End(Senders(mailbox'), "dropped") /\ Down.cmd = NoCommand
    BY <1>4 DEF RouterShutdown, Receive, Listening, Down
  <2>2. CASE c \notin Senders(mailbox')
    <3>1. call'[c] = call[c]
      BY <2>1, <2>2 DEF End
    <3> QED
      BY <1>0, <2>1, <3>1, Fewer
  <2>3. CASE c \in Senders(mailbox')
    <3>1. Has(mailbox', Sent(c))
      BY <2>3 DEF Senders, Has, Sent
    <3>2. InMail(c)
      BY <1>0, <2>1, <3>1, ReceiveHas DEF InMail
    <3>3. Down.cmd \notin Sent(c)
      BY <2>1 DEF Sent, Command, NoCommand
    <3>4. ~Held(c)'
      BY <1>0, <2>1, <3>2, <3>3 DEF Held, InMail, InHand, InQueue, InLane, Owns, Once
    <3> QED
      BY <1>0, <2>1, <3>4, Fewer
  <2> QED
    BY <2>2, <2>3
<1>5. CASE RouterAdmit \/ RouterStop
  <2> DEFINE x == Head(mailbox)
  <2>1. PICK kind \in {"start", "stop"} : Receive(kind)
    BY <1>5 DEF RouterAdmit, RouterStop
  <2>2. /\ x \in Command /\ router = Listening /\ router' # Down /\ router'.cmd = x
        /\ LaneFor(x.app) /\ queue' = queue /\ call' = call
    BY <1>0, <1>5, <2>1, MailboxHead DEF RouterAdmit, RouterStop, Receive, Down
  <2>3. router # Down /\ ~InHand(c)
    BY <2>2 DEF InHand, Sent, Command, Listening, Down, NoCommand
  <2>4. \A a \in Apps : lane'[a].cmd = lane[a].cmd \/ lane'[a].cmd = NoCommand
    BY <1>0, <2>2 DEF LaneFor, TypeOK, Lane
  <2>5. \A a \in Apps : (InLane(c, a)' => InLane(c, a)) /\ (InQueue(c, a)' <=> InQueue(c, a))
    BY <2>2, <2>4 DEF InLane, InQueue, Sent, Command, NoCommand
  <2>6. /\ InMail(c)' => InMail(c)
        /\ InHand(c)' => InMail(c) /\ ~InMail(c)'
        /\ One(mailbox', Sent(c))
    BY <1>0, <2>1, <2>2, <2>3, ReceiveHas DEF InMail, InHand, Owns, Once
  <2>7. Once(c)'
    BY <1>0, <2>2, <2>3, <2>5, <2>6 DEF Owns, Once
  <2>8. Other(c)' = Other(c) /\ NoCommand \notin Other(c)
    BY <2>2 DEF Other, Sent, Command, NoCommand
  <2>9. ~Has(mailbox', Other(c)) /\ x \notin Other(c)
    BY <1>0, <2>1, <2>3, ReceiveHas DEF Owns, Own
  <2>10. Own(c)'
    BY <1>0, <2>2, <2>4, <2>8, <2>9 DEF Owns, Own
  <2>11. Held(c)' => Held(c)
    BY <2>5, <2>6 DEF Held
  <2> QED
    BY <1>0, <2>2, <2>7, <2>10, <2>11 DEF Owns
<1>6. CASE RouterForward
  <2> DEFINE x == router.cmd
  <2>1. /\ x \in Command /\ x.app \in Apps /\ router # Down /\ router' # Down
        /\ router'.cmd = NoCommand /\ UNCHANGED <<mailbox, lane, call>>
    BY <1>0, <1>6 DEF RouterForward, TypeOK, Listening, Down, Command
  <2>2. \A a \in Apps : /\ queue[a] \in Seq(Command)
                        /\ queue'[a] = IF a = x.app THEN Append(queue[a], x) ELSE queue[a]
    BY <1>0, <1>6, <2>1 DEF RouterForward, TypeOK
  <2>3. Other(c)' = Other(c) /\ NoCommand \notin Sent(c) /\ NoCommand \notin Other(c)
    BY <2>1 DEF Other, Sent, Command, NoCommand
  <2>4. /\ ~InHand(c)' /\ (InMail(c)' <=> InMail(c))
        /\ \A a \in Apps : InLane(c, a)' <=> InLane(c, a)
    BY <2>1, <2>3 DEF InHand, InMail, InLane
  <2>5. \A a \in Apps : /\ InQueue(c, a)' <=> InQueue(c, a) \/ (a = x.app /\ InHand(c))
                        /\ One(queue'[a], Sent(c))
    <3> TAKE a \in Apps
    <3>1. One(queue[a], Sent(c)) /\ (InHand(c) => ~InQueue(c, a))
      BY <1>0 DEF Owns, Once
    <3> QED
      BY <2>1, <2>2, <3>1, AppendHas DEF InQueue, InHand
  <2>6. Once(c)'
    BY <1>0, <2>1, <2>4, <2>5 DEF Owns, Once
  <2>7. \A a \in Apps : ~Has(queue'[a], Other(c))
    <3> TAKE a \in Apps
    <3>1. ~Has(queue[a], Other(c)) /\ x \notin Other(c)
      BY <1>0 DEF Owns, Own
    <3> QED
      BY <2>1, <2>2, <3>1, AppendHas
  <2>8. Own(c)'
    BY <1>0, <2>1, <2>3, <2>7 DEF Owns, Own
  <2>9. Held(c)' => Held(c)
    BY <2>1, <2>4, <2>5 DEF Held
  <2> QED
    BY <1>0, <2>1, <2>6, <2>8, <2>9 DEF Owns
<1>7. CASE RouterLaneGone
  <2>1. /\ router.cmd \in Command /\ router # Down /\ router' # Down
        /\ router'.cmd = NoCommand /\ UNCHANGED <<mailbox, queue>>
        /\ End({router.cmd.from}, "unavailable")
    BY <1>0, <1>7 DEF RouterLaneGone, TypeOK, Listening, Down
  <2>2. \A a \in Apps : lane'[a].cmd = lane[a].cmd \/ lane'[a].cmd = NoCommand
    BY <1>0, <1>7 DEF RouterLaneGone, TypeOK, Lane
  <2>3. CASE c # router.cmd.from
    <3>1. call'[c] = call[c]
      BY <2>1, <2>3 DEF End
    <3> QED
      BY <1>0, <2>1, <2>2, <3>1, Fewer
  <2>4. CASE c = router.cmd.from
    <3>1. InHand(c) /\ NoCommand \notin Sent(c)
      BY <2>1, <2>4 DEF InHand, Sent, Command, NoCommand
    <3>2. ~Held(c)'
      BY <1>0, <2>1, <2>2, <3>1 DEF Held, InMail, InHand, InQueue, InLane, Owns, Once
    <3> QED
      BY <1>0, <2>1, <2>2, <3>2, Fewer
  <2> QED
    BY <2>3, <2>4
<1> QED
  BY <1>2, <1>3, <1>4, <1>5, <1>6, <1>7 DEF RouterStep

(* What a lane does with its commands.                                     *)
LEMMA OwnedLane ==
  ASSUME TypeInv, Tokens, Owned, NEW c \in Clients, NEW a \in Apps, LaneStep(a) \/ LanePanics(a)
  PROVE  Owns(c)'
<1>0. /\ TypeOK /\ Owns(c) /\ LaneShape(lane[a])
      /\ lane \in [Apps -> [pc : {"none", "idle", "permit", "starting", "finishing",
                                  "stopping", "dead"},
                            cmd : Command \union {NoCommand}]]
      /\ queue \in [Apps -> Seq(Command)]
  BY DEF TypeInv, TypeOK, Owned, Tokens, Token
<1>1. router' = router /\ NoCommand \notin Sent(c)
  BY DEF LaneStep, LaneTake, LaneAcquire, LaneStarted, LaneNotify, LaneStopped, LanePanics,
     Sent, Command, NoCommand
<1>2. CASE LaneTake(a)
  <2> DEFINE x == Head(queue[a])
  <2>1. /\ queue[a] # <<>> /\ lane'[a].cmd = x /\ queue'[a] = Tail(queue[a])
        /\ \A b \in Apps \ {a} : lane'[b] = lane[b] /\ queue'[b] = queue[b]
        /\ UNCHANGED <<mailbox, call>>
    BY <1>0, <1>2 DEF LaneTake, Lane
  <2>2. ~InLane(c, a)
    BY <1>0, <1>1, <1>2 DEF LaneTake, LaneShape, InLane, Sent, Command
  <2>3. \A S : /\ Has(queue[a], S) <=> Has(queue'[a], S) \/ x \in S
               /\ One(queue[a], S) => One(queue'[a], S)
               /\ One(queue[a], S) /\ x \in S => ~Has(queue'[a], S)
    BY <1>0, <2>1, TailHas
  <2>4. /\ InQueue(c, a)' => InQueue(c, a)
        /\ InLane(c, a)' => InQueue(c, a) /\ ~InQueue(c, a)'
        /\ \A b \in Apps : One(queue'[b], Sent(c))
        /\ \A b \in Apps \ {a} : (InQueue(c, b)' <=> InQueue(c, b)) /\ (InLane(c, b)' <=> InLane(c, b))
        /\ (InMail(c)' <=> InMail(c)) /\ (InHand(c)' <=> InHand(c))
    BY <1>0, <1>1, <2>1, <2>3 DEF InQueue, InLane, InMail, InHand, Owns, Once
  <2>5. Once(c)'
    BY <1>0, <1>1, <2>1, <2>2, <2>4 DEF Owns, Once
  <2>6. Own(c)'
    <3>1. Other(c)' = Other(c)
      BY <2>1 DEF Other
    <3>2. ~Has(queue'[a], Other(c)) /\ x \notin Other(c)
      BY <1>0, <2>3 DEF Owns, Own
    <3>3. \A b \in Apps : ~Has(queue'[b], Other(c)) /\ lane'[b].cmd \notin Other(c)
      BY <1>0, <2>1, <3>2 DEF Owns, Own
    <3> QED
      BY <1>0, <1>1, <2>1, <3>1, <3>3 DEF Owns, Own
  <2>7. Held(c)' => Held(c)
    BY <2>4 DEF Held
  <2> QED
    BY <1>0, <2>1, <2>5, <2>6, <2>7 DEF Owns
<1>3. CASE LaneAcquire(a)
  <2>1. UNCHANGED <<mailbox, queue, call>> /\ \A b \in Apps : lane'[b].cmd = lane[b].cmd
    BY <1>0, <1>3 DEF LaneAcquire
  <2> QED
    BY <1>0, <1>1, <2>1, Fewer
<1>4. CASE LaneNotify(a)
  <2>1. /\ UNCHANGED <<queue, call>>
        /\ \A b \in Apps : lane'[b].cmd = lane[b].cmd \/ lane'[b].cmd = NoCommand
    BY <1>0, <1>4 DEF LaneNotify, Lane
  <2>2. \A S \in SUBSET Sent(c) :
           (Has(mailbox', S) => Has(mailbox, S)) /\ (One(mailbox, S) => One(mailbox', S))
    <3>1. CASE mailbox' = Append(mailbox, Note(a))
      <4>1. Note(a) \in Message /\ Note(a) \notin Sent(c) /\ mailbox \in Seq(Message)
        BY <1>0 DEF Note, Message, Finished, Sent, Command, TypeOK
      <4> QED
        BY <3>1, <4>1, AppendHas
    <3> QED
      BY <1>4, <3>1 DEF LaneNotify, Note
  <2> QED
    BY <1>0, <1>1, <2>1, <2>2, Fewer
<1>5. CASE LaneStarted(a) \/ LaneStopped(a) \/ LanePanics(a)
  <2>1. /\ mailbox' = mailbox /\ lane[a].cmd \in Command /\ lane'[a].cmd = NoCommand
        /\ \A b \in Apps \ {a} : lane'[b] = lane[b] /\ queue'[b] = queue[b]
        /\ queue'[a] = queue[a] \/ queue'[a] = <<>>
    BY <1>0, <1>5 DEF LaneStarted, LaneStopped, LanePanics, Lane, LaneShape, NoCommand
  <2>2. PICK C : /\ C = {lane[a].cmd.from} \/ (C = {lane[a].cmd.from} \union Senders(queue[a]) /\ queue'[a] = <<>>)
                 /\ \A d \in Clients \ C : call'[d] = call[d]
    BY <1>0, <1>5 DEF LaneStarted, LaneStopped, LanePanics, End
  <2>3. ASSUME c \in C PROVE ~Held(c)'
    <3>1. CASE c = lane[a].cmd.from
      <4>1. InLane(c, a)
        BY <2>1, <3>1 DEF InLane, Sent
      <4>2. /\ ~InMail(c) /\ ~InHand(c) /\ \A b \in Apps : ~InQueue(c, b) /\ (InLane(c, b) => a = b)
        BY <1>0, <4>1 DEF Owns, Once
      <4>3. ~Has(<<>>, Sent(c))
        BY DEF Has
      <4> QED
        BY <1>1, <2>1, <4>2, <4>3 DEF Held, InMail, InHand, InQueue, InLane
    <3>2. CASE c \in Senders(queue[a]) /\ queue'[a] = <<>>
      <4>1. InQueue(c, a)
        BY <3>2 DEF InQueue, Has, Sent, Senders
      <4>2. /\ ~InMail(c) /\ ~InHand(c) /\ \A b \in Apps : ~InLane(c, b) /\ (InQueue(c, b) => a = b)
        BY <1>0, <4>1 DEF Owns, Once
      <4>3. ~Has(<<>>, Sent(c))
        BY DEF Has
      <4> QED
        BY <1>1, <2>1, <3>2, <4>2, <4>3 DEF Held, InMail, InHand, InQueue, InLane
    <3> QED
      BY <2>2, <2>3, <3>1, <3>2
  <2>4. call'[c] = call[c] \/ ~Held(c)'
    BY <2>2, <2>3
  <2>5. /\ \A b \in Apps : lane'[b].cmd = lane[b].cmd \/ lane'[b].cmd = NoCommand
        /\ \A b \in Apps : queue'[b] = queue[b] \/ queue'[b] = <<>>
    BY <2>1
  <2> QED
    BY <1>0, <1>1, <2>1, <2>4, <2>5, Fewer
<1> QED
  BY <1>2, <1>3, <1>4, <1>5 DEF LaneStep

(* What the actor holds at first: nothing.                                 *)
LEMMA OwnedInit == Init => Homed /\ Owned
<1> SUFFICES ASSUME Init PROVE Homed /\ Owned
  OBVIOUS
<1>1. /\ mailbox = <<>> /\ \A a \in Apps : queue[a] = <<>> /\ lane[a].cmd = NoCommand
      /\ router.cmd = NoCommand /\ \A c \in Clients : call[c] = Ended
  BY DEF Init, Lane, Listening
<1>2. \A S : ~Has(<<>>, S) /\ One(<<>>, S)
  BY DEF Has, One
<1>3. ASSUME NEW c \in Clients PROVE Owns(c)
  <2>1. NoCommand \notin Sent(c) /\ NoCommand \notin Other(c)
    BY DEF Other, Sent, Command, NoCommand
  <2> QED
    BY <1>1, <1>2, <2>1 DEF Owns, Once, Own, Held, InMail, InHand, InQueue, InLane
<1>4. Homed
  <2>1. \A a \in Apps : <<>> \in Seq(OfApp(a))
    OBVIOUS
  <2> QED
    BY <1>1, <2>1 DEF Homed
<1> QED
  BY <1>3, <1>4 DEF Owned

(* No step of the actor duplicates a command or holds on to one that was   *)
(* answered.                                                               *)
LEMMA OwnedStep == TypeInv /\ Tokens /\ Homed /\ Owned /\ [Next]_vars => Owned'
<1> SUFFICES ASSUME TypeInv, Tokens, Homed, Owned, [Next]_vars, NEW c \in Clients PROVE Owns(c)'
  BY DEF Owned
<1>1. CASE UNCHANGED vars
  BY <1>1, Fewer DEF vars, Owned
<1>2. CASE Next
  BY <1>2, OwnedCallers, OwnedRouter, OwnedLane DEF Next
<1> QED
  BY <1>1, <1>2

WorkInv == TypeInv /\ Tokens /\ Homed /\ Owned

(* A client whose command is elsewhere in the actor has no start running.  *)
LEMMA NotWorking ==
  ASSUME WorkInv, NEW c \in Clients, ~\E a \in Apps : InLane(c, a) /\ lane[a].pc = "starting"
  PROVE  ~Work!Working(c)
<1> SUFFICES ASSUME NEW a \in Apps, Runs[a] = c PROVE FALSE
  BY DEF Work!Working
<1>1. lane[a].pc = "starting" /\ lane[a].cmd.from = c
  BY NobodyIsNoCommand DEF Runs
<1>2. lane[a].cmd \in Command
  BY <1>1 DEF WorkInv, TypeInv, TypeOK, Tokens, Token, LaneShape, NoCommand
<1> QED
  BY <1>1, <1>2 DEF InLane, Sent

(* Replies that end calls take back what they asked for.                   *)
LEMMA EndForgets ==
  ASSUME NEW C, NEW how, End(C, how)
  PROVE  Work!Forget(C \intersect Clients)
<1>1. \A c \in Clients : Wanted'[c] = IF c \in C THEN NoCommand ELSE Wanted[c]
  BY DEF End, Wanted, Ended, NoCommand
<1> QED
  BY <1>1 DEF Work!Forget, Wanted

(* Lanes that neither begin nor end a start: what runs stays.              *)
LEMMA SameRuns ==
  ASSUME \A a \in Apps : \/ lane'[a] = lane[a]
                         \/ lane'[a].pc # "starting" /\ lane[a].pc # "starting"
  PROVE  Runs' = Runs
BY DEF Runs

(* Every step of the actor is a step of exclusive work or a stutter.       *)
LEMMA WorkStep ==
  ASSUME WorkInv, [Next]_vars
  PROVE  [Work!Next]_(Work!vars)
<1>0. /\ TypeOK /\ Homed /\ \A c \in Clients : Owns(c)
      /\ lane \in [Apps -> [pc : {"none", "idle", "permit", "starting", "finishing",
                                  "stopping", "dead"},
                            cmd : Command \union {NoCommand}]]
      /\ \A a \in Apps : LaneShape(lane[a])
  BY DEF WorkInv, TypeInv, TypeOK, Owned, Tokens, Token
<1>1. ASSUME call' = call, Runs' = Runs PROVE [Work!Next]_(Work!vars)
  BY <1>1 DEF Work!vars, Wanted
<1>2. ASSUME NEW C, NEW how, End(C, how), Runs' = Runs,
             \A c \in C \intersect Clients : ~Work!Working(c)
      PROVE  [Work!Next]_(Work!vars)
  BY <1>2, EndForgets DEF Work!Return, Work!Next
<1>3. CASE \E d \in Clients, k \in Kinds, a \in Apps : Call(d, k, a)
  <2>1. PICK d \in Clients, k \in Kinds, a \in Apps : Call(d, k, a)
    BY <1>3
  <2>2. /\ call[d] = Ended /\ call'[d].cmd = [kind |-> k, app |-> a, from |-> d]
        /\ \A c \in Clients \ {d} : call'[c] = call[c]
        /\ Runs' = Runs
    BY <1>0, <2>1 DEF Call, TypeOK, Runs
  <2>3. Wanted[d] = NoCommand
    BY <2>2 DEF Wanted, Ended, NoCommand
  <2>4. CASE k = "start"
    <3>1. call'[d].cmd.kind = "start" /\ call'[d].cmd.app = a
      BY <2>2, <2>4
    <3>2. Wanted'[d] = a /\ \A c \in Clients \ {d} : Wanted'[c] = Wanted[c]
      BY <2>2, <3>1 DEF Wanted
    <3>3. Wanted' = [Wanted EXCEPT ![d] = a]
      BY <3>2 DEF Wanted
    <3>4. Work!Ask(d, a)
      BY <2>2, <2>3, <3>3 DEF Work!Ask
    <3> QED
      BY <3>4 DEF Work!Next
  <2>5. CASE k # "start"
    <3>1. Wanted' = Wanted
      BY <2>2, <2>5 DEF Wanted, Ended, NoCommand
    <3> QED
      BY <2>2, <3>1 DEF Work!vars
  <2> QED
    BY <2>4, <2>5
<1>4. CASE \E d \in Clients : Send(d)
  <2>1. \A c \in Clients : call'[c].cmd = call[c].cmd
    BY <1>0, <1>4 DEF Send, TypeOK
  <2>2. Wanted' = Wanted /\ Runs' = Runs
    BY <1>4, <2>1 DEF Send, Wanted, Runs
  <2> QED
    BY <2>2 DEF Work!vars
<1>5. ASSUME NEW d \in Clients, SendFails(d) PROVE [Work!Next]_(Work!vars)
  <2>1. End({d}, "unavailable") /\ Runs' = Runs /\ ~Held(d)
    BY <1>0, <1>5 DEF SendFails, Runs, Owns
  <2>2. ~Work!Working(d)
    BY <2>1, NotWorking DEF Held
  <2> QED
    BY <1>2, <2>1, <2>2
<1>6. CASE Teardown \/ RouterForward \/ RouterFinished \/ UNCHANGED vars
  BY <1>1, <1>6 DEF Teardown, RouterForward, RouterFinished, vars, Runs
<1>7. CASE RouterReject
  <2>1. /\ Head(mailbox) \in Command /\ Runs' = Runs /\ End({Head(mailbox).from}, "rejected")
        /\ Receive("start") /\ router # Down
    BY <1>0, <1>7, MailboxHead DEF RouterReject, Runs, Receive, Listening, Down
  <2>2. InMail(Head(mailbox).from)
    BY <1>0, <2>1, ReceiveHas DEF InMail, Sent
  <2>3. Head(mailbox).from \in Clients
    BY <2>1 DEF Command
  <2>4. ~Work!Working(Head(mailbox).from)
    BY <1>0, <2>2, <2>3, NotWorking DEF Owns, Once
  <2> QED
    BY <1>2, <2>1, <2>4
<1>8. CASE RouterAdmit \/ RouterStop
  <2>1. LaneFor(Head(mailbox).app) /\ call' = call
    BY <1>8 DEF RouterAdmit, RouterStop
  <2>2. Runs' = Runs
    BY <1>0, <2>1, SameRuns DEF LaneFor, Lane
  <2> QED
    BY <1>1, <2>1, <2>2
<1>9. CASE RouterLaneGone
  <2>1. router.cmd \in Command /\ End({router.cmd.from}, "unavailable")
    BY <1>0, <1>9 DEF RouterLaneGone, TypeOK, Listening, Down
  <2>2. Runs' = Runs
    BY <1>0, <1>9, SameRuns DEF RouterLaneGone, Lane
  <2>3. InHand(router.cmd.from) /\ router.cmd.from \in Clients
    BY <2>1 DEF InHand, Sent, Command
  <2>4. ~Work!Working(router.cmd.from)
    BY <1>0, <2>3, NotWorking DEF Owns, Once
  <2> QED
    BY <1>2, <2>1, <2>2, <2>4
<1>10. CASE RouterShutdown
  <2>1. /\ End(Senders(mailbox'), "dropped") /\ Runs' = Runs /\ Receive("shutdown") /\ router # Down
    BY <1>10 DEF RouterShutdown, Runs, Receive, Listening, Down
  <2>2. ASSUME NEW c \in Clients, c \in Senders(mailbox') PROVE ~Work!Working(c)
    <3>1. Has(mailbox', Sent(c))
      BY <2>2 DEF Senders, Has, Sent
    <3>2. InMail(c)
      BY <1>0, <2>1, <3>1, ReceiveHas DEF InMail
    <3> QED
      BY <1>0, <3>2, NotWorking DEF Owns, Once
  <2> QED
    BY <1>2, <2>1, <2>2
<1>11. ASSUME NEW a \in Apps, LaneTake(a) \/ LaneNotify(a) PROVE [Work!Next]_(Work!vars)
  <2>1. call' = call
    BY <1>11 DEF LaneTake, LaneNotify
  <2>2. Runs' = Runs
    BY <1>0, <1>11, SameRuns DEF LaneTake, LaneNotify, Lane
  <2> QED
    BY <1>1, <2>1, <2>2
<1>12. ASSUME NEW a \in Apps, LaneAcquire(a) PROVE [Work!Next]_(Work!vars)
  <2> DEFINE c == lane[a].cmd.from
  <2>1. /\ lane[a].pc = "permit" /\ call' = call
        /\ lane'[a].pc = "starting" /\ lane'[a].cmd = lane[a].cmd
        /\ \A b \in Apps \ {a} : lane'[b] = lane[b]
    BY <1>0, <1>12 DEF LaneAcquire
  <2>2. lane[a].cmd \in Command /\ lane[a].cmd.kind = "start" /\ c \in Clients
        /\ lane[a].cmd.app = a
    <3>1. lane[a].cmd.kind = "start" /\ lane[a].cmd \in Command \union {NoCommand}
          /\ lane[a].cmd \in OfApp(a) \union {NoCommand}
      BY <1>0, <2>1 DEF LaneShape, Homed
    <3>2. lane[a].cmd # NoCommand
      BY <3>1 DEF NoCommand
    <3> QED
      BY <3>1, <3>2 DEF Command, OfApp
  <2>3. lane[a].cmd \in Sent(c)
    BY <2>2 DEF Sent
  <2>4. call[c].cmd = lane[a].cmd
    BY <1>0, <2>2, <2>3 DEF Owns, Own, Other
  <2>5. Wanted[c] = a /\ Wanted' = Wanted
    BY <2>1, <2>2, <2>4 DEF Wanted
  <2>6. Runs[a] = NoCommand /\ Runs' = [Runs EXCEPT ![a] = c]
    BY <2>1 DEF Runs
  <2>7. Work!Work(c, a)
    BY <2>5, <2>6 DEF Work!Work
  <2> QED
    BY <2>2, <2>7 DEF Work!Next
<1>13. ASSUME NEW a \in Apps, LaneStarted(a) \/ LaneStopped(a) \/ LanePanics(a)
       PROVE  [Work!Next]_(Work!vars)
  <2> DEFINE d == lane[a].cmd.from
  <2>1. /\ lane'[a].pc # "starting" /\ \A b \in Apps \ {a} : lane'[b] = lane[b]
        /\ lane[a].cmd \in Command
    BY <1>0, <1>13 DEF LaneStarted, LaneStopped, LanePanics, Lane, LaneShape, NoCommand
  <2>2. PICK C, how : End(C, how) /\ (C = {d} \/ C = {d} \union Senders(queue[a]))
    BY <1>13 DEF LaneStarted, LaneStopped, LanePanics
  <2>3. d \in Clients /\ InLane(d, a)
    BY <2>1 DEF Command, InLane, Sent
  <2>4. ASSUME NEW c \in Clients, c \in C, c # d PROVE ~Work!Working(c)
    <3>1. InQueue(c, a)
      BY <2>2, <2>4 DEF Senders, InQueue, Has, Sent
    <3> QED
      BY <1>0, <3>1, NotWorking DEF Owns, Once
  <2>5. CASE lane[a].pc = "starting"
    <3>1. Runs[a] = d /\ Runs' = [Runs EXCEPT ![a] = NoCommand]
      BY <2>1, <2>5 DEF Runs
    <3>2. Work!Finish(a, C \intersect Clients)
      BY <2>2, <2>3, <2>4, <3>1, EndForgets DEF Work!Finish
    <3> QED
      BY <3>2 DEF Work!Next
  <2>6. CASE lane[a].pc # "starting"
    <3>1. Runs' = Runs
      BY <2>1, <2>6, SameRuns
    <3>2. ~Work!Working(d)
      <4>1. \A b \in Apps : InLane(d, b) => a = b
        BY <1>0, <2>3 DEF Owns, Once
      <4> QED
        BY <2>3, <2>6, <4>1, NotWorking
    <3> QED
      BY <1>2, <2>2, <2>4, <3>1, <3>2
  <2> QED
    BY <2>5, <2>6
<1> QED
  BY <1>3, <1>4, <1>5, <1>6, <1>7, <1>8, <1>9, <1>10, <1>11, <1>12, <1>13
     DEF Next, RouterStep, LaneStep

(* Mailbox, router, lanes and semaphore implement exclusive work: the      *)
(* start of an app runs for one client at a time, one that asked for it    *)
(* and waits.                                                              *)
THEOREM ActorImplementsWork == Spec => ImplementsExclusiveWork
<1>1. Init => Work!Init
  BY DEF Init, Work!Init, Wanted, Runs, Ended, NoCommand, Lane
<1>2. WorkInv /\ [Next]_vars => [Work!Next]_(Work!vars)
  BY WorkStep
<1>3. Init => WorkInv
  BY TypeInit, TokenInit, OwnedInit DEF WorkInv
<1>4. WorkInv /\ [Next]_vars => WorkInv'
  BY TypeStep, TokenStep, HomedStep, OwnedStep DEF WorkInv
<1> QED
  BY <1>1, <1>2, <1>3, <1>4, PTL DEF Spec, Work!Spec, ImplementsExclusiveWork

-----------------------------------------------------------------------------
(* Commands of an app keep their order: what a step leaves of a line       *)
(* stands in the order it stood in before, and what joins the line joins   *)
(* at its end.  S is the set of the commands that count.                   *)

Joined(x, q, y, m) == <<x>> \o q \o <<y>> \o m

Length(q, m) == Len(q) + 2 + Len(m)

Member(x, q, y, m, k) ==
  IF k = 1 THEN x
  ELSE IF k <= Len(q) + 1 THEN q[k - 1]
  ELSE IF k = Len(q) + 2 THEN y
  ELSE m[k - Len(q) - 2]

StandAt(z, x, q, y, m) ==
  /\ Len(q) \in Nat /\ Len(m) \in Nat
  /\ DOMAIN z = 1 .. Length(q, m)
  /\ \A k \in 1 .. Length(q, m) : z[k] = Member(x, q, y, m, k)

Unique(s, S) == \A m, n \in DOMAIN s : s[m] \in S /\ s[m] = s[n] => m = n

InOrder(old, new, S) ==
  \A i, j \in DOMAIN new : i < j /\ {new[i], new[j]} \subseteq S =>
    \A m, n \in DOMAIN old : old[m] = new[i] /\ old[n] = new[j] => m < n

(* f says where what is in the new line stood in the old one, in the same  *)
(* order, but for one that is new and last. *)
Places(f, N, old, new, S) ==
  /\ N \in Nat /\ DOMAIN new = 1 .. N /\ f \in [1 .. N -> Int]
  /\ \A k \in 1 .. N : new[k] \in S =>
       \/ f[k] \in DOMAIN old /\ old[f[k]] = new[k]
       \/ k = N /\ \A m \in DOMAIN old : old[m] # new[k]
  /\ \A j, k \in 1 .. N : j < k /\ new[j] \in S /\ new[k] \in S => f[j] < f[k]

(* Where the members of a line stand. *)
LEMMA JoinedAt ==
  ASSUME NEW x, NEW y, NEW q \in Seq(Command), NEW m \in Seq(Message)
  PROVE  StandAt(Joined(x, q, y, m), x, q, y, m)
<1> DEFINE W == Command \union Message \union {x, y}
           u == <<x>> \o q
           v == u \o <<y>>
           z == v \o m
<1>1. q \in Seq(W) /\ m \in Seq(W) /\ <<x>> \in Seq(W) /\ <<y>> \in Seq(W)
      /\ Len(q) \in Nat /\ Len(m) \in Nat
  OBVIOUS
<1> HIDE DEF W
<1>2. u \in Seq(W) /\ Len(u) = Len(q) + 1
      /\ \A k \in 1 .. Len(u) : u[k] = IF k = 1 THEN x ELSE q[k - 1]
  BY <1>1
<1> HIDE DEF u
<1>3. v \in Seq(W) /\ Len(v) = Len(q) + 2
      /\ \A k \in 1 .. Len(v) : v[k] = IF k <= Len(u) THEN u[k] ELSE y
  BY <1>1, <1>2
<1> HIDE DEF v
<1>4. z \in Seq(W) /\ Len(z) = Len(q) + 2 + Len(m)
      /\ \A k \in 1 .. Len(z) : z[k] = IF k <= Len(v) THEN v[k] ELSE m[k - Len(v)]
  BY <1>1, <1>3
<1> HIDE DEF z
<1>5. DOMAIN z = 1 .. Length(q, m)
  BY <1>1, <1>4 DEF Length, StandAt
<1>6. ASSUME NEW k \in 1 .. Length(q, m)
      PROVE  z[k] = Member(x, q, y, m, k)
  BY <1>1, <1>2, <1>3, <1>4 DEF Length, Member, StandAt
<1>7. z = Joined(x, q, y, m)
  BY DEF z, v, u, Joined
<1> QED
  BY <1>1, <1>5, <1>6, <1>7 DEF StandAt

(* Then the new line keeps the order of the old one. *)
LEMMA KeptInOrder ==
  ASSUME NEW S, NEW old, NEW new, Unique(old, S), NEW N, NEW f, Places(f, N, old, new, S)
  PROVE  InOrder(old, new, S) /\ Unique(new, S)
<1>0. /\ \A m, n \in DOMAIN old : old[m] \in S /\ old[m] = old[n] => m = n
      /\ N \in Nat /\ DOMAIN new = 1 .. N /\ f \in [1 .. N -> Int]
      /\ \A k \in 1 .. N : new[k] \in S =>
           \/ f[k] \in DOMAIN old /\ old[f[k]] = new[k]
           \/ k = N /\ \A m \in DOMAIN old : old[m] # new[k]
      /\ \A j, k \in 1 .. N : j < k /\ new[j] \in S /\ new[k] \in S => f[j] < f[k]
  BY DEF Unique, Places
<1>1. ASSUME NEW i \in DOMAIN new, NEW j \in DOMAIN new, i < j, new[i] \in S, new[j] \in S,
             NEW m \in DOMAIN old, NEW n \in DOMAIN old, old[m] = new[i], old[n] = new[j]
      PROVE  m < n
  <2>1. m = f[i] /\ n = f[j]
    BY <1>0, <1>1
  <2> QED
    BY <1>0, <1>1, <2>1
<1>2. ASSUME NEW m \in DOMAIN new, NEW n \in DOMAIN new, new[m] \in S, new[m] = new[n]
      PROVE  m = n
  <2>1. m = n \/ f[m] = f[n]
    BY <1>0, <1>2
  <2>2. m \in Nat /\ n \in Nat /\ f[m] \in Int /\ f[n] \in Int
    BY <1>0, <1>2
  <2> QED
    BY <1>0, <1>2, <2>1, <2>2
<1> QED
  BY <1>1, <1>2 DEF InOrder, Unique

(* Nobody leaves the line but from the lane or the router's hand, and      *)
(* nobody joins it. *)
LEMMA StandInOrder ==
  ASSUME NEW S, NoCommand \notin S, NEW q \in Seq(Command), NEW m \in Seq(Message),
         NEW x, NEW y, NEW u \in {x, NoCommand}, NEW w \in {y, NoCommand},
         Unique(Joined(x, q, y, m), S)
  PROVE  /\ InOrder(Joined(x, q, y, m), Joined(u, q, w, m), S)
         /\ Unique(Joined(u, q, w, m), S)
<1> DEFINE N == Length(q, m)
           f == [k \in 1 .. N |-> k]
           old == Joined(x, q, y, m)
           new == Joined(u, q, w, m)
<1>1. StandAt(old, x, q, y, m) /\ StandAt(new, u, q, w, m)
  BY JoinedAt
<1> HIDE DEF old, new
<1>2. N \in Nat /\ DOMAIN old = 1 .. N /\ DOMAIN new = 1 .. N
  BY <1>1 DEF Length, StandAt
<1>3. \A k \in 1 .. N : new[k] \in S => old[k] = new[k]
  BY <1>1 DEF Member, StandAt
<1> HIDE DEF N
<1>4. /\ f \in [1 .. N -> Int] /\ \A k \in 1 .. N : f[k] = k
  OBVIOUS
<1> HIDE DEF f
<1>5. Unique(old, S)
  BY DEF old
<1>6. Places(f, N, old, new, S)
  BY <1>2, <1>3, <1>4 DEF Places
<1>7. InOrder(old, new, S) /\ Unique(new, S)
  BY <1>5, <1>6, KeptInOrder
<1> QED
  BY <1>7 DEF old, new

(* Somebody joins the end of the mailbox who is not in the line, or does   *)
(* not count. *)
LEMMA JoinedInOrder ==
  ASSUME NEW S, NoCommand \notin S, NEW q \in Seq(Command), NEW m \in Seq(Message),
         NEW x, NEW y, NEW u \in {x, NoCommand}, NEW e \in Message,
         Unique(Joined(x, q, y, m), S),
         e \in S => \A k \in DOMAIN Joined(x, q, y, m) : Joined(x, q, y, m)[k] # e
  PROVE  /\ InOrder(Joined(x, q, y, m), Joined(u, q, y, Append(m, e)), S)
         /\ Unique(Joined(u, q, y, Append(m, e)), S)
<1> DEFINE M == Length(q, m)
           N == M + 1
           f == [k \in 1 .. N |-> k]
           p == Append(m, e)
           old == Joined(x, q, y, m)
           new == Joined(u, q, y, p)
<1>1. StandAt(old, x, q, y, m)
  BY JoinedAt
<1>2. /\ Len(p) = Len(m) + 1 /\ p[Len(m) + 1] = e /\ \A j \in 1 .. Len(m) : p[j] = m[j]
      /\ p \in Seq(Message)
  OBVIOUS
<1> HIDE DEF p
<1>3. StandAt(new, u, q, y, p)
  BY <1>2, JoinedAt
<1> HIDE DEF old, new
<1>4. M \in Nat /\ Length(q, p) = N /\ DOMAIN old = 1 .. M /\ DOMAIN new = 1 .. N
  BY <1>1, <1>2, <1>3 DEF Length, StandAt
<1>5. ASSUME NEW k \in 1 .. M, new[k] \in S PROVE old[k] = new[k]
  <2>1. old[k] = Member(x, q, y, m, k) /\ new[k] = Member(u, q, y, p, k)
        /\ Len(q) \in Nat /\ Len(m) \in Nat /\ k \in 1 .. Len(q) + 2 + Len(m)
    BY <1>1, <1>3, <1>4 DEF StandAt, Length
  <2>2. CASE k <= Len(q) + 2
    BY <1>5, <2>1, <2>2 DEF Member
  <2>3. CASE k > Len(q) + 2
    <3>1. k - Len(q) - 2 \in 1 .. Len(m)
      BY <2>1, <2>3
    <3> QED
      BY <1>2, <2>1, <2>3, <3>1 DEF Member
  <2> QED
    BY <2>1, <2>2, <2>3
<1>6. new[N] = e
  <2>1. new[N] = Member(u, q, y, p, N) /\ N = Len(q) + 2 + Len(m) + 1
        /\ Len(q) \in Nat /\ Len(m) \in Nat
    BY <1>1, <1>3, <1>4 DEF StandAt, Length
  <2>2. N - Len(q) - 2 = Len(m) + 1 /\ N > Len(q) + 2
    BY <2>1
  <2> QED
    BY <1>2, <2>1, <2>2 DEF Member
<1> HIDE DEF M
<1>7. /\ f \in [1 .. N -> Int] /\ \A k \in 1 .. N : f[k] = k /\ (k = N \/ k \in 1 .. M)
  BY <1>4
<1> HIDE DEF f
<1>8. Unique(old, S) /\ (e \in S => \A k \in DOMAIN old : old[k] # e)
  BY DEF old
<1>9. Places(f, N, old, new, S)
  <2>1. ASSUME NEW k \in 1 .. N, new[k] \in S
        PROVE  \/ f[k] \in DOMAIN old /\ old[f[k]] = new[k]
               \/ k = N /\ \A j \in DOMAIN old : old[j] # new[k]
    <3>1. CASE k \in 1 .. M
      BY <1>4, <1>5, <1>7, <2>1, <3>1
    <3>2. CASE k = N
      BY <1>6, <1>8, <2>1, <3>2
    <3> QED
      BY <1>7, <3>1, <3>2
  <2>2. N \in Nat /\ \A j, k \in 1 .. N : j < k => f[j] < f[k]
    BY <1>4, <1>7
  <2> HIDE DEF N
  <2> QED
    BY <1>4, <1>7, <2>1, <2>2 DEF Places
<1>10. InOrder(old, new, S) /\ Unique(new, S)
  BY <1>8, <1>9, KeptInOrder
<1> QED
  BY <1>10 DEF old, new, p

(* The router takes the head of its mailbox in hand, or is done with it. *)
LEMMA TakenInOrder ==
  ASSUME NEW S, NoCommand \notin S, NEW q \in Seq(Command), NEW m \in Seq(Message), m # <<>>,
         NEW x, NEW u \in {x, NoCommand}, NEW w \in {Head(m), NoCommand},
         Unique(Joined(x, q, NoCommand, m), S)
  PROVE  /\ InOrder(Joined(x, q, NoCommand, m), Joined(u, q, w, Tail(m)), S)
         /\ Unique(Joined(u, q, w, Tail(m)), S)
<1> DEFINE L == Len(q)
           p == Tail(m)
           N == Length(q, p)
           f == [k \in 1 .. N |-> IF k <= L + 1 THEN k ELSE k + 1]
           old == Joined(x, q, NoCommand, m)
           new == Joined(u, q, w, p)
<1>1. StandAt(old, x, q, NoCommand, m)
  BY JoinedAt
<1>2. /\ Len(p) = Len(m) - 1 /\ w \in {m[1], NoCommand} /\ p \in Seq(Message)
      /\ \A j \in 1 .. Len(p) : p[j] = m[j + 1]
  OBVIOUS
<1> HIDE DEF p
<1>3. StandAt(new, u, q, w, p)
  BY <1>2, JoinedAt
<1> HIDE DEF old, new
<1>4. L \in Nat /\ N \in Nat /\ Length(q, m) = N + 1
      /\ DOMAIN old = 1 .. N + 1 /\ DOMAIN new = 1 .. N
  BY <1>1, <1>2, <1>3 DEF Length, StandAt
<1>5. ASSUME NEW k \in 1 .. N, new[k] \in S
      PROVE  old[IF k <= L + 1 THEN k ELSE k + 1] = new[k]
  <2>1. /\ new[k] = Member(u, q, w, p, k)
        /\ \A j \in 1 .. N + 1 : old[j] = Member(x, q, NoCommand, m, j)
        /\ N = L + 2 + Len(p) /\ Len(p) \in Nat
    BY <1>1, <1>3, <1>4 DEF StandAt, Length
  <2>2. CASE k <= L + 1
    <3>1. old[k] = Member(x, q, NoCommand, m, k)
      BY <1>4, <2>1
    <3> QED
      BY <1>4, <1>5, <2>1, <2>2, <3>1 DEF Member
  <2>3. CASE k > L + 1
    <3>1. old[k + 1] = Member(x, q, NoCommand, m, k + 1)
      BY <1>4, <2>1
    <3>2. k + 1 > L + 2 /\ k + 1 # 1 /\ ~ (k + 1 <= L + 1)
      BY <1>4, <2>3
    <3>3. old[k + 1] = m[(k + 1) - L - 2]
      BY <1>4, <3>1, <3>2 DEF Member
    <3>4. CASE k = L + 2
      <4>1. new[k] = m[1] /\ (k + 1) - L - 2 = 1
        BY <1>2, <1>4, <1>5, <2>1, <3>4 DEF Member
      <4> QED
        BY <2>3, <3>3, <4>1
    <3>5. CASE k > L + 2
      <4>1. new[k] = p[k - L - 2] /\ k - L - 2 \in 1 .. Len(p)
        BY <1>4, <2>1, <3>5 DEF Member
      <4>2. p[k - L - 2] = m[(k - L - 2) + 1] /\ (k - L - 2) + 1 = (k + 1) - L - 2
        BY <1>2, <1>4, <4>1
      <4> QED
        BY <2>3, <3>3, <4>1, <4>2
    <3> QED
      BY <1>4, <2>3, <3>4, <3>5
  <2> QED
    BY <1>4, <2>2, <2>3
<1> HIDE DEF N, L
<1>6. /\ f \in [1 .. N -> Int]
      /\ \A k \in 1 .. N : f[k] = (IF k <= L + 1 THEN k ELSE k + 1) /\ f[k] \in 1 .. N + 1
      /\ \A j, k \in 1 .. N : j < k => f[j] < f[k]
  BY <1>4
<1> HIDE DEF f
<1>7. Unique(old, S)
  BY DEF old
<1>8. Places(f, N, old, new, S)
  <2>1. \A k \in 1 .. N : new[k] \in S => f[k] \in DOMAIN old /\ old[f[k]] = new[k]
    BY <1>4, <1>5, <1>6
  <2> QED
    BY <1>4, <1>6, <2>1 DEF Places
<1>9. InOrder(old, new, S) /\ Unique(new, S)
  BY <1>7, <1>8, KeptInOrder
<1> QED
  BY <1>9 DEF old, new, p

(* The router hands its command to the lane's channel. *)
LEMMA ForwardedInOrder ==
  ASSUME NEW S, NoCommand \notin S, NEW q \in Seq(Command), NEW m \in Seq(Message),
         NEW x, NEW y \in Command, Unique(Joined(x, q, y, m), S)
  PROVE  /\ InOrder(Joined(x, q, y, m), Joined(x, Append(q, y), NoCommand, m), S)
         /\ Unique(Joined(x, Append(q, y), NoCommand, m), S)
<1> DEFINE L == Len(q)
           r == Append(q, y)
           N == Length(r, m)
           f == [k \in 1 .. N |-> IF k <= L + 2 THEN k ELSE k - 1]
           old == Joined(x, q, y, m)
           new == Joined(x, r, NoCommand, m)
<1>1. StandAt(old, x, q, y, m)
  BY JoinedAt
<1>2. /\ Len(r) = L + 1 /\ r[L + 1] = y /\ r \in Seq(Command)
      /\ \A j \in 1 .. L : r[j] = q[j]
  OBVIOUS
<1> HIDE DEF r
<1>3. StandAt(new, x, r, NoCommand, m)
  BY <1>2, JoinedAt
<1> HIDE DEF old, new
<1>4. L \in Nat /\ N \in Nat /\ N >= L + 3 /\ Length(q, m) = N - 1
      /\ DOMAIN old = 1 .. N - 1 /\ DOMAIN new = 1 .. N
  BY <1>1, <1>2, <1>3 DEF Length, StandAt
<1>5. ASSUME NEW k \in 1 .. N, new[k] \in S
      PROVE  k # L + 3 /\ old[IF k <= L + 2 THEN k ELSE k - 1] = new[k]
  <2>1. /\ new[k] = Member(x, r, NoCommand, m, k)
        /\ \A j \in 1 .. N - 1 : old[j] = Member(x, q, y, m, j)
        /\ N = L + 3 + Len(m) /\ Len(m) \in Nat /\ Len(r) = L + 1
    BY <1>1, <1>2, <1>3, <1>4 DEF StandAt, Length
  <2>2. CASE k <= L + 2
    <3>1. old[k] = Member(x, q, y, m, k)
      BY <1>4, <2>1, <2>2
    <3> QED
      <4>1. CASE k <= L + 1
        BY <1>2, <1>4, <2>1, <3>1, <4>1 DEF Member
      <4>2. CASE k = L + 2
        <5>1. new[k] = r[k - 1] /\ k - 1 = L + 1
          BY <1>4, <2>1, <4>2 DEF Member
        <5>2. old[k] = y
          BY <1>4, <3>1, <4>2 DEF Member
        <5> QED
          BY <1>2, <2>2, <5>1, <5>2
      <4> QED
        BY <1>4, <2>2, <4>1, <4>2
  <2>3. CASE k > L + 2
    <3>1. k # L + 3
      BY <1>4, <1>5, <2>1 DEF Member
    <3>2. old[k - 1] = Member(x, q, y, m, k - 1) /\ k - 1 > L + 2
      BY <1>4, <2>1, <2>3, <3>1
    <3>3. old[k - 1] = m[(k - 1) - L - 2]
      BY <1>4, <3>2 DEF Member
    <3>4. new[k] = m[k - (L + 1) - 2] /\ (k - 1) - L - 2 = k - (L + 1) - 2
      BY <1>4, <2>1, <2>3, <3>1 DEF Member
    <3> QED
      BY <2>3, <3>1, <3>3, <3>4
  <2> QED
    BY <1>4, <2>2, <2>3
<1> HIDE DEF N, L
<1>6. /\ f \in [1 .. N -> Int]
      /\ \A k \in 1 .. N : /\ f[k] = (IF k <= L + 2 THEN k ELSE k - 1)
                           /\ k # L + 3 => f[k] \in 1 .. N - 1
      /\ \A j, k \in 1 .. N : j < k /\ j # L + 3 /\ k # L + 3 => f[j] < f[k]
  BY <1>4
<1> HIDE DEF f
<1>7. Unique(old, S)
  BY DEF old
<1>8. Places(f, N, old, new, S)
  BY <1>4, <1>5, <1>6 DEF Places
<1>9. InOrder(old, new, S) /\ Unique(new, S)
  BY <1>7, <1>8, KeptInOrder
<1> QED
  BY <1>9 DEF old, new, r

(* A lane takes the head of its channel. *)
LEMMA LaneTakesInOrder ==
  ASSUME NEW S, NoCommand \notin S, NEW q \in Seq(Command), NEW m \in Seq(Message), q # <<>>,
         NEW x, NEW y, Unique(Joined(x, q, y, m), S)
  PROVE  /\ InOrder(Joined(x, q, y, m), Joined(Head(q), Tail(q), y, m), S)
         /\ Unique(Joined(Head(q), Tail(q), y, m), S)
<1> DEFINE r == Tail(q)
           h == Head(q)
           N == Length(r, m)
           f == [k \in 1 .. N |-> k + 1]
           old == Joined(x, q, y, m)
           new == Joined(h, r, y, m)
<1>1. StandAt(old, x, q, y, m)
  BY JoinedAt
<1>2. /\ Len(r) = Len(q) - 1 /\ h = q[1] /\ r \in Seq(Command)
      /\ \A j \in 1 .. Len(r) : r[j] = q[j + 1]
  OBVIOUS
<1> HIDE DEF r, h
<1>3. StandAt(new, h, r, y, m)
  BY <1>2, JoinedAt
<1> HIDE DEF old, new
<1>4. N \in Nat /\ Length(q, m) = N + 1
      /\ DOMAIN old = 1 .. N + 1 /\ DOMAIN new = 1 .. N
  BY <1>1, <1>2, <1>3 DEF Length, StandAt
<1>5. ASSUME NEW k \in 1 .. N PROVE old[k + 1] = new[k]
  <2>1. /\ new[k] = Member(h, r, y, m, k) /\ old[k + 1] = Member(x, q, y, m, k + 1)
        /\ N = Len(q) + 1 + Len(m) /\ Len(m) \in Nat /\ Len(q) \in Nat /\ Len(r) \in Nat
    BY <1>1, <1>2, <1>3, <1>4 DEF StandAt, Length
  <2>2. CASE k <= Len(q) + 1
    BY <1>2, <1>4, <2>1, <2>2 DEF Member
  <2>3. CASE k > Len(q) + 1
    <3>1. old[k + 1] = m[(k + 1) - Len(q) - 2]
      BY <1>4, <2>1, <2>3 DEF Member
    <3>2. new[k] = m[k - (Len(q) - 1) - 2] /\ (k + 1) - Len(q) - 2 = k - (Len(q) - 1) - 2
      BY <1>2, <1>4, <2>1, <2>3 DEF Member
    <3> QED
      BY <3>1, <3>2
  <2> QED
    BY <1>4, <2>1, <2>2, <2>3
<1> HIDE DEF N
<1>6. /\ f \in [1 .. N -> Int]
      /\ \A k \in 1 .. N : f[k] = k + 1 /\ f[k] \in 1 .. N + 1
  BY <1>4
<1> HIDE DEF f
<1>7. Unique(old, S)
  BY DEF old
<1>8. Places(f, N, old, new, S)
  BY <1>4, <1>5, <1>6 DEF Places
<1>9. InOrder(old, new, S) /\ Unique(new, S)
  BY <1>7, <1>8, KeptInOrder
<1> QED
  BY <1>9 DEF old, new, r, h

(* A lane unwinds, and with it what it holds and what its channel holds. *)
LEMMA LaneGoneInOrder ==
  ASSUME NEW S, NoCommand \notin S, NEW q \in Seq(Command), NEW m \in Seq(Message),
         NEW x, NEW y, Unique(Joined(x, q, y, m), S)
  PROVE  /\ InOrder(Joined(x, q, y, m), Joined(NoCommand, <<>>, y, m), S)
         /\ Unique(Joined(NoCommand, <<>>, y, m), S)
<1> DEFINE L == Len(q)
           e == <<>>
           N == Length(e, m)
           f == [k \in 1 .. N |-> k + L]
           old == Joined(x, q, y, m)
           new == Joined(NoCommand, e, y, m)
<1>1. StandAt(old, x, q, y, m)
  BY JoinedAt
<1>2. Len(e) = 0 /\ e \in Seq(Command)
  OBVIOUS
<1> HIDE DEF e
<1>3. StandAt(new, NoCommand, e, y, m)
  BY <1>2, JoinedAt
<1> HIDE DEF old, new
<1>4. L \in Nat /\ N \in Nat /\ Length(q, m) = N + L
      /\ DOMAIN old = 1 .. N + L /\ DOMAIN new = 1 .. N
  BY <1>1, <1>2, <1>3 DEF Length, StandAt
<1>5. ASSUME NEW k \in 1 .. N, new[k] \in S PROVE old[k + L] = new[k]
  <2>1. /\ new[k] = Member(NoCommand, e, y, m, k) /\ old[k + L] = Member(x, q, y, m, k + L)
        /\ N = 2 + Len(m) /\ Len(m) \in Nat
    BY <1>1, <1>2, <1>3, <1>4 DEF StandAt, Length
  <2>2. k # 1
    BY <1>5, <2>1 DEF Member
  <2>3. CASE k = 2
    BY <1>2, <1>4, <2>1, <2>3 DEF Member
  <2>4. CASE k > 2
    <3>1. old[k + L] = m[(k + L) - L - 2]
      BY <1>4, <2>1, <2>4 DEF Member
    <3>2. new[k] = m[k - 0 - 2] /\ (k + L) - L - 2 = k - 0 - 2
      BY <1>2, <1>4, <2>1, <2>4 DEF Member
    <3> QED
      BY <3>1, <3>2
  <2> QED
    BY <1>4, <2>2, <2>3, <2>4
<1> HIDE DEF N, L
<1>6. /\ f \in [1 .. N -> Int]
      /\ \A k \in 1 .. N : f[k] = k + L /\ f[k] \in 1 .. N + L
  BY <1>4
<1> HIDE DEF f
<1>7. Unique(old, S)
  BY DEF old
<1>8. Places(f, N, old, new, S)
  BY <1>4, <1>5, <1>6 DEF Places
<1>9. InOrder(old, new, S) /\ Unique(new, S)
  BY <1>7, <1>8, KeptInOrder
<1> QED
  BY <1>9 DEF old, new, e

(* The line of an app names a command once. *)
LineInv(a) == Unique(Line(a), OfApp(a))

KeepsLine(a) == InOrder(Line(a), Line(a)', OfApp(a)) /\ LineInv(a)'

(* The four parts of a line, before a step and after it. *)
LEMMA LineParts ==
  ASSUME TypeInv, NEW a \in Apps
  PROVE  /\ Line(a) = Joined(lane[a].cmd, queue[a], router.cmd, mailbox)
         /\ Line(a)' = Joined(lane'[a].cmd, queue'[a], router'.cmd, mailbox')
         /\ queue[a] \in Seq(Command) /\ mailbox \in Seq(Message)
         /\ NoCommand \notin OfApp(a)
<1>1. /\ Line(a) = Joined(lane[a].cmd, queue[a], router.cmd, mailbox)
      /\ Line(a)' = Joined(lane'[a].cmd, queue'[a], router'.cmd, mailbox')
  BY DEF Line, Joined
<1>2. queue[a] \in Seq(Command) /\ mailbox \in Seq(Message)
  BY DEF TypeInv, TypeOK, Message
<1>3. NoCommand \notin OfApp(a)
  BY DEF OfApp, Command, NoCommand
<1> QED
  BY <1>1, <1>2, <1>3

(* The moves of a line, in the terms of a step. *)
LEMMA LineMoves ==
  ASSUME TypeInv, NEW a \in Apps, LineInv(a)
  PROVE  /\ /\ queue'[a] = queue[a] /\ mailbox' = mailbox
            /\ lane'[a].cmd \in {lane[a].cmd, NoCommand} /\ router'.cmd \in {router.cmd, NoCommand}
            => KeepsLine(a)
         /\ \A e \in Message :
              /\ queue'[a] = queue[a] /\ mailbox' = Append(mailbox, e)
              /\ lane'[a].cmd \in {lane[a].cmd, NoCommand} /\ router'.cmd = router.cmd
              /\ e \in OfApp(a) => \A k \in DOMAIN Line(a) : Line(a)[k] # e
              => KeepsLine(a)
         /\ /\ queue'[a] = queue[a] /\ mailbox # <<>> /\ mailbox' = Tail(mailbox)
            /\ lane'[a].cmd \in {lane[a].cmd, NoCommand}
            /\ router.cmd = NoCommand /\ router'.cmd \in {Head(mailbox), NoCommand}
            => KeepsLine(a)
         /\ /\ queue'[a] = Append(queue[a], router.cmd) /\ mailbox' = mailbox
            /\ lane'[a].cmd = lane[a].cmd /\ router.cmd \in Command /\ router'.cmd = NoCommand
            => KeepsLine(a)
         /\ /\ queue[a] # <<>> /\ queue'[a] = Tail(queue[a]) /\ mailbox' = mailbox
            /\ lane'[a].cmd = Head(queue[a]) /\ router'.cmd = router.cmd
            => KeepsLine(a)
         /\ /\ queue'[a] = <<>> /\ mailbox' = mailbox
            /\ lane'[a].cmd = NoCommand /\ router'.cmd = router.cmd
            => KeepsLine(a)
<1> DEFINE x == lane[a].cmd
           q == queue[a]
           y == router.cmd
<1>0. /\ Line(a) = Joined(x, q, y, mailbox)
      /\ Line(a)' = Joined(lane'[a].cmd, queue'[a], router'.cmd, mailbox')
      /\ q \in Seq(Command) /\ mailbox \in Seq(Message) /\ NoCommand \notin OfApp(a)
      /\ Unique(Joined(x, q, y, mailbox), OfApp(a))
  BY LineParts DEF LineInv
<1> HIDE DEF x, q, y
<1>1. KeepsLine(a) <=> LET new == Joined(lane'[a].cmd, queue'[a], router'.cmd, mailbox')
                       IN  InOrder(Joined(x, q, y, mailbox), new, OfApp(a)) /\ Unique(new, OfApp(a))
  BY <1>0 DEF KeepsLine, LineInv
<1>2. ASSUME queue'[a] = q, mailbox' = mailbox, lane'[a].cmd \in {x, NoCommand},
             router'.cmd \in {y, NoCommand}
      PROVE  KeepsLine(a)
  BY <1>0, <1>1, <1>2, StandInOrder
<1>3. ASSUME NEW e \in Message, queue'[a] = q, mailbox' = Append(mailbox, e),
             lane'[a].cmd \in {x, NoCommand}, router'.cmd = y,
             e \in OfApp(a) => \A k \in DOMAIN Line(a) : Line(a)[k] # e
      PROVE  KeepsLine(a)
  BY <1>0, <1>1, <1>3, JoinedInOrder
<1>4. ASSUME queue'[a] = q, mailbox # <<>>, mailbox' = Tail(mailbox),
             lane'[a].cmd \in {x, NoCommand}, y = NoCommand,
             router'.cmd \in {Head(mailbox), NoCommand}
      PROVE  KeepsLine(a)
  BY <1>0, <1>1, <1>4, TakenInOrder
<1>5. ASSUME queue'[a] = Append(q, y), mailbox' = mailbox, lane'[a].cmd = x, y \in Command,
             router'.cmd = NoCommand
      PROVE  KeepsLine(a)
  BY <1>0, <1>1, <1>5, ForwardedInOrder
<1>6. ASSUME q # <<>>, queue'[a] = Tail(q), mailbox' = mailbox, lane'[a].cmd = Head(q),
             router'.cmd = y
      PROVE  KeepsLine(a)
  BY <1>0, <1>1, <1>6, LaneTakesInOrder
<1>7. ASSUME queue'[a] = <<>>, mailbox' = mailbox, lane'[a].cmd = NoCommand, router'.cmd = y
      PROVE  KeepsLine(a)
  BY <1>0, <1>1, <1>7, LaneGoneInOrder
<1> QED
  BY <1>2, <1>3, <1>4, <1>5, <1>6, <1>7 DEF x, q, y

(* What a caller sends is not in the line yet: it has no command in the    *)
(* actor while it is about to send one. *)
LEMMA SentIsNew ==
  ASSUME TypeInv, Homed, Owned, NEW a \in Apps, NEW c \in Clients, Send(c)
  PROVE  /\ call[c].cmd \in Message
         /\ \A k \in DOMAIN Line(a) : Line(a)[k] # call[c].cmd
<1>1. call[c].cmd \in Sent(c) /\ router # Down /\ ~ Held(c)
  BY DEF Send, Homed, Ended, Owned, Owns
<1>2. /\ lane[a].cmd # call[c].cmd /\ router.cmd # call[c].cmd
      /\ \A j \in DOMAIN queue[a] : queue[a][j] # call[c].cmd
      /\ \A j \in DOMAIN mailbox : mailbox[j] # call[c].cmd
  BY <1>1 DEF Held, InMail, InHand, InQueue, InLane, Has
<1>3. StandAt(Line(a), lane[a].cmd, queue[a], router.cmd, mailbox)
  BY LineParts, JoinedAt
<1>4. /\ DOMAIN queue[a] = 1 .. Len(queue[a]) /\ DOMAIN mailbox = 1 .. Len(mailbox)
  BY LineParts
<1>5. ASSUME NEW k \in DOMAIN Line(a) PROVE Line(a)[k] # call[c].cmd
  <2>1. /\ Line(a)[k] = Member(lane[a].cmd, queue[a], router.cmd, mailbox, k)
        /\ k \in 1 .. Len(queue[a]) + 2 + Len(mailbox)
        /\ Len(queue[a]) \in Nat /\ Len(mailbox) \in Nat
    BY <1>3, <1>5 DEF StandAt, Length
  <2>2. CASE k <= Len(queue[a]) + 2
    BY <1>2, <1>4, <2>1, <2>2 DEF Member
  <2>3. CASE k > Len(queue[a]) + 2
    <3>1. k - Len(queue[a]) - 2 \in DOMAIN mailbox
      BY <1>4, <2>1, <2>3
    <3>2. Line(a)[k] = mailbox[k - Len(queue[a]) - 2]
      BY <2>1, <2>3 DEF Member
    <3> QED
      BY <1>2, <3>1, <3>2
  <2> QED
    BY <2>1, <2>2, <2>3
<1> QED
  BY <1>1, <1>5 DEF Sent, Message

(* The steps of callers and of teardown. *)
LEMMA CallersKeepLine ==
  ASSUME TypeInv, Homed, Owned, NEW a \in Apps, LineInv(a),
         \/ \E c \in Clients : Send(c) \/ SendFails(c) \/ \E k \in Kinds, b \in Apps : Call(c, k, b)
         \/ Teardown
  PROVE  KeepsLine(a)
<1>1. CASE UNCHANGED <<mailbox, router, lane, queue>>
  BY <1>1, LineMoves
<1>2. ASSUME NEW c \in Clients, Send(c) PROVE KeepsLine(a)
  <2>1. mailbox' = Append(mailbox, call[c].cmd) /\ UNCHANGED <<router, lane, queue>>
    BY <1>2 DEF Send
  <2> QED
    BY <1>2, <2>1, SentIsNew, LineMoves
<1>3. CASE Teardown
  <2>1. mailbox' = Append(mailbox, Shutdown) /\ UNCHANGED <<router, lane, queue>>
    BY <1>3 DEF Teardown
  <2>2. Shutdown \in Message /\ Shutdown \notin OfApp(a)
    BY DEF Message, OfApp, Command, Shutdown
  <2> QED
    BY <2>1, <2>2, LineMoves
<1> QED
  BY <1>1, <1>2, <1>3 DEF SendFails, Call

(* The steps of the router. *)
LEMMA RouterKeepsLine ==
  ASSUME TypeInv, NEW a \in Apps, LineInv(a), RouterStep
  PROVE  KeepsLine(a)
<1>0. /\ Listening.cmd = NoCommand /\ Down.cmd = NoCommand
      /\ DOMAIN lane = Apps /\ queue \in [Apps -> Seq(Command)]
  BY DEF Listening, Down, TypeInv, TypeOK
<1>1. ASSUME NEW kind, Receive(kind), queue' = queue, router'.cmd \in {Head(mailbox), NoCommand},
             lane'[a].cmd \in {lane[a].cmd, NoCommand}
      PROVE  KeepsLine(a)
  <2>1. router.cmd = NoCommand /\ mailbox # <<>> /\ mailbox' = Tail(mailbox)
    BY <1>0, <1>1 DEF Receive
  <2> QED
    BY <1>1, <2>1, LineMoves
<1>2. CASE RouterReject \/ RouterFinished \/ RouterShutdown
  <2>1. PICK kind : Receive(kind)
    BY <1>2 DEF RouterReject, RouterFinished, RouterShutdown
  <2>2. UNCHANGED <<lane, queue>> /\ router' \in {router, Down}
    BY <1>2 DEF RouterReject, RouterFinished, RouterShutdown
  <2>3. router'.cmd = NoCommand
    BY <1>0, <2>1, <2>2 DEF Receive
  <2> QED
    BY <1>1, <2>1, <2>2, <2>3
<1>3. CASE RouterAdmit \/ RouterStop
  <2>1. PICK kind : Receive(kind)
    BY <1>3 DEF RouterAdmit, RouterStop
  <2>2. /\ queue' = queue /\ router' = [pc |-> "forwarding", cmd |-> Head(mailbox)]
        /\ LaneFor(Head(mailbox).app)
    BY <1>3 DEF RouterAdmit, RouterStop
  <2>3. lane'[a].cmd \in {lane[a].cmd, NoCommand}
    BY <1>0, <2>2 DEF LaneFor, Lane
  <2> QED
    BY <1>1, <2>1, <2>2, <2>3
<1>4. CASE RouterForward
  <2>1. /\ router.cmd \in Command /\ router'.cmd = NoCommand /\ UNCHANGED <<mailbox, lane>>
        /\ queue' = [queue EXCEPT ![router.cmd.app] = Append(@, router.cmd)]
    BY <1>0, <1>4 DEF RouterForward, TypeInv, TypeOK, Listening, Down
  <2>2. CASE a = router.cmd.app
    <3>1. queue'[a] = Append(queue[a], router.cmd)
      BY <1>0, <2>1, <2>2
    <3> QED
      BY <2>1, <3>1, LineMoves
  <2>3. CASE a # router.cmd.app
    <3>1. queue'[a] = queue[a]
      BY <1>0, <2>1, <2>3
    <3> QED
      BY <2>1, <3>1, LineMoves
  <2> QED
    BY <2>2, <2>3
<1>5. CASE RouterLaneGone
  <2>1. /\ UNCHANGED <<mailbox, queue>> /\ router'.cmd = NoCommand
        /\ lane' = [lane EXCEPT ![router.cmd.app] = Lane("none", NoCommand)]
    BY <1>0, <1>5 DEF RouterLaneGone
  <2>2. lane'[a].cmd \in {lane[a].cmd, NoCommand}
    BY <1>0, <2>1 DEF Lane
  <2> QED
    BY <2>1, <2>2, LineMoves
<1> QED
  BY <1>2, <1>3, <1>4, <1>5 DEF RouterStep

(* The steps of a lane, of this app or of another. *)
LEMMA LanesKeepLine ==
  ASSUME TypeInv, NEW a \in Apps, LineInv(a), NEW b \in Apps, LaneStep(b) \/ LanePanics(b)
  PROVE  KeepsLine(a)
<1>0. /\ lane \in [Apps -> [pc : {"none", "idle", "permit", "starting", "finishing",
                                 "stopping", "dead"},
                           cmd : Command \union {NoCommand}]]
      /\ queue \in [Apps -> Seq(Command)]
  BY DEF TypeInv, TypeOK
<1>1. ASSUME UNCHANGED <<mailbox, router, queue>>, lane'[a].cmd \in {lane[a].cmd, NoCommand}
      PROVE  KeepsLine(a)
  BY <1>1, LineMoves
<1>2. CASE LaneAcquire(b) \/ LaneStarted(b) \/ LaneStopped(b)
  BY <1>0, <1>1, <1>2 DEF LaneAcquire, LaneStarted, LaneStopped, Lane
<1>3. CASE LaneNotify(b)
  <2>1. /\ UNCHANGED <<router, queue>> /\ lane' = [lane EXCEPT ![b] = Lane("idle", NoCommand)]
        /\ mailbox' = mailbox \/ mailbox' = Append(mailbox, [kind |-> "finished", app |-> b])
    BY <1>3 DEF LaneNotify
  <2>2. lane'[a].cmd \in {lane[a].cmd, NoCommand}
    BY <1>0, <2>1 DEF Lane
  <2>3. [kind |-> "finished", app |-> b] \in Message
        /\ [kind |-> "finished", app |-> b] \notin OfApp(a)
    BY DEF Message, Finished, OfApp, Command
  <2>4. CASE mailbox' = mailbox
    BY <1>1, <2>1, <2>2, <2>4
  <2>5. CASE mailbox' = Append(mailbox, [kind |-> "finished", app |-> b])
    BY <2>1, <2>2, <2>3, <2>5, LineMoves
  <2> QED
    BY <2>1, <2>4, <2>5
<1>4. CASE LaneTake(b)
  <2>1. /\ UNCHANGED <<mailbox, router>> /\ queue[b] # <<>>
        /\ queue' = [queue EXCEPT ![b] = Tail(@)]
        /\ \E pc : lane' = [lane EXCEPT ![b] = Lane(pc, Head(queue[b]))]
    BY <1>4 DEF LaneTake
  <2>2. CASE a = b
    <3>1. queue'[a] = Tail(queue[a]) /\ lane'[a].cmd = Head(queue[a])
      BY <1>0, <2>1, <2>2 DEF Lane
    <3> QED
      BY <2>1, <2>2, <3>1, LineMoves
  <2>3. CASE a # b
    <3>1. queue'[a] = queue[a] /\ lane'[a] = lane[a]
      BY <1>0, <2>1, <2>3
    <3> QED
      BY <2>1, <3>1, LineMoves
  <2> QED
    BY <2>2, <2>3
<1>5. CASE LanePanics(b)
  <2>1. /\ UNCHANGED <<mailbox, router>> /\ queue' = [queue EXCEPT ![b] = <<>>]
        /\ lane' = [lane EXCEPT ![b] = Lane("dead", NoCommand)]
    BY <1>5 DEF LanePanics
  <2>2. CASE a = b
    <3>1. queue'[a] = <<>> /\ lane'[a].cmd = NoCommand
      BY <1>0, <2>1, <2>2 DEF Lane
    <3> QED
      BY <2>1, <3>1, LineMoves
  <2>3. CASE a # b
    <3>1. queue'[a] = queue[a] /\ lane'[a] = lane[a]
      BY <1>0, <2>1, <2>3
    <3> QED
      BY <2>1, <3>1, LineMoves
  <2> QED
    BY <2>2, <2>3
<1> QED
  BY <1>2, <1>3, <1>4, <1>5 DEF LaneStep

(* Every step keeps the order of every line. *)
LEMMA LineStep ==
  WorkInv /\ [Next]_vars => \A a \in Apps : LineInv(a) => KeepsLine(a)
<1> SUFFICES ASSUME WorkInv, [Next]_vars, NEW a \in Apps, LineInv(a) PROVE KeepsLine(a)
  OBVIOUS
<1>0. TypeInv /\ Homed /\ Owned
  BY DEF WorkInv
<1>1. CASE UNCHANGED vars
  BY <1>0, <1>1, LineMoves DEF vars
<1>2. CASE Next
  BY <1>0, <1>2, CallersKeepLine, RouterKeepsLine, LanesKeepLine DEF Next
<1> QED
  BY <1>1, <1>2

(* Commands of an app keep their order on their way through the actor,     *)
(* whatever is refused, dropped or ends with a lane that panics.           *)
THEOREM CommandsKeepOrder == Spec => ArrivalOrder
<1> DEFINE LinesInv == \A a \in Apps : LineInv(a)
           Steps == \A a \in Apps : KeepsLine(a)
<1>1. Init => LinesInv
  <2> SUFFICES ASSUME Init, NEW a \in Apps PROVE LineInv(a)
    OBVIOUS
  <2>1. StandAt(Line(a), lane[a].cmd, queue[a], router.cmd, mailbox)
    BY TypeInit, LineParts, JoinedAt
  <2>2. lane[a].cmd = NoCommand /\ router.cmd = NoCommand /\ Len(queue[a]) = 0 /\ Len(mailbox) = 0
    BY DEF Init, Lane, Listening
  <2>3. \A k \in DOMAIN Line(a) : Line(a)[k] = NoCommand
    BY <2>1, <2>2 DEF StandAt, Length, Member
  <2> QED
    BY <2>3, TypeInit, LineParts DEF LineInv, Unique
<1>2. WorkInv /\ LinesInv /\ [Next]_vars => Steps /\ LinesInv'
  BY LineStep DEF KeepsLine
<1>3. Steps => \A a \in Apps :
        LET old == Line(a)  new == Line(a)' IN
          \A i, j \in DOMAIN new : i < j /\ {new[i], new[j]} \subseteq OfApp(a) =>
            \A m, n \in DOMAIN old : old[m] = new[i] /\ old[n] = new[j] => m < n
  BY DEF KeepsLine, InOrder
<1>4. Init => WorkInv
  BY TypeInit, TokenInit, OwnedInit DEF WorkInv
<1>5. WorkInv /\ [Next]_vars => WorkInv'
  BY TypeStep, TokenStep, HomedStep, OwnedStep DEF WorkInv
<1> QED
  BY <1>1, <1>2, <1>3, <1>4, <1>5, PTL DEF Spec, ArrivalOrder
=============================================================================
