------------------------ MODULE MetricSingleflightProofs ------------------------
(***************************************************************************)
(* Proofs about MetricSingleflight for any callers, keys and slots, with   *)
(* or without panics.                                                      *)
(***************************************************************************)
EXTENDS MetricSingleflight, FiniteSetTheorems, TLAPS

(* A call of run_singleflight that still uses its slot uses the slot the   *)
(* map has for its key.  This is what the count of two is for: a slot      *)
(* leaves the map only when the map's and the caller's are its only        *)
(* references.                                                             *)
Using == {"waiting", "leading", "served"}

Registered ==
    \A c \in Callers :
        /\ call[c].phase \in Using
        /\ call[c].key \notin TypedKeys
        => inflight[call[c].key] = call[c].slot

(* The slot's lock: one caller at a time executes for a slot.              *)
SlotLocked ==
    \A c, d \in Callers :
        /\ call[c].phase = "leading" /\ call[d].phase = "leading"
        /\ call[c].slot = call[d].slot
        => c = d

IInv == TypeOK /\ Registered /\ SlotLocked

-----------------------------------------------------------------------------
(* Type correctness.                                                       *)

(* The coalescing maps start well typed: empty, no call running. *)
LEMMA TypeInit == Init => TypeOK
<1> SUFFICES ASSUME Init PROVE TypeOK
  OBVIOUS
<1>1. NoCall \in Call
  BY DEF NoCall, Call, Phases, Idle, Cells
<1> QED
  BY <1>1, Bounds DEF Init, TypeOK, NoCall, Cells

(* Every step of a call keeps the types. *)
LEMMA TypeNext == TypeOK /\ [Next]_vars => TypeOK'
<1> SUFFICES ASSUME TypeOK, [Next]_vars PROVE TypeOK'
  OBVIOUS
<1> USE DEF TypeOK, Call, Phases, Cells, Outcomes, Idle
<1>1. ASSUME NEW c \in Callers, Enter(c) PROVE TypeOK'
  <2>1. PICK k \in Keys : JoinSlot(c, k) \/ InsertSlot(c, k)
    BY <1>1 DEF Enter
  <2>2. calls' \in 0..MaxCalls
    BY <1>1, Bounds DEF Enter
  <2>3. CASE JoinSlot(c, k)
    BY <2>2, <2>3, NoneIsNothing DEF JoinSlot
  <2>4. CASE InsertSlot(c, k)
    BY <2>2, <2>4, NoneIsNothing DEF InsertSlot
  <2> QED
    BY <2>1, <2>3, <2>4
<1>2. ASSUME NEW c \in Callers, Continue(c) PROVE TypeOK'
  <2>1. CASE Serve(c) BY <2>1 DEF Serve
  <2>2. CASE Lead(c) BY <2>2 DEF Lead
  <2>3. CASE Poisoned(c) BY <2>3 DEF Poisoned
  <2>4. CASE Produce(c)
    <3>1. PICK o \in Outcomes :
            /\ result' = [result EXCEPT ![call[c].slot] = o]
            /\ call' = [call EXCEPT ![c].phase = "served", ![c].outcome = o]
      BY <2>4 DEF Produce
    <3>2. call[c].phase = "leading" /\ UNCHANGED <<inflight, calls>>
      BY <2>4 DEF Produce
    <3>3. o \in Cells
      BY <3>1
    <3> QED
      BY <3>1, <3>2, <3>3
  <2>5. CASE Panic(c) BY <2>5 DEF Panic
  <2>6. CASE Tidy(c) BY <2>6 DEF Tidy
  <2>7. CASE Leave(c) BY <2>7 DEF Leave, NoCall
  <2> QED
    BY <1>2, <2>1, <2>2, <2>3, <2>4, <2>5, <2>6, <2>7 DEF Continue
<1>3. CASE UNCHANGED vars
  BY <1>3 DEF vars
<1> QED
  BY <1>1, <1>2, <1>3 DEF Next

(* Every reachable state is well typed; a call holds a slot exactly while  *)
(* it runs.                                                                *)
THEOREM SingleflightTypeCorrect == Spec => []TypeOK
  BY TypeInit, TypeNext, PTL DEF Spec

-----------------------------------------------------------------------------
(* What a strong count of two says.                                        *)

(* A strong count of two is the map's reference and that of one call. *)
LEMMA CountOfTwo ==
  ASSUME TypeOK, NEW c \in Callers, call[c].slot # None,
         inflight[call[c].key] = call[c].slot,
         StrongCount(call[c].slot) = 2
  PROVE  Holders(call[c].slot) = {c}
<1> DEFINE s == call[c].slot
<1> DEFINE H == Holders(s)
<1> DEFINE R == {k \in Keys : inflight[k] = s}
<1>1. IsFiniteSet(H) /\ IsFiniteSet(R)
  BY FiniteActors, FS_Subset DEF Holders
<1>2. c \in H /\ call[c].key \in R
  BY DEF Holders, TypeOK, Call
<1>3. Cardinality(H) \in Nat /\ Cardinality(R) \in Nat
  BY <1>1, FS_CardinalityType
<1>4. Cardinality(H) # 0 /\ Cardinality(R) # 0
  BY <1>1, <1>2, FS_EmptySet
<1>5. Cardinality(H) + Cardinality(R) = 2
  BY DEF StrongCount
<1>6. Cardinality(H) = 1
  BY <1>3, <1>4, <1>5
<1> QED
  BY <1>1, <1>2, <1>6, FS_Singleton

-----------------------------------------------------------------------------
(* The inductive invariant.                                                *)

(* A slot in use stays the one its key names in the map. *)
LEMMA RegisteredNext == ASSUME IInv, [Next]_vars PROVE Registered'
<1> USE DEF IInv, Registered, Using
<1>1. ASSUME NEW c \in Callers, Enter(c) PROVE Registered'
  <2>1. PICK k \in Keys : JoinSlot(c, k) \/ InsertSlot(c, k)
    BY <1>1 DEF Enter
  <2>2. CASE JoinSlot(c, k)
    BY <2>2 DEF JoinSlot, TypeOK
  <2>3. CASE InsertSlot(c, k)
    <3>1. PICK s \in Slots : /\ inflight' = [inflight EXCEPT ![k] = s]
                             /\ call' = [call EXCEPT ![c] = [phase |-> "waiting", key |-> k,
                                                            slot |-> s, outcome |-> "none"]]
      BY <2>3 DEF InsertSlot
    <3> SUFFICES ASSUME NEW d \in Callers, call'[d].phase \in Using,
                        call'[d].key \notin TypedKeys
                 PROVE  inflight'[call'[d].key] = call'[d].slot
      OBVIOUS
    <3>2. CASE d = c
      BY <3>1, <3>2 DEF TypeOK
    <3>3. CASE d # c
      <4>1. call'[d] = call[d] /\ call[d].slot # None
        BY <3>1, <3>3 DEF TypeOK, Idle
      <4>2. inflight[call[d].key] = call[d].slot
        BY <4>1
      <4>3. call[d].key # k
        BY <4>1, <4>2, <2>3 DEF InsertSlot
      <4> QED
        BY <3>1, <4>1, <4>2, <4>3 DEF TypeOK, Call
    <3> QED
      BY <3>2, <3>3
  <2> QED
    BY <2>1, <2>2, <2>3
<1>2. ASSUME NEW c \in Callers, Continue(c) PROVE Registered'
  <2>1. CASE Serve(c) BY <2>1 DEF Serve, TypeOK
  <2>2. CASE Lead(c) BY <2>2 DEF Lead, TypeOK
  <2>3. CASE Poisoned(c) BY <2>3 DEF Poisoned, TypeOK
  <2>4. CASE Produce(c) BY <2>4 DEF Produce, TypeOK
  <2>5. CASE Panic(c) BY <2>5 DEF Panic, TypeOK
  <2>6. CASE Tidy(c)
    <3> SUFFICES ASSUME NEW d \in Callers, call'[d].phase \in Using,
                        call'[d].key \notin TypedKeys
                 PROVE  inflight'[call'[d].key] = call'[d].slot
      OBVIOUS
    <3>1. d # c /\ call'[d] = call[d] /\ call[d].slot # None
      BY <2>6 DEF Tidy, TypeOK, Idle
    <3>2. inflight[call[d].key] = call[d].slot
      BY <3>1
    <3>3. CASE call[d].key # call[c].key
      BY <2>6, <3>1, <3>2, <3>3 DEF Tidy, TypeOK, Call
    <3>4. CASE call[d].key = call[c].key
      <4>1. call[c].slot = call[d].slot /\ call[c].slot # None
        BY <2>6, <3>1, <3>2, <3>4 DEF Tidy
      <4>2. StrongCount(call[c].slot) # 2
        <5>1. Holders(call[c].slot) # {c}
          BY <3>1, <4>1 DEF Holders
        <5> QED
          BY <3>2, <3>4, <4>1, <5>1, CountOfTwo
      <4>3. ~ Evicts(c)
        BY <3>1, <3>4, <4>2 DEF Evicts
      <4> QED
        BY <2>6, <3>1, <3>2, <4>3 DEF Tidy
    <3> QED
      BY <3>3, <3>4
  <2>7. CASE Leave(c) BY <2>7 DEF Leave, NoCall, Idle, TypeOK
  <2> QED
    BY <1>2, <2>1, <2>2, <2>3, <2>4, <2>5, <2>6, <2>7 DEF Continue
<1>3. CASE UNCHANGED vars
  BY <1>3 DEF vars
<1> QED
  BY <1>1, <1>2, <1>3 DEF Next

(* A slot is executed by one call at a time. *)
LEMMA SlotLockedNext == ASSUME IInv, [Next]_vars PROVE SlotLocked'
<1> USE DEF IInv, SlotLocked
<1>1. ASSUME NEW c \in Callers, Enter(c) PROVE SlotLocked'
  BY <1>1 DEF Enter, JoinSlot, InsertSlot, TypeOK
<1>2. ASSUME NEW c \in Callers, Continue(c) PROVE SlotLocked'
  <2>1. CASE Serve(c) BY <2>1 DEF Serve, TypeOK
  <2>2. CASE Lead(c) BY <2>2 DEF Lead, Locked, TypeOK
  <2>3. CASE Poisoned(c) BY <2>3 DEF Poisoned, TypeOK
  <2>4. CASE Produce(c) BY <2>4 DEF Produce, TypeOK
  <2>5. CASE Panic(c) BY <2>5 DEF Panic, TypeOK
  <2>6. CASE Tidy(c) BY <2>6 DEF Tidy, TypeOK
  <2>7. CASE Leave(c) BY <2>7 DEF Leave, NoCall, Idle, TypeOK
  <2> QED
    BY <1>2, <2>1, <2>2, <2>3, <2>4, <2>5, <2>6, <2>7 DEF Continue
<1>3. CASE UNCHANGED vars
  BY <1>3 DEF vars
<1> QED
  BY <1>1, <1>2, <1>3 DEF Next

(* The inductive invariant holds in every reachable state. *)
LEMMA IInvHolds == Spec => []IInv
<1>1. Init => IInv
  <2>1. Init => TypeOK
    BY TypeInit
  <2>2. Init => Registered /\ SlotLocked
    BY DEF Init, Registered, SlotLocked, Using, NoCall, Idle
  <2> QED
    BY <2>1, <2>2 DEF IInv
<1>2. IInv /\ [Next]_vars => IInv'
  BY TypeNext, RegisteredNext, SlotLockedNext DEF IInv
<1> QED
  BY <1>1, <1>2, PTL DEF Spec

(* run_singleflight never executes a key twice at a time, however many     *)
(* callers come and whichever executions panic.                            *)
THEOREM ExecutesOnce == Spec => []OneExecution
<1>1. IInv => OneExecution
  BY DEF IInv, Registered, SlotLocked, OneExecution, AtMostOneLeads, Using
<1> QED
  BY <1>1, IInvHolds, PTL

-----------------------------------------------------------------------------
(* run_singleflight implements exclusive work.                             *)

(* The worker of the abstract view is the one caller that executes the key. *)
WorkerFound ==
    \A k \in Plain :
        /\ \A c \in Callers : Executes(c, k) => Executing[k] = c
        /\ (\A c \in Callers : ~ Executes(c, k)) => Executing[k] = None

(* As a key has one execution, the choice of its worker is no choice.      *)
LEMMA WorkerIs == OneExecution => WorkerFound
<1> SUFFICES ASSUME OneExecution, NEW k \in Plain
             PROVE  /\ \A c \in Callers : Executes(c, k) => Executing[k] = c
                    /\ (\A c \in Callers : ~ Executes(c, k)) => Executing[k] = None
  BY DEF WorkerFound
<1>1. ASSUME NEW c \in Callers, Executes(c, k) PROVE Executing[k] = c
  <2>1. Executes(CHOOSE d \in Callers : Executes(d, k), k)
        /\ (CHOOSE d \in Callers : Executes(d, k)) \in Callers
    BY <1>1
  <2>2. (CHOOSE d \in Callers : Executes(d, k)) = c
    BY <1>1, <2>1 DEF Executes, OneExecution, AtMostOneLeads, Plain
  <2> QED
    BY <1>1, <2>2 DEF Executing
<1>2. (\A c \in Callers : ~ Executes(c, k)) => Executing[k] = None
  BY DEF Executing
<1> QED
  BY <1>1, <1>2

(* A caller that does not execute is no worker.                            *)
LEMMA NotWorking ==
    ASSUME WorkerFound, NEW c \in Callers, \A k \in Plain : ~ Executes(c, k)
    PROVE  ~ Work!Working(c)
  BY NoneIsNobody DEF Work!Working, WorkerFound

(* A step that leaves who executes what leaves the workers.                *)
LEMMA SameWorkers ==
    ASSUME WorkerFound, WorkerFound',
           \A c \in Callers, k \in Plain : Executes(c, k)' <=> Executes(c, k)
    PROVE  Executing' = Executing
<1>1. \A k \in Plain : Executing'[k] = Executing[k]
  BY DEF WorkerFound
<1>2. Executing = [k \in Plain |-> Executing[k]] /\ Executing' = [k \in Plain |-> Executing'[k]]
  BY DEF Executing
<1> QED
  BY <1>1, <1>2

(* When the execution of a key begins or ends, the other keys keep theirs. *)
LEMMA OneWorkerMoves ==
    ASSUME WorkerFound, WorkerFound', NEW j \in Plain, NEW w,
           Executing'[j] = w,
           \A c \in Callers, k \in Plain \ {j} : Executes(c, k)' <=> Executes(c, k)
    PROVE  Executing' = [Executing EXCEPT ![j] = w]
<1>1. \A k \in Plain \ {j} : Executing'[k] = Executing[k]
  BY DEF WorkerFound
<1>2. Executing = [k \in Plain |-> Executing[k]] /\ Executing' = [k \in Plain |-> Executing'[k]]
  BY DEF Executing
<1> QED
  BY <1>1, <1>2

(* Every step of the code is a step of exclusive work, or invisible there. *)
LEMMA WorkStep ==
    ASSUME TypeOK, TypeOK', WorkerFound, WorkerFound', [Next]_vars
    PROVE  [Work!Next]_(Work!vars)
<1> USE DEF TypeOK, Call
<1>1. ASSUME NEW c \in Callers, Enter(c) PROVE [Work!Next]_(Work!vars)
  <2>1. PICK k \in Keys : JoinSlot(c, k) \/ InsertSlot(c, k)
    BY <1>1 DEF Enter
  <2>2. call[c].phase = "idle" /\ call[c].key = None
    BY <1>1 DEF Enter, Idle
  <2>3. call'[c].phase = "waiting" /\ call'[c].key = k
        /\ \A d \in Callers \ {c} : call'[d] = call[d]
    BY <2>1 DEF JoinSlot, InsertSlot
  <2>4. Executing' = Executing
    BY <2>2, <2>3, SameWorkers DEF Executes
  <2>5. Wanted[c] = None
    BY <2>2 DEF Wanted
  <2>6. CASE k \in Plain
    <3>1. Wanted' = [Wanted EXCEPT ![c] = k]
      BY <2>3, <2>6 DEF Wanted
    <3>2. Work!Ask(c, k)
      BY <2>4, <2>5, <3>1 DEF Work!Ask
    <3> QED
      BY <3>2, <2>6 DEF Work!Next
  <2>7. CASE k \notin Plain
    <3>1. Wanted' = Wanted
      BY <2>2, <2>3, <2>7, NoneIsNothing DEF Wanted, Plain
    <3> QED
      BY <2>4, <3>1 DEF Work!vars
  <2> QED
    BY <2>6, <2>7
<1>2. ASSUME NEW c \in Callers, Lead(c) PROVE [Work!Next]_(Work!vars)
  <2>0. PICK k \in Keys \cup {None} : call[c].key = k
    OBVIOUS
  <2>1. /\ call[c].phase = "waiting" /\ call'[c].phase = "leading" /\ call'[c].key = k
        /\ \A d \in Callers \ {c} : call'[d] = call[d]
    BY <1>2, <2>0 DEF Lead
  <2>2. Wanted' = Wanted
    BY <2>0, <2>1 DEF Wanted
  <2>3. CASE k \in Plain
    <3>1. Executing'[k] = c
      BY <2>0, <2>1, <2>3 DEF WorkerFound, Executes
    <3>2. Executing' = [Executing EXCEPT ![k] = c]
      BY <2>0, <2>1, <2>3, <3>1, OneWorkerMoves DEF Executes
    <3>3. Executing[k] = None
      <4>1. ASSUME NEW d \in Callers, Executes(d, k) PROVE FALSE
        <5>1. d # c /\ Executes(d, k)'
          BY <2>0, <2>1, <4>1 DEF Executes
        <5>2. Executing'[k] = d
          BY <2>3, <5>1 DEF WorkerFound
        <5> QED
          BY <3>1, <5>1, <5>2
      <4> QED
        BY <4>1, <2>3 DEF WorkerFound
    <3>4. Wanted[c] = k
      BY <2>0, <2>3 DEF Wanted
    <3>5. Work!Work(c, k)
      BY <2>2, <3>2, <3>3, <3>4 DEF Work!Work
    <3> QED
      BY <2>3, <3>5 DEF Work!Next
  <2>4. CASE k \notin Plain
    <3>1. Executing' = Executing
      BY <2>0, <2>1, <2>4, SameWorkers DEF Executes
    <3> QED
      BY <2>2, <3>1 DEF Work!vars
  <2> QED
    BY <2>3, <2>4
<1>3. ASSUME NEW c \in Callers, Produce(c) \/ Panic(c) PROVE [Work!Next]_(Work!vars)
  <2>0. PICK k \in Keys \cup {None} : call[c].key = k
    OBVIOUS
  <2>1. /\ call[c].phase = "leading" /\ call'[c].phase # "leading" /\ call'[c].key = k
        /\ \A d \in Callers \ {c} : call'[d] = call[d]
    BY <1>3, <2>0 DEF Produce, Panic
  <2>2. Wanted' = Wanted
    BY <2>0, <2>1 DEF Wanted
  <2>3. CASE k \in Plain
    <3>1. Executing[k] = c
      BY <2>0, <2>1, <2>3 DEF WorkerFound, Executes
    <3>2. \A d \in Callers : ~ Executes(d, k)'
      BY <2>0, <2>1, <2>3, <3>1 DEF WorkerFound, Executes
    <3>3. Executing'[k] = None
      BY <2>3, <3>2 DEF WorkerFound
    <3>4. Executing' = [Executing EXCEPT ![k] = None]
      BY <2>0, <2>1, <2>3, <3>3, OneWorkerMoves DEF Executes
    <3>5. Work!Forget({})
      BY <2>2 DEF Work!Forget, Wanted
    <3>6. Work!Finish(k, {})
      BY <3>1, <3>4, <3>5 DEF Work!Finish
    <3> QED
      BY <2>3, <3>6 DEF Work!Next
  <2>4. CASE k \notin Plain
    <3>1. Executing' = Executing
      BY <2>0, <2>1, <2>4, SameWorkers DEF Executes
    <3> QED
      BY <2>2, <3>1 DEF Work!vars
  <2> QED
    BY <2>3, <2>4
<1>4. ASSUME NEW c \in Callers, Serve(c) \/ Poisoned(c) \/ Tidy(c) PROVE [Work!Next]_(Work!vars)
  <2>1. /\ call[c].phase # "leading" /\ call'[c].phase # "leading" /\ call'[c].key = call[c].key
        /\ \A d \in Callers \ {c} : call'[d] = call[d]
    BY <1>4 DEF Serve, Poisoned, Tidy
  <2>2. Wanted' = Wanted
    BY <2>1 DEF Wanted
  <2>3. Executing' = Executing
    BY <2>1, SameWorkers DEF Executes
  <2> QED
    BY <2>2, <2>3 DEF Work!vars
<1>5. ASSUME NEW c \in Callers, Leave(c) PROVE [Work!Next]_(Work!vars)
  <2>1. /\ call[c].phase # "leading" /\ call'[c].phase # "leading" /\ call'[c].key = None
        /\ \A d \in Callers \ {c} : call'[d] = call[d]
    BY <1>5 DEF Leave, NoCall, Idle
  <2>2. Executing' = Executing
    BY <2>1, SameWorkers DEF Executes
  <2>3. ~ Work!Working(c)
    BY <2>1, NotWorking DEF Executes
  <2>4. Work!Forget({c})
    BY <2>1 DEF Work!Forget, Wanted
  <2>5. Work!Return({c})
    BY <2>2, <2>3, <2>4 DEF Work!Return
  <2> QED
    BY <2>5 DEF Work!Next
<1>6. CASE UNCHANGED vars
  BY <1>6 DEF vars, Work!vars, Wanted, Executing, Executes
<1> QED
  BY <1>1, <1>2, <1>3, <1>4, <1>5, <1>6 DEF Next, Continue

(* run_singleflight behaves as exclusive work, for any callers and keys.   *)
THEOREM SingleflightImplementsWork == Spec => ImplementsExclusiveWork
<1>1. Init => Work!Init
  BY DEF Init, Work!Init, Wanted, Executing, Executes, NoCall, Idle
<1>2. IInv => TypeOK /\ OneExecution
  BY DEF IInv, Registered, SlotLocked, OneExecution, AtMostOneLeads, Using
<1>3. IInv => TypeOK /\ WorkerFound
  BY <1>2, WorkerIs
<1>4. IInv /\ IInv' /\ [Next]_vars => [Work!Next]_(Work!vars)
  <2>1. IInv' => (TypeOK /\ WorkerFound)'
    BY <1>3, PTL
  <2> QED
    BY <1>3, <2>1, WorkStep
<1> QED
  BY <1>1, <1>4, IInvHolds, PTL DEF Spec, Work!Spec, ImplementsExclusiveWork

-----------------------------------------------------------------------------
(* A failed whole evaluation is forgotten with the calls that shared it.   *)

(* A slot serves one key, also for the calls that hold it after it left    *)
(* the map.                                                                *)
OwnSlots ==
    /\ \A c \in Callers, k \in Keys :
         inflight[k] # None /\ call[c].slot = inflight[k] => call[c].key = k
    /\ \A j, k \in Keys : inflight[j] # None /\ inflight[j] = inflight[k] => j = k

(* A call that has an outcome has that of its slot, and the slot of one    *)
(* that executes is empty.                                                 *)
OutcomeStored ==
    \A c \in Callers :
        /\ call[c].phase \in {"served", "leaving"} =>
             result[call[c].slot] = call[c].outcome /\ call[c].outcome # "none"
        /\ call[c].phase = "leading" => result[call[c].slot] = "none"

(* A whole evaluation that failed has its slot off the map before its call *)
(* lets go of it.                                                          *)
ErrorsEvicted ==
    \A c \in Callers :
        call[c].phase = "leaving" /\ call[c].outcome = "err" /\ call[c].key \in TypedKeys
        => inflight[call[c].key] # call[c].slot

FailureInv == IInv /\ OwnSlots /\ OutcomeStored /\ ErrorsEvicted /\ FailuresForgotten

(* A call that enters keeps all of it: a new slot is one nobody holds.     *)
LEMMA FailureEnter ==
    ASSUME FailureInv, TypeOK', NEW c \in Callers, Enter(c)
    PROVE  (OwnSlots /\ OutcomeStored /\ ErrorsEvicted /\ FailuresForgotten)'
<1> USE DEF FailureInv, IInv, TypeOK, Call, Idle
<1>1. PICK k \in Keys : JoinSlot(c, k) \/ InsertSlot(c, k)
  BY DEF Enter
<1>2. call[c].slot = None
  BY DEF Enter
<1>3. CASE JoinSlot(c, k)
  <2>1. /\ inflight' = inflight /\ result' = result /\ inflight[k] # None
        /\ call'[c] = [phase |-> "waiting", key |-> k, slot |-> inflight[k], outcome |-> "none"]
        /\ \A d \in Callers \ {c} : call'[d] = call[d]
    BY <1>3 DEF JoinSlot
  <2>2. OwnSlots'
    BY <2>1 DEF OwnSlots
  <2>3. OutcomeStored' /\ ErrorsEvicted'
    BY <2>1 DEF OutcomeStored, ErrorsEvicted
  <2>4. FailuresForgotten'
    BY <1>2, <2>1, NoneIsNothing DEF FailuresForgotten, Holders
  <2> QED
    BY <2>2, <2>3, <2>4
<1>4. CASE InsertSlot(c, k)
  <2>1. PICK s \in Slots : /\ Free(s)
                           /\ inflight' = [inflight EXCEPT ![k] = s]
                           /\ result' = [result EXCEPT ![s] = "none"]
                           /\ call' = [call EXCEPT ![c] = [phase |-> "waiting", key |-> k,
                                                  slot |-> s, outcome |-> "none"]]
    BY <1>4 DEF InsertSlot
  <2>2. /\ \A d \in Callers : call[d].slot # s
        /\ \A j \in Keys : inflight[j] # s
        /\ inflight[k] = None /\ s # None
    BY <1>4, <2>1, NoneIsNothing DEF InsertSlot, Free, Holders
  <2>3. OwnSlots'
    BY <1>2, <2>1, <2>2 DEF OwnSlots
  <2>4. OutcomeStored' /\ ErrorsEvicted'
    BY <2>1, <2>2 DEF OutcomeStored, ErrorsEvicted
  <2>5. FailuresForgotten'
    <3>1. ASSUME NEW j \in TypedKeys, inflight'[j] # None, result'[inflight'[j]] = "err"
          PROVE  \E d \in Callers : call'[d].slot = inflight'[j]
      <4>1. j \in Keys /\ j # k
        BY <2>1, <3>1, KeyKinds
      <4>2. inflight'[j] = inflight[j] /\ result[inflight[j]] = "err"
        BY <2>1, <2>2, <3>1, <4>1
      <4>3. PICK d \in Callers : call[d].slot = inflight[j]
        BY <3>1, <4>2 DEF FailuresForgotten, Holders
      <4>4. call'[d].slot = inflight[j]
        BY <1>2, <2>1, <3>1, <4>2, <4>3
      <4> QED
        BY <4>2, <4>4
    <3> QED
      BY <3>1 DEF FailuresForgotten, Holders
  <2> QED
    BY <2>3, <2>4, <2>5
<1> QED
  BY <1>1, <1>3, <1>4

(* A call that goes on keeps all of it: the last to leave a failed whole   *)
(* evaluation has taken it off the map.                                    *)
LEMMA FailureContinue ==
    ASSUME FailureInv, TypeOK', NEW c \in Callers, Continue(c)
    PROVE  (OwnSlots /\ OutcomeStored /\ ErrorsEvicted /\ FailuresForgotten)'
<1> USE DEF FailureInv, IInv, TypeOK, Call, Idle
<1>1. CASE Serve(c) \/ Lead(c) \/ Poisoned(c)
  <2>1. /\ inflight' = inflight /\ result' = result
        /\ call'[c].slot = call[c].slot /\ call'[c].key = call[c].key
        /\ \A d \in Callers \ {c} : call'[d] = call[d]
    BY <1>1 DEF Serve, Lead, Poisoned
  <2>2. OwnSlots'
    BY <2>1 DEF OwnSlots
  <2>3. OutcomeStored' /\ ErrorsEvicted'
    <3>1. CASE Serve(c) BY <3>1 DEF Serve, OutcomeStored, ErrorsEvicted, Outcomes
    <3>2. CASE Lead(c) BY <3>2 DEF Lead, OutcomeStored, ErrorsEvicted
    <3>3. CASE Poisoned(c) BY <3>3 DEF Poisoned, OutcomeStored, ErrorsEvicted
    <3> QED
      BY <1>1, <3>1, <3>2, <3>3
  <2>4. FailuresForgotten'
    BY <2>1 DEF FailuresForgotten, Holders
  <2> QED
    BY <2>2, <2>3, <2>4
<1>2. CASE Produce(c) \/ Panic(c)
  <2>1. PICK o : /\ inflight' = inflight
                 /\ call[c].phase = "leading" /\ call[c].slot \in Slots
                 /\ result' = [result EXCEPT ![call[c].slot] = o]
                 /\ call'[c].slot = call[c].slot /\ call'[c].key = call[c].key
                 /\ call'[c].phase \in {"served", "leaving"} /\ call'[c].outcome = o
                 /\ o # "none"
                 /\ call'[c].phase = "leaving" => o = "poisoned"
                 /\ \A d \in Callers \ {c} : call'[d] = call[d]
    BY <1>2 DEF Produce, Panic, Outcomes
  <2>2. OwnSlots'
    BY <2>1 DEF OwnSlots
  <2>3. \A d \in Callers \ {c} :
           call[d].slot = call[c].slot => call[d].phase \notin {"leading", "served", "leaving"}
    BY <2>1 DEF SlotLocked, OutcomeStored
  <2>5. OutcomeStored' /\ ErrorsEvicted'
    BY <2>1, <2>3 DEF OutcomeStored, ErrorsEvicted
  <2>6. FailuresForgotten'
    BY <2>1, NoneIsNothing DEF FailuresForgotten, Holders
  <2> QED
    BY <2>2, <2>5, <2>6
<1>3. CASE Tidy(c)
  <2>1. /\ result' = result /\ call[c].phase = "served"
        /\ inflight' = [k \in Keys |-> IF k = call[c].key /\ Evicts(c) THEN None ELSE inflight[k]]
        /\ call'[c].slot = call[c].slot /\ call'[c].key = call[c].key
        /\ call'[c].phase = "leaving" /\ call'[c].outcome = call[c].outcome
        /\ \A d \in Callers \ {c} : call'[d] = call[d]
    BY <1>3 DEF Tidy
  <2>2. OwnSlots'
    BY <2>1 DEF OwnSlots
  <2>3. OutcomeStored'
    BY <2>1 DEF OutcomeStored
  <2>4. call[c].outcome = "err" /\ call[c].key \in TypedKeys => Evicts(c)
    BY DEF Evicts
  <2>5. \A d \in Callers : call[d].phase # "idle" => call[d].slot # None
    OBVIOUS
  <2>6. ErrorsEvicted'
    BY <2>1, <2>4, <2>5 DEF ErrorsEvicted
  <2>7. FailuresForgotten'
    <3>1. \A d \in Callers : call'[d].slot = call[d].slot
      BY <2>1
    <3>2. \A k \in TypedKeys : inflight'[k] # None => inflight'[k] = inflight[k]
      BY <2>1, KeyKinds
    <3>3. ASSUME NEW k \in TypedKeys, inflight'[k] # None, result'[inflight'[k]] = "err"
          PROVE  \E d \in Callers : call'[d].slot = inflight'[k]
      <4>1. inflight'[k] = inflight[k] /\ result[inflight[k]] = "err"
        BY <2>1, <3>2, <3>3
      <4>2. PICK d \in Callers : call[d].slot = inflight[k]
        BY <3>3, <4>1 DEF FailuresForgotten, Holders
      <4> QED
        BY <3>1, <4>1, <4>2
    <3> QED
      BY <3>3 DEF FailuresForgotten, Holders
  <2> QED
    BY <2>2, <2>3, <2>6, <2>7
<1>4. CASE Leave(c)
  <2>1. /\ inflight' = inflight /\ result' = result /\ call[c].phase = "leaving"
        /\ call'[c] = NoCall
        /\ \A d \in Callers \ {c} : call'[d] = call[d]
    BY <1>4 DEF Leave
  <2>2. OwnSlots'
    BY <2>1 DEF OwnSlots, NoCall
  <2>3. OutcomeStored' /\ ErrorsEvicted'
    BY <2>1 DEF OutcomeStored, ErrorsEvicted, NoCall
  <2>4. FailuresForgotten'
    <3>1. ASSUME NEW k \in TypedKeys, inflight[k] # None, result[inflight[k]] = "err"
          PROVE  \E d \in Callers \ {c} : call[d].slot = inflight[k]
      <4>1. PICK d \in Callers : call[d].slot = inflight[k]
        BY <3>1 DEF FailuresForgotten, Holders
      <4>2. CASE d = c
        <5>1. call[c].key = k
          BY <3>1, <4>1, <4>2, KeyKinds DEF OwnSlots
        <5>2. call[c].outcome = "err"
          BY <2>1, <3>1, <4>1, <4>2 DEF OutcomeStored
        <5> QED
          BY <2>1, <4>1, <4>2, <5>1, <5>2 DEF ErrorsEvicted
      <4> QED
        BY <4>1, <4>2
    <3> QED
      BY <2>1, <3>1 DEF FailuresForgotten, Holders
  <2> QED
    BY <2>2, <2>3, <2>4
<1> QED
  BY <1>1, <1>2, <1>3, <1>4 DEF Continue

(* No failure of a whole evaluation is kept for callers that come later,   *)
(* however calls join, fail and panic.                                     *)
THEOREM FailuresAreForgotten == Spec => []FailuresForgotten
<1>1. Init => OwnSlots /\ OutcomeStored /\ ErrorsEvicted /\ FailuresForgotten
  BY KeyKinds DEF Init, OwnSlots, OutcomeStored, ErrorsEvicted, FailuresForgotten, NoCall, Idle
<1>2. FailureInv /\ IInv' /\ [Next]_vars => FailureInv'
  <2> SUFFICES ASSUME FailureInv, IInv', [Next]_vars PROVE FailureInv'
    OBVIOUS
  <2>1. CASE UNCHANGED vars
    BY <2>1 DEF vars, FailureInv, OwnSlots, OutcomeStored, ErrorsEvicted, FailuresForgotten, Holders
  <2> QED
    BY <2>1, FailureEnter, FailureContinue DEF Next, FailureInv, IInv
<1>3. FailureInv => FailuresForgotten
  BY DEF FailureInv
<1>4. IInv /\ OwnSlots /\ OutcomeStored /\ ErrorsEvicted /\ FailuresForgotten => FailureInv
  BY DEF FailureInv
<1> QED
  BY <1>1, <1>2, <1>3, <1>4, IInvHolds, PTL DEF Spec
=============================================================================
