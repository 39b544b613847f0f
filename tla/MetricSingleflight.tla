--------------------------- MODULE MetricSingleflight ---------------------------
(***************************************************************************)
(* Coalescing of metric evaluations and artifact loads                     *)
(* (crates/datasets/src/metric_eval_inflight.rs).  A call finds or installs *)
(* the slot of its key under the map's lock, then takes the slot's own     *)
(* lock: the first to get it executes with the lock held and stores the    *)
(* outcome, the others are served the stored outcome.  Afterwards each     *)
(* takes the map's lock again and removes the key when its slot is         *)
(* referenced twice, by the map and by itself.  Its own reference is       *)
(* dropped only after that lock is released.                               *)
(*                                                                         *)
(* The source has this function twice: run_singleflight, and               *)
(* run_typed_singleflight for whole evaluations, whose calls also remove   *)
(* the key when their outcome is an error.  TypedKeys are the keys of the  *)
(* second map; the two maps share nothing.                                 *)
(***************************************************************************)
EXTENDS Naturals, FiniteSets

CONSTANTS
    Callers,    \* threads that ask for an evaluation
    Keys,       \* idempotency keys
    TypedKeys,  \* those of run_typed_singleflight
    Slots,      \* names of the shared cells; a name is reused once it is free
    None,
    MaxCalls,   \* bound: calls made in a behaviour
    MayPanic    \* whether an execution may panic

ASSUME FiniteActors == IsFiniteSet(Callers) /\ IsFiniteSet(Keys)
ASSUME KeyKinds == TypedKeys \subseteq Keys
ASSUME NoneIsNothing == None \notin Slots \cup Keys
ASSUME NoneIsNobody == None \notin Callers
ASSUME Bounds == MaxCalls \in Nat /\ MayPanic \in BOOLEAN

VARIABLES
    inflight,  \* the two maps: the slot registered for a key
    result,    \* what the mutex of a slot holds
    call,      \* where each caller is in run_singleflight
    calls      \* calls made so far

vars == <<inflight, result, call, calls>>

Outcomes == {"ok", "err"}
\* "poisoned": the execution panicked with the slot locked.
Cells == Outcomes \cup {"none", "poisoned"}
Phases == {"idle", "waiting", "leading", "served", "leaving"}
Idle == "idle"

Call == [phase : Phases, key : Keys \cup {None}, slot : Slots \cup {None}, outcome : Cells]
NoCall == [phase |-> Idle, key |-> None, slot |-> None, outcome |-> "none"]

Init ==
    /\ inflight = [k \in Keys |-> None]
    /\ result = [s \in Slots |-> "none"]
    /\ call = [c \in Callers |-> NoCall]
    /\ calls = 0

Holders(s) == {c \in Callers : call[c].slot = s}
\* Arc::strong_count of the slot.
StrongCount(s) == Cardinality(Holders(s)) + Cardinality({k \in Keys : inflight[k] = s})
\* A slot nobody refers to: its memory is free.
Free(s) == Holders(s) = {} /\ \A k \in Keys : inflight[k] # s
\* The leader executes with the slot's lock held.
Locked(s) == \E c \in Callers : call[c].phase = "leading" /\ call[c].slot = s

----------------------------------------------------------------------------
\* Under the map's lock: clone the slot of the key.
JoinSlot(c, k) ==
    /\ inflight[k] # None
    /\ call' = [call EXCEPT ![c] = [phase |-> "waiting", key |-> k,
                                    slot |-> inflight[k], outcome |-> "none"]]
    /\ UNCHANGED <<inflight, result>>

\* Under the map's lock: no slot for the key, so insert a new empty one.
InsertSlot(c, k) ==
    /\ inflight[k] = None
    /\ \E s \in Slots :
        /\ Free(s)
        /\ inflight' = [inflight EXCEPT ![k] = s]
        /\ result' = [result EXCEPT ![s] = "none"]
        /\ call' = [call EXCEPT ![c] = [phase |-> "waiting", key |-> k,
                                        slot |-> s, outcome |-> "none"]]

Enter(c) ==
    /\ call[c].phase = Idle
    /\ calls < MaxCalls
    /\ calls' = calls + 1
    /\ \E k \in Keys : JoinSlot(c, k) \/ InsertSlot(c, k)

\* Mutant of Serve: a waiter is served only a success.
ServeSuccess(c) ==
    /\ call[c].phase = "waiting"
    /\ result[call[c].slot] = "ok"
    /\ call' = [call EXCEPT ![c].phase = "served", ![c].outcome = "ok"]
    /\ UNCHANGED <<inflight, result, calls>>

\* The slot holds an outcome: the caller is a waiter and copies it.
Serve(c) ==
    /\ call[c].phase = "waiting"
    /\ result[call[c].slot] \in Outcomes
    /\ call' = [call EXCEPT ![c].phase = "served", ![c].outcome = result[call[c].slot]]
    /\ UNCHANGED <<inflight, result, calls>>

\* The slot is empty: the caller leads, and keeps the lock while it executes.
Lead(c) ==
    /\ call[c].phase = "waiting"
    /\ ~ Locked(call[c].slot)
    /\ result[call[c].slot] = "none"
    /\ call' = [call EXCEPT ![c].phase = "leading"]
    /\ UNCHANGED <<inflight, result, calls>>

\* The lock is poisoned: the error returns at once, with no clean-up.
Poisoned(c) ==
    /\ call[c].phase = "waiting"
    /\ result[call[c].slot] = "poisoned"
    /\ call' = [call EXCEPT ![c].phase = "leaving", ![c].outcome = "poisoned"]
    /\ UNCHANGED <<inflight, result, calls>>

\* The execution ends; its outcome is stored and the lock released.
Produce(c) ==
    /\ call[c].phase = "leading"
    /\ \E o \in Outcomes :
        /\ result' = [result EXCEPT ![call[c].slot] = o]
        /\ call' = [call EXCEPT ![c].phase = "served", ![c].outcome = o]
    /\ UNCHANGED <<inflight, calls>>

\* The execution panics: unwinding poisons the lock and skips the clean-up.
Panic(c) ==
    /\ MayPanic
    /\ call[c].phase = "leading"
    /\ result' = [result EXCEPT ![call[c].slot] = "poisoned"]
    /\ call' = [call EXCEPT ![c].phase = "leaving", ![c].outcome = "poisoned"]
    /\ UNCHANGED <<inflight, calls>>

\* Mutants of Evicts: the clean-up does not look who else holds the slot; it
\* leaves an error for those who do.
EvictAlways(c) == TRUE
EvictSoleHolder(c) == StrongCount(call[c].slot) = 2

\* Under the map's lock: the clean-up.  The second branch of run_singleflight
\* asks for a leader whose outcome is both Ok and an error, and is never taken.
Evicts(c) ==
    \/ StrongCount(call[c].slot) = 2
    \/ call[c].key \in TypedKeys /\ call[c].outcome = "err"

Tidy(c) ==
    /\ call[c].phase = "served"
    /\ inflight' = IF Evicts(c) THEN [inflight EXCEPT ![call[c].key] = None] ELSE inflight
    /\ call' = [call EXCEPT ![c].phase = "leaving"]
    /\ UNCHANGED <<result, calls>>

\* Mutant of Leave: the reference of a call that returned is kept.
LeaveHolding(c) ==
    /\ call[c].phase = "leaving"
    /\ call' = [call EXCEPT ![c].phase = Idle]
    /\ UNCHANGED <<inflight, result, calls>>

\* The function returns and drops its reference to the slot.
Leave(c) ==
    /\ call[c].phase = "leaving"
    /\ call' = [call EXCEPT ![c] = NoCall]
    /\ UNCHANGED <<inflight, result, calls>>

Continue(c) ==
    Serve(c) \/ Lead(c) \/ Poisoned(c) \/ Produce(c) \/ Panic(c) \/ Tidy(c) \/ Leave(c)

Next == \E c \in Callers : Enter(c) \/ Continue(c)

Spec == Init /\ [][Next]_vars
\* A thread that can go on does, and an evaluation ends.  No fairness is asked
\* of the locks: calls are bounded, so a lock is contended only so often.
FairSpec == Spec /\ \A c \in Callers : WF_vars(Continue(c))

----------------------------------------------------------------------------
(* Properties *)

\* Types of the state; a call that is over holds no slot and every other
\* call holds one.
TypeOK ==
    /\ inflight \in [Keys -> Slots \cup {None}]
    /\ result \in [Slots -> Cells]
    /\ call \in [Callers -> Call]
    /\ calls \in 0..MaxCalls
    /\ \A c \in Callers : /\ call[c].phase = Idle <=> call[c].slot = None
                          /\ call[c].phase = Idle <=> call[c].key = None

AtMostOneLeads(k) ==
    \A c, d \in Callers :
        /\ call[c].phase = "leading" /\ call[d].phase = "leading"
        /\ call[c].key = k /\ call[d].key = k
        => c = d

\* run_singleflight executes a key at most once at a time: a clean-up that
\* removes the key never leaves another call with the removed slot.  It is
\* not so for the keys of run_typed_singleflight, whose clean-up after an
\* error (Tidy) removes the key whatever slot it names by then.
OneExecution == \A k \in Keys \ TypedKeys : AtMostOneLeads(k)

\* A failed whole evaluation is not kept for callers that come when all the
\* calls that shared it are gone.
FailuresForgotten ==
    \A k \in TypedKeys :
        inflight[k] # None /\ result[inflight[k]] = "err" => Holders(inflight[k]) # {}

\* Every call comes back, whatever the execution it waited for did.
EveryCallReturns == \A c \in Callers : call[c].phase # Idle ~> call[c].phase = Idle

\* The abstract view: what a caller wants, and who executes a key.
Plain == Keys \ TypedKeys
Wanted == [c \in Callers |-> IF call[c].key \in Plain THEN call[c].key ELSE None]
Executes(c, k) == call[c].phase = "leading" /\ call[c].key = k
Executing == [k \in Plain |-> IF \E c \in Callers : Executes(c, k)
                              THEN CHOOSE c \in Callers : Executes(c, k) ELSE None]

Work == INSTANCE ExclusiveWork WITH Keys <- Plain, wants <- Wanted, worker <- Executing

\* Behind its maps, slots and reference counts run_singleflight is exclusive
\* work: a key is executed by one caller at a time, one of those that asked
\* for it, and it hands the work over to no other call half way.
ImplementsExclusiveWork == Work!Spec

=============================================================================
