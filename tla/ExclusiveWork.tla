----------------------------- MODULE ExclusiveWork -----------------------------
(***************************************************************************)
(* What the host's coalescing code promises, without its maps, slots and   *)
(* locks: a caller asks for the work of a key; the work of a key is done   *)
(* by one caller at a time, one of those who asked for it; a caller does   *)
(* not come back while it works, and it comes back with no key.            *)
(*                                                                         *)
(* Implemented by RuntimeActor (the start of an app), MetricSingleflight   *)
(* (the execution of an idempotency key) and CompileCache (the compile of  *)
(* a cache key), each under the mapping at the end of its module.          *)
(***************************************************************************)
CONSTANTS Callers, Keys, None

VARIABLES
    wants,   \* caller -> the key it asked for, None between two calls
    worker   \* key -> the caller that does its work, None if nobody does

vars == <<wants, worker>>

Init ==
    /\ wants = [c \in Callers |-> None]
    /\ worker = [k \in Keys |-> None]

Working(c) == \E k \in Keys : worker[k] = c

Ask(c, k) ==
    /\ wants[c] = None
    /\ wants' = [wants EXCEPT ![c] = k]
    /\ UNCHANGED worker

\* The caller starts the work of the key it asked for ...
Work(c, k) ==
    /\ wants[c] = k
    /\ worker[k] = None
    /\ worker' = [worker EXCEPT ![k] = c]
    /\ UNCHANGED wants

\* ... or asks for it and starts at once.
AskAndWork(c, k) ==
    /\ wants[c] = None
    /\ worker[k] = None
    /\ wants' = [wants EXCEPT ![c] = k]
    /\ worker' = [worker EXCEPT ![k] = c]

Forget(back) == wants' = [c \in Callers |-> IF c \in back THEN None ELSE wants[c]]

\* Callers that do not work come back ...
Return(back) ==
    /\ \A c \in back : ~ Working(c)
    /\ Forget(back)
    /\ UNCHANGED worker

\* ... and so may others, and the worker itself, when the work ends.
Finish(k, back) ==
    /\ worker[k] \in Callers
    /\ \A c \in back \ {worker[k]} : ~ Working(c)
    /\ Forget(back)
    /\ worker' = [worker EXCEPT ![k] = None]

Next ==
    \/ \E c \in Callers, k \in Keys : Ask(c, k) \/ Work(c, k) \/ AskAndWork(c, k)
    \/ \E back \in SUBSET Callers : Return(back) \/ \E k \in Keys : Finish(k, back)

Spec == Init /\ [][Next]_vars
=============================================================================
