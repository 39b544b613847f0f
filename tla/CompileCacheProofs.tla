--------------------------- MODULE CompileCacheProofs ---------------------------
(***************************************************************************)
(* Proofs about CompileCache for any callers, keys, aliases and limit.     *)
(***************************************************************************)
EXTENDS CompileCache, FiniteSetTheorems, TLAPS

(* What was stamped and compiled is of the past or of now, and a recompile *)
(* has read its sources at its stamp or later: only a first compile stamps *)
(* late.                                                                   *)
StampedFirst ==
    /\ \A k \in Keys : cache[k] # NoEntry =>
          /\ cache[k].content <= Now(AppOf[k])
          /\ cache[k].first \/ cache[k].stamp <= cache[k].content
    /\ \A c \in Callers :
          /\ call[c].entry.content <= Now(AppOf[call[c].key])
          /\ call[c].entry.stamp <= Now(AppOf[call[c].key])
          /\ At(c, "stampLate") => call[c].entry.first
          /\ At(c, "store") => call[c].entry.first
                               \/ call[c].entry.stamp <= call[c].entry.content

-----------------------------------------------------------------------------
(* Type correctness.                                                       *)

(* A call that begins has the shape of one, with a blank entry. *)
LEMMA AskingTyped ==
    ASSUME NEW k \in Keys, NEW pc \in Steps
    PROVE  /\ Asking(k, pc) \in Calls
           /\ Asking(k, pc).pc = pc
           /\ Asking(k, pc).key = k
           /\ Asking(k, pc).entry = Blank
  BY DEF Asking, Calls, Blank, Entries

(* A caller at rest has the shape of a call and no entry of its last one. *)
LEMMA RestingTyped ==
    Resting \in Calls /\ Resting.pc = "idle" /\ Resting.entry = Blank
<1>1. (CHOOSE k \in Keys : TRUE) \in Keys
  BY CacheKeys
<1> QED
  BY <1>1, AskingTyped DEF Resting, Steps

(* Sources have a text of now, which is as old as their last edit. *)
LEMMA SourceTyped ==
    ASSUME TypeOK, NEW a \in Apps
    PROVE  source[a] \in Seq(Texts) /\ Now(a) \in Nat /\ Now(a) > 0 /\ Text(a) \in Texts
<1>1. source[a] \in Seq(Texts) /\ source[a] # <<>>
  BY DEF TypeOK
<1> QED
  BY <1>1 DEF Now, Text

(* The cache starts well typed: empty, nothing in flight, everybody at rest. *)
LEMMA TypeInit == Init => TypeOK
<1>1. FirstText \in Texts
  BY CacheKeys DEF FirstText
<1>2. <<FirstText>> \in Seq(Texts) /\ <<FirstText>> # <<>>
  BY <1>1
<1> QED
  BY <1>2, RestingTyped DEF Init, TypeOK, At

(* A caller that goes on to another step, or to its next call.             *)
LEMMA CallMoves ==
    ASSUME TypeOK, NEW c \in Callers, NEW x \in Calls,
           x.pc = "idle" => x = Resting,
           call' = [call EXCEPT ![c] = x]
    PROVE  /\ call' \in [Callers -> Calls]
           /\ \A d \in Callers : At(d, "idle")' => call'[d] = Resting
  BY DEF TypeOK, At

(* Registering for a key, or peeking a stale entry, keeps the types. *)
LEMMA TypeBegin ==
    ASSUME TypeOK, NEW c \in Callers, Begin(c)
    PROVE  TypeOK'
<1>1. PICK k \in Keys : Register(c, k) \/ PeekStale(c, k)
  BY DEF Begin
<1>2. CASE Register(c, k)
  <2> DEFINE pc == CASE flight[k] = "none"    -> "lookup"
                     [] flight[k] = "running" -> "waiting"
                     [] OTHER                 -> "woken"
  <2>1. pc \in Steps /\ pc # "idle"
    BY DEF Steps
  <2>2. call' = [call EXCEPT ![c] = Asking(k, pc)]
    BY <1>2 DEF Register
  <2>3. Asking(k, pc) \in Calls /\ Asking(k, pc).pc # "idle"
    BY <2>1, AskingTyped
  <2>4. /\ call' \in [Callers -> Calls]
        /\ \A d \in Callers : At(d, "idle")' => call'[d] = Resting
    BY <2>2, <2>3, CallMoves
  <2> QED
    BY <1>2, <2>4 DEF Register, TypeOK
<1>3. CASE PeekStale(c, k)
  <2>1. Asking(k, "remove") \in Calls /\ Asking(k, "remove").pc # "idle"
    BY AskingTyped DEF Steps
  <2>2. /\ call' \in [Callers -> Calls]
        /\ \A d \in Callers : At(d, "idle")' => call'[d] = Resting
    BY <1>3, <2>1, CallMoves DEF PeekStale
  <2> QED
    BY <1>3, <2>2 DEF PeekStale, TypeOK
<1> QED
  BY <1>1, <1>2, <1>3

(* Every step of a compile, of a waiter and of a peek keeps the types. *)
LEMMA TypeContinue ==
    ASSUME TypeOK, NEW c \in Callers, Continue(c)
    PROVE  TypeOK'
<1> DEFINE now == Now(AppOf[call[c].key])
<1>a. now \in Nat
  BY SourceTyped, CacheKeys DEF TypeOK, Calls
<1> USE DEF TypeOK, Calls, Entries, Steps, At
<1> HIDE DEF now
<1>0. ASSUME NEW x \in Calls, x.pc # "idle", call' = [call EXCEPT ![c] = x],
             UNCHANGED <<source, cache, flight>>
      PROVE  TypeOK'
  BY <1>0
<1>1. CASE LookupHit(c)
  <2>1. call' = [call EXCEPT ![c] = [call[c] EXCEPT !.pc = "publish"]]
    BY <1>1 DEF LookupHit, Goto
  <2> QED
    BY <1>1, <2>1, <1>0 DEF LookupHit
<1>2. CASE LookupMiss(c)
  <2> DEFINE fresh == cache[call[c].key] = NoEntry
             x == [call[c] EXCEPT !.pc = IF fresh THEN "compile" ELSE "stamp",
                                  !.entry = [@ EXCEPT !.first = fresh]]
  <2>1. call' = [call EXCEPT ![c] = x]
    BY <1>2 DEF LookupMiss
  <2>2. fresh \in BOOLEAN
    BY ZenonT(20)
  <2> HIDE DEF fresh
  <2>3. x \in Calls /\ x.pc # "idle"
    BY <2>2
  <2> QED
    BY <1>2, <2>1, <2>3, <1>0 DEF LookupMiss
<1>3. CASE Stamp(c)
  <2> DEFINE x == [call[c] EXCEPT !.pc = "compile", !.entry = [@ EXCEPT !.stamp = now]]
  <2>1. call' = [call EXCEPT ![c] = x]
    BY <1>3 DEF Stamp, now
  <2>2. x \in Calls /\ x.pc # "idle"
    BY <1>a
  <2> QED
    BY <1>3, <2>1, <2>2, <1>0 DEF Stamp
<1>4. CASE Compile(c)
  <2> DEFINE x == [call[c] EXCEPT !.pc = IF call[c].entry.first THEN "stampLate" ELSE "store",
                                  !.entry = [@ EXCEPT !.content = now]]
  <2>1. call' = [call EXCEPT ![c] = x]
    BY <1>4 DEF Compile, now
  <2>2. x \in Calls /\ x.pc # "idle"
    BY <1>a
  <2> QED
    BY <1>4, <2>1, <2>2, <1>0 DEF Compile
<1>5. CASE StampLate(c)
  <2> DEFINE x == [call[c] EXCEPT !.pc = "store", !.entry = [@ EXCEPT !.stamp = now]]
  <2>1. call' = [call EXCEPT ![c] = x]
    BY <1>5 DEF StampLate, now
  <2>2. x \in Calls /\ x.pc # "idle"
    BY <1>a
  <2> QED
    BY <1>5, <2>1, <2>2, <1>0 DEF StampLate
<1>6. CASE CompileFails(c)
  <2> DEFINE y == Asking(call[c].key, "publish")
             x == [y EXCEPT !.ok = FALSE]
  <2>1. y \in Calls /\ y.pc # "idle"
    BY AskingTyped
  <2> HIDE DEF y
  <2>2. x \in Calls /\ x.pc # "idle"
    BY <2>1
  <2>3. call' = [call EXCEPT ![c] = x]
    BY <1>6 DEF CompileFails, y
  <2> QED
    BY <1>6, <2>2, <2>3, <1>0 DEF CompileFails
<1>7. CASE Store(c)
  <2>2. call[c].entry \in Entries
    OBVIOUS
  <2>3. cache' \in [Keys -> Entries \cup {NoEntry}]
    BY <1>7, <2>2 DEF Store
  <2>4. Asking(call[c].key, "publish") \in Calls /\ Asking(call[c].key, "publish").pc # "idle"
    BY AskingTyped
  <2>5. call' = [call EXCEPT ![c] = Asking(call[c].key, "publish")] /\ flight' = flight /\ source' = source
    BY <1>7 DEF Store
  <2> QED
    BY <2>3, <2>4, <2>5
<1>8. CASE Publish(c)
  <2>0. ASSUME NEW d \in Callers, NEW pc \in Steps PROVE [call[d] EXCEPT !.pc = pc] \in Calls
    OBVIOUS
  <2>4. "unmap" \in Steps /\ "woken" \in Steps /\ call \in [Callers -> Calls]
    OBVIOUS
  <2>5. \A d \in Callers : \/ call'[d] = call[d] \/ call'[d] = [call[d] EXCEPT !.pc = "woken"]
                           \/ call'[d] = [call[c] EXCEPT !.pc = "unmap"]
    BY <1>8 DEF Publish
  <2>6. \A d \in Callers : call'[d] \in Calls
    <3> SUFFICES ASSUME NEW d \in Callers PROVE call'[d] \in Calls
      OBVIOUS
    <3> HIDE DEF Calls, Steps, TypeOK
    <3>1. [call[d] EXCEPT !.pc = "woken"] \in Calls
      BY <2>0, <2>4
    <3>2. [call[c] EXCEPT !.pc = "unmap"] \in Calls
      BY <2>0, <2>4
    <3>3. call[d] \in Calls
      BY <2>4
    <3> QED
      BY <2>5, <3>1, <3>2, <3>3
  <2>7. call' = [d \in Callers |-> call'[d]]
    BY <1>8 DEF Publish
  <2>1. call' \in [Callers -> Calls]
    BY <2>6, <2>7
  <2>2. flight' \in [Keys -> {"none", "running", "ok", "failed"}]
    BY <1>8 DEF Publish
  <2>3. \A d \in Callers : At(d, "idle")' => call'[d] = Resting
    BY <1>8 DEF Publish
  <2> QED
    BY <1>8, <2>1, <2>2, <2>3 DEF Publish
<1>9. CASE Unmap(c) BY <1>9, RestingTyped DEF Unmap
<1>10. CASE Woken(c) BY <1>10, RestingTyped DEF Woken
<1>11. CASE PeekRemove(c) BY <1>11, RestingTyped DEF PeekRemove
<1> QED
  BY <1>1, <1>2, <1>3, <1>4, <1>5, <1>6, <1>7, <1>8, <1>9, <1>10, <1>11 DEF Continue

(* So does every step, edits and clears included. *)
LEMMA TypeNext == TypeOK /\ [Next]_vars => TypeOK'
<1> SUFFICES ASSUME TypeOK, [Next]_vars PROVE TypeOK'
  OBVIOUS
<1>1. ASSUME NEW c \in Callers, Begin(c) \/ Continue(c) PROVE TypeOK'
  BY <1>1, TypeBegin, TypeContinue
<1>2. ASSUME NEW a \in Apps, Clear(a) PROVE TypeOK'
  BY <1>2 DEF Clear, TypeOK, At
<1>3. ASSUME NEW a \in Apps, Edit(a) PROVE TypeOK'
  <2>1. PICK text \in Texts : source' = [source EXCEPT ![a] = Append(@, text)]
    BY <1>3 DEF Edit
  <2>2. Append(source[a], text) \in Seq(Texts) /\ Append(source[a], text) # <<>>
    BY SourceTyped
  <2> QED
    BY <1>3, <2>1, <2>2 DEF Edit, TypeOK, At
<1>4. CASE UNCHANGED vars
  BY <1>4 DEF vars, TypeOK, At
<1> QED
  BY <1>1, <1>2, <1>3, <1>4 DEF Next

(* Every reachable state is well typed.                                    *)
THEOREM CacheTypeCorrect == Spec => []TypeOK
  BY TypeInit, TypeNext, PTL DEF Spec

-----------------------------------------------------------------------------
(* One leader per key in flight.                                           *)

(* At the start no key is in flight and nobody leads. *)
LEMMA OneCompileInit == Init => OneCompile
  BY RestingTyped DEF Init, OneCompile, Leaders, Leading

(* A step that moves no caller in or out of leading.                       *)
LEMMA LeadersStay ==
    ASSUME OneCompile, flight' = flight,
           \A c \in Callers : /\ call'[c].pc \in Leading <=> call[c].pc \in Leading
                              /\ call[c].pc \in Leading => call'[c].key = call[c].key
    PROVE  OneCompile'
<1>1. \A k \in Keys : Leaders(k)' = Leaders(k)
  BY DEF Leaders
<1> QED
  BY <1>1 DEF OneCompile

(* A leader's steps, a waiter's and a peek's keep one leader per key in flight. *)
LEMMA OneCompileContinue ==
    ASSUME TypeOK, OneCompile, NEW c \in Callers, Continue(c)
    PROVE  OneCompile'
<1> USE DEF TypeOK, Calls, Leading, At
<1>1. CASE LookupHit(c) BY <1>1, LeadersStay DEF LookupHit, Goto
<1>2. CASE LookupMiss(c) BY <1>2, LeadersStay DEF LookupMiss
<1>3. CASE Stamp(c) BY <1>3, LeadersStay DEF Stamp
<1>4. CASE Compile(c) BY <1>4, LeadersStay DEF Compile
<1>5. CASE StampLate(c) BY <1>5, LeadersStay DEF StampLate
<1>6. CASE CompileFails(c) BY <1>6, LeadersStay DEF CompileFails, Asking
<1>7. CASE Store(c) BY <1>7, LeadersStay DEF Store, Asking
<1>8. CASE Publish(c)
  <2>1. \A k \in Keys : Leaders(k)' = Leaders(k)
    BY <1>8 DEF Publish, Leaders
  <2>2. flight[call[c].key] # "none"
    BY <1>8 DEF Publish, OneCompile, Leaders
  <2>3. \A k \in Keys : flight'[k] = "none" <=> flight[k] = "none"
    BY <1>8, <2>2 DEF Publish
  <2> QED
    BY <2>1, <2>3 DEF OneCompile
<1>9. CASE Unmap(c)
  <2> PICK k0 \in Keys : k0 = call[c].key
    OBVIOUS
  <2>1. Leaders(k0) = {c}
    BY <1>9 DEF Unmap, OneCompile, Leaders
  <2>2. Leaders(k0)' = {}
    <3>1. \A d \in Callers : d # c => call'[d] = call[d]
      BY <1>9 DEF Unmap
    <3>2. call'[c].pc = "idle"
      BY <1>9, RestingTyped DEF Unmap
    <3>3. \A d \in Callers : call[d].pc \in Leading /\ call[d].key = k0 => d = c
      BY <2>1 DEF Leaders
    <3>4. ASSUME NEW d \in Leaders(k0)' PROVE FALSE
      <4>1. d \in Callers /\ call'[d].pc \in Leading /\ call'[d].key = k0
        BY DEF Leaders
      <4>2. d # c
        BY <4>1, <3>2
      <4> QED
        BY <4>1, <4>2, <3>1, <3>3
    <3> QED
      BY <3>4
  <2>3. \A k \in Keys \ {k0} : Leaders(k)' = Leaders(k)
    BY <1>9, RestingTyped DEF Unmap, Leaders
  <2>4. flight' = [flight EXCEPT ![k0] = "none"]
    BY <1>9 DEF Unmap
  <2> QED
    <3>1. ASSUME NEW k \in Keys \ {k0}
          PROVE  IF flight'[k] = "none" THEN Leaders(k)' = {}
                                        ELSE \E d \in Callers : Leaders(k)' = {d}
      BY <2>3, <2>4 DEF OneCompile
    <3>2. flight'[k0] = "none"
      BY <2>4
    <3> QED
      BY <3>1, <3>2, <2>2 DEF OneCompile
<1>10. CASE Woken(c) BY <1>10, LeadersStay, RestingTyped DEF Woken
<1>11. CASE PeekRemove(c) BY <1>11, LeadersStay, RestingTyped DEF PeekRemove
<1> QED
  BY <1>1, <1>2, <1>3, <1>4, <1>5, <1>6, <1>7, <1>8, <1>9, <1>10, <1>11 DEF Continue

(* A caller leads only a key that was not in flight. *)
LEMMA OneCompileBegin ==
    ASSUME TypeOK, OneCompile, NEW c \in Callers, Begin(c)
    PROVE  OneCompile'
<1>1. PICK k \in Keys : Register(c, k) \/ PeekStale(c, k)
  BY DEF Begin
<1>2. CASE Register(c, k) /\ flight[k] = "none"
  <2>1. call' = [call EXCEPT ![c] = Asking(k, "lookup")]
    BY <1>2 DEF Register
  <2>2. flight' = [flight EXCEPT ![k] = "running"]
    BY <1>2 DEF Register, TypeOK
  <2>3. Leaders(k) = {} /\ call[c].pc \notin Leading
    BY <1>2 DEF OneCompile, Register, At, Leading
  <2>4. Leaders(k)' = {c}
    BY <2>1, <2>3, AskingTyped DEF Leaders, Leading, Steps, TypeOK
  <2>5. \A j \in Keys \ {k} : Leaders(j)' = Leaders(j)
    BY <2>1, <2>3, AskingTyped DEF Leaders, Leading, Steps, TypeOK
  <2> QED
    BY <2>2, <2>4, <2>5 DEF OneCompile, TypeOK
<1>3. CASE Register(c, k) /\ flight[k] # "none"
  <2>1. flight' = flight
    BY <1>3 DEF Register, TypeOK
  <2>2. \E pc \in {"waiting", "woken"} : call' = [call EXCEPT ![c] = Asking(k, pc)]
    BY <1>3 DEF Register
  <2>3. call[c].pc \notin Leading
    BY <1>3 DEF Register, At, Leading
  <2> QED
    BY <2>1, <2>2, <2>3, AskingTyped, LeadersStay DEF Leading, Steps, TypeOK
<1>4. CASE PeekStale(c, k)
  BY <1>4, AskingTyped, LeadersStay DEF PeekStale, Leading, Steps, TypeOK, At
<1> QED
  BY <1>1, <1>2, <1>3, <1>4

(* Every step keeps one leader per key in flight. *)
LEMMA OneCompileNext == TypeOK /\ OneCompile /\ [Next]_vars => OneCompile'
<1> SUFFICES ASSUME TypeOK, OneCompile, [Next]_vars PROVE OneCompile'
  OBVIOUS
<1>1. ASSUME NEW c \in Callers, Begin(c) \/ Continue(c) PROVE OneCompile'
  BY <1>1, OneCompileBegin, OneCompileContinue
<1>2. ASSUME NEW a \in Apps, Clear(a) PROVE OneCompile'
  BY <1>2, LeadersStay DEF Clear
<1>3. ASSUME NEW a \in Apps, Edit(a) PROVE OneCompile'
  BY <1>3, LeadersStay DEF Edit
<1>4. CASE UNCHANGED vars
  BY <1>4, LeadersStay DEF vars
<1> QED
  BY <1>1, <1>2, <1>3, <1>4 DEF Next

(* A key in flight has one leader and no other key has any.                *)
THEOREM OneLeaderPerKey == Spec => []OneCompile
<1>1. Init => TypeOK /\ OneCompile
  BY TypeInit, OneCompileInit
<1>2. TypeOK /\ OneCompile /\ [Next]_vars => (TypeOK /\ OneCompile)'
  BY TypeNext, OneCompileNext
<1> QED
  BY <1>1, <1>2, PTL DEF Spec

-----------------------------------------------------------------------------
(* When a recompiled entry may be taken for current and is not.            *)

(* A step that neither edits nor stores keeps what was stamped and read.   *)
LEMMA StampedStays ==
    ASSUME StampedFirst, source' = source,
           \A k \in Keys : cache'[k] \in {cache[k], NoEntry},
           \A c \in Callers :
              \/ call'[c] = call[c]
              \/ /\ call'[c].pc \notin {"stampLate", "store"}
                 /\ call'[c].entry.content <= Now(AppOf[call'[c].key])
                 /\ call'[c].entry.stamp <= Now(AppOf[call'[c].key])
    PROVE  StampedFirst'
  BY DEF StampedFirst, At, Now

(* Every step keeps what was compiled at its stamp or later, but for first *)
(* compiles.                                                               *)
LEMMA StampedNext == TypeOK /\ StampedFirst /\ [Next]_vars => StampedFirst'
<1> SUFFICES ASSUME TypeOK, StampedFirst, [Next]_vars PROVE StampedFirst'
  OBVIOUS
<1>a. \A k \in Keys : Now(AppOf[k]) \in Nat
  BY SourceTyped, CacheKeys
<1>b. ASSUME NEW k \in Keys, NEW pc \in Steps
      PROVE  /\ Asking(k, pc).pc = pc /\ Asking(k, pc).key = k
             /\ Asking(k, pc).entry.content = 0 /\ Asking(k, pc).entry.stamp = 0
  BY DEF Asking, Blank
<1>c. /\ Resting.pc = "idle" /\ Resting.key \in Keys
      /\ Resting.entry.content = 0 /\ Resting.entry.stamp = 0
  BY RestingTyped DEF Blank, Calls
<1>d. \A c \in Callers : /\ call[c].key \in Keys /\ call[c].entry.first \in BOOLEAN
                         /\ call[c].entry.content \in Nat /\ call[c].entry.stamp \in Nat
  BY DEF TypeOK, Calls, Entries
<1>1. ASSUME NEW c \in Callers, Begin(c) PROVE StampedFirst'
  <2>1. PICK k \in Keys : Register(c, k) \/ PeekStale(c, k)
    BY <1>1 DEF Begin
  <2>2. \E pc \in {"lookup", "waiting", "woken", "remove"} :
          call' = [call EXCEPT ![c] = Asking(k, pc)]
    BY <2>1 DEF Register, PeekStale
  <2>3. source' = source /\ cache' = cache
    BY <2>1 DEF Register, PeekStale
  <2>4. PICK pc \in {"lookup", "waiting", "woken", "remove"} :
          call' = [call EXCEPT ![c] = Asking(k, pc)]
    BY <2>2
  <2>5. /\ call'[c].pc \notin {"stampLate", "store"} /\ call'[c].key = k
        /\ call'[c].entry.content = 0 /\ call'[c].entry.stamp = 0
        /\ \A d \in Callers : d # c => call'[d] = call[d]
    BY <2>4, <1>b DEF TypeOK, Steps
  <2> QED
    BY <2>3, <2>5, <1>a, StampedStays
<1>2. ASSUME NEW c \in Callers, Continue(c) PROVE StampedFirst'
  <2>0. PICK k \in Keys : call[c].key = k
    BY <1>d
  <2>1. CASE LookupHit(c)
    BY <2>1, StampedStays, <1>d DEF LookupHit, Goto, TypeOK, Calls, StampedFirst
  <2>2. CASE LookupMiss(c)
    BY <2>2, StampedStays DEF LookupMiss, TypeOK, Calls, Entries, StampedFirst
  <2>3. CASE Stamp(c)
    BY <2>3, <1>a, <1>d, StampedStays DEF Stamp, TypeOK, Calls, Entries, StampedFirst
  <2>4. CASE Compile(c)
    BY <2>4, <1>a, <1>d DEF Compile, TypeOK, Calls, Entries, StampedFirst, At, Now
  <2>5. CASE StampLate(c)
    BY <2>5, <1>a, <1>d DEF StampLate, TypeOK, Calls, Entries, StampedFirst, At, Now
  <2>6. CASE CompileFails(c)
    BY <2>0, <2>6, <1>a, <1>b, StampedStays DEF CompileFails, TypeOK, Calls, Steps
  <2>7. CASE Store(c)
    <3>1. \A j \in Keys : \/ cache'[j] \in {cache[j], NoEntry}
                          \/ j \in Written(k) /\ cache'[j] = call[c].entry
      BY <2>0, <2>7 DEF Store
    <3>2. \A j \in Written(k) : AppOf[j] = AppOf[k]
      BY CacheKeys DEF Written
    <3>3. /\ call'[c].pc = "publish" /\ call'[c].key = k
          /\ call'[c].entry.content = 0 /\ call'[c].entry.stamp = 0
          /\ \A d \in Callers : d # c => call'[d] = call[d]
      BY <2>0, <2>7, <1>b DEF Store, TypeOK, Steps
    <3>4. source' = source /\ At(c, "store")
      BY <2>7 DEF Store
    <3> QED
      BY <2>0, <3>1, <3>2, <3>3, <3>4, <1>a DEF StampedFirst, At, Now
  <2>8. CASE Publish(c)
    <3>1. \A d \in Callers : /\ call'[d].key = call[d].key /\ call'[d].entry = call[d].entry
                             /\ \/ call'[d] = call[d]
                                \/ call'[d].pc \in {"unmap", "woken"}
      BY <2>8 DEF Publish, TypeOK, Calls
    <3> QED
      BY <2>8, <3>1, StampedStays DEF Publish, StampedFirst
  <2>9. CASE Unmap(c) BY <2>9, <1>a, <1>c, StampedStays DEF Unmap, TypeOK
  <2>10. CASE Woken(c) BY <2>10, <1>a, <1>c, StampedStays DEF Woken, TypeOK
  <2>11. CASE PeekRemove(c) BY <2>11, <1>a, <1>c, StampedStays DEF PeekRemove, TypeOK
  <2> QED
    BY <1>2, <2>1, <2>2, <2>3, <2>4, <2>5, <2>6, <2>7, <2>8, <2>9, <2>10, <2>11 DEF Continue
<1>3. ASSUME NEW a \in Apps, Clear(a) PROVE StampedFirst'
  BY <1>3, StampedStays DEF Clear
<1>4. ASSUME NEW a \in Apps, Edit(a) PROVE StampedFirst'
  <2>1. \A b \in Apps : Now(b) \in Nat /\ Now(b)' \in Nat /\ Now(b) <= Now(b)'
    BY <1>4, SourceTyped DEF Edit, Now, TypeOK
  <2>2. \A k \in Keys : cache[k] # NoEntry => cache[k].content \in Nat
    BY DEF TypeOK, Entries
  <2>3. \A k \in Keys : AppOf[k] \in Apps
    BY CacheKeys
  <2> QED
    BY <1>4, <2>1, <2>2, <2>3, <1>d DEF Edit, StampedFirst, At
<1>5. CASE UNCHANGED vars
  BY <1>5, StampedStays DEF vars
<1> QED
  BY <1>1, <1>2, <1>3, <1>4, <1>5 DEF Next

(* What was compiled at its stamp or later can be out of date under a      *)
(* valid stamp only where the text of the stamp came back.                 *)
LEMMA StampedMeans == TypeOK /\ StampedFirst => StaleMeansUndone
<1> SUFFICES ASSUME TypeOK, StampedFirst, NEW k \in Keys, Valid(k), ~ cache[k].first,
                    source[AppOf[k]][cache[k].content] # Text(AppOf[k])
             PROVE  /\ cache[k].stamp < cache[k].content
                    /\ cache[k].content < Now(AppOf[k])
  BY DEF StaleMeansUndone
<1>1. cache[k].content \in Nat /\ cache[k].stamp \in Nat /\ Now(AppOf[k]) \in Nat
  BY SourceTyped, CacheKeys DEF TypeOK, Entries, Valid
<1>2. cache[k].content <= Now(AppOf[k]) /\ cache[k].stamp <= cache[k].content
  BY DEF StampedFirst, Valid
<1>3. cache[k].content # Now(AppOf[k]) /\ cache[k].stamp # cache[k].content
  BY DEF Valid, Text
<1> QED
  BY <1>1, <1>2, <1>3

(* A recompiled entry that is taken for current and is not was compiled    *)
(* from an edit made after its stamp and undone since.                     *)
THEOREM RecompilesAreSound == Spec => []StaleMeansUndone
<1>1. Init => StampedFirst
  <2> SUFFICES ASSUME Init PROVE StampedFirst
    OBVIOUS
  <2>1. Resting.entry.content = 0 /\ Resting.entry.stamp = 0 /\ Resting.key \in Keys
    BY RestingTyped DEF Blank, Calls
  <2>2. \A k \in Keys : Now(AppOf[k]) \in Nat
    BY TypeInit, SourceTyped, CacheKeys
  <2> QED
    BY <2>1, <2>2, RestingTyped DEF Init, StampedFirst, At
<1> QED
  BY <1>1, TypeInit, TypeNext, StampedNext, StampedMeans, PTL DEF Spec

-----------------------------------------------------------------------------
(* The in-flight map implements exclusive work.                            *)

(* The worker of the abstract view is the one caller that leads the key.   *)
WorkerFound ==
    \A k \in Keys :
        /\ \A c \in Callers : Compiles(c, k) => Compiling[k] = c
        /\ (\A c \in Callers : ~ Compiles(c, k)) => Compiling[k] = NoEntry

(* As a key has one leader, the choice of its worker is no choice.         *)
LEMMA WorkerIs == OneCompile => WorkerFound
<1> SUFFICES ASSUME OneCompile, NEW k \in Keys
             PROVE  /\ \A c \in Callers : Compiles(c, k) => Compiling[k] = c
                    /\ (\A c \in Callers : ~ Compiles(c, k)) => Compiling[k] = NoEntry
  BY DEF WorkerFound
<1>1. ASSUME NEW c \in Callers, Compiles(c, k) PROVE Compiling[k] = c
  <2>1. Compiles(CHOOSE d \in Callers : Compiles(d, k), k)
        /\ (CHOOSE d \in Callers : Compiles(d, k)) \in Callers
    BY <1>1
  <2>2. \A d \in Callers : Compiles(d, k) <=> d \in Leaders(k)
    BY DEF Compiles, Leaders
  <2>3. \A d \in Callers : Compiles(d, k) => d = c
    BY <1>1, <2>2 DEF OneCompile
  <2> QED
    BY <1>1, <2>1, <2>3 DEF Compiling
<1>2. (\A c \in Callers : ~ Compiles(c, k)) => Compiling[k] = NoEntry
  BY DEF Compiling
<1> QED
  BY <1>1, <1>2

(* A caller that leads no key is no worker.                                *)
LEMMA NotWorking ==
    ASSUME WorkerFound, NEW c \in Callers, call[c].pc \notin Leading
    PROVE  ~ Work!Working(c)
  BY NoEntryIsNothing DEF Work!Working, WorkerFound, Compiles

(* A step in which every caller goes on wanting, or leading, what it did   *)
(* is invisible in the abstract view.                                      *)
LEMMA InvisibleStep ==
    ASSUME WorkerFound, WorkerFound',
           \A c \in Callers :
              /\ call'[c].key = call[c].key
                 \/ {call[c].pc, call'[c].pc} \cap (Leading \cup {"waiting", "woken"}) = {}
              /\ call'[c].pc \in Leading <=> call[c].pc \in Leading
              /\ call'[c].pc \in {"waiting", "woken"} <=> call[c].pc \in {"waiting", "woken"}
    PROVE  Wanted' = Wanted /\ Compiling' = Compiling
<1>1. Wanted' = Wanted
  BY DEF Wanted
<1>2. \A c \in Callers, k \in Keys : Compiles(c, k)' <=> Compiles(c, k)
  BY DEF Compiles
<1>3. \A k \in Keys : Compiling'[k] = Compiling[k]
  BY <1>2 DEF WorkerFound
<1>4. Compiling = [k \in Keys |-> Compiling[k]] /\ Compiling' = [k \in Keys |-> Compiling'[k]]
  BY DEF Compiling
<1> QED
  BY <1>1, <1>3, <1>4

(* When one caller begins or stops to lead a key the others lead theirs.   *)
LEMMA OneWorkerMoves ==
    ASSUME WorkerFound, WorkerFound', NEW j \in Keys, NEW w,
           Compiling'[j] = w,
           \A c \in Callers, k \in Keys \ {j} : Compiles(c, k)' <=> Compiles(c, k)
    PROVE  Compiling' = [Compiling EXCEPT ![j] = w]
<1>1. \A k \in Keys \ {j} : Compiling'[k] = Compiling[k]
  BY DEF WorkerFound
<1>2. Compiling = [k \in Keys |-> Compiling[k]] /\ Compiling' = [k \in Keys |-> Compiling'[k]]
  BY DEF Compiling
<1> QED
  BY <1>1, <1>2

(* Every step of the cache is a step of exclusive work, or invisible there. *)
LEMMA WorkStep ==
    ASSUME TypeOK, OneCompile, WorkerFound, WorkerFound', [Next]_vars
    PROVE  [Work!Next]_(Work!vars)
<1> USE DEF TypeOK, Calls, At
<1> DEFINE Still == Wanted' = Wanted /\ Compiling' = Compiling
<1>1. ASSUME Still PROVE [Work!Next]_(Work!vars)
  BY <1>1 DEF Work!vars
<1>2. ASSUME NEW c \in Callers, NEW k \in Keys, Register(c, k) PROVE [Work!Next]_(Work!vars)
  <2>1. /\ call[c].pc = "idle" /\ call'[c].key = k
        /\ \A d \in Callers \ {c} : call'[d] = call[d]
        /\ IF flight[k] = "none" THEN call'[c].pc = "lookup"
                                 ELSE call'[c].pc \in {"waiting", "woken"}
    BY <1>2 DEF Register, Asking
  <2>2. Wanted[c] = NoEntry
    BY <2>1 DEF Wanted, Leading
  <2>3. Wanted' = [Wanted EXCEPT ![c] = k]
    BY <2>1 DEF Wanted, Leading
  <2>4. CASE flight[k] = "none"
    <3>1. Compiling'[k] = c
      BY <2>1, <2>4 DEF WorkerFound, Compiles, Leading
    <3>2. Compiling' = [Compiling EXCEPT ![k] = c]
      <4>1. \A d \in Callers, j \in Keys \ {k} : Compiles(d, j)' <=> Compiles(d, j)
        BY <2>1 DEF Compiles, Leading
      <4> QED
        BY <3>1, <4>1, OneWorkerMoves
    <3>3. Compiling[k] = NoEntry
      BY <2>4 DEF WorkerFound, Compiles, OneCompile, Leaders
    <3>4. Work!AskAndWork(c, k)
      BY <2>2, <2>3, <3>2, <3>3 DEF Work!AskAndWork
    <3> QED
      BY <3>4 DEF Work!Next
  <2>5. CASE flight[k] # "none"
    <3>1. \A d \in Callers, j \in Keys : Compiles(d, j)' <=> Compiles(d, j)
      BY <2>1, <2>5 DEF Compiles, Leading
    <3>2. Compiling' = Compiling
      <4>1. \A j \in Keys : Compiling'[j] = Compiling[j]
        BY <3>1 DEF WorkerFound
      <4>2. Compiling = [j \in Keys |-> Compiling[j]]
            /\ Compiling' = [j \in Keys |-> Compiling'[j]]
        BY DEF Compiling
      <4> QED
        BY <4>1, <4>2
    <3>3. Work!Ask(c, k)
      BY <2>2, <2>3, <3>2 DEF Work!Ask
    <3> QED
      BY <3>3 DEF Work!Next
  <2> QED
    BY <2>4, <2>5
<1>3. ASSUME NEW c \in Callers, NEW k \in Keys, PeekStale(c, k) PROVE Still
  BY <1>3, InvisibleStep DEF PeekStale, Asking, Leading
<1>4. ASSUME NEW c \in Callers, PeekRemove(c) PROVE Still
  BY <1>4, InvisibleStep, RestingTyped DEF PeekRemove, Leading
<1>5. ASSUME NEW c \in Callers, LookupHit(c) \/ LookupMiss(c) \/ Stamp(c) \/ Compile(c)
             \/ StampLate(c) \/ CompileFails(c) \/ Store(c)
      PROVE  Still
  <2>1. /\ call'[c].key = call[c].key /\ call[c].pc \in Leading /\ call'[c].pc \in Leading
        /\ \A d \in Callers \ {c} : call'[d] = call[d]
    BY <1>5 DEF LookupHit, LookupMiss, Stamp, Compile, StampLate, CompileFails, Store, Goto,
                Asking, Leading
  <2> QED
    BY <2>1, InvisibleStep DEF Leading
<1>6. ASSUME NEW c \in Callers, Publish(c) PROVE Still
  <2>1. \A d \in Callers : call'[d].key = call[d].key
    BY <1>6 DEF Publish
  <2>2. \A d \in Callers : /\ call'[d].pc \in Leading <=> call[d].pc \in Leading
                           /\ call'[d].pc \in {"waiting", "woken"}
                                <=> call[d].pc \in {"waiting", "woken"}
    BY <1>6 DEF Publish, Leading
  <2> QED
    BY <2>1, <2>2, InvisibleStep
<1>7. ASSUME NEW c \in Callers, Unmap(c) PROVE [Work!Next]_(Work!vars)
  <2>1. PICK k \in Keys : call[c].key = k
    OBVIOUS
  <2>2. /\ call[c].pc = "unmap" /\ call'[c].pc = "idle"
        /\ \A d \in Callers \ {c} : call'[d] = call[d]
    BY <1>7, RestingTyped DEF Unmap
  <2>3. Compiling[k] = c
    BY <2>1, <2>2 DEF WorkerFound, Compiles, Leading
  <2>4. \A d \in Callers : ~ Compiles(d, k)'
    BY <2>1, <2>2, <2>3 DEF WorkerFound, Compiles, Leading
  <2>5. Compiling'[k] = NoEntry
    BY <2>4 DEF WorkerFound
  <2>6. Compiling' = [Compiling EXCEPT ![k] = NoEntry]
    BY <2>1, <2>2, <2>5, OneWorkerMoves DEF Compiles, Leading
  <2>7. Work!Forget({c})
    BY <2>2 DEF Work!Forget, Wanted, Leading
  <2>8. Work!Finish(k, {c})
    BY <2>3, <2>6, <2>7 DEF Work!Finish
  <2> QED
    BY <2>8 DEF Work!Next
<1>8. ASSUME NEW c \in Callers, Woken(c) PROVE [Work!Next]_(Work!vars)
  <2>1. /\ call[c].pc = "woken" /\ call'[c].pc = "idle"
        /\ \A d \in Callers \ {c} : call'[d] = call[d]
    BY <1>8, RestingTyped DEF Woken
  <2>2. ~ Work!Working(c)
    BY <2>1, NotWorking DEF Leading
  <2>3. \A d \in Callers, j \in Keys : Compiles(d, j)' <=> Compiles(d, j)
    BY <2>1 DEF Compiles, Leading
  <2>4. Compiling' = Compiling
    <3>1. \A j \in Keys : Compiling'[j] = Compiling[j]
      BY <2>3 DEF WorkerFound
    <3>2. Compiling = [j \in Keys |-> Compiling[j]]
          /\ Compiling' = [j \in Keys |-> Compiling'[j]]
      BY DEF Compiling
    <3> QED
      BY <3>1, <3>2
  <2>5. Work!Forget({c})
    BY <2>1 DEF Work!Forget, Wanted, Leading
  <2>6. Work!Return({c})
    BY <2>2, <2>4, <2>5 DEF Work!Return
  <2> QED
    BY <2>6 DEF Work!Next
<1>9. ASSUME NEW a \in Apps, Clear(a) \/ Edit(a) PROVE Still
  <2>1. \A c \in Callers : call'[c].key = call[c].key /\ call'[c].pc = call[c].pc
    BY <1>9 DEF Clear, Edit
  <2> QED
    BY <2>1, InvisibleStep
<1>10. CASE UNCHANGED vars
  BY <1>10 DEF vars, Work!vars, Wanted, Compiling, Compiles
<1> QED
  BY <1>1, <1>2, <1>3, <1>4, <1>5, <1>6, <1>7, <1>8, <1>9, <1>10 DEF Next, Begin, Continue

(* The cache behaves as exclusive work, for any callers, keys and edits.   *)
THEOREM CacheImplementsWork == Spec => ImplementsExclusiveWork
<1>1. Init => Work!Init
  BY RestingTyped DEF Init, Work!Init, Wanted, Compiling, Compiles, Leading
<1>2. Spec => [](TypeOK /\ OneCompile)
  BY CacheTypeCorrect, OneLeaderPerKey, PTL
<1>3. (TypeOK /\ OneCompile) /\ (TypeOK /\ OneCompile)' /\ [Next]_vars => [Work!Next]_(Work!vars)
  <2>1. OneCompile' => WorkerFound'
    BY WorkerIs, PTL
  <2> QED
    BY WorkerIs, <2>1, WorkStep
<1> QED
  BY <1>1, <1>2, <1>3, PTL DEF Spec, Work!Spec, ImplementsExclusiveWork

-----------------------------------------------------------------------------
(* The cache stays within one store of its limit.                          *)

(* What a store keeps is within the limit.                                 *)
LEMMA RoomMade ==
    ASSUME NEW a, NEW kept \in SUBSET Cached, Room(a, kept)
    PROVE  Cardinality(kept) <= Limit
<1>1. IsFiniteSet(Cached) /\ IsFiniteSet(kept)
  BY FS_Subset, CacheKeys DEF Cached
<1>2. Cardinality(Cached) \in Nat /\ Cardinality(kept) \in Nat
  BY <1>1, FS_CardinalityType
<1>3. MaxEntries \in Nat /\ Target \in Nat /\ (Target <= MaxEntries \/ Target = 1)
  BY CacheKeys DEF Target
<1>4. CASE Cardinality(Cached) >= MaxEntries
  BY <1>2, <1>3, <1>4 DEF Room, Kept, Limit
<1>5. CASE ~ Cardinality(Cached) >= MaxEntries
  BY <1>2, <1>3, <1>5 DEF Room, Limit
<1> QED
  BY <1>4, <1>5

(* A step that writes no key leaves no more of them in the cache.          *)
LEMMA FewerCached ==
    ASSUME CacheBounded, Cached' \subseteq Cached
    PROVE  CacheBounded'
<1>1. IsFiniteSet(Cached)
  BY FS_Subset, CacheKeys DEF Cached
<1>2. IsFiniteSet(Cached') /\ Cardinality(Cached') <= Cardinality(Cached)
  BY <1>1, FS_Subset
<1>3. Cardinality(Cached) \in Nat /\ Cardinality(Cached') \in Nat
  BY <1>1, <1>2, FS_CardinalityType
<1>4. \A k \in Keys : IsFiniteSet(Written(k))
  <2>1. ASSUME NEW k \in Keys PROVE Written(k) \in SUBSET Keys
    BY CacheKeys DEF Written
  <2> QED
    BY <2>1, FS_Subset, CacheKeys
<1>5. \A k \in Keys : Cardinality(Written(k)) \in Nat
  BY <1>4, FS_CardinalityType
<1>6. Limit \in Int
  BY CacheKeys DEF Limit, Target
<1>7. PICK k \in Keys : Cardinality(Cached) <= Limit + Cardinality(Written(k))
  BY DEF CacheBounded
<1>8. Cardinality(Cached') <= Limit + Cardinality(Written(k))
  BY <1>2, <1>3, <1>5, <1>6, <1>7
<1> QED
  BY <1>8 DEF CacheBounded, Limit, Target, Written

(* A store writes its key and the aliases next to what it kept.            *)
LEMMA StoreBounded ==
    ASSUME TypeOK, NEW c \in Callers, Store(c)
    PROVE  CacheBounded'
<1>1. PICK k \in Keys : call[c].key = k
  BY DEF TypeOK, Calls
<1>2. PICK kept \in SUBSET Cached :
        /\ Room(AppOf[k], kept)
        /\ cache' = [j \in Keys |-> IF j \in Written(k) THEN call[c].entry
                                    ELSE IF j \in kept THEN cache[j] ELSE NoEntry]
  BY <1>1 DEF Store
<1>3. IsFiniteSet(kept) /\ IsFiniteSet(Written(k))
  <2>1. Written(k) \in SUBSET Keys /\ kept \in SUBSET Keys
    BY CacheKeys DEF Written, Cached
  <2> QED
    BY <2>1, FS_Subset, CacheKeys
<1>4. Cached' \subseteq kept \cup Written(k)
  BY <1>2 DEF Cached
<1>5. /\ IsFiniteSet(kept \cup Written(k))
      /\ Cardinality(kept \cup Written(k)) <= Cardinality(kept) + Cardinality(Written(k))
  <2>1. IsFiniteSet(kept \cap Written(k))
    BY <1>3, FS_Intersection
  <2>2. Cardinality(kept \cap Written(k)) \in Nat
    BY <2>1, FS_CardinalityType
  <2>3. Cardinality(kept) \in Nat /\ Cardinality(Written(k)) \in Nat
    BY <1>3, FS_CardinalityType
  <2>4. /\ IsFiniteSet(kept \cup Written(k))
        /\ Cardinality(kept \cup Written(k)) =
             Cardinality(kept) + Cardinality(Written(k)) - Cardinality(kept \cap Written(k))
    BY <1>3, FS_Union
  <2> QED
    BY <2>2, <2>3, <2>4
<1>6. IsFiniteSet(Cached') /\ Cardinality(Cached') <= Cardinality(kept \cup Written(k))
  BY <1>4, <1>5, FS_Subset
<1>7. Cardinality(kept) <= Limit
  BY <1>2, RoomMade
<1>8. /\ Cardinality(Cached') \in Nat /\ Cardinality(kept \cup Written(k)) \in Nat
      /\ Cardinality(kept) \in Nat /\ Cardinality(Written(k)) \in Nat
  BY <1>3, <1>5, <1>6, FS_CardinalityType
<1>9. Limit \in Int
  BY CacheKeys DEF Limit, Target
<1>10. Cardinality(Cached') <= Limit + Cardinality(Written(k))
  BY <1>5, <1>6, <1>7, <1>8, <1>9
<1> QED
  BY <1>10 DEF CacheBounded, Limit, Target, Written

(* The cache never holds more than a store may leave, for any limit, also  *)
(* one below the number of keys a store writes.                            *)
THEOREM CacheStaysBounded == Spec => []CacheBounded
<1>1. Init => CacheBounded
  <2> SUFFICES ASSUME Init PROVE CacheBounded
    OBVIOUS
  <2>1. Cached = {}
    BY DEF Init, Cached
  <2>2. PICK k \in Keys : TRUE
    BY CacheKeys
  <2>3. IsFiniteSet(Written(k))
    <3>1. Written(k) \in SUBSET Keys
      BY CacheKeys DEF Written
    <3> QED
      BY <3>1, FS_Subset, CacheKeys
  <2>4. Cardinality(Written(k)) \in Nat
    BY <2>3, FS_CardinalityType
  <2>5. Limit \in Nat
    BY CacheKeys DEF Limit, Target
  <2> QED
    BY <2>1, <2>4, <2>5, FS_EmptySet DEF CacheBounded
<1>2. TypeOK /\ CacheBounded /\ [Next]_vars => CacheBounded'
  <2> SUFFICES ASSUME TypeOK, CacheBounded, [Next]_vars PROVE CacheBounded'
    OBVIOUS
  <2>1. ASSUME NEW c \in Callers, Store(c) PROVE CacheBounded'
    BY <2>1, StoreBounded
  <2>2. ASSUME NEW c \in Callers, Begin(c) PROVE cache' = cache
    BY <2>2 DEF Begin, Register, PeekStale
  <2>3. ASSUME NEW c \in Callers, Continue(c), ~ Store(c), ~ PeekRemove(c) PROVE cache' = cache
    BY <2>3 DEF Continue, LookupHit, LookupMiss, Stamp, Compile, StampLate, CompileFails,
                Publish, Unmap, Woken
  <2>4. ASSUME NEW c \in Callers, PeekRemove(c) PROVE Cached' \subseteq Cached
    BY <2>4 DEF PeekRemove, Cached, TypeOK
  <2>5. ASSUME NEW a \in Apps, Clear(a) \/ Edit(a) PROVE Cached' \subseteq Cached
    BY <2>5 DEF Clear, Edit, Cached
  <2>6. CASE cache' = cache
    BY <2>6, FewerCached DEF Cached
  <2>7. CASE UNCHANGED vars
    BY <2>6, <2>7 DEF vars
  <2>8. ASSUME NEW c \in Callers, Begin(c) \/ Continue(c) PROVE CacheBounded'
    <3>1. CASE Store(c) \/ PeekRemove(c)
      BY <2>1, <2>4, <3>1, FewerCached
    <3>2. CASE ~ Store(c) /\ ~ PeekRemove(c)
      BY <2>2, <2>3, <2>6, <2>8, <3>2
    <3> QED
      BY <3>1, <3>2
  <2>9. ASSUME NEW a \in Apps, Clear(a) \/ Edit(a) PROVE CacheBounded'
    BY <2>5, <2>9, FewerCached
  <2> QED
    BY <2>7, <2>8, <2>9 DEF Next
<1> QED
  BY <1>1, <1>2, CacheTypeCorrect, PTL DEF Spec
=============================================================================
