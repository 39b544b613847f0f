------------------------------ MODULE CompileCache ------------------------------
(***************************************************************************)
(* The compile service's cache (crates/toolchain/src/compile_service/      *)
(* cache): one leader per cache key compiles, the calls that come while it *)
(* does wait for its result, and the result is kept with a stamp of the    *)
(* watched sources that a later lookup compares with the sources of then.  *)
(*                                                                         *)
(* What matters of a compiled app and of a stamp is which state of the     *)
(* app's sources they were made from.  A stamp is a signature of content:  *)
(* it is valid again when an edit is undone.                               *)
(***************************************************************************)
EXTENDS Naturals, Sequences, FiniteSets

CONSTANTS
    Callers,    \* threads of the compile service
    Keys,       \* cache keys: an app and a scene or preview target
    Apps,
    AppOf,      \* the app of a key
    Alias,      \* the keys of the default scene a store also writes
    Texts,      \* what the sources of an app may say
    MaxEdits,   \* bound: edits of each app
    NoEntry,
    MaxEntries  \* MEI_COMPILE_CACHE_MAX_ENTRIES

ASSUME CacheKeys ==
    /\ IsFiniteSet(Keys) /\ Keys # {}
    /\ AppOf \in [Keys -> Apps]
    /\ Alias \in [Keys -> SUBSET Keys]
    /\ \A k \in Keys : \A j \in Alias[k] : AppOf[j] = AppOf[k]
    /\ Texts # {}
    /\ MaxEdits \in [Apps -> Nat]
    /\ NoEntry \notin [content : Nat, stamp : Nat, first : BOOLEAN]
    /\ MaxEntries \in Nat
ASSUME NoEntryIsNothing == NoEntry \notin Callers \cup Keys

VARIABLES
    source,  \* app -> what its sources have said, the text of now last
    cache,   \* key -> its entry
    flight,  \* key -> the result of its entry in the in-flight map
    call     \* what each caller does

vars == <<source, cache, flight, call>>

\* content, stamp: the place in its app's source of the text it was compiled
\* from and of the one its stamp is of.  first: no entry was found when it was
\* compiled.
Entries == [content : Nat, stamp : Nat, first : BOOLEAN]

Steps == {"idle", "waiting", "woken", "lookup", "stamp", "compile", "stampLate",
          "store", "publish", "unmap", "remove"}
Calls == [pc : Steps, key : Keys, ok : BOOLEAN, entry : Entries]

Blank == [content |-> 0, stamp |-> 0, first |-> FALSE]
Asking(k, pc) == [pc |-> pc, key |-> k, ok |-> TRUE, entry |-> Blank]
Resting == Asking(CHOOSE k \in Keys : TRUE, "idle")

\* Which text is the first makes no difference.
FirstText == CHOOSE text \in Texts : TRUE

\* The place and the text of now of an app's sources.
Now(a) == Len(source[a])
Text(a) == source[a][Now(a)]

Cached == {k \in Keys : cache[k] # NoEntry}
At(c, pc) == call[c].pc = pc
Goto(c, pc) == call' = [call EXCEPT ![c].pc = pc]

Init ==
    /\ source = [a \in Apps |-> <<FirstText>>]
    /\ cache = [k \in Keys |-> NoEntry]
    /\ flight = [k \in Keys |-> "none"]
    /\ call = [c \in Callers |-> Resting]

-----------------------------------------------------------------------------
\* register_compile_inflight, and its mutant, which never waits.
RegisterAlone(c, k) ==
    /\ At(c, "idle")
    /\ call' = [call EXCEPT ![c] = Asking(k, "lookup")]
    /\ flight' = [flight EXCEPT ![k] = "running"]
    /\ UNCHANGED <<source, cache>>

Register(c, k) ==
    /\ At(c, "idle")
    /\ call' = [call EXCEPT ![c] =
          Asking(k, CASE flight[k] = "none"    -> "lookup"
                      [] flight[k] = "running" -> "waiting"
                      [] OTHER                 -> "woken")]
    /\ flight' = [flight EXCEPT ![k] = IF @ = "none" THEN "running" ELSE @]
    /\ UNCHANGED <<source, cache>>

\* validate_cached_entry: the stamp of the entry is that of the sources, which
\* say what they said when it was taken.
Valid(k) == cache[k] # NoEntry /\ source[AppOf[k]][cache[k].stamp] = Text(AppOf[k])

LookupHit(c) ==
    /\ At(c, "lookup")
    /\ Valid(call[c].key)
    /\ Goto(c, "publish")
    /\ UNCHANGED <<source, cache, flight>>

\* An entry was found but is no use: the sources are stamped before they are
\* compiled.  No entry: the compile stamps them itself, near its end.
LookupMiss(c) ==
    /\ At(c, "lookup")
    /\ ~ Valid(call[c].key)
    /\ call' = [call EXCEPT
          ![c].pc = IF cache[call[c].key] = NoEntry THEN "compile" ELSE "stamp",
          ![c].entry.first = cache[call[c].key] = NoEntry]
    /\ UNCHANGED <<source, cache, flight>>

Stamp(c) ==
    /\ At(c, "stamp")
    /\ call' = [call EXCEPT ![c].pc = "compile", ![c].entry.stamp = Now(AppOf[call[c].key])]
    /\ UNCHANGED <<source, cache, flight>>

\* The compile reads the sources.  The mutant stamps every compile at the end.
CompileThenStamp(c) ==
    /\ At(c, "compile")
    /\ call' = [call EXCEPT ![c].pc = "stampLate", ![c].entry.content = Now(AppOf[call[c].key])]
    /\ UNCHANGED <<source, cache, flight>>

Compile(c) ==
    /\ At(c, "compile")
    /\ call' = [call EXCEPT ![c].pc = IF call[c].entry.first THEN "stampLate" ELSE "store",
                            ![c].entry.content = Now(AppOf[call[c].key])]
    /\ UNCHANGED <<source, cache, flight>>

StampLate(c) ==
    /\ At(c, "stampLate")
    /\ call' = [call EXCEPT ![c].pc = "store", ![c].entry.stamp = Now(AppOf[call[c].key])]
    /\ UNCHANGED <<source, cache, flight>>

CompileFails(c) ==
    /\ At(c, "compile") \/ At(c, "stampLate")
    /\ call' = [call EXCEPT ![c] = [Asking(call[c].key, "publish") EXCEPT !.ok = FALSE]]
    /\ UNCHANGED <<source, cache, flight>>

\* evict_compile_cache_entries_for_write leaves Target entries; those of the
\* app that stores go first, in the order of a hash map.
Target == IF MaxEntries > 17 THEN MaxEntries - 16 ELSE 1

Kept(a, kept) ==
    LET mine == {k \in Cached : AppOf[k] = a}
    IN  /\ kept \subseteq Cached
        /\ Cardinality(kept) = IF Cardinality(Cached) < Target THEN Cardinality(Cached) ELSE Target
        /\ kept \cap mine = {} \/ Cached \ mine \subseteq kept

\* Mutant of Room: the cache is full when it is over its limit, not at it.
RoomAtLimit(a, kept) ==
    IF Cardinality(Cached) > MaxEntries + 1 THEN Kept(a, kept) ELSE kept = Cached
Room(a, kept) ==
    IF Cardinality(Cached) >= MaxEntries THEN Kept(a, kept) ELSE kept = Cached

Written(k) == {k} \cup Alias[k]

Store(c) ==
    /\ At(c, "store")
    /\ \E kept \in SUBSET Cached :
        /\ Room(AppOf[call[c].key], kept)
        /\ cache' = [k \in Keys |-> IF k \in Written(call[c].key) THEN call[c].entry
                                    ELSE IF k \in kept THEN cache[k] ELSE NoEntry]
    /\ call' = [call EXCEPT ![c] = Asking(call[c].key, "publish")]
    /\ UNCHANGED <<source, flight>>

\* finish_compile_inflight: the result is set and the waiters notified, then
\* the key leaves the map.  The mutant forgets the waiters of a failure.
PublishSuccess(c) ==
    /\ At(c, "publish")
    /\ flight' = [flight EXCEPT ![call[c].key] = IF call[c].ok THEN "ok" ELSE "failed"]
    /\ call' = [d \in Callers |->
          IF d = c THEN [call[c] EXCEPT !.pc = "unmap"]
          ELSE IF call[c].ok /\ At(d, "waiting") /\ call[d].key = call[c].key
            THEN [call[d] EXCEPT !.pc = "woken"]
          ELSE call[d]]
    /\ UNCHANGED <<source, cache>>

Publish(c) ==
    /\ At(c, "publish")
    /\ flight' = [flight EXCEPT ![call[c].key] = IF call[c].ok THEN "ok" ELSE "failed"]
    /\ call' = [d \in Callers |->
          IF d = c THEN [call[c] EXCEPT !.pc = "unmap"]
          ELSE IF At(d, "waiting") /\ call[d].key = call[c].key
            THEN [call[d] EXCEPT !.pc = "woken"]
          ELSE call[d]]
    /\ UNCHANGED <<source, cache>>

Unmap(c) ==
    /\ At(c, "unmap")
    /\ flight' = [flight EXCEPT ![call[c].key] = "none"]
    /\ call' = [call EXCEPT ![c] = Resting]
    /\ UNCHANGED <<source, cache>>

\* A waiter returns the leader's result; the mutant leaves its key behind.
WokenKeepsKey(c) ==
    /\ At(c, "woken")
    /\ Goto(c, "idle")
    /\ UNCHANGED <<source, cache, flight>>

Woken(c) ==
    /\ At(c, "woken")
    /\ call' = [call EXCEPT ![c] = Resting]
    /\ UNCHANGED <<source, cache, flight>>

\* peek_compile_cache_hit_shared finds an entry that is no use; it removes the
\* key after it let go of the lock it read it under.
PeekStale(c, k) ==
    /\ At(c, "idle")
    /\ cache[k] # NoEntry /\ ~ Valid(k)
    /\ call' = [call EXCEPT ![c] = Asking(k, "remove")]
    /\ UNCHANGED <<source, cache, flight>>

PeekRemove(c) ==
    /\ At(c, "remove")
    /\ cache' = [cache EXCEPT ![call[c].key] = NoEntry]
    /\ call' = [call EXCEPT ![c] = Resting]
    /\ UNCHANGED <<source, flight>>

\* clear_compile_cache_for_app.
Clear(a) ==
    /\ cache' = [k \in Keys |-> IF AppOf[k] = a THEN NoEntry ELSE cache[k]]
    /\ UNCHANGED <<source, flight, call>>

\* Somebody edits the sources of an app, or undoes an edit; a compile under way
\* goes on as it began.
Edit(a) ==
    /\ Now(a) <= MaxEdits[a]
    /\ \E text \in Texts \ {Text(a)} : source' = [source EXCEPT ![a] = Append(@, text)]
    /\ UNCHANGED <<cache, flight, call>>

Begin(c) == \E k \in Keys : Register(c, k) \/ PeekStale(c, k)
Continue(c) ==
    \/ LookupHit(c) \/ LookupMiss(c) \/ Stamp(c) \/ Compile(c) \/ StampLate(c)
    \/ CompileFails(c) \/ Store(c) \/ Publish(c) \/ Unmap(c) \/ Woken(c) \/ PeekRemove(c)

Next ==
    \/ \E c \in Callers : Begin(c) \/ Continue(c)
    \/ \E a \in Apps : Clear(a) \/ Edit(a)

Spec == Init /\ [][Next]_vars
\* A thread that can go on does; a compile ends.
FairSpec == Spec /\ \A c \in Callers : WF_vars(Continue(c))

-----------------------------------------------------------------------------
(* Properties *)

\* Types of the state; a caller between two calls keeps nothing of the last.
TypeOK ==
    /\ source \in [Apps -> Seq(Texts) \ {<<>>}]
    /\ cache \in [Keys -> Entries \cup {NoEntry}]
    /\ flight \in [Keys -> {"none", "running", "ok", "failed"}]
    /\ call \in [Callers -> Calls]
    /\ \A c \in Callers : At(c, "idle") => call[c] = Resting

Leading == {"lookup", "stamp", "compile", "stampLate", "store", "publish", "unmap"}

\* A key is in the in-flight map exactly while one call, and one only, leads
\* its compile, whatever is edited, cleared or peeked meanwhile.
Leaders(k) == {c \in Callers : call[c].pc \in Leading /\ call[c].key = k}
OneCompile ==
    \A k \in Keys : IF flight[k] = "none" THEN Leaders(k) = {}
                                          ELSE \E c \in Callers : Leaders(k) = {c}

\* The cache stays within one store of its limit: a store makes room before it
\* writes its key and those of the default scene.
Limit == IF MaxEntries > Target THEN MaxEntries - 1 ELSE Target
CacheBounded == \E k \in Keys : Cardinality(Cached) <= Limit + Cardinality(Written(k))

\* A recompiled entry that is taken for current is so, with one exception: its
\* sources were edited after its stamp, it was compiled from the edit, and the
\* edit was undone after that.  An edit that stays, or one made and undone
\* outside the compile, never makes old output current.
StaleMeansUndone ==
    \A k \in Keys :
        LET e == cache[k]
            a == AppOf[k] IN
        Valid(k) /\ ~ e.first /\ source[a][e.content] # Text(a) =>
            e.stamp < e.content /\ e.content < Now(a)

\* Every call returns: a waiter is woken whether the compile succeeds or fails.
EveryCallReturns == \A c \in Callers : ~ At(c, "idle") ~> At(c, "idle")

\* The abstract view: what a caller wants, and who compiles a key.
Wanted == [c \in Callers |->
             IF call[c].pc \in Leading \cup {"waiting", "woken"} THEN call[c].key ELSE NoEntry]
Compiles(c, k) == call[c].pc \in Leading /\ call[c].key = k
Compiling == [k \in Keys |-> IF \E c \in Callers : Compiles(c, k)
                             THEN CHOOSE c \in Callers : Compiles(c, k) ELSE NoEntry]

Work == INSTANCE ExclusiveWork WITH None <- NoEntry, wants <- Wanted, worker <- Compiling

\* The in-flight map makes the compile of a key exclusive work: one caller at
\* a time does it, one that asked for it, and it does not come back before it
\* took the key off the map.
ImplementsExclusiveWork == Work!Spec
=============================================================================
