------------------------------ MODULE Training ------------------------------
(***************************************************************************)
(* The progress store of a learner (crates/mei-training): the state file,  *)
(* the review log, and the three calls that read and rewrite them under    *)
(* one lock of the process.  A call loads the file, works on its copy and  *)
(* saves it; a review appends to the log first.  The host may die between  *)
(* two writes and a write may fail.  When an item is due and in which      *)
(* phase of the SM-2 schedule it is are left out (any introduced item may  *)
(* be due, and no rule modelled here reads a phase), and so is the mode    *)
(* radical_key, which uses the same file and cap with the radicals as its  *)
(* only pool.                                                              *)
(***************************************************************************)
EXTENDS Integers, FiniteSets

CONSTANTS
  Clients,      \* concurrent requests of the learner
  Items,        \* the characters of the catalog
  Packs, PackA, \* the packs of the manifest; "pack-a"
  Pos,          \* a pack's place in the manifest
  Members,      \* the items of a pack
  Rule,         \* a pack's unlock rule
  TierB,        \* the packs of tier B
  Catalogs,     \* the sets of packs a host may find when it loads the catalog
  NewCap,       \* DEFAULT_NEW_CAP
  None

Rules ==
  [kind : {"default_open", "manual"}]
    \cup [kind : {"pack_mastery"}, requires : Packs, introduced : 0..100, l1 : 0..100, l2 : 0..100]

ASSUME TrainingAssumption ==
  /\ IsFiniteSet(Items)
  /\ \A S \in SUBSET Packs : S # {} => \E p \in S : \A q \in S : Pos[q] <= Pos[p]
  /\ PackA \in Packs /\ None \notin Packs /\ None \notin Clients
  /\ Pos \in [Packs -> Nat] /\ \A p, q \in Packs : Pos[p] = Pos[q] => p = q
  /\ Members \in [Packs -> SUBSET Items]
  /\ Rule \in [Packs -> Rules]
  /\ TierB \subseteq Packs /\ Catalogs \subseteq SUBSET Packs
  /\ NewCap \in Nat

VARIABLES
  file,     \* learner-state.json
  log,      \* per item, the highest ladder stage a line of review-log.jsonl names
  lock,     \* the client inside with_lock
  poisoned, \* a call panicked inside with_lock
  catalog,  \* the packs of the cached catalog
  work      \* per client, its copy of the state and the write it is about to make

vars == <<file, log, lock, poisoned, catalog, work>>

-----------------------------------------------------------------------------
(* LadderStage L0..L3 by rank; practice intents Learn, Steady and Speed by *)
(* the ladder they stand for.                                              *)
Ladder == 0..3
Learn == 1
Steady == 2
Speed == 3

Item == [introduced : BOOLEAN, ladder : Ladder]
Fresh == [introduced |-> FALSE, ladder |-> 0]

(* open_packs is a set: "pack-a" is always its first member.               *)
LearnerState ==
  [items : [Items -> Item], newToday : Nat, charPool : {"d1", "d2"},
   open : SUBSET Packs, active : Packs \cup {None}, focus : Packs, target : 1..3]

(* A learner without a file, and a file from before packs existed.         *)
NewLearner ==
  [items |-> [i \in Items |-> Fresh], newToday |-> 0, charPool |-> "d1",
   open |-> {PackA}, active |-> PackA, focus |-> PackA, target |-> Learn]

Legacy(known, pool) ==
  [items |-> [i \in Items |-> [introduced |-> i \in known, ladder |-> 0]],
   newToday |-> 0, charPool |-> pool,
   open |-> {}, active |-> None, focus |-> PackA, target |-> Learn]

Idle == [pc |-> "idle"]
Work ==
  {Idle} \cup [pc : {"append"}, mem : LearnerState, item : Items]
         \cup [pc : {"save"}, mem : LearnerState]

-----------------------------------------------------------------------------
(* Packs.                                                                  *)

Last(S) == CHOOSE p \in S : \A q \in S : Pos[q] <= Pos[p]

Introduced(items, p) == {i \in Members[p] : items[i].introduced}
Reached(items, p, l) == {i \in Introduced(items, p) : items[i].ladder >= l}

(* n * 100 / total >= pct, in the integers of the code.                    *)
AtLeastPct(n, total, pct) == n * 100 >= pct * total

(* unlock_satisfied: the required pack is in the catalog, has characters,  *)
(* and enough of them are introduced, at L1 and at L2.                     *)
Satisfied(items, cat, p) ==
  LET r == Rule[p] IN
    \/ r.kind = "default_open"
    \/ /\ r.kind = "pack_mastery"
       /\ r.requires \in cat
       /\ Members[r.requires] # {}
       /\ LET total == Cardinality(Members[r.requires]) IN
            /\ AtLeastPct(Cardinality(Introduced(items, r.requires)), total, r.introduced)
            /\ AtLeastPct(Cardinality(Reached(items, r.requires, 1)), total, r.l1)
            /\ AtLeastPct(Cardinality(Reached(items, r.requires, 2)), total, r.l2)

(* next_locked_after skips open, manual and empty packs.                   *)
Lockable(open) == {p \in catalog \ open : Rule[p].kind # "manual" /\ Members[p] # {}}

(* try_auto_unlock opens pack after pack in the order of the manifest and  *)
(* stops at the first one that is not mastered.                            *)
UnlockedNext(s) ==
  {p \in Lockable(s.open) :
     \A q \in Lockable(s.open) : Pos[q] < Pos[p] => Satisfied(s.items, catalog, q)}

Unlocked(s) ==
  {p \in Lockable(s.open) :
     \A q \in Lockable(s.open) : Pos[q] <= Pos[p] => Satisfied(s.items, catalog, q)}

TryAutoUnlock(s) ==
  [s EXCEPT !.open = @ \cup Unlocked(s),
            !.active = IF Unlocked(s) = {} THEN @ ELSE Last(Unlocked(s))]

(* migrate_and_unlock: a file without packs opens "pack-a", and all packs  *)
(* of tier B when it practised the pool d2; packs gone from the catalog    *)
(* are closed, and a focus that is not open goes back to "pack-a".         *)
Opened(s) ==
  IF s.open # {} THEN s.open
  ELSE {PackA} \cup (IF s.charPool = "d2" THEN TierB \cap catalog ELSE {})

Kept(s) == {PackA} \cup (Opened(s) \cap catalog)

MigrateKeepingFocus(s) == [s EXCEPT !.open = Kept(s)]

MigrateAndUnlock(s) ==
  [s EXCEPT !.open = Kept(s),
            !.active = IF @ # None THEN @
                       ELSE IF Opened(s) = {PackA} THEN PackA ELSE Last(Opened(s) \ {PackA}),
            !.focus = IF @ \in Kept(s) THEN @ ELSE PackA]

(* roll_new_day, on a call of the file's day or of another one.            *)
RollNewDay(s, sameDay) == IF sameDay THEN s ELSE [s EXCEPT !.newToday = 0]

(* The focus a client sends: a pack or none, and a target; a client that   *)
(* sends neither is given the target of its intent, so that only a pack    *)
(* may come without a target.                                              *)
Requests == [pack : Packs \cup {None}, target : 0..3] \ {[pack |-> None, target |-> 0]}

ResolveFocus(s, r) ==
  [s EXCEPT !.focus = IF r.pack \in s.open \cap (catalog \cup {PackA}) THEN r.pack ELSE @,
            !.target = IF r.target = 0 THEN @ ELSE r.target]

(* The copy of the state a call works on.                                  *)
Loaded(sameDay) == RollNewDay(MigrateAndUnlock(file), sameDay)

-----------------------------------------------------------------------------
(* Items.                                                                  *)

Introduce(s, i) ==
  IF s.items[i].introduced THEN s
  ELSE [s EXCEPT !.items[i].introduced = TRUE, !.newToday = @ + 1]

(* new_pool_ids: the characters of the focused pack; without any pack,     *)
(* every character.                                                        *)
NewPool(s) ==
  IF catalog = {} THEN Items ELSE IF s.focus \in catalog THEN Members[s.focus] ELSE {}

Unseen(s) == {i \in NewPool(s) : ~s.items[i].introduced}

(* due_pool_ids and the filters of pick_due: introduced characters of the  *)
(* whole catalog, for Speed those of the focused pack from L2 on.          *)
DuePool(s) ==
  {i \in Items :
     /\ s.items[i].introduced
     /\ s.target = Speed => /\ s.items[i].ladder >= 2
                            /\ s.focus \in catalog /\ i \in Members[s.focus]}

(* apply_ladder for an answer that is wrong, right but slow, or on pace.   *)
Verdicts == {"wrong", "slow", "onPace"}

AtLeast(l, m) == IF l >= m THEN l ELSE m

Climb(l, intent, verdict) ==
  CASE verdict = "wrong" -> l
    [] verdict # "wrong" /\ intent = Learn -> AtLeast(l, 1)
    [] verdict # "wrong" /\ intent = Steady -> AtLeast(l, IF verdict = "onPace" THEN 2 ELSE 1)
    [] verdict # "wrong" /\ intent = Speed -> IF l >= 2 /\ verdict = "onPace" THEN 3 ELSE l

Reviewed(s, i, verdict) ==
  LET t == Introduce(s, i)
  IN  [t EXCEPT !.items[i].ladder = Climb(@, s.target, verdict)]

-----------------------------------------------------------------------------
(* with_lock: one call at a time; a poisoned lock lets nobody in.          *)
LocksNothing(c) == ~poisoned /\ lock' = c

Locks(c) == lock = None /\ ~poisoned /\ lock' = c

Saving(s) == [pc |-> "save", mem |-> s]

Session(c) ==
  /\ Locks(c)
  /\ \E sameDay \in BOOLEAN : work' = [work EXCEPT ![c] = Saving(Loaded(sameDay))]
  /\ UNCHANGED <<file, log, poisoned, catalog>>

(* next_item hands out an item that is due, reports that there is none, or *)
(* introduces a new one while the day's cap is not reached.                *)
PickedItem(s) ==
  {s : i \in DuePool(s)}
    \cup (IF s.target = Speed \/ s.newToday >= NewCap \/ Unseen(s) = {} THEN {s}
          ELSE {Introduce(s, i) : i \in Unseen(s)})

NextItem(c) ==
  /\ Locks(c)
  /\ \E sameDay \in BOOLEAN, r \in Requests :
       \E s \in PickedItem(ResolveFocus(TryAutoUnlock(Loaded(sameDay)), r)) :
         work' = [work EXCEPT ![c] = Saving(s)]
  /\ UNCHANGED <<file, log, poisoned, catalog>>

(* review_item accepts any item, introduced or not, and whatever the cap.  *)
ReviewSavedFirst(c) ==
  /\ Locks(c)
  /\ \E r \in Requests, i \in Items, v \in Verdicts :
       LET s == Reviewed(ResolveFocus(Loaded(TRUE), r), i, v) IN
         /\ file' = s
         /\ work' = [work EXCEPT ![c] = [pc |-> "append", item |-> i, mem |-> s]]
  /\ UNCHANGED <<log, poisoned, catalog>>

ReviewItem(c) ==
  /\ Locks(c)
  /\ \E sameDay \in BOOLEAN, r \in Requests, i \in Items, v \in Verdicts :
       work' = [work EXCEPT ![c] =
                  [pc |-> "append", item |-> i,
                   mem |-> Reviewed(ResolveFocus(Loaded(sameDay), r), i, v)]]
  /\ UNCHANGED <<file, log, poisoned, catalog>>

(* An interval that has grown past what a Duration holds panics in         *)
(* apply_rating, before anything is written.                               *)
ReviewPanics(c) ==
  /\ lock = None /\ ~poisoned
  /\ \E i \in Items : file.items[i].introduced
  /\ poisoned' = TRUE
  /\ UNCHANGED <<file, log, lock, catalog, work>>

AppendLog(c) ==
  LET w == work[c] IN
  /\ w.pc = "append"
  /\ log' = [log EXCEPT ![w.item] = AtLeast(@, w.mem.items[w.item].ladder)]
  /\ work' = [work EXCEPT ![c] = Saving(TryAutoUnlock(w.mem))]
  /\ UNCHANGED <<file, lock, poisoned, catalog>>

Return(c) ==
  /\ lock' = None
  /\ work' = [work EXCEPT ![c] = Idle]
  /\ UNCHANGED <<log, poisoned, catalog>>

(* save_state; when only meta.json fails the call fails and the state is   *)
(* saved all the same.                                                     *)
SaveState(c) ==
  /\ work[c].pc = "save"
  /\ file' = work[c].mem
  /\ Return(c)

WriteFails(c) ==
  /\ work[c] # Idle
  /\ Return(c)
  /\ UNCHANGED file

(* The host dies and another one loads the catalog, which may have other   *)
(* packs.  The members and the rule of a pack stay what they are: a        *)
(* catalog that changes those is not modelled.                             *)
Restart ==
  /\ lock' = None
  /\ poisoned' = FALSE
  /\ catalog' \in Catalogs
  /\ work' = [c \in Clients |-> Idle]
  /\ UNCHANGED <<file, log>>

-----------------------------------------------------------------------------
Init ==
  /\ \/ file = NewLearner
     \/ \E known \in SUBSET Items, pool \in {"d1", "d2"} : file = Legacy(known, pool)
  /\ log = [i \in Items |-> 0]
  /\ lock = None
  /\ poisoned = FALSE
  /\ catalog \in Catalogs
  /\ work = [c \in Clients |-> Idle]

Next ==
  \/ \E c \in Clients :
       \/ Session(c) \/ NextItem(c) \/ ReviewItem(c) \/ ReviewPanics(c)
       \/ AppendLog(c) \/ SaveState(c) \/ WriteFails(c)
  \/ Restart

Spec == Init /\ [][Next]_vars

-----------------------------------------------------------------------------
(* Types; "pack-a" is open and the focused pack is an open one in every    *)
(* file written since packs exist.                                         *)
TypeOK ==
  /\ file \in LearnerState
  /\ file.open # {} => {PackA, file.focus} \subseteq file.open
  /\ log \in [Items -> Ladder]
  /\ lock \in Clients \cup {None}
  /\ poisoned \in BOOLEAN
  /\ catalog \in Catalogs
  /\ work \in [Clients -> Work]

(* The log is never behind the state: a stage the state file gives an item *)
(* is named by a line of the log, whatever crashes or failed writes came   *)
(* between the two (review_item appends before it saves).                  *)
LogCoversState == \A i \in Items : file.items[i].ladder <= log[i]

(* A pack is open because the pack it requires is mastered, and stays      *)
(* mastered: mistakes, crashes and catalogs without the pack never leave   *)
(* an open pack behind whose rule does not hold, as long as no catalog     *)
(* changes the members or the rule of a pack.  Only learners of the pool   *)
(* d2 were given the packs of tier B.                                      *)
OpenedByMastery ==
  \A p \in file.open \ {PackA} :
    \/ file.charPool = "d2" /\ p \in TierB
    \/ Satisfied(file.items, Packs, p)

(* No call takes back what another one has saved: an item stays introduced *)
(* and its ladder never goes down.                                         *)
NothingUnlearned ==
  [][\A i \in Items : /\ file.items[i].introduced => file'.items[i].introduced
                      /\ file.items[i].ladder <= file'.items[i].ladder]_vars
=============================================================================
