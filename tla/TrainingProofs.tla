--------------------------- MODULE TrainingProofs ---------------------------
(***************************************************************************)
(* Proofs about the progress store.  The inductive invariant says of the   *)
(* copy a call works on what the properties say of the file: it has        *)
(* forgotten nothing of the file, its packs are soundly open, and the log  *)
(* is ahead of it once the review is appended.                             *)
(***************************************************************************)
EXTENDS Training, FiniteSetTheorems, TLAPS

(* s knows at least what t knows of every item.                            *)
Knows(s, t) ==
  \A i \in Items : /\ t.items[i].introduced => s.items[i].introduced
                   /\ t.items[i].ladder <= s.items[i].ladder

(* The packs of s are open by their rules.                                 *)
SoundlyOpen(s) ==
  \A p \in s.open \ {PackA} :
    \/ s.charPool = "d2" /\ p \in TierB
    \/ Satisfied(s.items, Packs, p)

FocusOpen(s) == {PackA, s.focus} \subseteq s.open

Copy(s) == s \in LearnerState /\ Knows(s, file) /\ SoundlyOpen(s) /\ FocusOpen(s)

OneInside == \A c \in Clients : work[c] # Idle => lock = c

Appending ==
  \A c \in Clients : work[c].pc = "append" =>
    /\ work[c].item \in Items
    /\ Copy(work[c].mem)
    /\ \A i \in Items \ {work[c].item} : work[c].mem.items[i].ladder <= log[i]

SavingInv ==
  \A c \in Clients : work[c].pc = "save" =>
    /\ Copy(work[c].mem)
    /\ \A i \in Items : work[c].mem.items[i].ladder <= log[i]

IInv ==
  TypeOK /\ OneInside /\ Appending /\ SavingInv /\ LogCoversState /\ OpenedByMastery

-----------------------------------------------------------------------------
(* More of a pack's items are introduced, or reached, when more is known.  *)
LEMMA CountGrows ==
  ASSUME NEW A \in SUBSET Items, NEW B \in SUBSET Items, A \subseteq B,
         NEW total \in Int, NEW pct \in Int,
         AtLeastPct(Cardinality(A), total, pct)
  PROVE  AtLeastPct(Cardinality(B), total, pct)
<1>1. IsFiniteSet(A) /\ IsFiniteSet(B)
  BY FS_Subset, TrainingAssumption
<1>2. Cardinality(A) \in Nat /\ Cardinality(B) \in Nat /\ Cardinality(A) <= Cardinality(B)
  BY <1>1, FS_Subset, FS_CardinalityType
<1>3. pct * total \in Int
  OBVIOUS
<1> DEFINE k == pct * total
<1>4. k \in Int
  BY <1>3
<1>5. Cardinality(A) * 100 >= k
  BY DEF AtLeastPct
<1> HIDE DEF k
<1>6. Cardinality(B) * 100 >= k
  BY <1>2, <1>4, <1>5
<1>7. QED
  BY <1>6 DEF AtLeastPct, k

(* A mastered pack stays mastered when more is known and more packs are    *)
(* there.                                                                  *)
LEMMA MasteryStays ==
  ASSUME NEW items \in [Items -> Item], NEW more \in [Items -> Item],
         \A i \in Items : /\ items[i].introduced => more[i].introduced
                          /\ items[i].ladder <= more[i].ladder,
         NEW cat \in SUBSET Packs, NEW p \in Packs, Satisfied(items, cat, p)
  PROVE  Satisfied(more, Packs, p)
<1> DEFINE r == Rule[p]
<1>1. r \in Rules
  BY TrainingAssumption
<1>2. CASE r.kind = "default_open"
  BY <1>2 DEF Satisfied
<1>3. CASE r.kind = "pack_mastery"
  <2> DEFINE m == r.requires
             total == Cardinality(Members[m])
  <2>1. m \in Packs /\ r.introduced \in Int /\ r.l1 \in Int /\ r.l2 \in Int
    BY <1>1, <1>3 DEF Rules
  <2>2. Members[m] \subseteq Items
    BY <2>1, TrainingAssumption
  <2>3. total \in Int
    BY <2>2, FS_Subset, FS_CardinalityType, TrainingAssumption
  <2>4. /\ Members[m] # {}
        /\ AtLeastPct(Cardinality(Introduced(items, m)), total, r.introduced)
        /\ AtLeastPct(Cardinality(Reached(items, m, 1)), total, r.l1)
        /\ AtLeastPct(Cardinality(Reached(items, m, 2)), total, r.l2)
    BY <1>3 DEF Satisfied
  <2>5. /\ Introduced(items, m) \subseteq Introduced(more, m)
        /\ Introduced(more, m) \subseteq Items
    BY <2>2 DEF Introduced
  <2>6. ASSUME NEW l \in 1..2
        PROVE  /\ Reached(items, m, l) \subseteq Reached(more, m, l)
               /\ Reached(items, m, l) \in SUBSET Items
               /\ Reached(more, m, l) \in SUBSET Items
    BY <2>2 DEF Reached, Introduced, Item, Ladder
  <2>7. 1 \in 1..2 /\ 2 \in 1..2
    OBVIOUS
  <2> HIDE DEF r, m, total
  <2>8. AtLeastPct(Cardinality(Introduced(more, m)), total, r.introduced)
    BY <2>1, <2>3, <2>4, <2>5, CountGrows
  <2>9. AtLeastPct(Cardinality(Reached(more, m, 1)), total, r.l1)
    <3>1. /\ Reached(items, m, 1) \subseteq Reached(more, m, 1)
          /\ Reached(items, m, 1) \in SUBSET Items
          /\ Reached(more, m, 1) \in SUBSET Items
      BY <2>6, <2>7
    <3>2. QED
      BY <2>1, <2>3, <2>4, <3>1, CountGrows
  <2>10. AtLeastPct(Cardinality(Reached(more, m, 2)), total, r.l2)
    <3>1. /\ Reached(items, m, 2) \subseteq Reached(more, m, 2)
          /\ Reached(items, m, 2) \in SUBSET Items
          /\ Reached(more, m, 2) \in SUBSET Items
      BY <2>6, <2>7
    <3>2. QED
      BY <2>1, <2>3, <2>4, <3>1, CountGrows
  <2>11. QED
    BY <1>3, <2>1, <2>4, <2>8, <2>9, <2>10 DEF Satisfied, r, m, total
<1>4. QED
  BY <1>2, <1>3 DEF Satisfied

(* Soundly open packs stay so when more is known.                          *)
LEMMA SoundStays ==
  ASSUME NEW s \in LearnerState, NEW t \in LearnerState, SoundlyOpen(s), Knows(t, s),
         t.open \subseteq s.open, t.charPool = s.charPool
  PROVE  SoundlyOpen(t)
<1>1. s.items \in [Items -> Item] /\ t.items \in [Items -> Item] /\ t.open \subseteq Packs
  BY DEF LearnerState
<1>2. ASSUME NEW p \in t.open \ {PackA}
      PROVE  (t.charPool = "d2" /\ p \in TierB) \/ Satisfied(t.items, Packs, p)
  <2>1. CASE s.charPool = "d2" /\ p \in TierB
    BY <2>1
  <2>2. CASE Satisfied(s.items, Packs, p)
    <3>1. p \in Packs /\ Packs \in SUBSET Packs
      BY <1>1, <1>2
    <3>2. Satisfied(t.items, Packs, p)
      BY <1>1, <2>2, <3>1, MasteryStays DEF Knows
    <3>3. QED
      BY <3>2
  <2>3. QED
    BY <1>2, <2>1, <2>2 DEF SoundlyOpen
<1>3. QED
  BY <1>2 DEF SoundlyOpen
-----------------------------------------------------------------------------
(* try_auto_unlock keeps the items and opens packs that are mastered.      *)
LEMMA UnlockFacts ==
  ASSUME NEW s \in LearnerState, SoundlyOpen(s), FocusOpen(s), catalog \in SUBSET Packs
  PROVE  LET t == TryAutoUnlock(s) IN
           t \in LearnerState /\ t.items = s.items /\ SoundlyOpen(t) /\ FocusOpen(t)
<1> DEFINE U == Unlocked(s)
           t == TryAutoUnlock(s)
<1>1. U \subseteq Packs
  BY DEF Unlocked, Lockable
<1>2. U = {} \/ Last(U) \in Packs
  BY <1>1, TrainingAssumption DEF Last
<1>3. /\ t.items = s.items /\ t.open = s.open \cup U
      /\ t.charPool = s.charPool /\ t.focus = s.focus
  BY DEF TryAutoUnlock, LearnerState
<1>4. t \in LearnerState
  BY <1>1, <1>2 DEF TryAutoUnlock, LearnerState
<1>5. ASSUME NEW p \in U PROVE Satisfied(t.items, Packs, p)
  <2>1. Satisfied(s.items, catalog, p)
    BY <1>5, <1>1, TrainingAssumption DEF Unlocked, Lockable
  <2>2. s.items \in [Items -> Item]
    BY DEF LearnerState
  <2>3. \A i \in Items : s.items[i].ladder <= s.items[i].ladder
    BY <2>2 DEF Item, Ladder
  <2>4. p \in Packs
    BY <1>1, <1>5
  <2>5. QED
    BY <1>3, <2>1, <2>2, <2>3, <2>4, MasteryStays
<1>6. SoundlyOpen(t)
  BY <1>3, <1>5 DEF SoundlyOpen
<1>7. FocusOpen(t)
  BY <1>3 DEF FocusOpen
<1>8. QED
  BY <1>3, <1>4, <1>6, <1>7

(* What a call loads from a sound file: the same items, sound packs.       *)
LEMMA LoadFacts ==
  ASSUME TypeOK, OpenedByMastery, NEW sameDay \in BOOLEAN
  PROVE  Copy(Loaded(sameDay)) /\ Loaded(sameDay).items = file.items
<1> DEFINE t == Loaded(sameDay)
           u == MigrateAndUnlock(file)
<1>1. file \in LearnerState /\ catalog \in SUBSET Packs
  BY TrainingAssumption DEF TypeOK
<1>2. Opened(file) \subseteq Packs /\ Kept(file) \subseteq Packs /\ PackA \in Kept(file)
  BY <1>1, TrainingAssumption DEF Opened, Kept, LearnerState
<1>3. Opened(file) = {PackA} \/ Opened(file) \ {PackA} = {} \/ Last(Opened(file) \ {PackA}) \in Packs
  <2> DEFINE S == Opened(file) \ {PackA}
  <2>1. S \in SUBSET Packs
    BY <1>2
  <2>2. S = {} \/ \E p \in S : \A q \in S : Pos[q] <= Pos[p]
    BY <2>1, TrainingAssumption
  <2>3. S = {} \/ Last(S) \in S
    BY <2>2 DEF Last
  <2>4. QED
    BY <2>1, <2>3
<1>4. Opened(file) \ {PackA} = {} => Opened(file) = {PackA}
  BY DEF Opened
<1>5. u \in LearnerState
  BY <1>1, <1>2, <1>3, <1>4, TrainingAssumption DEF MigrateAndUnlock, LearnerState
<1>6. /\ u.items = file.items /\ u.charPool = file.charPool /\ u.open = Kept(file)
      /\ u.focus \in Kept(file)
  BY <1>1, <1>2 DEF MigrateAndUnlock, LearnerState
<1>7. t \in LearnerState
  BY <1>5 DEF Loaded, RollNewDay, LearnerState
<1>8. /\ t.items = u.items /\ t.charPool = u.charPool /\ t.open = u.open
      /\ t.focus = u.focus
  BY <1>5 DEF Loaded, RollNewDay, LearnerState
<1>9. Knows(t, file)
  BY <1>1, <1>6, <1>8 DEF Knows, LearnerState, Item, Ladder
<1>10. FocusOpen(t)
  BY <1>2, <1>6, <1>8 DEF FocusOpen
<1>11. SoundlyOpen(t)
  <2>1. ASSUME NEW p \in Kept(file) \ {PackA}
        PROVE  (file.charPool = "d2" /\ p \in TierB) \/ Satisfied(file.items, Packs, p)
    BY <2>1 DEF Kept, Opened, OpenedByMastery
  <2>2. QED
    BY <2>1, <1>6, <1>8 DEF SoundlyOpen
<1>12. QED
  BY <1>6, <1>7, <1>8, <1>9, <1>10, <1>11 DEF Copy

(* resolve_focus only moves the focus, to an open pack.                    *)
LEMMA FocusFacts ==
  ASSUME NEW s \in LearnerState, FocusOpen(s), SoundlyOpen(s), NEW r \in Requests
  PROVE  LET t == ResolveFocus(s, r) IN
           t \in LearnerState /\ t.items = s.items /\ SoundlyOpen(t) /\ FocusOpen(t)
<1> DEFINE t == ResolveFocus(s, r)
           f == IF r.pack \in s.open \cap (catalog \cup {PackA}) THEN r.pack ELSE s.focus
           g == IF r.target = 0 THEN s.target ELSE r.target
<1>1. f \in Packs
  BY DEF LearnerState
<1>2. g \in 1..3
  <2>1. r.target \in 0..3 /\ s.target \in 1..3
    BY DEF Requests, LearnerState
  <2>2. QED
    BY <2>1
<1>3. t \in LearnerState
  <2>1. t = [s EXCEPT !.focus = f, !.target = g]
    BY DEF ResolveFocus
  <2> HIDE DEF f, g, t
  <2>2. QED
    BY <2>1, <1>1, <1>2 DEF LearnerState
<1>4. t.items = s.items /\ t.open = s.open /\ t.charPool = s.charPool
  BY DEF ResolveFocus, LearnerState
<1>5. t.focus = s.focus \/ t.focus \in s.open
  BY DEF ResolveFocus, LearnerState
<1>6. QED
  BY <1>3, <1>4, <1>5 DEF SoundlyOpen, FocusOpen

(* Introducing an item makes more known and closes no pack.                *)
LEMMA IntroduceFacts ==
  ASSUME NEW s \in LearnerState, FocusOpen(s), SoundlyOpen(s), NEW i \in Items
  PROVE  LET t == Introduce(s, i) IN
           /\ t \in LearnerState /\ Knows(t, s) /\ SoundlyOpen(t) /\ FocusOpen(t)
           /\ \A j \in Items : t.items[j].ladder = s.items[j].ladder
           /\ t.target = s.target
<1> DEFINE t == Introduce(s, i)
           it == [s.items[i] EXCEPT !.introduced = TRUE]
           its == [s.items EXCEPT ![i] = it]
<1>1. s.items \in [Items -> Item] /\ s.newToday \in Nat
  BY DEF LearnerState
<1>2. it \in Item /\ it.introduced /\ it.ladder = s.items[i].ladder
  BY <1>1 DEF Item
<1>3. its \in [Items -> Item] /\ \A j \in Items : its[j] = IF j = i THEN it ELSE s.items[j]
  BY <1>1, <1>2
<1>4. CASE s.items[i].introduced
  <2>1. t = s
    BY <1>4 DEF Introduce
  <2>2. Knows(s, s)
    BY <1>1 DEF Knows, Item, Ladder
  <2>3. QED
    BY <2>1, <2>2
<1>5. CASE ~s.items[i].introduced
  <2>1. t = [s EXCEPT !.items = its, !.newToday = s.newToday + 1]
    BY <1>5 DEF Introduce
  <2>2. t \in LearnerState
    <3>1. s.newToday + 1 \in Nat
      BY <1>1
    <3> HIDE DEF t, its
    <3>2. QED
      BY <2>1, <3>1, <1>3 DEF LearnerState
  <2>3. /\ t.items = its /\ t.open = s.open /\ t.charPool = s.charPool
        /\ t.focus = s.focus /\ t.target = s.target
    BY <2>1 DEF LearnerState
  <2>4. \A j \in Items : t.items[j].ladder = s.items[j].ladder
    BY <1>2, <1>3, <2>3
  <2>5. Knows(t, s)
    BY <1>1, <1>2, <1>3, <2>3 DEF Knows, Item, Ladder
  <2>6. SoundlyOpen(t)
    BY <2>2, <2>3, <2>5, SoundStays
  <2>7. QED
    BY <2>2, <2>3, <2>4, <2>5, <2>6 DEF FocusOpen
<1>6. QED
  BY <1>4, <1>5

(* apply_ladder never lowers a stage.                                      *)
LEMMA ClimbUp ==
  ASSUME NEW l \in Ladder, NEW intent \in 1..3, NEW v \in Verdicts
  PROVE  Climb(l, intent, v) \in Ladder /\ l <= Climb(l, intent, v)
  BY DEF Climb, Ladder, Verdicts, AtLeast, Learn, Steady, Speed

(* A review makes more known of its item and changes no other stage.       *)
LEMMA ReviewFacts ==
  ASSUME NEW s \in LearnerState, FocusOpen(s), SoundlyOpen(s), NEW i \in Items, NEW v \in Verdicts
  PROVE  LET t == Reviewed(s, i, v) IN
           /\ t \in LearnerState /\ Knows(t, s) /\ SoundlyOpen(t) /\ FocusOpen(t)
           /\ \A j \in Items \ {i} : t.items[j].ladder = s.items[j].ladder
<1> DEFINE n == Introduce(s, i)
           t == Reviewed(s, i, v)
           l == Climb(n.items[i].ladder, s.target, v)
           it == [n.items[i] EXCEPT !.ladder = l]
           its == [n.items EXCEPT ![i] = it]
<1>1. /\ n \in LearnerState /\ Knows(n, s) /\ SoundlyOpen(n) /\ FocusOpen(n)
      /\ \A j \in Items : n.items[j].ladder = s.items[j].ladder
      /\ n.target = s.target
  BY IntroduceFacts
<1> HIDE DEF n
<1>2. n.items \in [Items -> Item] /\ s.target \in 1..3 /\ s.items \in [Items -> Item]
  BY <1>1 DEF LearnerState
<1>3. l \in Ladder /\ n.items[i].ladder <= l
  BY <1>2, ClimbUp DEF Item
<1>4. it \in Item /\ it.introduced = n.items[i].introduced /\ it.ladder = l
  BY <1>2, <1>3 DEF Item
<1> HIDE DEF l
<1>5. its \in [Items -> Item] /\ \A j \in Items : its[j] = IF j = i THEN it ELSE n.items[j]
  BY <1>2, <1>4
<1> HIDE DEF it
<1>6. t = [n EXCEPT !.items = its]
  BY <1>1 DEF Reviewed, n, its, it, l
<1> HIDE DEF its, t
<1>7. t \in LearnerState
  BY <1>1, <1>5, <1>6 DEF LearnerState
<1>8. t.items = its /\ t.open = n.open /\ t.charPool = n.charPool /\ t.focus = n.focus
  BY <1>1, <1>6 DEF LearnerState
<1>9. Knows(t, n)
  BY <1>2, <1>3, <1>4, <1>5, <1>8 DEF Knows, Item, Ladder
<1>10. Knows(t, s)
  <2>1. t.items \in [Items -> Item]
    BY <1>7 DEF LearnerState
  <2>2. QED
    BY <1>1, <1>2, <1>9, <2>1 DEF Knows, Item, Ladder
<1>11. SoundlyOpen(t)
  BY <1>1, <1>7, <1>8, <1>9, SoundStays
<1>12. \A j \in Items \ {i} : t.items[j].ladder = s.items[j].ladder
  BY <1>1, <1>5, <1>8
<1>13. QED
  BY <1>1, <1>7, <1>8, <1>10, <1>11, <1>12 DEF FocusOpen, t

-----------------------------------------------------------------------------
(* A call enters with a sound copy that the log covers.                    *)
LEMMA EntersSaving ==
  ASSUME IInv, NEW c \in Clients, NEW m, Copy(m), \A i \in Items : m.items[i].ladder <= log[i],
         Locks(c), work' = [work EXCEPT ![c] = Saving(m)],
         UNCHANGED <<file, log, poisoned, catalog>>
  PROVE  IInv'
<1>1. /\ work \in [Clients -> Work] /\ lock = None /\ lock' = c
      /\ \A d \in Clients : work[d] = Idle
  BY TrainingAssumption DEF IInv, TypeOK, OneInside, Locks
<1>2. Saving(m) \in Work /\ Saving(m).pc = "save" /\ Saving(m).mem = m
  BY DEF Work, Saving, Copy
<1>3. \A d \in Clients : work'[d] = IF d = c THEN Saving(m) ELSE Idle
  BY <1>1
<1>4. work' \in [Clients -> Work]
  BY <1>1, <1>2
<1>5. TypeOK'
  BY <1>1, <1>4 DEF IInv, TypeOK
<1>6. OneInside'
  BY <1>1, <1>3 DEF OneInside
<1>7. Appending'
  BY <1>2, <1>3 DEF Appending, Idle
<1>8. SavingInv'
  BY <1>2, <1>3 DEF SavingInv, Idle, Copy, Knows
<1>9. QED
  BY <1>5, <1>6, <1>7, <1>8 DEF IInv, LogCoversState, OpenedByMastery

(* The log covers a copy that has the stages of the file.                  *)
LEMMA Covered ==
  ASSUME IInv, NEW m, \A i \in Items : m.items[i].ladder = file.items[i].ladder
  PROVE  \A i \in Items : m.items[i].ladder <= log[i]
  BY DEF IInv, LogCoversState

(* session_state saves what it loaded.                                     *)
LEMMA SessionKeeps ==
  ASSUME IInv, NEW c \in Clients, Session(c)
  PROVE  IInv'
<1>1. PICK b \in BOOLEAN : work' = [work EXCEPT ![c] = Saving(Loaded(b))]
  BY DEF Session
<1>2. PICK m : m = Loaded(b)
  OBVIOUS
<1>3. Copy(m) /\ m.items = file.items
  BY <1>2, LoadFacts DEF IInv
<1>4. \A i \in Items : m.items[i].ladder <= log[i]
  BY <1>3, Covered
<1>5. QED
  BY <1>1, <1>2, <1>3, <1>4, EntersSaving DEF Session

(* next saves what it loaded, unlocked and perhaps introduced.             *)
LEMMA NextItemKeeps ==
  ASSUME IInv, NEW c \in Clients, NextItem(c)
  PROVE  IInv'
<1>1. PICK b \in BOOLEAN, r \in Requests :
        \E s \in PickedItem(ResolveFocus(TryAutoUnlock(Loaded(b)), r)) :
          work' = [work EXCEPT ![c] = Saving(s)]
  BY DEF NextItem
<1>2. PICK l : l = Loaded(b)
  OBVIOUS
<1>3. PICK u : u = TryAutoUnlock(l)
  OBVIOUS
<1>4. PICK f : f = ResolveFocus(u, r)
  OBVIOUS
<1>5. PICK m \in PickedItem(f) : work' = [work EXCEPT ![c] = Saving(m)]
  BY <1>1, <1>2, <1>3, <1>4
<1>6. Copy(l) /\ l.items = file.items /\ catalog \in SUBSET Packs
  BY <1>2, LoadFacts, TrainingAssumption DEF IInv, TypeOK
<1>7. u \in LearnerState /\ u.items = file.items /\ SoundlyOpen(u) /\ FocusOpen(u)
  BY <1>3, <1>6, UnlockFacts DEF Copy
<1>8. f \in LearnerState /\ f.items = file.items /\ SoundlyOpen(f) /\ FocusOpen(f)
  BY <1>4, <1>7, FocusFacts
<1>9. Knows(f, file)
  BY <1>6, <1>8 DEF Copy, Knows
<1>10. CASE m = f
  <2>1. Copy(m)
    BY <1>8, <1>9, <1>10 DEF Copy
  <2>2. \A i \in Items : m.items[i].ladder <= log[i]
    BY <1>8, <1>10, Covered
  <2>3. QED
    BY <1>5, <2>1, <2>2, EntersSaving DEF NextItem
<1>11. CASE \E i \in Unseen(f) : m = Introduce(f, i)
  <2>1. PICK i \in Unseen(f) : m = Introduce(f, i)
    BY <1>11
  <2>2. i \in Items
    BY <2>1, <1>8, TrainingAssumption DEF Unseen, NewPool, LearnerState
  <2>3. /\ m \in LearnerState /\ Knows(m, f) /\ SoundlyOpen(m) /\ FocusOpen(m)
        /\ \A j \in Items : m.items[j].ladder = f.items[j].ladder
    BY <2>1, <2>2, <1>8, IntroduceFacts
  <2>4. Copy(m)
    BY <2>3, <1>8 DEF Copy, Knows
  <2>5. \A j \in Items : m.items[j].ladder <= log[j]
    BY <2>3, <1>8, Covered
  <2>6. QED
    BY <1>5, <2>4, <2>5, EntersSaving DEF NextItem
<1>12. QED
  BY <1>5, <1>10, <1>11 DEF PickedItem

(* review holds a copy whose only new stage is that of its own item.       *)
LEMMA ReviewItemKeeps ==
  ASSUME IInv, NEW c \in Clients, ReviewItem(c)
  PROVE  IInv'
<1>1. PICK b \in BOOLEAN, r \in Requests, i \in Items, v \in Verdicts :
        work' = [work EXCEPT ![c] =
                   [pc |-> "append", item |-> i,
                    mem |-> Reviewed(ResolveFocus(Loaded(b), r), i, v)]]
  BY DEF ReviewItem
<1>2. PICK l : l = Loaded(b)
  OBVIOUS
<1>3. PICK f : f = ResolveFocus(l, r)
  OBVIOUS
<1>4. PICK m : m = Reviewed(f, i, v)
  OBVIOUS
<1>5. Copy(l) /\ l.items = file.items
  BY <1>2, LoadFacts DEF IInv
<1>6. f \in LearnerState /\ f.items = file.items /\ SoundlyOpen(f) /\ FocusOpen(f)
  BY <1>3, <1>5, FocusFacts DEF Copy
<1>7. /\ m \in LearnerState /\ Knows(m, f) /\ SoundlyOpen(m) /\ FocusOpen(m)
      /\ \A j \in Items \ {i} : m.items[j].ladder = f.items[j].ladder
  BY <1>4, <1>6, ReviewFacts
<1>8. Copy(m)
  BY <1>6, <1>7 DEF Copy, Knows
<1>9. \A j \in Items \ {i} : m.items[j].ladder <= log[j]
  BY <1>6, <1>7 DEF IInv, LogCoversState
<1> DEFINE w == [pc |-> "append", item |-> i, mem |-> m]
<1>10. w \in Work /\ w.pc = "append" /\ w.item = i /\ w.mem = m
  BY <1>7 DEF Work
<1>11. work' = [work EXCEPT ![c] = w]
  BY <1>1, <1>2, <1>3, <1>4
<1> HIDE DEF w
<1>12. /\ work \in [Clients -> Work] /\ lock = None /\ lock' = c
       /\ \A d \in Clients : work[d] = Idle
  BY TrainingAssumption DEF IInv, TypeOK, OneInside, Locks, ReviewItem
<1>13. \A d \in Clients : work'[d] = IF d = c THEN w ELSE Idle
  BY <1>11, <1>12
<1>14. TypeOK'
  BY <1>10, <1>11, <1>12 DEF IInv, TypeOK, ReviewItem
<1>15. OneInside'
  BY <1>12, <1>13 DEF OneInside
<1>16. Appending'
  BY <1>8, <1>9, <1>10, <1>13 DEF Appending, Idle, Copy, Knows, ReviewItem
<1>17. SavingInv'
  BY <1>10, <1>13 DEF SavingInv, Idle
<1>18. QED
  BY <1>14, <1>15, <1>16, <1>17 DEF IInv, LogCoversState, OpenedByMastery, ReviewItem

(* Once the line is appended the log covers the whole copy.                *)
LEMMA AppendLogKeeps ==
  ASSUME IInv, NEW c \in Clients, AppendLog(c)
  PROVE  IInv'
<1>1. PICK m : m = work[c].mem
  OBVIOUS
<1>2. PICK i : i = work[c].item
  OBVIOUS
<1>3. /\ i \in Items /\ Copy(m)
      /\ \A j \in Items \ {i} : m.items[j].ladder <= log[j]
  BY <1>1, <1>2 DEF IInv, Appending, AppendLog
<1>4. PICK u : u = TryAutoUnlock(m)
  OBVIOUS
<1>5. catalog \in SUBSET Packs
  BY TrainingAssumption DEF IInv, TypeOK
<1>6. u \in LearnerState /\ u.items = m.items /\ SoundlyOpen(u) /\ FocusOpen(u)
  BY <1>3, <1>4, <1>5, UnlockFacts DEF Copy
<1>7. Copy(u)
  BY <1>3, <1>6 DEF Copy, Knows
<1>8. m.items[i].ladder \in Ladder /\ log \in [Items -> Ladder]
  BY <1>3 DEF Copy, LearnerState, Item, IInv, TypeOK
<1>9. /\ log' \in [Items -> Ladder]
      /\ \A j \in Items : log[j] <= log'[j]
      /\ m.items[i].ladder <= log'[i]
  BY <1>1, <1>2, <1>3, <1>8 DEF AppendLog, AtLeast, Ladder
<1>10. \A j \in Items : u.items[j].ladder <= log'[j]
  <2>1. m.items \in [Items -> Item]
    BY <1>3 DEF Copy, LearnerState
  <2>2. QED
    BY <1>3, <1>6, <1>8, <1>9, <2>1 DEF Item, Ladder
<1>11. /\ work \in [Clients -> Work] /\ lock = c
       /\ \A d \in Clients \ {c} : work[d] = Idle
  BY DEF IInv, TypeOK, OneInside, AppendLog, Idle
<1>12. Saving(u) \in Work /\ Saving(u).pc = "save" /\ Saving(u).mem = u
  BY <1>6 DEF Work, Saving
<1>13. work' = [work EXCEPT ![c] = Saving(u)]
  BY <1>1, <1>4 DEF AppendLog
<1>14. \A d \in Clients : work'[d] = IF d = c THEN Saving(u) ELSE Idle
  BY <1>11, <1>13
<1>15. TypeOK'
  BY <1>9, <1>11, <1>12, <1>13 DEF IInv, TypeOK, AppendLog
<1>16. OneInside'
  BY <1>11, <1>14 DEF OneInside, AppendLog
<1>17. Appending'
  BY <1>12, <1>14 DEF Appending, Idle
<1>18. SavingInv'
  BY <1>7, <1>10, <1>12, <1>14 DEF SavingInv, Idle, Copy, Knows, AppendLog
<1>19. LogCoversState'
  <2>1. file.items \in [Items -> Item]
    BY DEF IInv, TypeOK, LearnerState
  <2>2. QED
    BY <1>8, <1>9, <2>1 DEF IInv, LogCoversState, AppendLog, Item, Ladder
<1>20. QED
  BY <1>15, <1>16, <1>17, <1>18, <1>19 DEF IInv, OpenedByMastery, AppendLog

(* A call that returns leaves nobody inside.                               *)
LEMMA ReturnLeaves ==
  ASSUME IInv, NEW c \in Clients, work[c] # Idle, Return(c)
  PROVE  /\ work' = [d \in Clients |-> Idle] /\ lock' = None
         /\ UNCHANGED <<log, poisoned, catalog>>
<1>1. work \in [Clients -> Work] /\ \A d \in Clients \ {c} : work[d] = Idle
  BY DEF IInv, TypeOK, OneInside
<1>2. work' = [d \in Clients |-> IF d = c THEN Idle ELSE work[d]]
  BY <1>1 DEF Return
<1>3. \A d \in Clients : (IF d = c THEN Idle ELSE work[d]) = Idle
  BY <1>1
<1>4. QED
  BY <1>2, <1>3 DEF Return

(* With nobody inside, the file alone decides.                             *)
LEMMA NobodyInside ==
  ASSUME work' = [d \in Clients |-> Idle], lock' = None, TypeOK', LogCoversState',
         OpenedByMastery'
  PROVE  IInv'
  BY DEF IInv, OneInside, Appending, SavingInv, Idle

(* What is written was covered by the log and soundly open.                *)
LEMMA SaveStateKeeps ==
  ASSUME IInv, NEW c \in Clients, SaveState(c)
  PROVE  IInv'
<1>1. PICK m : m = work[c].mem
  OBVIOUS
<1>2. Copy(m) /\ (\A i \in Items : m.items[i].ladder <= log[i]) /\ file' = m
  BY <1>1 DEF IInv, SavingInv, SaveState
<1>3. /\ work' = [d \in Clients |-> Idle] /\ lock' = None
      /\ UNCHANGED <<log, poisoned, catalog>>
  BY ReturnLeaves DEF SaveState, Idle
<1>4. TypeOK'
  BY <1>2, <1>3 DEF IInv, TypeOK, Copy, FocusOpen, Work
<1>5. LogCoversState' /\ OpenedByMastery'
  BY <1>2, <1>3 DEF LogCoversState, OpenedByMastery, Copy, SoundlyOpen
<1>6. QED
  BY <1>3, <1>4, <1>5, NobodyInside

(* A failed write, a panic and a restart leave file and log as they are.   *)
LEMMA OtherStepsKeep ==
  ASSUME IInv, \/ \E c \in Clients : WriteFails(c) \/ ReviewPanics(c)
               \/ Restart
               \/ UNCHANGED vars
  PROVE  IInv'
<1>1. CASE \E c \in Clients : WriteFails(c)
  <2>1. /\ work' = [d \in Clients |-> Idle] /\ lock' = None
        /\ UNCHANGED <<file, log, poisoned, catalog>>
    BY <1>1, ReturnLeaves DEF WriteFails
  <2>2. TypeOK' /\ LogCoversState' /\ OpenedByMastery'
    BY <2>1 DEF IInv, TypeOK, LogCoversState, OpenedByMastery, Work
  <2>3. QED
    BY <2>1, <2>2, NobodyInside
<1>2. CASE \E c \in Clients : ReviewPanics(c)
  BY <1>2 DEF ReviewPanics, IInv, TypeOK, OneInside, Appending, SavingInv, Copy, Knows,
              LogCoversState, OpenedByMastery
<1>3. CASE Restart
  <2>1. TypeOK' /\ LogCoversState' /\ OpenedByMastery'
    BY <1>3 DEF Restart, IInv, TypeOK, LogCoversState, OpenedByMastery, Work
  <2>2. QED
    BY <1>3, <2>1, NobodyInside DEF Restart
<1>4. CASE UNCHANGED vars
  BY <1>4 DEF vars, IInv, TypeOK, OneInside, Appending, SavingInv, Copy, Knows,
              LogCoversState, OpenedByMastery
<1>5. QED
  BY <1>1, <1>2, <1>3, <1>4

(* A new learner and one saved before packs existed.                       *)
LEMMA InitHolds == Init => IInv
<1> SUFFICES ASSUME Init PROVE IInv
  OBVIOUS
<1>1. file \in LearnerState /\ \A i \in Items : file.items[i].ladder = 0
  <2>1. NewLearner \in LearnerState /\ \A i \in Items : NewLearner.items[i].ladder = 0
    BY TrainingAssumption DEF NewLearner, LearnerState, Fresh, Item, Ladder, Learn
  <2>2. ASSUME NEW known \in SUBSET Items, NEW pool \in {"d1", "d2"}
        PROVE  /\ Legacy(known, pool) \in LearnerState
               /\ \A i \in Items : Legacy(known, pool).items[i].ladder = 0
    <3> DEFINE it(i) == [introduced |-> i \in known, ladder |-> 0]
               its == [i \in Items |-> it(i)]
    <3>1. ASSUME NEW i \in Items PROVE it(i) \in Item /\ it(i).ladder = 0
      <4>1. (i \in known) \in BOOLEAN /\ 0 \in Ladder
        BY DEF Ladder
      <4>2. QED
        BY <4>1, Zenon DEF Item
    <3> HIDE DEF it
    <3>2. its \in [Items -> Item] /\ \A i \in Items : its[i].ladder = 0
      BY <3>1
    <3>3. Legacy(known, pool) =
            [items |-> its, newToday |-> 0, charPool |-> pool,
             open |-> {}, active |-> None, focus |-> PackA, target |-> Learn]
      BY Zenon DEF Legacy, it, its
    <3> HIDE DEF its
    <3>4. QED
      BY <3>2, <3>3, TrainingAssumption DEF LearnerState, Learn
  <2>3. QED
    BY <2>1, <2>2 DEF Init
<1>2. file.open \in {{}, {PackA}} /\ file.focus = PackA
  <2>1. NewLearner.open = {PackA} /\ NewLearner.focus = PackA
    BY DEF NewLearner
  <2>2. ASSUME NEW known \in SUBSET Items, NEW pool \in {"d1", "d2"}
        PROVE  Legacy(known, pool).open = {} /\ Legacy(known, pool).focus = PackA
    BY DEF Legacy
  <2>3. QED
    BY <2>1, <2>2 DEF Init
<1>3. TypeOK
  <2>1. log \in [Items -> Ladder] /\ work \in [Clients -> Work]
    BY DEF Init, Ladder, Work
  <2>2. file.open # {} => {PackA, file.focus} \subseteq file.open
    BY <1>2
  <2>3. lock \in Clients \cup {None} /\ poisoned \in BOOLEAN /\ catalog \in Catalogs
    BY DEF Init
  <2>4. QED
    BY <1>1, <2>1, <2>2, <2>3 DEF TypeOK
<1>4. LogCoversState /\ OpenedByMastery
  BY <1>1, <1>2 DEF Init, LogCoversState, OpenedByMastery
<1>5. OneInside /\ Appending /\ SavingInv
  BY DEF Init, OneInside, Appending, SavingInv, Idle
<1>6. QED
  BY <1>3, <1>4, <1>5 DEF IInv

(* Every step keeps the invariant.                                         *)
LEMMA StepKeeps == IInv /\ [Next]_vars => IInv'
  BY SessionKeeps, NextItemKeeps, ReviewItemKeeps, AppendLogKeeps, SaveStateKeeps,
     OtherStepsKeep DEF Next

(* So it holds of every reachable state.                                   *)
LEMMA Invariant == Spec => []IInv
  BY InitHolds, StepKeeps, PTL DEF Spec

(* Every reachable state of the store is well typed, and the focused pack  *)
(* of a file written since packs exist is an open one.                     *)
THEOREM TrainingTypeCorrect == Spec => []TypeOK
  BY Invariant, PTL DEF IInv

(* The review log is never behind the state file, whatever crashes, panics *)
(* and failed writes come between append_log and save_state.               *)
THEOREM LogIsAhead == Spec => []LogCoversState
  BY Invariant, PTL DEF IInv

(* A pack is open by its rule, and the rule still holds of what is saved:  *)
(* for any packs, percentages and catalogs.                                *)
THEOREM PacksOpenByMastery == Spec => []OpenedByMastery
  BY Invariant, PTL DEF IInv

(* Under the lock every save knows all that was saved before it.           *)
THEOREM NothingIsUnlearned == Spec => NothingUnlearned
<1> DEFINE Grows == \A i \in Items : /\ file.items[i].introduced => file'.items[i].introduced
                                     /\ file.items[i].ladder <= file'.items[i].ladder
<1>1. IInv /\ [Next]_vars => [Grows]_vars
  <2> SUFFICES ASSUME IInv, Next PROVE Grows
    OBVIOUS
  <2>1. ASSUME file' = file PROVE Grows
    <3>1. file.items \in [Items -> Item]
      BY DEF IInv, TypeOK, LearnerState
    <3>2. QED
      BY <2>1, <3>1 DEF Item, Ladder
  <2>2. ASSUME NEW c \in Clients, SaveState(c) PROVE Grows
    BY <2>2 DEF SaveState, IInv, SavingInv, Copy, Knows
  <2>3. QED
    BY <2>1, <2>2 DEF Next, Session, NextItem, ReviewItem, ReviewPanics, AppendLog, WriteFails, Restart
<1>2. QED
  BY <1>1, Invariant, PTL DEF Spec, NothingUnlearned

=============================================================================
