------------------------- MODULE HandleTableProofs -------------------------
(***************************************************************************)
(* Proofs about the handle table and what is built on it, for every        *)
(* number of threads, indices, generations and pins and for both tables:   *)
(*   I.   the safety properties of HandleTable;                            *)
(*   II.  HandleTable implements HandleLife;                               *)
(*   III. the walks of SerializerWalk, which hold several leases of the    *)
(*        table at a time, neither deadlock nor abort.                     *)
(***************************************************************************)
EXTENDS SerializerWalk, SequenceTheorems, TLAPS

USE TableAssumption

----------------------------------------------------------------------------
(* I. The table *)

----------------------------------------------------------------------------
(* What the reclamation of slot i does to the table *)

\* The table was emptied: every other slot was free.
Compacted(i) ==
  /\ IsMap
  /\ len' = 0
  /\ free' = << >>
  /\ slots' = [j \in Index |-> Absent]
  /\ \A j \in Index : j # i /\ j <= len =>
       slots[j].obj = "none" /\ ~slots[j].retired
  /\ floor' > slots[i].generation

\* Slot i was put on the free stack at the next generation.
Recycled(i) ==
  /\ len' = len
  /\ free' = Append(free, i)
  /\ slots' = [slots EXCEPT ![i] = EmptySlot(slots[i].generation + 1, FALSE)]
  /\ slots[i].generation < MaxGen
  /\ IsMap => floor' > slots[i].generation

\* Slot i had the last generation and is out of use for good.
Exhausted(i) ==
  /\ len' = len
  /\ free' = free
  /\ slots' = [slots EXCEPT ![i] = EmptySlot(slots[i].generation, TRUE)]

FreeEffect(i) ==
  /\ floor' \in Gen
  /\ floor' >= floor
  /\ exhausted' \in BOOLEAN
  /\ Compacted(i) \/ Recycled(i) \/ Exhausted(i)

\* finish_free on slot i has one of the three effects.
LEMMA FinishFreeEffect ==
  ASSUME TypeOK, NEW i \in Index, FinishFree(i)
  PROVE  FreeEffect(i)
<1> DEFINE g == slots[i].generation
           fr == [slots EXCEPT ![i] = FreedSlot(slots[i])]
<1>1. g \in 1 .. MaxGen /\ floor \in 1 .. MaxGen /\ exhausted \in BOOLEAN
  BY DEF TypeOK, Slot, Gen
<1>2. /\ exhausted' = (exhausted \/ (IsMap /\ g = MaxGen))
      /\ floor' = IF IsMap /\ g < MaxGen THEN MaxOf(floor, g + 1) ELSE floor
      /\ IF Compactable(fr)
           THEN /\ slots' = [j \in Index |-> Absent]
                /\ len' = 0
                /\ free' = << >>
           ELSE /\ slots' = fr
                /\ len' = len
                /\ free' = IF g < MaxGen THEN Append(free, i) ELSE free
  BY Zenon DEF FinishFree
<1>3. floor' \in Gen /\ floor' >= floor /\ exhausted' \in BOOLEAN
  BY <1>1, <1>2 DEF MaxOf, Gen
<1>4. IsMap /\ g < MaxGen => floor' > g
  BY <1>1, <1>2 DEF MaxOf
<1>5. CASE Compactable(fr)
  <2>0. ~(IsMap /\ g = MaxGen) /\ IsMap
    BY <1>2, <1>5, Zenon DEF Compactable
  <2>1. g < MaxGen
    BY <1>1, <2>0
  <2>2. \A j \in Index : j # i /\ j <= len => slots[j].obj = "none" /\ ~slots[j].retired
    BY <1>5 DEF Compactable, TypeOK
  <2>3. Compacted(i)
    BY <1>2, <1>4, <1>5, <2>1, <2>2 DEF Compacted, Compactable
  <2> QED BY <1>3, <2>3 DEF FreeEffect
<1>6. CASE ~Compactable(fr) /\ g < MaxGen
  <2>1. Recycled(i)
    BY <1>2, <1>4, <1>6 DEF Recycled, FreedSlot
  <2> QED BY <1>3, <2>1 DEF FreeEffect
<1>7. CASE ~Compactable(fr) /\ ~(g < MaxGen)
  <2>1. Exhausted(i)
    BY <1>2, <1>7 DEF Exhausted, FreedSlot
  <2> QED BY <1>3, <2>1 DEF FreeEffect
<1> QED BY <1>5, <1>6, <1>7

----------------------------------------------------------------------------
(* Types *)

TableTyped ==
  /\ slots \in [Index -> Slot]
  /\ len \in 0 .. MaxIndex
  /\ free \in Seq(Index)
  /\ floor \in Gen
  /\ exhausted \in BOOLEAN

ThreadsTyped ==
  /\ pc \in [Thread -> {"run", "asleep", "woken", "finish"}]
  /\ arg \in [Thread -> Handle]
  /\ held \in [Thread -> SUBSET Handle]
  /\ issued \in SUBSET Handle

\* The slots that alloc_slot and finish_free write are slots.
LEMMA SlotsTyped ==
  ASSUME NEW g \in Gen, NEW r \in BOOLEAN
  PROVE  NewSlot(g) \in Slot /\ EmptySlot(g, r) \in Slot
BY DEF Content, NewSlot, EmptySlot, Slot

\* So is every in-place update of a slot the entry points make.
LEMMA SlotUpdatesTyped ==
  ASSUME NEW s \in Slot
  PROVE  /\ \A t \in Thread : [s EXCEPT !.owner = t, !.leases = 1] \in Slot
         /\ [s EXCEPT !.owner = NoThread, !.leases = 0] \in Slot
         /\ \A v \in Content : [s EXCEPT !.obj = v] \in Slot
         /\ s.pins < MaxPins => [s EXCEPT !.pins = @ + 1] \in Slot
         /\ s.pins > 0 => [s EXCEPT !.pins = @ - 1] \in Slot
         /\ [s EXCEPT !.retired = TRUE] \in Slot
         /\ [s EXCEPT !.pending_free = TRUE] \in Slot
<1>1. ASSUME NEW t \in Thread PROVE [s EXCEPT !.owner = t, !.leases = 1] \in Slot
  BY DEF Slot
<1>2. [s EXCEPT !.owner = NoThread, !.leases = 0] \in Slot
  BY DEF Slot
<1>3. ASSUME NEW v \in Content PROVE [s EXCEPT !.obj = v] \in Slot
  BY DEF Slot, Content
<1>4. ASSUME s.pins < MaxPins PROVE [s EXCEPT !.pins = @ + 1] \in Slot
  BY <1>4 DEF Slot
<1>5. ASSUME s.pins > 0 PROVE [s EXCEPT !.pins = @ - 1] \in Slot
  BY <1>5 DEF Slot
<1>6. [s EXCEPT !.retired = TRUE] \in Slot
  BY DEF Slot
<1>7. [s EXCEPT !.pending_free = TRUE] \in Slot
  BY DEF Slot
<1> QED BY <1>1, <1>2, <1>3, <1>4, <1>5, <1>6, <1>7

\* Reclaiming a slot keeps the table's variables in their types.
LEMMA FreeEffectTyped ==
  ASSUME TypeOK, NEW i \in Index, FreeEffect(i)
  PROVE  TableTyped'
<1>0. slots[i].generation \in Gen /\ 1 \in Gen
  BY DEF TypeOK, Slot, Gen
<1>1. CASE Compacted(i)
  <2>1. Absent \in Slot
    BY <1>0, SlotsTyped DEF Absent
  <2>2. slots' \in [Index -> Slot]
    BY <1>1, <2>1 DEF Compacted
  <2>3. len' \in 0 .. MaxIndex
    BY <1>1 DEF Compacted
  <2>4. free' \in Seq(Index)
    BY <1>1 DEF Compacted
  <2> QED BY <2>2, <2>3, <2>4, Zenon DEF FreeEffect, TableTyped
<1>2. CASE Recycled(i)
  <2>1. slots[i].generation + 1 \in Gen
    BY <1>0, <1>2 DEF Recycled, Gen
  <2>2. EmptySlot(slots[i].generation + 1, FALSE) \in Slot
    BY <2>1, SlotsTyped
  <2>3. slots' \in [Index -> Slot]
    BY <1>2, <2>2 DEF Recycled, TypeOK
  <2>4. len' \in 0 .. MaxIndex /\ free' \in Seq(Index)
    BY <1>2 DEF Recycled, TypeOK
  <2> QED BY <2>3, <2>4, Zenon DEF FreeEffect, TableTyped
<1>3. CASE Exhausted(i)
  <2>1. EmptySlot(slots[i].generation, TRUE) \in Slot
    BY <1>0, SlotsTyped
  <2> QED BY <1>3, <2>1 DEF Exhausted, FreeEffect, TableTyped, TypeOK
<1> QED BY <1>1, <1>2, <1>3 DEF FreeEffect

\* So does the update-or-reclaim step that unpin and destroy share.
LEMMA UpdateOrFreeTyped ==
  ASSUME TypeOK, NEW i \in Index, NEW s \in Slot, NEW drained \in BOOLEAN,
         UpdateOrFree(i, s, drained)
  PROVE  TableTyped'
<1>1. CASE drained
  BY <1>1, FinishFreeEffect, FreeEffectTyped DEF UpdateOrFree
<1>2. CASE ~drained
  BY <1>2 DEF UpdateOrFree, TypeOK, TableTyped
<1> QED BY <1>1, <1>2

\* The idle argument is a handle.
LEMMA NoArgTyped == NoArg \in Handle
BY DEF NoArg, pack, Handle, Index, Gen

\* notify_all leaves every thread at a legal step.
LEMMA NotifiedTyped ==
  TypeOK => Notified \in [Thread -> {"run", "asleep", "woken", "finish"}]
BY DEF TypeOK, Notified

\* The acquire loop keeps every variable in its type.
LEMMA AcquireTyped ==
  ASSUME TypeOK, NEW t \in Thread, NEW h \in Handle, AcquireBody(t, h)
  PROVE  TypeOK'
<1>t. TableTyped /\ ThreadsTyped
  BY DEF TypeOK, TableTyped, ThreadsTyped
<1>s. \A i \in Index : slots[i] \in Slot
  BY DEF TypeOK
<1> SUFFICES TableTyped' /\ ThreadsTyped'
  BY DEF TypeOK, TableTyped, ThreadsTyped
<1>1. CASE AcquireFails(t, h)
  BY <1>t, <1>1, NoArgTyped DEF AcquireFails, table, TableTyped, ThreadsTyped
<1>2. CASE AcquireSleeps(t, h)
  BY <1>t, <1>2 DEF AcquireSleeps, table, TableTyped, ThreadsTyped
<1>3. CASE AcquireTakes(t, h)
  <2>1. slots' \in [Index -> Slot]
    BY <1>s, <1>t, <1>3, SlotUpdatesTyped DEF AcquireTakes, TableTyped, Handle
  <2> QED BY <1>t, <1>3, <2>1, NoArgTyped DEF AcquireTakes, TableTyped, ThreadsTyped
<1> QED BY <1>1, <1>2, <1>3 DEF AcquireBody

\* Every step keeps every variable in its type.
LEMMA TypeStep == TypeOK /\ [Next]_vars => TypeOK'
<1> SUFFICES ASSUME TypeOK, [Next]_vars PROVE TypeOK'
  OBVIOUS
<1> SUFFICES TableTyped' /\ ThreadsTyped'
  BY DEF TypeOK, TableTyped, ThreadsTyped
<1>t. TableTyped /\ ThreadsTyped
  BY DEF TypeOK, TableTyped, ThreadsTyped
<1>s. \A i \in Index : slots[i] \in Slot
  BY DEF TypeOK
<1>h. \A h \in issued : h \in Handle /\ h.index \in Index /\ h.gen \in Gen
  BY DEF TypeOK, Handle
<1>1. CASE AllocReuse
  <2> DEFINE i == free[Len(free)]
             g == MaxOf(slots[i].generation, floor)
  <2>1. Len(free) \in Nat /\ Len(free) > 0 /\ i \in Index
    BY <1>1 DEF AllocReuse, TypeOK
  <2>2. g \in Gen
    BY <2>1, <1>s DEF MaxOf, TypeOK, Slot, Gen
  <2>3. NewSlot(g) \in Slot
    BY <2>2, SlotsTyped
  <2>4. pack(i, g) \in Handle
    BY <2>1, <2>2 DEF pack, Handle
  <2>5. SubSeq(free, 1, Len(free) - 1) \in Seq(Index)
    BY <2>1 DEF TypeOK
  <2> HIDE DEF i, g
  <2>6. /\ slots' = [slots EXCEPT ![i] = NewSlot(g)]
        /\ issued' = issued \cup {pack(i, g)}
        /\ free' = SubSeq(free, 1, Len(free) - 1)
        /\ UNCHANGED <<len, floor, exhausted, pc, arg, held>>
    BY <1>1 DEF AllocReuse, i, g
  <2> QED BY <1>t, <2>1, <2>3, <2>4, <2>5, <2>6 DEF TableTyped, ThreadsTyped
<1>2. CASE AllocFresh
  <2>1. len + 1 \in Index /\ floor \in Gen
    BY <1>2 DEF AllocFresh, TypeOK, Index
  <2>2. NewSlot(floor) \in Slot /\ pack(len + 1, floor) \in Handle
    BY <2>1, SlotsTyped DEF pack, Handle
  <2> QED BY <1>2, <1>t, <2>1, <2>2 DEF AllocFresh, TableTyped, ThreadsTyped, Index
<1>3. ASSUME NEW t \in Thread, NEW h \in Handle, AcquireBody(t, h)
      PROVE  TableTyped' /\ ThreadsTyped'
  BY <1>3, AcquireTyped DEF TypeOK, TableTyped, ThreadsTyped
<1>4. ASSUME NEW t \in Thread, NEW h \in issued, UseLease(t, h)
      PROVE  TableTyped' /\ ThreadsTyped'
  <2>0. PICK v \in Content : slots' = [slots EXCEPT ![h.index] = [@ EXCEPT !.obj = v]]
    BY <1>4 DEF UseLease, Content
  <2>1. slots' \in [Index -> Slot]
    BY <1>h, <1>s, <1>t, <2>0, SlotUpdatesTyped DEF TableTyped
  <2> QED BY <1>4, <1>t, <2>1 DEF UseLease, TableTyped, ThreadsTyped
<1>5. ASSUME NEW t \in Thread, NEW h \in issued, Release(t, h)
      PROVE  TableTyped' /\ ThreadsTyped'
  <2> DEFINE s == [slots[h.index] EXCEPT !.owner = NoThread, !.leases = 0]
  <2>1. s \in Slot
    BY <1>h, <1>s, SlotUpdatesTyped
  <2>2. (s.pins = 0 /\ s.pending_free) \in BOOLEAN
    OBVIOUS
  <2>3. TableTyped'
    BY <1>5, <1>h, <1>t, <2>1, <2>2, UpdateOrFreeTyped DEF Release, table, TableTyped
  <2>4. ThreadsTyped'
    BY <1>5, <1>t, NotifiedTyped DEF Release, table, ThreadsTyped
  <2> QED BY <2>3, <2>4
<1>6. ASSUME NEW t \in Thread, NEW h \in issued, Pin(t, h)
      PROVE  TableTyped' /\ ThreadsTyped'
  <2>0. [slots[h.index] EXCEPT !.pins = @ + 1] \in Slot
    BY <1>6, <1>h, <1>s, SlotUpdatesTyped DEF Pin
  <2>a. slots' = [slots EXCEPT ![h.index] = [slots[h.index] EXCEPT !.pins = @ + 1]]
    BY <1>6, <1>h, <1>t DEF Pin, TableTyped
  <2>1. slots' \in [Index -> Slot]
    BY <1>h, <1>t, <2>0, <2>a DEF TableTyped
  <2> QED BY <1>6, <1>t, <2>1 DEF Pin, TableTyped, ThreadsTyped
<1>7. ASSUME NEW t \in Thread, NEW h \in issued, Unpin(t, h)
      PROVE  TableTyped' /\ ThreadsTyped'
  <2> DEFINE s == [slots[h.index] EXCEPT !.pins = @ - 1]
  <2>1. s \in Slot
    BY <1>7, <1>h, <1>s, SlotUpdatesTyped DEF Unpin
  <2>2. (s.pins + s.leases = 0 /\ s.pending_free) \in BOOLEAN
    OBVIOUS
  <2>3. TableTyped'
    BY <1>7, <1>h, <2>1, <2>2, UpdateOrFreeTyped DEF Unpin
  <2> QED BY <1>7, <1>t, <2>3, NotifiedTyped DEF Unpin, ThreadsTyped
<1>8. ASSUME NEW h \in issued, Retire(h)
      PROVE  TableTyped'
  BY <1>8, <1>h, <1>s, <1>t, SlotUpdatesTyped DEF Retire, TableTyped
<1>9. ASSUME NEW h \in Handle, FinishBody(h)
      PROVE  TableTyped'
  <2> DEFINE s == [slots[h.index] EXCEPT !.retired = TRUE]
             idle == s.leases = 0 /\ s.pins = 0
             u == IF idle THEN s ELSE [s EXCEPT !.pending_free = TRUE]
  <2>1. h.index \in Index
    BY DEF Handle
  <2>2. s \in Slot /\ [s EXCEPT !.pending_free = TRUE] \in Slot
    BY <2>1, <1>s, SlotUpdatesTyped
  <2>3. u \in Slot /\ idle \in BOOLEAN
    BY <2>2
  <2>4. CASE Live(h)
    <3>1. UpdateOrFree(h.index, u, idle)
      BY <1>9, <2>4 DEF FinishBody
    <3> QED BY <2>1, <2>3, <3>1, UpdateOrFreeTyped
  <2>5. CASE ~Live(h)
    BY <1>9, <1>t, <2>5 DEF FinishBody, table, TableTyped
  <2> QED BY <2>4, <2>5
<1>10. ASSUME NEW t \in Thread, NEW h \in issued,
              BeginDestroy(t, h) \/ Destroy(t, h) \/ FinishDestroy(t, h)
       PROVE  TableTyped' /\ ThreadsTyped'
  <2>1. TableTyped'
    BY <1>8, <1>9, <1>10, <1>h DEF BeginDestroy, Destroy, FinishDestroy
  <2>2. ThreadsTyped'
    BY <1>10, <1>h, <1>t, NotifiedTyped
       DEF BeginDestroy, Destroy, FinishDestroy, ThreadsTyped
  <2> QED BY <2>1, <2>2
<1>11. ASSUME NEW t \in Thread, DestroyFinish(t)
       PROVE  TableTyped' /\ ThreadsTyped'
  <2>1. arg[t] \in Handle
    BY DEF TypeOK
  <2> QED BY <1>9, <1>11, <1>t, <2>1, NotifiedTyped, NoArgTyped
          DEF DestroyFinish, ThreadsTyped
<1>12. ASSUME NEW t \in Thread, SpuriousWake(t)
       PROVE  TableTyped' /\ ThreadsTyped'
  BY <1>12, <1>t DEF SpuriousWake, table, TableTyped, ThreadsTyped
<1>13. ASSUME NEW t \in Thread, ThreadStep(t)
       PROVE  TableTyped' /\ ThreadsTyped'
  <2>1. arg[t] \in Handle
    BY DEF TypeOK
  <2> QED BY <1>3, <1>4, <1>5, <1>6, <1>7, <1>10, <1>11, <1>12, <1>13, <1>h, <2>1
          DEF ThreadStep, LeaseStep, CallStep, Acquire, Reacquire
<1>14. ASSUME NEW h \in issued, MapRootWrite(h)
       PROVE  TableTyped' /\ ThreadsTyped'
  <2>0. PICK v \in Content : slots' = [slots EXCEPT ![h.index] = [@ EXCEPT !.obj = v]]
    BY <1>14 DEF MapRootWrite, Content
  <2>1. slots' \in [Index -> Slot]
    BY <1>h, <1>s, <1>t, <2>0, SlotUpdatesTyped DEF TableTyped
  <2> QED BY <1>14, <1>t, <2>1 DEF MapRootWrite, TableTyped, ThreadsTyped
<1>15. ASSUME NEW h \in issued, MapRootDrop(h)
       PROVE  TableTyped' /\ ThreadsTyped'
  BY <1>15, <1>h, <1>t, FinishFreeEffect, FreeEffectTyped DEF MapRootDrop, ThreadsTyped
<1>16. CASE UNCHANGED vars
  BY <1>16, <1>t DEF vars, TableTyped, ThreadsTyped
<1> QED BY <1>1, <1>2, <1>13, <1>14, <1>15, <1>16 DEF Next

\* The empty table has its type.
LEMMA TypeInit == Init => TypeOK
<1> SUFFICES ASSUME Init PROVE TypeOK
  OBVIOUS
<1>1. 1 \in Gen /\ 1 \in Index
  BY DEF Gen, Index
<1>2. Absent \in Slot /\ NoArg \in Handle
  BY <1>1, SlotsTyped, NoArgTyped DEF Absent
<1>3. slots \in [Index -> Slot]
  BY <1>2 DEF Init
<1>4. len \in 0 .. MaxIndex /\ floor \in Gen
  BY <1>1 DEF Init
<1>7. exhausted \in BOOLEAN
  BY Zenon DEF Init
<1>6. free \in Seq(Index)
  BY DEF Init
<1>5. /\ pc \in [Thread -> {"run", "asleep", "woken", "finish"}]
      /\ arg \in [Thread -> Handle]
      /\ held \in [Thread -> SUBSET Handle]
      /\ issued \in SUBSET Handle
  BY <1>2 DEF Init
<1> QED BY <1>3, <1>4, <1>5, <1>6, <1>7, Zenon DEF TypeOK

\* Types hold in every reachable state of both tables.
THEOREM TypeCorrect == Spec => []TypeOK
BY TypeInit, TypeStep, PTL DEF Spec

----------------------------------------------------------------------------
(* The inductive invariant *)

\* Nothing is stored beyond the end of the slot vector.
TailAbsent == \A i \in Index : i > len => slots[i] = Absent

\* A Map's generations stay below the floor that survives compaction.
FloorBound == IsMap => \A i \in Index : i <= len => slots[i].generation <= floor

\* Why a handle that names no object can never name one again: its slot has
\* moved on to a later generation, or is out of use for good, or was compacted
\* away under a floor above the handle's generation.
Buried(h) ==
  IF h.index <= len
    THEN \/ slots[h.index].generation > h.gen
         \/ slots[h.index].retired /\ slots[h.index].obj = "none"
    ELSE IsMap /\ h.gen < floor

IssuedLiveOrBuried == \A h \in issued : Live(h) \/ Buried(h)

\* A slot without an object has no pins.
PinsNeedObject == \A i \in Index : slots[i].pins > 0 => slots[i].obj # "none"

TableInv ==
  /\ TailAbsent
  /\ FreeStackExact
  /\ FloorBound
  /\ DeferredFreeHasHolder
  /\ PinsNeedObject
ThreadInv == LeaseKeepsObject /\ OwnerHoldsGuard /\ SleepersHaveReason
IInv == TypeOK /\ TableInv /\ ThreadInv /\ IssuedLiveOrBuried

----------------------------------------------------------------------------
(* Updating an occupied slot in place *)

Touched(i, s) ==
  /\ i <= len
  /\ slots[i].obj # "none"
  /\ s.obj # "none"
  /\ s.generation = slots[i].generation
  /\ slots' = [slots EXCEPT ![i] = s]
  /\ UNCHANGED <<len, free, floor>>

\* An in-place update keeps the table's invariant, if a deferred
\* reclamation it leaves has a holder.
LEMMA TouchedTable ==
  ASSUME TypeOK, TableInv, NEW i \in Index, NEW s \in Slot, Touched(i, s),
         s.pending_free => s.retired /\ (s.leases = 1 \/ s.pins > 0)
  PROVE  TableInv'
<1>1. \A j \in Index : slots'[j] = IF j = i THEN s ELSE slots[j]
  BY DEF Touched, TypeOK
<1>2. len' = len /\ free' = free /\ floor' = floor
  BY DEF Touched
<1>0. \A j \in Index : j > len => j # i
  BY DEF Touched, TypeOK, Index
<1>3. TailAbsent'
  BY <1>0, <1>1, <1>2 DEF TableInv, TailAbsent
<1>4. FreeStackExact'
  BY <1>1, <1>2 DEF TableInv, FreeStackExact, Touched
<1>5. FloorBound'
  BY <1>1, <1>2 DEF TableInv, FloorBound, Touched
<1>6. DeferredFreeHasHolder' /\ PinsNeedObject'
  BY <1>1 DEF TableInv, DeferredFreeHasHolder, PinsNeedObject, Touched
<1> QED BY <1>3, <1>4, <1>5, <1>6 DEF TableInv

\* An in-place update changes neither which handles are live nor which are
\* buried.
LEMMA TouchedIssued ==
  ASSUME TypeOK, NEW i \in Index, NEW s \in Slot, Touched(i, s),
         NEW h \in Handle
  PROVE  /\ Live(h)' <=> Live(h)
         /\ Buried(h) => Buried(h)'
BY DEF Touched, TypeOK, Handle, Live, Matches, InTable, Buried

\* An in-place update that leaves owner and leases alone keeps every guard.
LEMMA TouchedThreads ==
  ASSUME TypeOK, ThreadInv, NEW i \in Index, NEW s \in Slot, Touched(i, s),
         s.owner = slots[i].owner, s.leases = slots[i].leases,
         held' = held
  PROVE  LeaseKeepsObject' /\ OwnerHoldsGuard'
<1>1. \A j \in Index : slots'[j] = IF j = i THEN s ELSE slots[j]
  BY DEF Touched, TypeOK
<1>2. len' = len
  BY DEF Touched
<1>3. LeaseKeepsObject'
  BY <1>1, <1>2 DEF ThreadInv, LeaseKeepsObject, TypeOK, Handle, Live, Matches, InTable, Touched
<1>4. OwnerHoldsGuard'
  BY <1>1, <1>2 DEF ThreadInv, OwnerHoldsGuard, Touched
<1> QED BY <1>3, <1>4

----------------------------------------------------------------------------
(* Reclaiming an occupied slot *)

\* Each of the three ways to reclaim a slot keeps the table's invariant: the
\* free stack stays exact and the floor stays above the generations.
LEMMA FreedTable ==
  ASSUME TypeOK, TypeOK', TableInv, NEW i \in Index, i <= len,
         slots[i].obj # "none", FreeEffect(i)
  PROVE  TableInv'
<1>0. \A j \in Index : j > len => j # i
  BY DEF TypeOK, Index
<1>1. CASE Compacted(i)
  <2>1. \A j \in Index : slots'[j] = Absent
    BY <1>1 DEF Compacted
  <2>2. len' = 0 /\ Len(free') = 0
    BY <1>1 DEF Compacted
  <2>3. TailAbsent' /\ FloorBound'
    BY <2>1, <2>2 DEF TailAbsent, FloorBound, Index
  <2>4. FreeStackExact'
    BY <2>2 DEF FreeStackExact, Index
  <2>5. DeferredFreeHasHolder' /\ PinsNeedObject'
    BY <2>1 DEF DeferredFreeHasHolder, PinsNeedObject, Absent, EmptySlot
  <2> QED BY <2>3, <2>4, <2>5 DEF TableInv
<1>2. CASE Recycled(i)
  <2> DEFINE e == EmptySlot(slots[i].generation + 1, FALSE)
  <2>1. \A j \in Index : slots'[j] = IF j = i THEN e ELSE slots[j]
    BY <1>2 DEF Recycled, TypeOK
  <2>2. len' = len /\ free' = Append(free, i) /\ floor' >= floor
    BY <1>2 DEF Recycled, FreeEffect
  <2>3. TailAbsent'
    BY <1>0, <2>1, <2>2 DEF TableInv, TailAbsent
  <2>4. FloorBound'
    BY <1>2, <2>1, <2>2 DEF TableInv, FloorBound, Recycled, EmptySlot, TypeOK, Slot, Gen
  <2>5. DeferredFreeHasHolder' /\ PinsNeedObject'
    BY <2>1 DEF TableInv, DeferredFreeHasHolder, PinsNeedObject, EmptySlot
  <2>6. /\ Len(free') = Len(free) + 1
        /\ \A n \in 1 .. Len(free) : free'[n] = free[n]
        /\ free'[Len(free) + 1] = i
        /\ Len(free) \in Nat
    BY <2>2 DEF TypeOK
  <2>7. \A n \in 1 .. Len(free) : free[n] # i
    BY DEF TableInv, FreeStackExact
  <2>8. \A m, n \in 1 .. Len(free') : free'[m] = free'[n] => m = n
    BY <2>6, <2>7 DEF TableInv, FreeStackExact
  <2>9. ASSUME NEW j \in Index
        PROVE  (\E n \in 1 .. Len(free') : free'[n] = j)
                 <=> (j <= len' /\ slots'[j].obj = "none" /\ ~slots'[j].retired)
    <3>1. CASE j = i
      BY <2>1, <2>2, <2>6, <3>1 DEF EmptySlot
    <3>2. CASE j # i
      <4>1. (\E n \in 1 .. Len(free') : free'[n] = j)
              <=> (\E n \in 1 .. Len(free) : free[n] = j)
        BY <2>6, <3>2
      <4> QED BY <2>1, <2>2, <3>2, <4>1 DEF TableInv, FreeStackExact
    <3> QED BY <3>1, <3>2
  <2>10. FreeStackExact'
    BY <2>8, <2>9 DEF FreeStackExact
  <2> QED BY <2>3, <2>4, <2>5, <2>10 DEF TableInv
<1>3. CASE Exhausted(i)
  <2> DEFINE e == EmptySlot(slots[i].generation, TRUE)
  <2>1. \A j \in Index : slots'[j] = IF j = i THEN e ELSE slots[j]
    BY <1>3 DEF Exhausted, TypeOK
  <2>2. len' = len /\ free' = free /\ floor' >= floor
    BY <1>3 DEF Exhausted, FreeEffect
  <2>3. TailAbsent'
    BY <1>0, <2>1, <2>2 DEF TableInv, TailAbsent
  <2>a. e.generation = slots[i].generation
    BY DEF EmptySlot
  <2>4. FloorBound'
    <3> SUFFICES ASSUME IsMap, NEW j \in Index, j <= len PROVE slots'[j].generation <= floor'
      BY <2>2 DEF FloorBound
    <3>1. slots'[j].generation = slots[j].generation
      BY <2>1, <2>a
    <3>2. slots[j].generation <= floor /\ slots[j].generation \in Gen /\ floor \in Gen /\ floor' \in Gen
      BY DEF TableInv, FloorBound, TypeOK, Slot
    <3> QED BY <2>2, <3>1, <3>2 DEF Gen
  <2>5. DeferredFreeHasHolder' /\ PinsNeedObject'
    BY <2>1 DEF TableInv, DeferredFreeHasHolder, PinsNeedObject, EmptySlot
  <2>6. FreeStackExact'
    BY <2>1, <2>2 DEF TableInv, FreeStackExact, EmptySlot
  <2> QED BY <2>3, <2>4, <2>5, <2>6 DEF TableInv
<1> QED BY <1>1, <1>2, <1>3 DEF FreeEffect

\* Reclaiming buries the handles it kills and digs up none.
LEMMA FreedIssued ==
  ASSUME TypeOK, TypeOK', TableInv, NEW i \in Index, i <= len,
         slots[i].obj # "none", FreeEffect(i), NEW h \in Handle,
         Live(h) \/ Buried(h)
  PROVE  /\ ~Live(h) => Buried(h)'
         /\ Live(h)' \/ Buried(h)'
<1>0. h.index \in Index /\ h.gen \in Gen /\ slots[h.index].generation \in Gen
  BY DEF Handle, TypeOK, Slot
<1>1. CASE Compacted(i)
  <2>1. h.index <= len => slots[h.index].generation <= floor
    BY <1>0, <1>1 DEF TableInv, FloorBound, Compacted
  <2>2. h.gen < floor'
    BY <1>0, <1>1, <2>1 DEF Compacted, FreeEffect, Live, Buried, Matches, InTable, TypeOK, Gen
  <2>3. Buried(h)'
    BY <1>0, <1>1, <2>2 DEF Compacted, Buried, Index
  <2> QED BY <2>3
<1>2. CASE Recycled(i)
  BY <1>0, <1>2 DEF Recycled, FreeEffect, Live, Buried, Matches, InTable, TypeOK, Gen, Slot, EmptySlot
<1>3. CASE Exhausted(i)
  BY <1>0, <1>3 DEF Exhausted, FreeEffect, Live, Buried, Matches, InTable, TypeOK, Gen, Slot, EmptySlot
<1> QED BY <1>1, <1>2, <1>3 DEF FreeEffect

\* Reclaiming a slot that nobody holds keeps every other guard.
LEMMA FreedThreads ==
  ASSUME TypeOK, TypeOK', ThreadInv, NEW i \in Index, i <= len, FreeEffect(i),
         \A u \in Thread : \A h \in held'[u] : h \in held[u] /\ h.index # i,
         \A u \in Thread : \A h \in held[u] : h.index # i => h \in held'[u]
  PROVE  LeaseKeepsObject' /\ OwnerHoldsGuard'
<1>h. \A u \in Thread : \A h \in held[u] : h \in Handle /\ h.index \in Index
  BY DEF TypeOK, Handle
<1>1. CASE Compacted(i)
  <2>1. \A j \in Index : slots'[j] = Absent
    BY <1>1 DEF Compacted
  <2>2. \A u \in Thread : held'[u] = {}
    BY <1>1, <1>h DEF Compacted, ThreadInv, LeaseKeepsObject, Live, Matches, InTable
  <2> QED BY <2>1, <2>2 DEF LeaseKeepsObject, OwnerHoldsGuard, Absent, EmptySlot
<1>2. CASE Recycled(i) \/ Exhausted(i)
  <2>1. PICK e : e.owner = NoThread /\ slots' = [slots EXCEPT ![i] = e]
    BY <1>2 DEF Recycled, Exhausted, EmptySlot
  <2>2. \A j \in Index : slots'[j] = IF j = i THEN e ELSE slots[j]
    BY <2>1 DEF TypeOK
  <2>3. len' = len
    BY <1>2 DEF Recycled, Exhausted
  <2>4. LeaseKeepsObject'
    BY <1>h, <2>2, <2>3 DEF ThreadInv, LeaseKeepsObject, Live, Matches, InTable
  <2>5. OwnerHoldsGuard'
    BY <2>1, <2>2, <2>3 DEF ThreadInv, OwnerHoldsGuard, pack, TypeOK, Slot
  <2> QED BY <2>4, <2>5
<1> QED BY <1>1, <1>2 DEF FreeEffect

----------------------------------------------------------------------------
(* Every step keeps the invariant *)

\* What a step does for an issued handle: a dead one is buried, and every one
\* is live or buried afterwards.
Kept(h) ==
  /\ ~Live(h) => Buried(h)'
  /\ Live(h)' \/ Buried(h)'

Preserved ==
  /\ TableInv'
  /\ ThreadInv'
  /\ \A h \in issued : Kept(h)

\* A step that leaves the table alone keeps its invariant.
LEMMA UnchangedTableKeeps ==
  ASSUME IInv, UNCHANGED table
  PROVE  TableInv' /\ \A h \in issued : Kept(h)
BY DEF IInv, table, TableInv, TailAbsent, FreeStackExact, FloorBound,
       DeferredFreeHasHolder, PinsNeedObject, IssuedLiveOrBuried, Kept, Live, Matches, InTable, Buried

\* Unpin and finish_destroy: the slot is updated, or reclaimed when no lease
\* and no pin is left.
LEMMA UpdateOrFreeKeeps ==
  ASSUME IInv, TypeOK', NEW i \in Index, i <= len, slots[i].obj # "none",
         NEW s \in Slot, NEW drained \in BOOLEAN, UpdateOrFree(i, s, drained),
         s.obj # "none", s.generation = slots[i].generation,
         s.owner = slots[i].owner, s.leases = slots[i].leases,
         drained => s.leases = 0,
         ~drained /\ s.pending_free => s.retired /\ (s.leases = 1 \/ s.pins > 0),
         held' = held
  PROVE  /\ TableInv' /\ LeaseKeepsObject' /\ OwnerHoldsGuard'
         /\ \A h \in issued : Kept(h)
<1>h. \A h \in issued : h \in Handle /\ (Live(h) \/ Buried(h))
  BY DEF IInv, TypeOK, IssuedLiveOrBuried
<1>1. CASE drained
  <2>1. FreeEffect(i)
    BY <1>1, FinishFreeEffect DEF UpdateOrFree, IInv
  <2>2. TableInv'
    BY <2>1, FreedTable DEF IInv
  <2>3. \A u \in Thread : \A h \in held[u] : h.index # i
    BY <1>1 DEF IInv, ThreadInv, LeaseKeepsObject
  <2>4. LeaseKeepsObject' /\ OwnerHoldsGuard'
    BY <2>1, <2>3, FreedThreads DEF IInv
  <2>5. \A h \in issued : Kept(h)
    BY <1>h, <2>1, FreedIssued DEF IInv, Kept
  <2> QED BY <2>2, <2>4, <2>5
<1>2. CASE ~drained
  <2>1. Touched(i, s)
    BY <1>2 DEF UpdateOrFree, Touched
  <2>2. TableInv'
    BY <1>2, <2>1, TouchedTable DEF IInv
  <2>3. LeaseKeepsObject' /\ OwnerHoldsGuard'
    BY <2>1, TouchedThreads DEF IInv
  <2>4. \A h \in issued : Kept(h)
    BY <1>h, <2>1, TouchedIssued DEF IInv, Kept
  <2> QED BY <2>2, <2>3, <2>4
<1> QED BY <1>1, <1>2

\* notify_all leaves nobody asleep.
LEMMA NotifiedWakesAll ==
  ASSUME TypeOK, NEW t \in Thread
  PROVE  Notified[t] # "asleep"
BY DEF TypeOK, Notified

\* An update that touches neither owner nor lease of an occupied slot.
LEMMA TouchKeeps ==
  ASSUME IInv, NEW i \in Index, NEW s \in Slot, Touched(i, s),
         s.owner = slots[i].owner, s.leases = slots[i].leases,
         s.pending_free => s.retired /\ (s.leases = 1 \/ s.pins > 0),
         held' = held
  PROVE  /\ TableInv' /\ LeaseKeepsObject' /\ OwnerHoldsGuard'
         /\ \A h \in issued : Kept(h)
<1>h. \A h \in issued : h \in Handle /\ (Live(h) \/ Buried(h))
  BY DEF IInv, TypeOK, IssuedLiveOrBuried
<1>1. TableInv'
  BY TouchedTable DEF IInv
<1>2. LeaseKeepsObject' /\ OwnerHoldsGuard'
  BY TouchedThreads DEF IInv
<1>3. \A h \in issued : Kept(h)
  BY <1>h, TouchedIssued DEF IInv, Kept
<1> QED BY <1>1, <1>2, <1>3

\* Allocating from the free stack: the new generation is above every handle
\* that was issued for the slot before.
LEMMA AllocReuseKeeps ==
  ASSUME IInv, TypeOK', AllocReuse
  PROVE  Preserved /\ \A h \in issued' : Live(h)' \/ Buried(h)'
<1> DEFINE i == free[Len(free)]
           g == MaxOf(slots[i].generation, floor)
<1>0. TypeOK /\ TableInv /\ ThreadInv /\ IssuedLiveOrBuried
  BY DEF IInv
<1>1. Len(free) \in Nat /\ Len(free) > 0 /\ i \in Index
  BY <1>0 DEF AllocReuse, TypeOK
<1>2. i <= len /\ slots[i].obj = "none" /\ ~slots[i].retired
  BY <1>0, <1>1 DEF TableInv, FreeStackExact
<1>3. g \in Gen /\ g >= slots[i].generation /\ (IsMap => g <= floor)
  BY <1>0, <1>1, <1>2 DEF MaxOf, TypeOK, Slot, Gen, TableInv, FloorBound
<1>4. /\ slots' = [slots EXCEPT ![i] = NewSlot(g)]
      /\ issued' = issued \cup {pack(i, g)}
      /\ free' = SubSeq(free, 1, Len(free) - 1)
      /\ UNCHANGED <<len, floor, exhausted, pc, arg, held>>
  BY DEF AllocReuse
<1> HIDE DEF g
<1>5. \A j \in Index : slots'[j] = IF j = i THEN NewSlot(g) ELSE slots[j]
  BY <1>0, <1>1, <1>4 DEF TypeOK
<1>6. TailAbsent'
  <2>1. \A j \in Index : j > len => j # i
    BY <1>0, <1>1, <1>2 DEF TypeOK, Index
  <2> QED BY <1>0, <1>4, <1>5, <2>1 DEF TableInv, TailAbsent
<1>7. FloorBound'
  BY <1>0, <1>3, <1>4, <1>5 DEF TableInv, FloorBound, NewSlot
<1>8. DeferredFreeHasHolder' /\ PinsNeedObject'
  BY <1>0, <1>5 DEF TableInv, DeferredFreeHasHolder, PinsNeedObject, NewSlot
<1>9. FreeStackExact'
  <2>a. free \in Seq(Index) /\ Len(free) \in Nat /\ Len(free) - 1 \in Nat
    BY <1>0, <1>1 DEF TypeOK
  <2>d. \A n \in 1 .. Len(free) - 1 : free[n] \in Index
    BY <2>a
  <2>e. /\ 1 \in Int /\ Len(free) - 1 \in Int
        /\ Len(SubSeq(free, 1, Len(free) - 1))
             = IF 1 <= Len(free) - 1 THEN (Len(free) - 1) - 1 + 1 ELSE 0
    BY <2>a, <2>d, SubSeqProperties
  <2>f. Len(free') = Len(SubSeq(free, 1, Len(free) - 1))
    BY <1>4, Zenon
  <2>b. Len(free') = Len(free) - 1
    <3> DEFINE n == Len(free)
               k == Len(SubSeq(free, 1, Len(free) - 1))
    <3>1. n - 1 \in Nat /\ k = IF 1 <= n - 1 THEN (n - 1) - 1 + 1 ELSE 0
      BY <2>a, <2>e
    <3> HIDE DEF k, n
    <3>2. n \in Nat
      BY <2>a DEF n
    <3>3. k = n - 1
      BY <3>1, <3>2
    <3> QED BY <2>f, <3>3 DEF k, n
  <2>c. ASSUME NEW n \in 1 .. Len(free') PROVE free'[n] = free[n]
    BY <1>4, <2>a, <2>b
  <2>1. /\ Len(free') = Len(free) - 1
        /\ \A n \in 1 .. Len(free') : free'[n] = free[n]
    BY <2>b, <2>c
  <2>2. \A m, n \in 1 .. Len(free') : free'[m] = free'[n] => m = n
    BY <1>0, <1>1, <2>1 DEF TableInv, FreeStackExact
  <2>3. \A n \in 1 .. Len(free') : free'[n] # i
    BY <1>0, <1>1, <2>1 DEF TableInv, FreeStackExact
  <2>4. ASSUME NEW j \in Index
        PROVE  (\E n \in 1 .. Len(free') : free'[n] = j)
                 <=> (j <= len' /\ slots'[j].obj = "none" /\ ~slots'[j].retired)
    <3>1. CASE j = i
      BY <1>5, <2>3, <3>1 DEF NewSlot
    <3>2. CASE j # i
      <4>1. (\E n \in 1 .. Len(free') : free'[n] = j)
              <=> (\E n \in 1 .. Len(free) : free[n] = j)
        BY <1>1, <2>1, <3>2
      <4> QED BY <1>0, <1>4, <1>5, <3>2, <4>1 DEF TableInv, FreeStackExact
    <3> QED BY <3>1, <3>2
  <2> QED BY <2>2, <2>4 DEF FreeStackExact
<1>10. LeaseKeepsObject'
  BY <1>0, <1>2, <1>4, <1>5
     DEF ThreadInv, LeaseKeepsObject, TypeOK, Handle, Live, Matches, InTable
<1>11. OwnerHoldsGuard'
  BY <1>0, <1>4, <1>5 DEF ThreadInv, OwnerHoldsGuard, NewSlot
<1>12. SleepersHaveReason'
  BY <1>0, <1>2, <1>4, <1>5
     DEF ThreadInv, SleepersHaveReason, TypeOK, Handle, Usable, Live, Matches, InTable
<1>13. ASSUME NEW h \in issued PROVE Kept(h)
  <2>1. h \in Handle /\ h.index \in Index /\ h.gen \in Gen /\ slots[h.index].generation \in Gen
    BY <1>0 DEF TypeOK, Handle, Slot
  <2>2. CASE h.index = i
    BY <1>0, <1>1, <1>2, <1>3, <1>4, <1>5, <2>1, <2>2
       DEF IssuedLiveOrBuried, Kept, Live, Matches, InTable, Buried, NewSlot, Gen
  <2>3. CASE h.index # i
    BY <1>0, <1>4, <1>5, <2>1, <2>3
       DEF IssuedLiveOrBuried, Kept, Live, Matches, InTable, Buried
  <2> QED BY <2>2, <2>3
<1>14. ASSUME NEW h, h = pack(i, g) PROVE Live(h)'
  BY <1>1, <1>2, <1>4, <1>5, <1>14 DEF Live, Matches, InTable, pack, NewSlot
<1> QED BY <1>4, <1>6, <1>7, <1>8, <1>9, <1>10, <1>11, <1>12, <1>13, <1>14
        DEF Preserved, TableInv, ThreadInv, Kept

\* Allocating at the end of the table: after a compaction the floor is above
\* every handle issued for the index.
LEMMA AllocFreshKeeps ==
  ASSUME IInv, TypeOK', AllocFresh
  PROVE  Preserved /\ \A h \in issued' : Live(h)' \/ Buried(h)'
<1> DEFINE i == len + 1
<1>0. TypeOK /\ TableInv /\ ThreadInv /\ IssuedLiveOrBuried
  BY DEF IInv
<1>1. i \in Index /\ len' = i /\ len \in Nat /\ floor \in Gen
  BY <1>0 DEF AllocFresh, TypeOK, Index
<1>2. /\ slots' = [slots EXCEPT ![i] = NewSlot(floor)]
      /\ issued' = issued \cup {pack(i, floor)}
      /\ UNCHANGED <<free, floor, exhausted, pc, arg, held>>
      /\ free = << >>
  BY DEF AllocFresh
<1>3. \A j \in Index : slots'[j] = IF j = i THEN NewSlot(floor) ELSE slots[j]
  BY <1>0, <1>1, <1>2 DEF TypeOK
<1>4. \A j \in Index : (j <= len' <=> (j <= len \/ j = i)) /\ (j <= len => j # i)
  BY <1>1 DEF Index
<1>5. TailAbsent'
  BY <1>0, <1>1, <1>3, <1>4 DEF TableInv, TailAbsent, Index
<1>6. FloorBound'
  BY <1>0, <1>1, <1>2, <1>3, <1>4 DEF TableInv, FloorBound, NewSlot, Gen
<1>7. DeferredFreeHasHolder' /\ PinsNeedObject'
  BY <1>0, <1>3 DEF TableInv, DeferredFreeHasHolder, PinsNeedObject, NewSlot
<1>8. FreeStackExact'
  BY <1>0, <1>2, <1>3, <1>4 DEF TableInv, FreeStackExact, NewSlot
<1>9. LeaseKeepsObject'
  BY <1>0, <1>2, <1>3, <1>4
     DEF ThreadInv, LeaseKeepsObject, TypeOK, Handle, Live, Matches, InTable
<1>10. OwnerHoldsGuard'
  BY <1>0, <1>2, <1>3, <1>4 DEF ThreadInv, OwnerHoldsGuard, NewSlot
<1>11. SleepersHaveReason'
  BY <1>0, <1>2, <1>3, <1>4
     DEF ThreadInv, SleepersHaveReason, TypeOK, Handle, Usable, Live, Matches, InTable
<1>12. ASSUME NEW h \in issued PROVE Kept(h)
  <2>1. h \in Handle /\ h.index \in Index /\ h.gen \in Gen
    BY <1>0 DEF TypeOK, Handle
  <2>2. CASE h.index = i
    BY <1>0, <1>1, <1>2, <1>3, <1>4, <2>1, <2>2
       DEF IssuedLiveOrBuried, Kept, Live, Matches, InTable, Buried, NewSlot, Gen
  <2>3. CASE h.index # i
    BY <1>0, <1>2, <1>3, <1>4, <2>1, <2>3
       DEF IssuedLiveOrBuried, Kept, Live, Matches, InTable, Buried
  <2> QED BY <2>2, <2>3
<1>13. ASSUME NEW h, h = pack(i, floor) PROVE Live(h)'
  BY <1>1, <1>3, <1>4, <1>13 DEF Live, Matches, InTable, pack, NewSlot
<1> QED BY <1>2, <1>5, <1>6, <1>7, <1>8, <1>9, <1>10, <1>11, <1>12, <1>13
        DEF Preserved, TableInv, ThreadInv, Kept

\* Acquiring a lease: the slot has no owner, or the thread goes to sleep
\* because it has one.
LEMMA AcquireKeeps ==
  ASSUME IInv, TypeOK', NEW t \in Thread, NEW h \in Handle, AcquireBody(t, h)
  PROVE  Preserved
<1>0. TypeOK /\ TableInv /\ ThreadInv /\ IssuedLiveOrBuried
  BY DEF IInv
<1>h. h.index \in Index /\ slots[h.index] \in Slot
  BY <1>0 DEF Handle, TypeOK
<1>1. CASE AcquireFails(t, h)
  <2>1. /\ UNCHANGED table /\ held' = held
        /\ arg' = [arg EXCEPT ![t] = NoArg] /\ pc' = [pc EXCEPT ![t] = "run"]
    BY <1>1 DEF AcquireFails
  <2>2. ThreadInv'
    BY <1>0, <2>1 DEF ThreadInv, LeaseKeepsObject, OwnerHoldsGuard, SleepersHaveReason,
                      table, TypeOK, Usable, Live, Matches, InTable
  <2> QED BY <2>1, <2>2, UnchangedTableKeeps DEF Preserved
<1>2. CASE AcquireSleeps(t, h)
  <2>1. /\ UNCHANGED table /\ held' = held
        /\ pc' = [pc EXCEPT ![t] = "asleep"] /\ arg' = [arg EXCEPT ![t] = h]
        /\ Usable(h) /\ slots[h.index].owner \notin {NoThread, t}
    BY <1>2 DEF AcquireSleeps
  <2>2. LeaseKeepsObject' /\ OwnerHoldsGuard'
    BY <1>0, <2>1 DEF ThreadInv, LeaseKeepsObject, OwnerHoldsGuard,
                      table, Live, Matches, InTable
  <2>3. SleepersHaveReason'
    BY <1>0, <2>1 DEF ThreadInv, SleepersHaveReason,
                      table, TypeOK, Usable, Live, Matches, InTable
  <2> QED BY <2>1, <2>2, <2>3, UnchangedTableKeeps DEF Preserved, ThreadInv
<1>3. CASE AcquireTakes(t, h)
  <2> DEFINE i == h.index
             s == [slots[i] EXCEPT !.owner = t, !.leases = 1]
  <2>1. s \in Slot
    BY <1>h, SlotUpdatesTyped
  <2>2. /\ s.obj = slots[i].obj /\ s.generation = slots[i].generation
        /\ s.owner = t /\ s.leases = 1 /\ s.retired = slots[i].retired
        /\ s.pending_free = slots[i].pending_free
    BY <1>h DEF Slot
  <2>3. /\ slots' = [slots EXCEPT ![i] = s] /\ UNCHANGED <<len, free, floor>>
        /\ arg' = [arg EXCEPT ![t] = NoArg]
        /\ held' = [held EXCEPT ![t] = @ \cup {h}] /\ pc' = [pc EXCEPT ![t] = "run"]
        /\ Usable(h) /\ slots[i].owner = NoThread
    BY <1>3 DEF AcquireTakes
  <2> HIDE DEF s
  <2>4. Touched(i, s)
    BY <2>2, <2>3 DEF Touched, Usable, Live, Matches, InTable
  <2>5. TableInv'
    BY <1>0, <1>h, <2>1, <2>2, <2>3, <2>4, TouchedTable
       DEF TableInv, DeferredFreeHasHolder, Usable
  <2>6. \A k \in issued : Kept(k)
    BY <1>0, <1>h, <2>1, <2>4, TouchedIssued DEF IssuedLiveOrBuried, Kept, TypeOK
  <2>7. \A j \in Index : slots'[j] = IF j = i THEN s ELSE slots[j]
    BY <1>0, <2>3 DEF TypeOK
  <2>8. LeaseKeepsObject'
    <3> SUFFICES ASSUME NEW u \in Thread, NEW k \in held'[u]
                 PROVE  Live(k)' /\ slots'[k.index].owner = u /\ slots'[k.index].leases = 1
      BY DEF LeaseKeepsObject
    <3>1. CASE k \in held[u]
      <4>1. Live(k) /\ slots[k.index].owner = u /\ slots[k.index].leases = 1
            /\ k.index \in Index
        BY <1>0, <3>1 DEF ThreadInv, LeaseKeepsObject, TypeOK, Handle
      <4>2. k.index # i
        BY <2>3, <4>1
      <4> QED BY <2>3, <2>7, <4>1, <4>2 DEF Live, Matches, InTable
    <3>2. CASE k \notin held[u]
      <4>1. u = t /\ k = h
        BY <1>0, <2>3, <3>2 DEF TypeOK
      <4> QED BY <1>h, <2>2, <2>3, <2>7, <4>1 DEF Usable, Live, Matches, InTable
    <3> QED BY <3>1, <3>2
  <2>9. OwnerHoldsGuard'
    <3> SUFFICES ASSUME NEW j \in Index, slots'[j].owner # NoThread
                 PROVE  j <= len' /\ pack(j, slots'[j].generation) \in held'[slots'[j].owner]
      BY DEF OwnerHoldsGuard
    <3>1. CASE j = i
      <4>1. pack(i, slots[i].generation) = h
        BY <2>3 DEF Usable, Live, Matches, pack, Handle
      <4> QED BY <1>0, <2>2, <2>3, <2>7, <3>1, <4>1
              DEF TypeOK, Usable, Live, Matches, InTable
    <3>2. CASE j # i
      <4>1. slots'[j] = slots[j] /\ slots[j].owner \in Thread
        BY <1>0, <2>7, <3>2 DEF TypeOK, Slot
      <4> QED BY <1>0, <2>3, <4>1 DEF ThreadInv, OwnerHoldsGuard, TypeOK
    <3> QED BY <3>1, <3>2
  <2>10. SleepersHaveReason'
    <3> SUFFICES ASSUME NEW u \in Thread, pc'[u] = "asleep"
                 PROVE  Usable(arg[u])' /\ slots'[arg'[u].index].owner \notin {NoThread, u}
      BY DEF SleepersHaveReason
    <3>1. pc[u] = "asleep" /\ arg'[u] = arg[u]
      BY <1>0, <2>3 DEF TypeOK
    <3>2. Usable(arg[u]) /\ slots[arg[u].index].owner \notin {NoThread, u} /\ arg[u].index \in Index
      BY <1>0, <3>1 DEF ThreadInv, SleepersHaveReason, TypeOK, Handle
    <3> QED BY <2>3, <2>7, <3>1, <3>2 DEF Usable, Live, Matches, InTable
  <2> QED BY <2>5, <2>6, <2>8, <2>9, <2>10 DEF Preserved, ThreadInv
<1> QED BY <1>1, <1>2, <1>3 DEF AcquireBody

\* UseLease and MapRootWrite: the object's content changes, nothing else.
LEMMA WriteKeeps ==
  ASSUME IInv, NEW h \in Handle, Live(h), NEW v \in Content,
         slots' = [slots EXCEPT ![h.index] = [@ EXCEPT !.obj = v]],
         UNCHANGED <<len, free, floor, pc, arg, held>>
  PROVE  Preserved
<1> DEFINE i == h.index
           s == [slots[i] EXCEPT !.obj = v]
<1>0. TypeOK /\ TableInv /\ ThreadInv
  BY DEF IInv
<1>1. i \in Index /\ slots[i] \in Slot
  BY <1>0 DEF Handle, TypeOK
<1>2. /\ s \in Slot /\ s.obj = v /\ s.generation = slots[i].generation
      /\ s.owner = slots[i].owner /\ s.leases = slots[i].leases
      /\ s.pins = slots[i].pins /\ s.retired = slots[i].retired
      /\ s.pending_free = slots[i].pending_free
  BY <1>1, SlotUpdatesTyped DEF Slot
<1>3. slots' = [slots EXCEPT ![i] = s]
  OBVIOUS
<1> HIDE DEF s
<1>4. Touched(i, s)
  BY <1>2, <1>3, TableAssumption DEF Touched, Live, Matches, InTable, Content
<1>5. TableInv' /\ LeaseKeepsObject' /\ OwnerHoldsGuard' /\ \A k \in issued : Kept(k)
  BY <1>0, <1>1, <1>2, <1>4, TouchKeeps DEF TableInv, DeferredFreeHasHolder
<1>6. SleepersHaveReason'
  <2>1. \A j \in Index : slots'[j] = IF j = i THEN s ELSE slots[j]
    BY <1>0, <1>3 DEF TypeOK
  <2> QED BY <1>0, <1>2, <2>1
          DEF ThreadInv, SleepersHaveReason, TypeOK, Handle, Usable, Live, Matches, InTable, Content
<1> QED BY <1>5, <1>6 DEF Preserved, ThreadInv

\* Pinning a live object.
LEMMA PinKeeps ==
  ASSUME IInv, NEW t \in Thread, NEW h \in Handle, Pin(t, h)
  PROVE  Preserved
<1> DEFINE i == h.index
           s == [slots[i] EXCEPT !.pins = slots[i].pins + 1]
<1>0. TypeOK /\ TableInv /\ ThreadInv
  BY DEF IInv
<1>1. i \in Index /\ slots[i] \in Slot
  BY <1>0 DEF Handle, TypeOK
<1>2. /\ s \in Slot /\ s.obj = slots[i].obj /\ s.generation = slots[i].generation
      /\ s.owner = slots[i].owner /\ s.leases = slots[i].leases
      /\ s.retired = slots[i].retired /\ s.pending_free = slots[i].pending_free
  <2>1. s \in Slot
    BY <1>1, SlotUpdatesTyped DEF Pin
  <2> QED BY <1>1, <2>1 DEF Slot
<1>3. /\ slots' = [slots EXCEPT ![i] = s] /\ Usable(h)
      /\ UNCHANGED <<len, free, floor, pc, arg, held>>
  BY DEF Pin
<1> HIDE DEF s
<1>4. Touched(i, s)
  BY <1>2, <1>3 DEF Touched, Usable, Live, Matches, InTable
<1>5. TableInv' /\ LeaseKeepsObject' /\ OwnerHoldsGuard' /\ \A k \in issued : Kept(k)
  BY <1>0, <1>1, <1>2, <1>3, <1>4, TouchKeeps
     DEF TableInv, DeferredFreeHasHolder, Usable
<1>6. SleepersHaveReason'
  <2>1. \A j \in Index : slots'[j] = IF j = i THEN s ELSE slots[j]
    BY <1>0, <1>3 DEF TypeOK
  <2> QED BY <1>0, <1>2, <1>3, <2>1
          DEF ThreadInv, SleepersHaveReason, TypeOK, Handle, Usable, Live, Matches, InTable
<1> QED BY <1>5, <1>6 DEF Preserved, ThreadInv

\* begin_destroy and retire: acquirers are woken to see the handle refused.
LEMMA RetireKeeps ==
  ASSUME IInv, NEW h \in Handle, Retire(h), held' = held
  PROVE  /\ TableInv' /\ LeaseKeepsObject' /\ OwnerHoldsGuard'
         /\ \A k \in issued : Kept(k)
<1> DEFINE i == h.index
           s == [slots[i] EXCEPT !.retired = TRUE]
<1>0. TypeOK /\ TableInv
  BY DEF IInv
<1>1. i \in Index /\ slots[i] \in Slot
  BY <1>0 DEF Handle, TypeOK
<1>2. /\ s \in Slot /\ s.obj = slots[i].obj /\ s.generation = slots[i].generation
      /\ s.owner = slots[i].owner /\ s.leases = slots[i].leases /\ s.pins = slots[i].pins
      /\ s.retired /\ s.pending_free = slots[i].pending_free
  BY <1>1, SlotUpdatesTyped DEF Slot
<1>3. slots' = [slots EXCEPT ![i] = s] /\ Live(h) /\ UNCHANGED <<len, free, floor>>
  BY DEF Retire
<1> HIDE DEF s
<1>4. Touched(i, s)
  BY <1>2, <1>3 DEF Touched, Live, Matches, InTable
<1> QED BY <1>0, <1>1, <1>2, <1>4, TouchKeeps DEF TableInv, DeferredFreeHasHolder

\* Unpinning, with the deferred reclamation when it was the last holder.
LEMMA UnpinKeeps ==
  ASSUME IInv, TypeOK', NEW t \in Thread, NEW h \in Handle, Unpin(t, h)
  PROVE  Preserved
<1> DEFINE i == h.index
           s == [slots[i] EXCEPT !.pins = @ - 1]
           drained == s.pins + s.leases = 0 /\ s.pending_free
<1>0. TypeOK /\ TableInv
  BY DEF IInv
<1>1. i \in Index /\ slots[i] \in Slot /\ i <= len /\ slots[i].pins > 0
  BY <1>0 DEF Handle, TypeOK, Unpin, Matches, InTable
<1>2. s \in Slot
  BY <1>1, SlotUpdatesTyped
<1>3. /\ s.obj = slots[i].obj /\ s.generation = slots[i].generation
      /\ s.owner = slots[i].owner /\ s.leases = slots[i].leases
      /\ s.retired = slots[i].retired /\ s.pending_free = slots[i].pending_free
      /\ s.pins \in Nat /\ s.leases \in {0, 1}
  BY <1>1, <1>2 DEF Slot
<1>4. UpdateOrFree(i, s, drained) /\ pc' = Notified /\ held' = held
  BY DEF Unpin
<1> HIDE DEF s
<1>5. slots[i].obj # "none" /\ drained \in BOOLEAN
  BY <1>0, <1>1 DEF TableInv, PinsNeedObject
<1>6. /\ drained => s.leases = 0
      /\ ~drained /\ s.pending_free => s.retired /\ (s.leases = 1 \/ s.pins > 0)
  BY <1>0, <1>1, <1>3 DEF TableInv, DeferredFreeHasHolder
<1> HIDE DEF drained
<1>7. TableInv' /\ LeaseKeepsObject' /\ OwnerHoldsGuard' /\ \A k \in issued : Kept(k)
  BY <1>1, <1>2, <1>3, <1>4, <1>5, <1>6, UpdateOrFreeKeeps
<1>8. SleepersHaveReason'
  BY <1>0, <1>4, NotifiedWakesAll DEF SleepersHaveReason
<1> QED BY <1>7, <1>8 DEF Preserved, ThreadInv

\* The second half of a destroy: reclaim now, or defer to the holders.
LEMMA FinishBodyKeeps ==
  ASSUME IInv, TypeOK', NEW h \in Handle, Live(h), FinishBody(h), held' = held
  PROVE  /\ TableInv' /\ LeaseKeepsObject' /\ OwnerHoldsGuard'
         /\ \A k \in issued : Kept(k)
<1> DEFINE i == h.index
           s == [slots[i] EXCEPT !.retired = TRUE]
           idle == s.leases = 0 /\ s.pins = 0
           u == IF idle THEN s ELSE [s EXCEPT !.pending_free = TRUE]
<1>0. TypeOK /\ TableInv
  BY DEF IInv
<1>1. i \in Index /\ slots[i] \in Slot /\ i <= len /\ slots[i].obj # "none"
  BY <1>0 DEF Handle, TypeOK, Live, Matches, InTable
<1>2. s \in Slot /\ [s EXCEPT !.pending_free = TRUE] \in Slot
  BY <1>1, SlotUpdatesTyped
<1>3. /\ s.obj = slots[i].obj /\ s.generation = slots[i].generation
      /\ s.owner = slots[i].owner /\ s.leases = slots[i].leases
      /\ s.pins = slots[i].pins /\ s.retired
      /\ s.pins \in Nat /\ s.leases \in {0, 1}
  BY <1>1, <1>2 DEF Slot
<1>4. UpdateOrFree(i, u, idle)
  BY DEF FinishBody
<1>5. /\ u \in Slot /\ idle \in BOOLEAN
      /\ u.obj = s.obj /\ u.generation = s.generation /\ u.owner = s.owner
      /\ u.leases = s.leases /\ u.pins = s.pins /\ u.retired
  BY <1>2, <1>3 DEF Slot
<1>6. /\ idle => u.leases = 0
      /\ ~idle => u.leases = 1 \/ u.pins > 0
  BY <1>3, <1>5
<1> HIDE DEF u, s, idle
<1> QED BY <1>1, <1>3, <1>4, <1>5, <1>6, UpdateOrFreeKeeps

\* finish_destroy on a handle that was retired before.
LEMMA FinishDestroyKeeps ==
  ASSUME IInv, TypeOK', NEW h \in Handle, FinishBody(h), held' = held,
         \A u \in Thread :
           pc'[u] = "asleep" => pc[u] = "asleep" /\ arg'[u] = arg[u] /\ ~Live(h)
  PROVE  Preserved
<1>1. CASE Live(h)
  <2>1. SleepersHaveReason'
    BY <1>1 DEF SleepersHaveReason
  <2> QED BY <1>1, <2>1, FinishBodyKeeps DEF Preserved, ThreadInv
<1>2. CASE ~Live(h)
  <2>1. UNCHANGED table
    BY <1>2 DEF FinishBody
  <2>2. ThreadInv'
    BY <2>1 DEF IInv, ThreadInv, LeaseKeepsObject, OwnerHoldsGuard, SleepersHaveReason,
                table, Usable, Live, Matches, InTable
  <2> QED BY <2>1, <2>2, UnchangedTableKeeps DEF Preserved
<1> QED BY <1>1, <1>2

\* Releasing a lease: the guard goes, waiters wake, and a deferred
\* reclamation is done if no pin is left.
LEMMA ReleaseKeeps ==
  ASSUME IInv, TypeOK', NEW t \in Thread, NEW h \in Handle, Release(t, h)
  PROVE  Preserved
<1> DEFINE i == h.index
           s == [slots[i] EXCEPT !.owner = NoThread, !.leases = 0]
           drained == s.pins = 0 /\ s.pending_free
<1>0. TypeOK /\ TableInv /\ ThreadInv /\ IssuedLiveOrBuried
  BY DEF IInv
<1>1. i \in Index /\ slots[i] \in Slot /\ h \in held[t]
  BY <1>0 DEF Handle, TypeOK, Release
<1>2. Live(h) /\ slots[i].owner = t /\ slots[i].leases = 1
  BY <1>0, <1>1 DEF ThreadInv, LeaseKeepsObject
<1>3. Matches(h) /\ i <= len /\ slots[i].obj # "none"
  BY <1>2 DEF Live, Matches, InTable
<1>4. UpdateOrFree(i, s, drained) /\ pc' = Notified /\ held' = [held EXCEPT ![t] = @ \ {h}]
  BY <1>2, <1>3 DEF Release
<1>5. /\ s \in Slot /\ s.obj = slots[i].obj /\ s.generation = slots[i].generation
      /\ s.owner = NoThread /\ s.leases = 0 /\ s.pins = slots[i].pins
      /\ s.retired = slots[i].retired /\ s.pending_free = slots[i].pending_free
      /\ s.pins \in Nat
  <2>1. s \in Slot
    BY <1>1, SlotUpdatesTyped
  <2>2. /\ s.obj = slots[i].obj /\ s.generation = slots[i].generation
        /\ s.owner = NoThread /\ s.leases = 0 /\ s.pins = slots[i].pins
        /\ s.retired = slots[i].retired /\ s.pending_free = slots[i].pending_free
    BY <1>1 DEF Slot
  <2>3. slots[i].pins \in Nat
    BY <1>1 DEF Slot
  <2> QED BY <2>1, <2>2, <2>3
<1>6. \A u \in Thread : \A k \in held[u] : k.index = i => u = t /\ k = h
  BY <1>0, <1>2, <1>3 DEF ThreadInv, LeaseKeepsObject, Live, Matches, TypeOK, Handle
<1>7. /\ \A u \in Thread : \A k \in held'[u] : k \in held[u] /\ k.index # i
      /\ \A u \in Thread : \A k \in held[u] : k.index # i => k \in held'[u]
  BY <1>0, <1>4, <1>6 DEF TypeOK
<1>k. \A k \in issued : k \in Handle /\ (Live(k) \/ Buried(k))
  BY <1>0 DEF TypeOK, IssuedLiveOrBuried
<1>8. SleepersHaveReason'
  BY <1>0, <1>4, NotifiedWakesAll DEF SleepersHaveReason
<1> HIDE DEF s
<1>9. CASE drained
  <2>1. FreeEffect(i)
    BY <1>0, <1>1, <1>4, <1>9, FinishFreeEffect DEF UpdateOrFree
  <2>2. TableInv'
    BY <1>0, <1>1, <1>3, <2>1, FreedTable
  <2>3. LeaseKeepsObject' /\ OwnerHoldsGuard'
    BY <1>0, <1>1, <1>3, <1>7, <2>1, FreedThreads
  <2>4. \A k \in issued : Kept(k)
    BY <1>0, <1>1, <1>3, <1>k, <2>1, FreedIssued DEF Kept
  <2> QED BY <1>8, <2>2, <2>3, <2>4 DEF Preserved, ThreadInv
<1>10. CASE ~drained
  <2>1. Touched(i, s)
    BY <1>3, <1>4, <1>5, <1>10 DEF UpdateOrFree, Touched
  <2>0. slots[i].pending_free => slots[i].retired
    BY <1>0, <1>1 DEF TableInv, DeferredFreeHasHolder
  <2>2. s.pending_free => s.retired /\ (s.leases = 1 \/ s.pins > 0)
    BY <1>5, <1>10, <2>0
  <2>3. TableInv'
    BY <1>0, <1>1, <1>5, <2>1, <2>2, TouchedTable
  <2>4. \A k \in issued : Kept(k)
    BY <1>0, <1>1, <1>5, <1>k, <2>1, TouchedIssued DEF Kept
  <2>5. \A j \in Index : slots'[j] = IF j = i THEN s ELSE slots[j]
    BY <1>0, <2>1 DEF TypeOK, Touched
  <2>6. len' = len
    BY <2>1 DEF Touched
  <2>7. LeaseKeepsObject'
    BY <1>0, <1>7, <2>5, <2>6
       DEF ThreadInv, LeaseKeepsObject, TypeOK, Handle, Live, Matches, InTable
  <2>8. OwnerHoldsGuard'
    <3> SUFFICES ASSUME NEW j \in Index, slots'[j].owner # NoThread
                 PROVE  j <= len' /\ pack(j, slots'[j].generation) \in held'[slots'[j].owner]
      BY DEF OwnerHoldsGuard
    <3>1. j # i /\ slots'[j] = slots[j] /\ slots[j].owner \in Thread
      BY <1>0, <1>5, <2>5 DEF TypeOK, Slot
    <3>2. j <= len /\ pack(j, slots[j].generation) \in held[slots[j].owner]
      BY <1>0, <3>1 DEF ThreadInv, OwnerHoldsGuard
    <3>3. pack(j, slots[j].generation).index # i
      BY <3>1 DEF pack
    <3> QED BY <1>7, <2>6, <3>1, <3>2, <3>3
  <2> QED BY <1>8, <2>3, <2>4, <2>7, <2>8 DEF Preserved, ThreadInv
<1> QED BY <1>9, <1>10

\* Dropping an unshared MapRoot reclaims a slot nobody leases or pins.
LEMMA MapRootDropKeeps ==
  ASSUME IInv, TypeOK', NEW h \in Handle, MapRootDrop(h)
  PROVE  Preserved
<1> DEFINE i == h.index
<1>0. TypeOK /\ TableInv /\ ThreadInv /\ IssuedLiveOrBuried
  BY DEF IInv
<1>1. /\ i \in Index /\ i <= len /\ slots[i].obj # "none"
      /\ slots[i].leases = 0 /\ slots[i].owner = NoThread
      /\ held' = held /\ pc' = pc /\ arg' = arg /\ FinishFree(i)
  BY <1>0 DEF Handle, MapRootDrop, RootValid, Usable, Live, Matches, InTable
<1>2. FreeEffect(i)
  BY <1>0, <1>1, FinishFreeEffect
<1>3. TableInv'
  BY <1>0, <1>1, <1>2, FreedTable
<1>4. \A u \in Thread : \A k \in held[u] : k.index # i
  BY <1>0, <1>1 DEF ThreadInv, LeaseKeepsObject
<1>5. LeaseKeepsObject' /\ OwnerHoldsGuard'
  BY <1>0, <1>1, <1>2, <1>4, FreedThreads
<1>6. \A k \in issued : Kept(k)
  BY <1>0, <1>1, <1>2, FreedIssued DEF Kept, TypeOK, IssuedLiveOrBuried
<1>7. SleepersHaveReason'
  <2> SUFFICES ASSUME NEW u \in Thread, pc[u] = "asleep"
               PROVE  Usable(arg[u])' /\ slots'[arg[u].index].owner \notin {NoThread, u}
    BY <1>1 DEF SleepersHaveReason
  <2>1. /\ Usable(arg[u]) /\ slots[arg[u].index].owner \notin {NoThread, u}
        /\ arg[u].index \in Index
    BY <1>0 DEF ThreadInv, SleepersHaveReason, TypeOK, Handle
  <2>2. arg[u].index # i
    BY <1>1, <2>1
  <2>3. ~Compacted(i)
    BY <2>1, <2>2 DEF Compacted, Usable, Live, Matches, InTable
  <2>4. len' = len /\ slots'[arg[u].index] = slots[arg[u].index]
    BY <1>0, <1>2, <2>1, <2>2, <2>3 DEF FreeEffect, Recycled, Exhausted, TypeOK
  <2> QED BY <1>1, <2>1, <2>4 DEF Usable, Live, Matches, InTable
<1> QED BY <1>3, <1>5, <1>6, <1>7 DEF Preserved, ThreadInv

\* Every step of a thread keeps the invariant and issues no handle.
LEMMA ThreadStepKeeps ==
  ASSUME IInv, TypeOK', NEW t \in Thread, ThreadStep(t)
  PROVE  Preserved /\ issued' = issued
<1>0. TypeOK /\ ThreadInv
  BY DEF IInv
<1>h. issued \subseteq Handle /\ arg[t] \in Handle
  BY <1>0 DEF TypeOK
<1>1. ASSUME NEW h \in issued, UseLease(t, h) PROVE Preserved /\ issued' = issued
  <2>1. Live(h)
    BY <1>0, <1>1 DEF UseLease, ThreadInv, LeaseKeepsObject
  <2>2. PICK v \in Content : slots' = [slots EXCEPT ![h.index] = [@ EXCEPT !.obj = v]]
    BY <1>1 DEF UseLease, Content
  <2>3. UNCHANGED <<len, free, floor, pc, arg, held, issued>>
    BY <1>1 DEF UseLease
  <2> QED BY <1>h, <2>1, <2>2, <2>3, WriteKeeps
<1>2. ASSUME NEW h \in issued, Release(t, h) PROVE Preserved /\ issued' = issued
  BY <1>2, <1>h, ReleaseKeeps DEF Release
<1>3. ASSUME NEW h \in Handle, AcquireBody(t, h) PROVE Preserved /\ issued' = issued
  BY <1>3, AcquireKeeps DEF AcquireBody, AcquireFails, AcquireSleeps, AcquireTakes
<1>4. ASSUME NEW h \in issued, Pin(t, h) PROVE Preserved /\ issued' = issued
  BY <1>4, <1>h, PinKeeps DEF Pin
<1>5. ASSUME NEW h \in issued, Unpin(t, h) PROVE Preserved /\ issued' = issued
  BY <1>5, <1>h, UnpinKeeps DEF Unpin
<1>6. ASSUME NEW h \in issued, BeginDestroy(t, h) \/ Destroy(t, h)
      PROVE  Preserved /\ issued' = issued
  <2>1. Retire(h) /\ held' = held /\ issued' = issued
    BY <1>6 DEF BeginDestroy, Destroy
  <2>2. \A u \in Thread : pc'[u] # "asleep"
    BY <1>0, <1>6, NotifiedWakesAll, NotifiedTyped DEF BeginDestroy, Destroy
  <2>3. SleepersHaveReason'
    BY <2>2 DEF SleepersHaveReason
  <2> QED BY <1>h, <2>1, <2>3, RetireKeeps DEF Preserved, ThreadInv
<1>7. ASSUME NEW h \in issued, FinishDestroy(t, h) PROVE Preserved /\ issued' = issued
  <2>1. \A u \in Thread :
          pc'[u] = "asleep" => pc[u] = "asleep" /\ arg'[u] = arg[u] /\ ~Live(h)
    BY <1>0, <1>7, NotifiedWakesAll DEF FinishDestroy
  <2> QED BY <1>7, <1>h, <2>1, FinishDestroyKeeps DEF FinishDestroy
<1>8. ASSUME DestroyFinish(t) PROVE Preserved /\ issued' = issued
  <2>1. \A u \in Thread :
          pc'[u] = "asleep" => pc[u] = "asleep" /\ arg'[u] = arg[u] /\ ~Live(arg[t])
    BY <1>0, <1>8, NotifiedWakesAll, NotifiedTyped DEF DestroyFinish, TypeOK
  <2> QED BY <1>8, <1>h, <2>1, FinishDestroyKeeps DEF DestroyFinish
<1>9. ASSUME SpuriousWake(t) PROVE Preserved /\ issued' = issued
  <2>1. /\ UNCHANGED table /\ held' = held /\ arg' = arg /\ issued' = issued
        /\ pc' = [pc EXCEPT ![t] = "woken"]
    BY <1>9 DEF SpuriousWake
  <2>2. ThreadInv'
    BY <1>0, <2>1 DEF ThreadInv, LeaseKeepsObject, OwnerHoldsGuard, SleepersHaveReason,
                      table, TypeOK, Usable, Live, Matches, InTable
  <2> QED BY <2>1, <2>2, UnchangedTableKeeps DEF Preserved
<1> QED BY <1>1, <1>2, <1>3, <1>4, <1>5, <1>6, <1>7, <1>8, <1>9, <1>h
        DEF ThreadStep, LeaseStep, CallStep, Acquire, Reacquire

\* So does every step of the table.
LEMMA StepKeeps ==
  ASSUME IInv, TypeOK', [Next]_vars
  PROVE  Preserved /\ IssuedLiveOrBuried'
<1>h. issued \subseteq Handle
  BY DEF IInv, TypeOK
<1>1. ASSUME Preserved, issued' = issued PROVE IssuedLiveOrBuried'
  BY <1>1 DEF Preserved, Kept, IssuedLiveOrBuried
<1>2. CASE AllocReuse
  BY <1>2, AllocReuseKeeps DEF IssuedLiveOrBuried
<1>3. CASE AllocFresh
  BY <1>3, AllocFreshKeeps DEF IssuedLiveOrBuried
<1>4. CASE \E t \in Thread : ThreadStep(t)
  BY <1>1, <1>4, ThreadStepKeeps
<1>5. ASSUME NEW h \in issued, MapRootWrite(h)
      PROVE  Preserved /\ issued' = issued
  <2>1. PICK v \in Content : slots' = [slots EXCEPT ![h.index] = [@ EXCEPT !.obj = v]]
    BY <1>5 DEF MapRootWrite, Content
  <2>2. Live(h) /\ UNCHANGED <<len, free, floor, pc, arg, held, issued>>
    BY <1>5 DEF MapRootWrite, RootValid, Usable
  <2> QED BY <1>h, <2>1, <2>2, WriteKeeps
<1>6. ASSUME NEW h \in issued, MapRootDrop(h)
      PROVE  Preserved /\ issued' = issued
  BY <1>6, <1>h, MapRootDropKeeps DEF MapRootDrop
<1>7. CASE UNCHANGED vars
  <2>1. UNCHANGED <<table, pc, arg, held, issued>>
    BY <1>7 DEF vars, table
  <2>2. ThreadInv'
    BY <2>1 DEF IInv, ThreadInv, LeaseKeepsObject, OwnerHoldsGuard, SleepersHaveReason,
                table, Usable, Live, Matches, InTable
  <2> QED BY <1>1, <2>1, <2>2, UnchangedTableKeeps DEF Preserved
<1> QED BY <1>1, <1>2, <1>3, <1>4, <1>5, <1>6, <1>7 DEF Next

\* The empty table satisfies the inductive invariant.
LEMMA InvInit == Init => IInv
<1> SUFFICES ASSUME Init PROVE IInv
  OBVIOUS
<1>1. TypeOK
  BY TypeInit
<1>2. \A i \in Index : slots[i] = Absent
  BY DEF Init
<1>3. TailAbsent
  BY <1>2 DEF TailAbsent
<1>7. OwnerHoldsGuard
  BY <1>2 DEF OwnerHoldsGuard, Absent, EmptySlot
<1>6. DeferredFreeHasHolder /\ PinsNeedObject
  BY <1>2 DEF DeferredFreeHasHolder, PinsNeedObject, Absent, EmptySlot
<1>4. FloorBound /\ FreeStackExact
  BY DEF Init, FloorBound, FreeStackExact, Index
<1>5. LeaseKeepsObject /\ SleepersHaveReason /\ IssuedLiveOrBuried
  BY DEF Init, LeaseKeepsObject, SleepersHaveReason, IssuedLiveOrBuried
<1> QED BY <1>1, <1>3, <1>4, <1>5, <1>6, <1>7 DEF IInv, TableInv, ThreadInv

\* Every step preserves the inductive invariant.
LEMMA InvStep == IInv /\ [Next]_vars => IInv'
<1> SUFFICES ASSUME IInv, [Next]_vars PROVE IInv'
  OBVIOUS
<1>1. TypeOK'
  BY TypeStep DEF IInv
<1> QED BY <1>1, StepKeeps DEF IInv, Preserved

\* The inductive invariant holds in every reachable state, for all constants:
\* the table's slots, stack and floor agree, guards and owners correspond, nobody
\* sleeps without reason, and every handle issued so far is live or buried.
THEOREM Invariance == Spec => []IInv
BY InvInit, InvStep, PTL DEF Spec

\* A thread's lease guard always names an existing object that the slot says
\* this thread owns exclusively, whatever the other threads destroy.
THEOREM LeaseSafety == Spec => []LeaseKeepsObject
BY Invariance, PTL DEF IInv, ThreadInv

\* No thread sleeps on the condition variable without a reason.
THEOREM NoLostWakeup == Spec => []SleepersHaveReason
BY Invariance, PTL DEF IInv, ThreadInv

\* A deferred reclamation always has a lease or a pin that will perform it.
THEOREM DeferredFreeSafety == Spec => []DeferredFreeHasHolder
BY Invariance, PTL DEF IInv, TableInv

\* Slots are neither leaked nor put on the free stack twice.
THEOREM FreeStackSafety == Spec => []FreeStackExact
BY Invariance, PTL DEF IInv, TableInv

\* An issued handle that names no object never names one again.
THEOREM NoResurrection == Spec => NoRevival
<1> DEFINE Dead == \A h \in issued : ~Live(h) => ~Live(h)'
<1>1. IInv /\ [Next]_vars => [Dead]_vars
  <2> SUFFICES ASSUME IInv, [Next]_vars, NEW h \in issued, ~Live(h)
               PROVE  ~Live(h)'
    OBVIOUS
  <2>1. TypeOK' /\ h \in Handle
    BY TypeStep DEF IInv, TypeOK
  <2>2. Buried(h)'
    BY <2>1, StepKeeps DEF Preserved, Kept
  <2> QED BY <2>1, <2>2 DEF TypeOK, Handle, Slot, Gen, Buried, Live, Matches, InTable
<1> QED BY <1>1, Invariance, PTL DEF Spec, NoRevival

\* Reclaiming a slot writes no content: an object stays as it is or goes away.
LEMMA FreeWritesNothing ==
  ASSUME TypeOK, NEW i \in Index, NEW s \in Slot, NEW drained \in BOOLEAN,
         s.obj = slots[i].obj, UpdateOrFree(i, s, drained)
  PROVE  \A j \in Index : slots'[j].obj \in {slots[j].obj, "none"}
<1>1. CASE drained
  <2>1. FreeEffect(i)
    BY <1>1, FinishFreeEffect DEF UpdateOrFree
  <2> QED BY <2>1 DEF FreeEffect, Compacted, Recycled, Exhausted, EmptySlot, Absent, TypeOK
<1>2. CASE ~drained
  BY <1>2 DEF UpdateOrFree, TypeOK
<1> QED BY <1>1, <1>2

\* Only the lease owner writes the content of a leased slot.
LeasedWrites ==
  \A i \in Index : slots[i].owner # NoThread =>
    slots'[i].obj \in {slots[i].obj, "none", slots[i].owner}

\* So the calls that neither allocate nor write leave contents alone.
LEMMA QuietWrites ==
  ASSUME \A j \in Index : slots'[j].obj \in {slots[j].obj, "none"}
  PROVE  LeasedWrites
BY DEF LeasedWrites

\* Each step of a thread writes only what the thread itself leased.
LEMMA ThreadStepWrites ==
  ASSUME IInv, NEW t \in Thread, ThreadStep(t)
  PROVE  LeasedWrites
<1>0. TypeOK /\ issued \subseteq Handle
  BY DEF IInv, TypeOK
<1>1. ASSUME NEW h \in Handle, UseLease(t, h) PROVE LeasedWrites
  <2>1. slots[h.index].owner = t
    BY <1>1 DEF IInv, ThreadInv, LeaseKeepsObject, UseLease
  <2> QED BY <1>0, <1>1, <2>1 DEF UseLease, LeasedWrites, TypeOK, Handle
<1>2. ASSUME NEW h \in Handle, Release(t, h) PROVE LeasedWrites
  <2>1. CASE UNCHANGED table
    BY <2>1, QuietWrites DEF table
  <2>2. CASE ~UNCHANGED table
    <3> DEFINE s == [slots[h.index] EXCEPT !.owner = NoThread, !.leases = 0]
    <3>1. UpdateOrFree(h.index, s, s.pins = 0 /\ s.pending_free)
      BY <1>2, <2>2 DEF Release
    <3>0. h.index \in Index /\ slots[h.index] \in Slot
      BY <1>0 DEF TypeOK, Handle
    <3>2. s \in Slot /\ s.obj = slots[h.index].obj
      <4>1. s \in Slot
        BY <3>0, SlotUpdatesTyped
      <4>2. s.obj = slots[h.index].obj
        BY <3>0 DEF Slot
      <4> QED BY <4>1, <4>2
    <3>3. (s.pins = 0 /\ s.pending_free) \in BOOLEAN
      OBVIOUS
    <3> HIDE DEF s
    <3> QED BY <1>0, <3>0, <3>1, <3>2, <3>3, FreeWritesNothing, QuietWrites
  <2> QED BY <2>1, <2>2
<1>3. ASSUME NEW h \in Handle, AcquireBody(t, h) PROVE LeasedWrites
  <2>1. CASE AcquireTakes(t, h)
    <3>1. \A j \in Index : slots'[j].obj = slots[j].obj
      BY <1>0, <2>1 DEF AcquireTakes, TypeOK, Handle, Slot
    <3> QED BY <3>1, QuietWrites
  <2>2. CASE AcquireFails(t, h) \/ AcquireSleeps(t, h)
    BY <2>2, QuietWrites DEF AcquireFails, AcquireSleeps, table
  <2> QED BY <1>3, <2>1, <2>2 DEF AcquireBody
<1>4. ASSUME NEW h \in Handle, Pin(t, h) PROVE LeasedWrites
  <2>1. \A j \in Index : slots'[j].obj = slots[j].obj
    BY <1>0, <1>4 DEF Pin, TypeOK, Handle, Slot
  <2> QED BY <2>1, QuietWrites
<1>5. ASSUME NEW h \in Handle, Unpin(t, h) PROVE LeasedWrites
  <2> DEFINE s == [slots[h.index] EXCEPT !.pins = @ - 1]
  <2>1. UpdateOrFree(h.index, s, s.pins + s.leases = 0 /\ s.pending_free)
    BY <1>5 DEF Unpin
  <2>0. h.index \in Index /\ slots[h.index] \in Slot /\ slots[h.index].pins > 0
    BY <1>0, <1>5 DEF TypeOK, Handle, Unpin
  <2>2. s \in Slot /\ s.obj = slots[h.index].obj
    <3>1. s \in Slot
      BY <2>0, SlotUpdatesTyped
    <3>2. s.obj = slots[h.index].obj
      BY <2>0 DEF Slot
    <3> QED BY <3>1, <3>2
  <2>3. (s.pins + s.leases = 0 /\ s.pending_free) \in BOOLEAN
    OBVIOUS
  <2> HIDE DEF s
  <2> QED BY <1>0, <2>0, <2>1, <2>2, <2>3, FreeWritesNothing, QuietWrites
<1>6. ASSUME NEW h \in Handle, Retire(h) PROVE LeasedWrites
  <2>1. \A j \in Index : slots'[j].obj = slots[j].obj
    BY <1>0, <1>6 DEF Retire, TypeOK, Handle, Slot
  <2> QED BY <2>1, QuietWrites
<1>7. ASSUME NEW h \in Handle, FinishBody(h) PROVE LeasedWrites
  <2>1. CASE ~Live(h)
    BY <1>7, <2>1, QuietWrites DEF FinishBody, table
  <2>2. CASE Live(h)
    <3> DEFINE r == [slots[h.index] EXCEPT !.retired = TRUE]
               idle == r.leases = 0 /\ r.pins = 0
               s == IF idle THEN r ELSE [r EXCEPT !.pending_free = TRUE]
    <3>1. UpdateOrFree(h.index, s, idle)
      BY <1>7, <2>2 DEF FinishBody
    <3>0. h.index \in Index /\ slots[h.index] \in Slot
      BY <1>0 DEF TypeOK, Handle
    <3>2. r \in Slot /\ r.obj = slots[h.index].obj
      <4>1. r \in Slot
        BY <3>0, SlotUpdatesTyped
      <4>2. r.obj = slots[h.index].obj
        BY <3>0 DEF Slot
      <4> QED BY <4>1, <4>2
    <3>3. s \in Slot /\ s.obj = slots[h.index].obj
      BY <3>2, SlotUpdatesTyped DEF Slot
    <3>4. idle \in BOOLEAN
      OBVIOUS
    <3> HIDE DEF s, idle
    <3> QED BY <1>0, <3>0, <3>1, <3>2, <3>3, <3>4, FreeWritesNothing, QuietWrites
  <2> QED BY <2>1, <2>2
<1>8. ASSUME SpuriousWake(t) PROVE LeasedWrites
  BY <1>8, QuietWrites DEF SpuriousWake, table
<1>9. arg[t] \in Handle
  BY <1>0 DEF TypeOK
<1> QED BY <1>0, <1>1, <1>2, <1>3, <1>4, <1>5, <1>6, <1>7, <1>8, <1>9
        DEF ThreadStep, LeaseStep, CallStep, Acquire, Reacquire, BeginDestroy, Destroy,
            FinishDestroy, DestroyFinish

\* So does every step of the table: allocation finds a slot without an object
\* and MapRoot operations refuse a leased one.
LEMMA StepWrites ==
  ASSUME IInv, [Next]_vars
  PROVE  LeasedWrites
<1>0. TypeOK /\ issued \subseteq Handle
  BY DEF IInv, TypeOK
<1>1. CASE AllocReuse
  <2> DEFINE i == free[Len(free)]
  <2>1. Len(free) \in 1 .. Len(free) /\ i \in Index
    BY <1>0, <1>1 DEF AllocReuse, TypeOK
  <2>2. slots[i].obj = "none"
    BY <2>1 DEF IInv, TableInv, FreeStackExact
  <2>3. slots[i].owner = NoThread
    <3> SUFFICES ASSUME slots[i].owner # NoThread PROVE FALSE
      OBVIOUS
    <3> DEFINE h == pack(i, slots[i].generation)
    <3>1. h \in held[slots[i].owner] /\ slots[i].owner \in Thread /\ h.index = i
      BY <1>0, <2>1 DEF IInv, ThreadInv, OwnerHoldsGuard, TypeOK, Slot, pack
    <3> QED BY <2>2, <3>1 DEF IInv, ThreadInv, LeaseKeepsObject, Live
  <2>4. \A j \in Index : j # i => slots'[j] = slots[j]
    BY <1>0, <1>1 DEF AllocReuse, TypeOK
  <2> QED BY <2>3, <2>4 DEF LeasedWrites
<1>2. CASE AllocFresh
  BY <1>0, <1>2 DEF AllocFresh, LeasedWrites, IInv, ThreadInv, OwnerHoldsGuard, TypeOK, Index
<1>3. CASE \E t \in Thread : ThreadStep(t)
  BY <1>3, ThreadStepWrites
<1>4. ASSUME NEW h \in Handle, MapRootWrite(h) PROVE LeasedWrites
  BY <1>0, <1>4 DEF MapRootWrite, RootValid, LeasedWrites, TypeOK, Handle
<1>5. ASSUME NEW h \in Handle, MapRootDrop(h) PROVE LeasedWrites
  <2>1. h.index \in Index /\ slots[h.index] \in Slot
    BY <1>0 DEF TypeOK, Handle
  <2>2. UpdateOrFree(h.index, slots[h.index], TRUE)
    BY <1>5 DEF MapRootDrop, UpdateOrFree
  <2> QED BY <1>0, <2>1, <2>2, FreeWritesNothing, QuietWrites
<1>6. CASE UNCHANGED vars
  BY <1>6, QuietWrites DEF vars
<1> QED BY <1>0, <1>1, <1>2, <1>3, <1>4, <1>5, <1>6 DEF Next

\* The object behind a leased handle is written by its lease owner only and goes
\* away only with the release that ends the lease: a guard that survives a step
\* still names an object after it, so what changed was written, and only its
\* owner writes it.
THEOREM LeasePrivacy == Spec => LeasedContentIsPrivate
<1> DEFINE Private ==
      \A i \in Index :
        (slots[i].owner # NoThread /\ slots'[i].obj # slots[i].obj) =>
          \/ slots'[i].obj = slots[i].owner
          \/ pack(i, slots[i].generation) \notin held'[slots[i].owner]
<1>1. IInv /\ [Next]_vars => [Private]_vars
  <2> SUFFICES ASSUME IInv, [Next]_vars, NEW i \in Index, slots[i].owner # NoThread,
                      slots'[i].obj # slots[i].obj,
                      pack(i, slots[i].generation) \in held'[slots[i].owner]
               PROVE  slots'[i].obj = slots[i].owner
    OBVIOUS
  <2> DEFINE h == pack(i, slots[i].generation)
  <2>1. slots[i].owner \in Thread /\ h.index = i
    BY DEF IInv, TypeOK, Slot, pack
  <2>2. LeaseKeepsObject'
    BY InvStep DEF IInv, ThreadInv
  <2>3. slots'[i].obj # "none"
    BY <2>1, <2>2 DEF LeaseKeepsObject, Live
  <2> QED BY <2>3, StepWrites DEF LeasedWrites
<1> QED BY <1>1, Invariance, PTL DEF Spec, LeasedContentIsPrivate

----------------------------------------------------------------------------
(***************************************************************************)
(* II. HandleTable implements HandleLife: whatever slots are reused,       *)
(* retired or compacted away, every handle lives the life of an ideal      *)
(* registry.                                                               *)
(***************************************************************************)

\* Handle k is as it was.
Same(k) ==
  /\ LifeOf(k)' = LifeOf(k)
  /\ UserOf(k)' = UserOf(k)
  /\ PinsOf(k)' = PinsOf(k)

OthersSame(h) == \A k \in Handle : k # h => Same(k)

\* The refined variables change at h only, to the given values.
LEMMA BecomesIntro ==
  ASSUME NEW h \in Handle, OthersSame(h), NEW l, NEW u, NEW p,
         LifeOf(h)' = l, UserOf(h)' = u, PinsOf(h)' = p
  PROVE  Life!Becomes(h, l, u, p)
<1>1. [k \in Handle |-> LifeOf(k)'] = [[k \in Handle |-> LifeOf(k)] EXCEPT ![h] = l]
  BY DEF OthersSame, Same
<1>2. [k \in Handle |-> UserOf(k)'] = [[k \in Handle |-> UserOf(k)] EXCEPT ![h] = u]
  BY DEF OthersSame, Same
<1>3. [k \in Handle |-> PinsOf(k)'] = [[k \in Handle |-> PinsOf(k)] EXCEPT ![h] = p]
  BY DEF OthersSame, Same
<1> QED BY <1>1, <1>2, <1>3 DEF Life!Becomes

\* No handle changed: a stuttering step of the ideal registry.
LEMMA StutterIntro ==
  ASSUME \A k \in Handle : Same(k)
  PROVE  UNCHANGED Life!vars
<1>1. [k \in Handle |-> LifeOf(k)'] = [k \in Handle |-> LifeOf(k)]
  BY DEF Same
<1>2. [k \in Handle |-> UserOf(k)'] = [k \in Handle |-> UserOf(k)]
  BY DEF Same
<1>3. [k \in Handle |-> PinsOf(k)'] = [k \in Handle |-> PinsOf(k)]
  BY DEF Same
<1> QED BY <1>1, <1>2, <1>3 DEF Life!vars

----------------------------------------------------------------------------
(* What a table step does to the handles it is not about *)

\* A handle whose slot and index are untouched is as it was.
LEMMA SlotKept ==
  ASSUME NEW k \in Handle, slots'[k.index] = slots[k.index],
         InTable(k.index)' <=> InTable(k.index), k \in issued' <=> k \in issued
  PROVE  Same(k)
BY DEF Same, LifeOf, UserOf, PinsOf, Live, Matches

\* So is a handle that named no object and names none.
LEMMA DeadKept ==
  ASSUME NEW k \in Handle, ~Live(k), ~Live(k)', k \in issued' <=> k \in issued
  PROVE  Same(k)
BY DEF Same, LifeOf, UserOf, PinsOf

\* Updating the slot of h in place shows at no other handle.
LEMMA TouchedOthers ==
  ASSUME TypeOK, NEW h \in Handle, Live(h), NEW s \in Slot, Touched(h.index, s),
         issued' = issued
  PROVE  /\ OthersSame(h)
         /\ Live(h)' /\ slots'[h.index] = s
<1>1. /\ h.index \in Index /\ slots'[h.index] = s /\ len' = len
      /\ \A j \in Index : j # h.index => slots'[j] = slots[j]
  BY DEF Touched, TypeOK, Handle
<1>2. ASSUME NEW k \in Handle, k # h PROVE Same(k)
  <2>1. k.index \in Index
    BY DEF Handle
  <2>2. CASE k.index # h.index
    BY <1>1, <2>1, <2>2, SlotKept DEF InTable
  <2>3. CASE k.index = h.index
    <3>1. k.gen # h.gen
      BY <1>2, <2>3 DEF Handle
    <3>2. ~Live(k) /\ ~Live(k)'
      BY <1>1, <2>3, <3>1 DEF Live, Matches, InTable, Touched
    <3> QED BY <3>2, DeadKept
  <2> QED BY <2>2, <2>3
<1>3. Live(h)'
  BY <1>1 DEF Live, Matches, InTable, Touched
<1> QED BY <1>1, <1>2, <1>3 DEF OthersSame

\* Reclaiming the slot of h, compaction of the table included, shows at no
\* other handle.
LEMMA FreedOthers ==
  ASSUME TypeOK, TypeOK', NEW h \in Handle, Live(h), FreeEffect(h.index), issued' = issued
  PROVE  OthersSame(h) /\ ~Live(h)'
<1> DEFINE i == h.index
<1>1. i \in Index /\ slots[i].generation = h.gen
  BY DEF Handle, Live, Matches
<1>2. ASSUME NEW k \in Handle, k.index = i PROVE ~Live(k)'
  <2>1. CASE Compacted(i)
    BY <1>1, <1>2, <2>1 DEF Compacted, Live, Matches, InTable, Index
  <2>2. CASE Recycled(i)
    BY <1>1, <1>2, <2>2 DEF Recycled, Live, EmptySlot, TypeOK
  <2>3. CASE Exhausted(i)
    BY <1>1, <1>2, <2>3 DEF Exhausted, Live, EmptySlot, TypeOK
  <2> QED BY <2>1, <2>2, <2>3 DEF FreeEffect
<1>3. ASSUME NEW k \in Handle, k # h PROVE Same(k)
  <2>1. k.index \in Index
    BY DEF Handle
  <2>2. CASE k.index = i
    <3>1. k.gen # h.gen
      BY <1>3, <2>2 DEF Handle
    <3>2. ~Live(k)
      BY <1>1, <2>2, <3>1 DEF Live, Matches
    <3> QED BY <1>2, <2>2, <3>2, DeadKept
  <2>3. CASE k.index # i /\ Compacted(i)
    <3>1. ~Live(k) /\ ~Live(k)'
      BY <2>1, <2>3 DEF Compacted, Live, Matches, InTable, Index
    <3> QED BY <3>1, DeadKept
  <2>4. CASE k.index # i /\ (Recycled(i) \/ Exhausted(i))
    <3>1. slots'[k.index] = slots[k.index] /\ len' = len
      BY <2>1, <2>4 DEF Recycled, Exhausted, TypeOK
    <3> QED BY <3>1, SlotKept DEF InTable
  <2> QED BY <2>2, <2>3, <2>4 DEF FreeEffect
<1> QED BY <1>2, <1>3 DEF OthersSame

\* A slot that gives out h had no object, and h was never issued before.
LEMMA IssueOthers ==
  ASSUME IInv, NEW h \in Handle, h \notin issued, issued' = issued \cup {h},
         ~InTable(h.index) \/ slots[h.index].obj = "none",
         slots' = [slots EXCEPT ![h.index] = NewSlot(h.gen)],
         \A j \in Index : j # h.index => (InTable(j)' <=> InTable(j)),
         InTable(h.index)'
  PROVE  Life!Issue(h)
<1>0. TypeOK
  BY DEF IInv
<1>1. /\ h.index \in Index /\ slots'[h.index] = NewSlot(h.gen)
      /\ \A j \in Index : j # h.index => slots'[j] = slots[j]
  BY <1>0 DEF Handle, TypeOK
<1>2. ASSUME NEW k \in Handle, k # h PROVE Same(k)
  <2>1. k.index \in Index
    BY DEF Handle
  <2>2. CASE k.index # h.index
    BY <1>1, <1>2, <2>1, <2>2, SlotKept
  <2>3. CASE k.index = h.index
    <3>1. k.gen # h.gen
      BY <1>2, <2>3 DEF Handle
    <3>2. ~Live(k) /\ ~Live(k)'
      BY <1>1, <2>3, <3>1 DEF Live, Matches, NewSlot
    <3> QED BY <1>2, <3>2, DeadKept
  <2> QED BY <2>2, <2>3
<1>3. h \in issued' /\ Live(h)'
  BY <1>1 DEF Live, Matches, NewSlot
<1>4. LifeOf(h)' = "live" /\ UserOf(h)' = NoThread /\ PinsOf(h)' = 0
  BY <1>1, <1>3 DEF LifeOf, UserOf, PinsOf, NewSlot
<1>5. Life!Becomes(h, "live", NoThread, 0)
  BY <1>2, <1>4, BecomesIntro DEF OthersSame
<1>6. LifeOf(h) = "unissued"
  BY DEF LifeOf
<1> QED BY <1>5, <1>6 DEF Life!Issue

----------------------------------------------------------------------------
(* What the mapping needs beyond the table's own invariant *)

\* A lease counter of one has its owner.
LeaseHasOwner == \A i \in Index : slots[i].leases = 1 => slots[i].owner # NoThread

\* A handle that names an object was handed out.
LiveIsIssued == \A h \in Handle : Live(h) => h \in issued

MapInv == LeaseHasOwner /\ LiveIsIssued

SlotLife(s) ==
  IF s.pending_free THEN "dying" ELSE IF s.retired THEN "doomed" ELSE "live"

\* How a live handle looks to the ideal registry.
LEMMA LiveLooks ==
  ASSUME IInv, MapInv, NEW h \in Handle, Live(h)
  PROVE  /\ h.index \in Index /\ slots[h.index] \in Slot
         /\ LifeOf(h) = SlotLife(slots[h.index])
         /\ UserOf(h) = slots[h.index].owner /\ PinsOf(h) = slots[h.index].pins
         /\ slots[h.index].owner # NoThread <=> slots[h.index].leases = 1
<1>0. TypeOK /\ ThreadInv
  BY DEF IInv
<1>1. h \in issued
  BY DEF MapInv, LiveIsIssued
<1>2. h.index \in Index /\ slots[h.index] \in Slot
  BY <1>0 DEF TypeOK, Handle
<1>3. /\ LifeOf(h) = SlotLife(slots[h.index])
      /\ UserOf(h) = slots[h.index].owner /\ PinsOf(h) = slots[h.index].pins
  BY <1>1 DEF LifeOf, UserOf, PinsOf, SlotLife
<1>4. slots[h.index].leases = 1 => slots[h.index].owner # NoThread
  BY <1>2 DEF MapInv, LeaseHasOwner
<1>5. slots[h.index].owner # NoThread => slots[h.index].leases = 1
  <2>1. SUFFICES ASSUME slots[h.index].owner # NoThread PROVE slots[h.index].leases = 1
    OBVIOUS
  <2>2. slots[h.index].owner \in Thread
    BY <1>2, <2>1 DEF Slot
  <2>3. pack(h.index, slots[h.index].generation) \in held[slots[h.index].owner]
    BY <1>0, <1>2, <2>1 DEF ThreadInv, OwnerHoldsGuard
  <2>4. pack(h.index, slots[h.index].generation).index = h.index
    BY DEF pack
  <2> QED BY <1>0, <2>2, <2>3, <2>4 DEF ThreadInv, LeaseKeepsObject
<1> QED BY <1>2, <1>3, <1>4, <1>5

\* An in-place update of a live handle's slot shows as its new life.
LEMMA TouchedLife ==
  ASSUME IInv, MapInv, NEW h \in Handle, Live(h), NEW s \in Slot, Touched(h.index, s),
         issued' = issued, s.leases = 1 => s.owner # NoThread
  PROVE  Life!Becomes(h, SlotLife(s), s.owner, s.pins) /\ MapInv'
<1>0. TypeOK
  BY DEF IInv
<1>1. OthersSame(h) /\ Live(h)' /\ slots'[h.index] = s
  BY <1>0, TouchedOthers
<1>2. h \in issued'
  BY DEF MapInv, LiveIsIssued
<1>3. LifeOf(h)' = SlotLife(s) /\ UserOf(h)' = s.owner /\ PinsOf(h)' = s.pins
  BY <1>1, <1>2 DEF LifeOf, UserOf, PinsOf, SlotLife
<1>4. Life!Becomes(h, SlotLife(s), s.owner, s.pins)
  BY <1>1, <1>3, BecomesIntro
<1>5. h.index \in Index
  BY DEF Handle
<1>6. \A j \in Index : slots'[j] = IF j = h.index THEN s ELSE slots[j]
  BY <1>0, <1>5 DEF Touched, TypeOK
<1>7. LeaseHasOwner'
  BY <1>6 DEF MapInv, LeaseHasOwner
<1>8. LiveIsIssued'
  BY <1>0, <1>5, TouchedIssued DEF MapInv, LiveIsIssued
<1> QED BY <1>4, <1>7, <1>8 DEF MapInv

\* Reclaiming a live handle's slot shows as its death.
LEMMA FreedLife ==
  ASSUME IInv, TypeOK', MapInv, NEW h \in Handle, Live(h), FreeEffect(h.index),
         issued' = issued
  PROVE  Life!Becomes(h, "dead", NoThread, 0) /\ MapInv'
<1>0. TypeOK
  BY DEF IInv
<1>1. OthersSame(h) /\ ~Live(h)'
  BY <1>0, FreedOthers
<1>2. h \in issued'
  BY DEF MapInv, LiveIsIssued
<1>3. LifeOf(h)' = "dead" /\ UserOf(h)' = NoThread /\ PinsOf(h)' = 0
  BY <1>1, <1>2 DEF LifeOf, UserOf, PinsOf
<1>4. Life!Becomes(h, "dead", NoThread, 0)
  BY <1>1, <1>3, BecomesIntro
<1>5. h.index \in Index
  BY DEF Handle
<1>6. ASSUME NEW j \in Index PROVE slots'[j] = slots[j] \/ slots'[j].leases = 0
  <2>1. CASE Compacted(h.index)
    BY <2>1 DEF Compacted, Absent, EmptySlot
  <2>2. CASE Recycled(h.index) \/ Exhausted(h.index)
    BY <1>0, <1>5, <2>2 DEF Recycled, Exhausted, TypeOK, EmptySlot
  <2> QED BY <2>1, <2>2 DEF FreeEffect
<1>7. LeaseHasOwner'
  BY <1>6 DEF MapInv, LeaseHasOwner
<1>8. ASSUME NEW k \in Handle, Live(k)' PROVE k \in issued'
  <2>1. LifeOf(k)' = LifeOf(k) \/ k = h
    BY <1>1, <1>8 DEF OthersSame, Same
  <2>2. CASE k \notin issued
    <3>1. Same(k)
      BY <1>1, <1>2, <1>8, <2>2 DEF OthersSame
    <3>2. ~Live(k)
      BY <2>2 DEF MapInv, LiveIsIssued
    <3>3. k.index \in Index
      BY DEF Handle
    <3>4. CASE Compacted(h.index)
      BY <1>8, <3>3, <3>4 DEF Compacted, Live, Absent, EmptySlot
    <3>5. CASE (Recycled(h.index) \/ Exhausted(h.index)) /\ k.index # h.index
      BY <1>0, <1>5, <1>8, <3>2, <3>3, <3>5
         DEF Recycled, Exhausted, TypeOK, Live, Matches, InTable
    <3>6. CASE (Recycled(h.index) \/ Exhausted(h.index)) /\ k.index = h.index
      BY <1>0, <1>5, <1>8, <3>6
         DEF Recycled, Exhausted, TypeOK, Live, EmptySlot
    <3> QED BY <3>4, <3>5, <3>6 DEF FreeEffect
  <2> QED BY <2>2
<1>9. LiveIsIssued'
  BY <1>8 DEF LiveIsIssued
<1> QED BY <1>4, <1>7, <1>9 DEF MapInv

\* A step that leaves the table alone does not show.
LEMMA QuietLife ==
  ASSUME MapInv, UNCHANGED <<table, issued>>
  PROVE  UNCHANGED Life!vars /\ MapInv'
<1>1. /\ slots' = slots /\ len' = len /\ issued' = issued
  BY DEF table
<1>2. \A k \in Handle : Same(k)
  BY <1>1, SlotKept DEF InTable
<1>3. MapInv'
  BY <1>1 DEF MapInv, LeaseHasOwner, LiveIsIssued, Live, Matches, InTable
<1> QED BY <1>2, <1>3, StutterIntro

\* Neither does one that leaves its handle's life, user and pins alone.
LEMMA BecomesSame ==
  ASSUME NEW h \in Handle, Life!Becomes(h, LifeOf(h), UserOf(h), PinsOf(h))
  PROVE  UNCHANGED Life!vars
<1> DEFINE l == [k \in Handle |-> LifeOf(k)]
           u == [k \in Handle |-> UserOf(k)]
           p == [k \in Handle |-> PinsOf(k)]
<1>1. [l EXCEPT ![h] = LifeOf(h)] = l
  OBVIOUS
<1>2. [u EXCEPT ![h] = UserOf(h)] = u
  OBVIOUS
<1>3. [p EXCEPT ![h] = PinsOf(h)] = p
  OBVIOUS
<1> QED BY <1>1, <1>2, <1>3 DEF Life!Becomes, Life!vars

----------------------------------------------------------------------------
(* Every step of the table is a step of the ideal registry or shows nothing *)

LifeStep == (Life!Next \/ UNCHANGED Life!vars) /\ MapInv'

\* A fresh or reused slot gives out a handle that was never issued.
LEMMA AllocIssues ==
  ASSUME IInv, MapInv, AllocReuse \/ AllocFresh
  PROVE  LifeStep
<1>0. TypeOK /\ TableInv /\ IssuedLiveOrBuried
  BY DEF IInv
<1>1. ASSUME NEW h \in Handle, h \notin issued, issued' = issued \cup {h},
             ~InTable(h.index) \/ slots[h.index].obj = "none",
             slots' = [slots EXCEPT ![h.index] = NewSlot(h.gen)],
             \A j \in Index : j # h.index => (InTable(j)' <=> InTable(j)),
             InTable(h.index)'
      PROVE  LifeStep
  <2>1. Life!Issue(h)
    BY <1>1, IssueOthers
  <2>2. h.index \in Index /\ \A j \in Index :
          slots'[j] = IF j = h.index THEN NewSlot(h.gen) ELSE slots[j]
    BY <1>0, <1>1 DEF TypeOK, Handle
  <2>3. LeaseHasOwner'
    BY <2>2 DEF MapInv, LeaseHasOwner, NewSlot
  <2>4. ASSUME NEW k \in Handle, Live(k)', k # h PROVE k \in issued
    <3>1. k.index \in Index
      BY DEF Handle
    <3>2. k.index # h.index
      BY <2>2, <2>4 DEF Live, Matches, NewSlot, Handle
    <3>3. Live(k)
      BY <1>1, <2>2, <2>4, <3>1, <3>2 DEF Live, Matches
    <3> QED BY <3>3 DEF MapInv, LiveIsIssued
  <2>5. LiveIsIssued'
    BY <1>1, <2>4 DEF LiveIsIssued
  <2> QED BY <2>1, <2>3, <2>5 DEF LifeStep, MapInv, Life!Next
<1>2. CASE AllocReuse
  <2> DEFINE i == free[Len(free)]
             g == MaxOf(slots[i].generation, floor)
             h == pack(i, g)
  <2>1. Len(free) \in Nat /\ Len(free) > 0 /\ i \in Index
    BY <1>0, <1>2 DEF AllocReuse, TypeOK
  <2>2. i <= len /\ slots[i].obj = "none" /\ ~slots[i].retired
    BY <1>0, <2>1 DEF TableInv, FreeStackExact
  <2>3. slots[i].generation \in Gen /\ g \in Gen /\ g >= slots[i].generation
    BY <1>0, <2>1 DEF MaxOf, TypeOK, Slot, Gen
  <2>4. /\ slots' = [slots EXCEPT ![i] = NewSlot(g)]
        /\ issued' = issued \cup {h}
        /\ len' = len
    BY <1>2 DEF AllocReuse
  <2> HIDE DEF g, i
  <2>5. h \in Handle /\ h.index = i /\ h.gen = g
    BY <2>1, <2>3 DEF pack, Handle
  <2> HIDE DEF h
  <2>6. h \notin issued
    BY <1>0, <2>2, <2>3, <2>5 DEF IssuedLiveOrBuried, Buried, Live, Gen
  <2> QED BY <1>1, <2>2, <2>4, <2>5, <2>6 DEF InTable
<1>3. CASE AllocFresh
  <2> DEFINE h == pack(len + 1, floor)
  <2>0. len + 1 \in Index /\ floor \in Gen
    BY <1>0, <1>3 DEF AllocFresh, TypeOK, Index
  <2>1. h \in Handle /\ h.index = len + 1 /\ h.gen = floor
    BY <2>0 DEF pack, Handle
  <2>2. /\ slots' = [slots EXCEPT ![h.index] = NewSlot(h.gen)]
        /\ issued' = issued \cup {h}
        /\ len' = len + 1
    BY <1>3, <2>1 DEF AllocFresh
  <2> HIDE DEF h
  <2>3. len \in Nat /\ floor \in Nat
    BY <1>0 DEF TypeOK, Gen
  <2>4. h \notin issued
    BY <1>0, <2>1, <2>3 DEF IssuedLiveOrBuried, Buried, Live, Matches, InTable
  <2>5. \A j \in Index : j # h.index => (j <= len' <=> j <= len)
    BY <2>1, <2>2, <2>3 DEF Index
  <2>6. ~(h.index <= len) /\ h.index <= len'
    BY <2>1, <2>2, <2>3
  <2> QED BY <1>1, <2>1, <2>2, <2>4, <2>5, <2>6 DEF InTable
<1> QED BY <1>2, <1>3

\* A lease that is taken is the handle's only one.
LEMMA AcquireLeases ==
  ASSUME IInv, MapInv, NEW t \in Thread, NEW h \in Handle, AcquireBody(t, h)
  PROVE  LifeStep
<1>1. CASE AcquireFails(t, h) \/ AcquireSleeps(t, h)
  BY <1>1, QuietLife DEF AcquireFails, AcquireSleeps, LifeStep
<1>2. CASE AcquireTakes(t, h)
  <2> DEFINE o == slots[h.index]
             s == [o EXCEPT !.owner = t, !.leases = 1]
  <2>1. Live(h) /\ ~o.retired /\ o.owner = NoThread
    BY <1>2 DEF AcquireTakes, Usable
  <2>2. /\ h.index \in Index /\ o \in Slot /\ LifeOf(h) = SlotLife(o)
        /\ UserOf(h) = o.owner /\ PinsOf(h) = o.pins
    BY <2>1, LiveLooks
  <2>3. ~o.pending_free
    BY <2>1, <2>2 DEF IInv, TableInv, DeferredFreeHasHolder
  <2>4. s \in Slot
    BY <2>2, SlotUpdatesTyped
  <2>5. /\ s.owner = t /\ s.pins = o.pins /\ s.retired = o.retired
        /\ s.pending_free = o.pending_free /\ s.obj = o.obj
        /\ s.generation = o.generation
    BY <2>2 DEF Slot
  <2>n. t # NoThread
    OBVIOUS
  <2>6. Touched(h.index, s)
    BY <1>2, <2>1, <2>2, <2>5 DEF AcquireTakes, Touched, Live, Matches, InTable
  <2>7. issued' = issued
    BY <1>2 DEF AcquireTakes
  <2> HIDE DEF s
  <2>8. Life!Becomes(h, SlotLife(s), s.owner, s.pins) /\ MapInv'
    BY <2>1, <2>4, <2>5, <2>6, <2>7, <2>n, TouchedLife
  <2>9. SlotLife(s) = "live" /\ LifeOf(h) = "live"
    BY <2>1, <2>2, <2>3, <2>5 DEF SlotLife
  <2>10. Life!Lease(h, t)
    BY <2>1, <2>2, <2>5, <2>8, <2>9 DEF Life!Lease
  <2> QED BY <2>8, <2>10 DEF LifeStep, Life!Next
<1> QED BY <1>1, <1>2 DEF AcquireBody

\* Writing the object does not show.
LEMMA WriteShowsNothing ==
  ASSUME IInv, MapInv, NEW h \in Handle, Live(h), NEW v \in Content,
         slots' = [slots EXCEPT ![h.index] = [@ EXCEPT !.obj = v]],
         UNCHANGED <<len, free, floor, issued>>
  PROVE  LifeStep
<1> DEFINE o == slots[h.index]
           s == [o EXCEPT !.obj = v]
<1>1. /\ h.index \in Index /\ o \in Slot /\ LifeOf(h) = SlotLife(o)
      /\ UserOf(h) = o.owner /\ PinsOf(h) = o.pins
      /\ o.leases = 1 => o.owner # NoThread
  BY LiveLooks
<1>2. s \in Slot
  BY <1>1, SlotUpdatesTyped
<1>3. /\ s.owner = o.owner /\ s.pins = o.pins /\ s.retired = o.retired
      /\ s.pending_free = o.pending_free /\ s.obj = v
      /\ s.generation = o.generation /\ s.leases = o.leases
  BY <1>1 DEF Slot
<1>n. v # "none"
  BY DEF Content
<1>4. Touched(h.index, s)
  BY <1>1, <1>3, <1>n DEF Touched, Live, Matches, InTable
<1> HIDE DEF s
<1>5. Life!Becomes(h, SlotLife(s), s.owner, s.pins) /\ MapInv'
  BY <1>1, <1>2, <1>3, <1>4, TouchedLife
<1>6. SlotLife(s) = SlotLife(o)
  BY <1>3 DEF SlotLife
<1> QED BY <1>1, <1>3, <1>5, <1>6, BecomesSame DEF LifeStep

\* A pin shows as a pin.
LEMMA PinPins ==
  ASSUME IInv, MapInv, NEW t \in Thread, NEW h \in Handle, Pin(t, h)
  PROVE  LifeStep
<1> DEFINE o == slots[h.index]
           s == [o EXCEPT !.pins = o.pins + 1]
<1>1. Live(h) /\ ~o.retired /\ o.pins < MaxPins
  BY DEF Pin, Usable
<1>2. /\ h.index \in Index /\ o \in Slot /\ LifeOf(h) = SlotLife(o)
      /\ UserOf(h) = o.owner /\ PinsOf(h) = o.pins
      /\ o.leases = 1 => o.owner # NoThread
  BY <1>1, LiveLooks
<1>3. ~o.pending_free
  BY <1>1, <1>2 DEF IInv, TableInv, DeferredFreeHasHolder
<1>4. s \in Slot
  BY <1>1, <1>2, SlotUpdatesTyped
<1>5. /\ s.owner = o.owner /\ s.pins = o.pins + 1 /\ s.retired = o.retired
      /\ s.pending_free = o.pending_free /\ s.obj = o.obj
      /\ s.generation = o.generation /\ s.leases = o.leases
  BY <1>2 DEF Slot
<1>6. Touched(h.index, s)
  BY <1>1, <1>2, <1>5 DEF Pin, Touched, Live, Matches, InTable
<1>7. issued' = issued
  BY DEF Pin
<1> HIDE DEF s
<1>8. Life!Becomes(h, SlotLife(s), s.owner, s.pins) /\ MapInv'
  BY <1>1, <1>2, <1>4, <1>5, <1>6, <1>7, TouchedLife
<1>9. SlotLife(s) = "live" /\ LifeOf(h) = "live"
  BY <1>1, <1>2, <1>3, <1>5 DEF SlotLife
<1>10. Life!Pin(h)
  BY <1>2, <1>5, <1>8, <1>9 DEF Life!Pin
<1> QED BY <1>8, <1>10 DEF LifeStep, Life!Next

\* Slot update or reclamation, as the ideal registry sees it.
LEMMA UpdateOrFreeLife ==
  ASSUME IInv, TypeOK', MapInv, NEW h \in Handle, Live(h), NEW s \in Slot,
         NEW drained \in BOOLEAN, UpdateOrFree(h.index, s, drained), issued' = issued,
         s.obj = slots[h.index].obj, s.generation = slots[h.index].generation,
         s.leases = 1 => s.owner # NoThread
  PROVE  /\ MapInv'
         /\ drained => Life!Becomes(h, "dead", NoThread, 0)
         /\ ~drained => Life!Becomes(h, SlotLife(s), s.owner, s.pins)
<1>0. TypeOK /\ h.index \in Index
  BY DEF IInv, Handle
<1>1. CASE drained
  <2>1. FreeEffect(h.index)
    BY <1>0, <1>1, FinishFreeEffect DEF UpdateOrFree
  <2> QED BY <1>1, <2>1, FreedLife
<1>2. CASE ~drained
  <2>1. Touched(h.index, s)
    BY <1>2 DEF UpdateOrFree, Touched, Live, Matches, InTable
  <2> QED BY <1>2, <2>1, TouchedLife
<1> QED BY <1>1, <1>2

\* Dropping the guard ends the handle's use, and its life if that was due.
LEMMA ReleaseUnleases ==
  ASSUME IInv, TypeOK', MapInv, NEW t \in Thread, NEW h \in Handle, Release(t, h)
  PROVE  LifeStep
<1> DEFINE o == slots[h.index]
           s == [o EXCEPT !.owner = NoThread, !.leases = 0]
           drained == s.pins = 0 /\ s.pending_free
<1>1. Live(h) /\ o.owner = t /\ o.leases = 1
  BY DEF Release, IInv, ThreadInv, LeaseKeepsObject
<1>2. /\ h.index \in Index /\ o \in Slot /\ LifeOf(h) = SlotLife(o)
      /\ UserOf(h) = o.owner /\ PinsOf(h) = o.pins
  BY <1>1, LiveLooks
<1>3. s \in Slot
  BY <1>2, SlotUpdatesTyped
<1>4. /\ s.owner = NoThread /\ s.pins = o.pins /\ s.retired = o.retired
      /\ s.pending_free = o.pending_free /\ s.obj = o.obj
      /\ s.generation = o.generation /\ s.leases = 0
  BY <1>2 DEF Slot
<1>5. UpdateOrFree(h.index, s, drained) /\ issued' = issued
  BY <1>1 DEF Release, Live
<1>6. drained \in BOOLEAN /\ t # NoThread
  OBVIOUS
<1>7. drained <=> o.pins = 0 /\ o.pending_free
  BY <1>4
<1> HIDE DEF s, drained
<1>8. /\ MapInv'
      /\ drained => Life!Becomes(h, "dead", NoThread, 0)
      /\ ~drained => Life!Becomes(h, SlotLife(s), s.owner, s.pins)
  BY <1>1, <1>3, <1>4, <1>5, <1>6, UpdateOrFreeLife
<1>9. SlotLife(s) = SlotLife(o) /\ (SlotLife(o) = "dying" <=> o.pending_free)
  BY <1>4 DEF SlotLife
<1>10. Life!Unlease(h)
  <2>1. Life!Settle(h, SlotLife(o), NoThread, o.pins)
    BY <1>4, <1>7, <1>8, <1>9 DEF Life!Settle
  <2> QED BY <1>1, <1>2, <1>6, <2>1 DEF Life!Unlease
<1> QED BY <1>8, <1>10 DEF LifeStep, Life!Next

\* Dropping a pin, likewise.
LEMMA UnpinUnpins ==
  ASSUME IInv, TypeOK', MapInv, NEW t \in Thread, NEW h \in Handle, Unpin(t, h)
  PROVE  LifeStep
<1> DEFINE o == slots[h.index]
           s == [o EXCEPT !.pins = @ - 1]
           drained == s.pins + s.leases = 0 /\ s.pending_free
<1>0. h.index \in Index /\ Matches(h) /\ o.pins > 0
  BY DEF Unpin, Handle
<1>1. Live(h)
  BY <1>0 DEF IInv, TableInv, PinsNeedObject, Live
<1>2. /\ o \in Slot /\ LifeOf(h) = SlotLife(o)
      /\ UserOf(h) = o.owner /\ PinsOf(h) = o.pins
      /\ o.owner # NoThread <=> o.leases = 1
  BY <1>1, LiveLooks
<1>3. s \in Slot
  BY <1>0, <1>2, SlotUpdatesTyped
<1>4. /\ s.owner = o.owner /\ s.pins = o.pins - 1 /\ s.retired = o.retired
      /\ s.pending_free = o.pending_free /\ s.obj = o.obj
      /\ s.generation = o.generation /\ s.leases = o.leases
  BY <1>2 DEF Slot
<1>5. UpdateOrFree(h.index, s, drained) /\ issued' = issued
  BY DEF Unpin
<1>6. drained \in BOOLEAN
  OBVIOUS
<1>n. o.pins \in Nat /\ o.leases \in {0, 1}
  BY <1>2 DEF Slot
<1>7. s.pins + s.leases = 0 <=> s.pins = 0 /\ s.leases = 0
  BY <1>0, <1>4, <1>n
<1>d. drained <=> o.pins - 1 = 0 /\ o.owner = NoThread /\ o.pending_free
  BY <1>2, <1>4, <1>7, <1>n
<1> HIDE DEF s, drained
<1>8. /\ MapInv'
      /\ drained => Life!Becomes(h, "dead", NoThread, 0)
      /\ ~drained => Life!Becomes(h, SlotLife(s), s.owner, s.pins)
  BY <1>1, <1>2, <1>3, <1>4, <1>5, <1>6, UpdateOrFreeLife
<1>9. SlotLife(s) = SlotLife(o) /\ (SlotLife(o) = "dying" <=> o.pending_free)
  BY <1>4 DEF SlotLife
<1>10. Life!Unpin(h)
  <2>1. CASE drained
    BY <1>0, <1>2, <1>8, <1>9, <1>d, <2>1 DEF Life!Unpin, Life!Settle
  <2>2. CASE ~drained
    BY <1>0, <1>2, <1>4, <1>8, <1>9, <1>d, <2>2 DEF Life!Unpin, Life!Settle
  <2> QED BY <2>1, <2>2
<1> QED BY <1>8, <1>10 DEF LifeStep, Life!Next

\* Retiring dooms a live handle and changes nothing about a doomed one.
LEMMA RetireDooms ==
  ASSUME IInv, MapInv, NEW h \in Handle, Retire(h), issued' = issued
  PROVE  LifeStep
<1> DEFINE o == slots[h.index]
           s == [o EXCEPT !.retired = TRUE]
<1>1. Live(h)
  BY DEF Retire
<1>2. /\ h.index \in Index /\ o \in Slot /\ LifeOf(h) = SlotLife(o)
      /\ UserOf(h) = o.owner /\ PinsOf(h) = o.pins
      /\ o.leases = 1 => o.owner # NoThread
  BY <1>1, LiveLooks
<1>3. s \in Slot
  BY <1>2, SlotUpdatesTyped
<1>4. /\ s.owner = o.owner /\ s.pins = o.pins /\ s.retired
      /\ s.pending_free = o.pending_free /\ s.obj = o.obj
      /\ s.generation = o.generation /\ s.leases = o.leases
  BY <1>2 DEF Slot
<1>5. Touched(h.index, s)
  BY <1>1, <1>2, <1>4 DEF Retire, Touched, Live, Matches, InTable
<1>6. o.pending_free => o.retired
  BY <1>2 DEF IInv, TableInv, DeferredFreeHasHolder
<1> HIDE DEF s
<1>7. Life!Becomes(h, SlotLife(s), s.owner, s.pins) /\ MapInv'
  BY <1>1, <1>2, <1>3, <1>4, <1>5, TouchedLife
<1>8. CASE o.retired
  <2>1. SlotLife(s) = SlotLife(o)
    BY <1>4, <1>8 DEF SlotLife
  <2> QED BY <1>2, <1>4, <1>7, <2>1, BecomesSame DEF LifeStep
<1>9. CASE ~o.retired
  <2>1. SlotLife(s) = "doomed" /\ SlotLife(o) = "live"
    BY <1>4, <1>6, <1>9 DEF SlotLife
  <2>2. Life!Doom(h)
    BY <1>2, <1>4, <1>7, <2>1 DEF Life!Doom
  <2> QED BY <1>7, <2>2 DEF LifeStep, Life!Next
<1> QED BY <1>8, <1>9

\* finish_destroy condemns the handle, and kills it if nobody uses it.
LEMMA FinishCondemns ==
  ASSUME IInv, TypeOK', MapInv, NEW h \in Handle, FinishBody(h), issued' = issued
  PROVE  LifeStep
<1>1. CASE ~Live(h)
  BY <1>1, QuietLife DEF FinishBody, LifeStep
<1>2. CASE Live(h)
  <2> DEFINE o == slots[h.index]
             s == [o EXCEPT !.retired = TRUE]
             idle == s.leases = 0 /\ s.pins = 0
             u == IF idle THEN s ELSE [s EXCEPT !.pending_free = TRUE]
  <2>1. /\ h.index \in Index /\ o \in Slot /\ LifeOf(h) = SlotLife(o)
        /\ UserOf(h) = o.owner /\ PinsOf(h) = o.pins
        /\ o.owner # NoThread <=> o.leases = 1
    BY <1>2, LiveLooks
  <2>2. s \in Slot /\ [s EXCEPT !.pending_free = TRUE] \in Slot
    BY <2>1, SlotUpdatesTyped
  <2>3. /\ s.owner = o.owner /\ s.pins = o.pins /\ s.obj = o.obj
        /\ s.generation = o.generation /\ s.leases = o.leases
    BY <2>1 DEF Slot
  <2>4. UpdateOrFree(h.index, u, idle)
    BY <1>2 DEF FinishBody
  <2>5. /\ u \in Slot /\ idle \in BOOLEAN
        /\ u.owner = o.owner /\ u.pins = o.pins /\ u.obj = o.obj
        /\ u.generation = o.generation /\ u.leases = o.leases
        /\ ~idle => u.pending_free
    BY <2>2, <2>3 DEF Slot
  <2>n. o.leases \in {0, 1} /\ o.pins \in Nat
    BY <2>1 DEF Slot
  <2>6. idle <=> o.owner = NoThread /\ o.pins = 0
    BY <2>1, <2>3, <2>n
  <2> HIDE DEF u, s, idle
  <2>7. /\ MapInv'
        /\ idle => Life!Becomes(h, "dead", NoThread, 0)
        /\ ~idle => Life!Becomes(h, SlotLife(u), u.owner, u.pins)
    BY <1>2, <2>1, <2>4, <2>5, UpdateOrFreeLife
  <2>8. o.pending_free => ~idle
    BY <2>1, <2>6, <2>n DEF IInv, TableInv, DeferredFreeHasHolder
  <2>9. CASE o.pending_free
    <3>1. SlotLife(u) = SlotLife(o)
      BY <2>5, <2>8, <2>9 DEF SlotLife
    <3> QED BY <2>1, <2>5, <2>7, <2>8, <2>9, <3>1, BecomesSame DEF LifeStep
  <2>10. CASE ~o.pending_free
    <3>1. SlotLife(o) \in {"live", "doomed"}
      BY <2>10 DEF SlotLife
    <3>2. ~idle => SlotLife(u) = "dying"
      BY <2>5 DEF SlotLife
    <3>3. Life!Settle(h, "dying", o.owner, o.pins)
      BY <2>5, <2>6, <2>7, <3>2 DEF Life!Settle
    <3>4. Life!Condemn(h)
      BY <2>1, <3>1, <3>3 DEF Life!Condemn
    <3> QED BY <2>7, <3>4 DEF LifeStep, Life!Next
  <2> QED BY <2>9, <2>10
<1> QED BY <1>1, <1>2

\* map_root_drop kills an idle handle at once.
LEMMA MapRootDrops ==
  ASSUME IInv, TypeOK', MapInv, NEW h \in Handle, MapRootDrop(h)
  PROVE  LifeStep
<1>1. /\ Live(h) /\ ~slots[h.index].retired /\ slots[h.index].owner = NoThread
      /\ slots[h.index].pins = 0 /\ FinishFree(h.index) /\ issued' = issued
  BY DEF MapRootDrop, RootValid, Usable
<1>2. /\ h.index \in Index /\ LifeOf(h) = SlotLife(slots[h.index])
      /\ UserOf(h) = slots[h.index].owner /\ PinsOf(h) = slots[h.index].pins
  BY <1>1, LiveLooks
<1>3. ~slots[h.index].pending_free
  BY <1>1, <1>2 DEF IInv, TableInv, DeferredFreeHasHolder
<1>4. FreeEffect(h.index)
  BY <1>1, <1>2, FinishFreeEffect DEF IInv
<1>5. Life!Becomes(h, "dead", NoThread, 0) /\ MapInv'
  BY <1>1, <1>4, FreedLife
<1>6. Life!Drop(h)
  BY <1>1, <1>2, <1>3, <1>5 DEF Life!Drop, SlotLife
<1> QED BY <1>5, <1>6 DEF LifeStep, Life!Next

\* Every step of the table, compaction and exhaustion included.
LEMMA StepIsLifeStep ==
  ASSUME IInv, TypeOK', MapInv, [Next]_vars
  PROVE  LifeStep
<1>h. issued \subseteq Handle /\ \A t \in Thread : arg[t] \in Handle
  BY DEF IInv, TypeOK
<1>1. ASSUME NEW t \in Thread, ThreadStep(t) PROVE LifeStep
  <2>1. ASSUME NEW h \in issued, UseLease(t, h) PROVE LifeStep
    <3>1. Live(h)
      BY <2>1 DEF UseLease, IInv, ThreadInv, LeaseKeepsObject
    <3>2. PICK v \in Content : slots' = [slots EXCEPT ![h.index] = [@ EXCEPT !.obj = v]]
      BY <2>1 DEF UseLease, Content
    <3>3. UNCHANGED <<len, free, floor, issued>>
      BY <2>1 DEF UseLease
    <3> QED BY <1>h, <3>1, <3>2, <3>3, WriteShowsNothing
  <2>2. ASSUME NEW h \in issued, BeginDestroy(t, h) \/ Destroy(t, h) PROVE LifeStep
    BY <1>h, <2>2, RetireDooms DEF BeginDestroy, Destroy
  <2>3. ASSUME NEW h \in issued, FinishDestroy(t, h) PROVE LifeStep
    BY <1>h, <2>3, FinishCondemns DEF FinishDestroy
  <2>4. CASE DestroyFinish(t)
    BY <1>h, <2>4, FinishCondemns DEF DestroyFinish
  <2>5. CASE SpuriousWake(t)
    BY <2>5, QuietLife DEF SpuriousWake, LifeStep
  <2> QED BY <1>h, <1>1, <2>1, <2>2, <2>3, <2>4, <2>5,
             AcquireLeases, ReleaseUnleases, PinPins, UnpinUnpins
          DEF ThreadStep, LeaseStep, CallStep, Acquire, Reacquire
<1>2. ASSUME NEW h \in issued, MapRootWrite(h) PROVE LifeStep
  <2>1. PICK v \in Content : slots' = [slots EXCEPT ![h.index] = [@ EXCEPT !.obj = v]]
    BY <1>2 DEF MapRootWrite, Content
  <2>2. Live(h) /\ UNCHANGED <<len, free, floor, issued>>
    BY <1>2 DEF MapRootWrite, RootValid, Usable
  <2> QED BY <1>h, <2>1, <2>2, WriteShowsNothing
<1>3. CASE UNCHANGED vars
  BY <1>3, QuietLife DEF vars, table, LifeStep
<1> QED BY <1>h, <1>1, <1>2, <1>3, AllocIssues, MapRootDrops DEF Next

\* The empty table is the ideal registry before any handle was issued.
LEMMA InitIsLifeInit == Init => Life!Init /\ MapInv
<1> SUFFICES ASSUME Init PROVE Life!Init /\ MapInv
  OBVIOUS
<1>1. issued = {} /\ \A i \in Index : slots[i] = Absent
  BY DEF Init
<1>2. \A h \in Handle : LifeOf(h) = "unissued" /\ UserOf(h) = NoThread /\ PinsOf(h) = 0
  BY <1>1 DEF LifeOf, UserOf, PinsOf
<1>3. Life!Init
  BY <1>2 DEF Life!Init
<1>4. LeaseHasOwner /\ LiveIsIssued
  BY <1>1 DEF LeaseHasOwner, LiveIsIssued, Live, Absent, EmptySlot, Handle
<1> QED BY <1>3, <1>4 DEF MapInv

\* The table implements the ideal registry for every number of threads, slots,
\* generations and pins: reuse, retirement and compaction never show.
THEOREM Refinement == Spec => ImplementsHandleLife
<1>1. IInv /\ MapInv /\ [Next]_vars => MapInv' /\ [Life!Next]_(Life!vars)
  <2> SUFFICES ASSUME IInv, MapInv, [Next]_vars
               PROVE  MapInv' /\ [Life!Next]_(Life!vars)
    OBVIOUS
  <2>1. TypeOK'
    BY TypeStep DEF IInv
  <2> QED BY <2>1, StepIsLifeStep DEF LifeStep
<1> QED BY <1>1, InitIsLifeInit, Invariance, PTL DEF Spec, ImplementsHandleLife, Life!Spec

----------------------------------------------------------------------------
(***************************************************************************)
(* III. The walks: for every object graph, every number of threads and     *)
(* every number of calls, recursive walks and ordinary operations never    *)
(* wait for each other in a circle, and no walk asks for a lease it        *)
(* already has.                                                            *)
(***************************************************************************)

USE WalkAssumption

----------------------------------------------------------------------------
(* The inductive invariant *)

Frame == [node : Index, todo : SUBSET Index]
Walking == {"lease", "node", "leave"}
AtGate == {"gate_asleep", "gate_woken"}

WalkTyped ==
  /\ gate \in [owner : Thread \cup {NoThread}, depth : Nat]
  /\ path \in [Thread -> Seq(Frame)]
  /\ walk \in [Thread -> {"out"} \cup AtGate \cup Walking]
  /\ target \in [Thread -> Index]
  /\ issued = {HandleOf(i) : i \in Index}

\* Only the gate's owner has a path, and the gate's depth is its length.
Owner(t) ==
  /\ path[t] # << >> <=> gate.owner = t
  /\ path[t] # << >> <=> walk[t] \in Walking
  /\ gate.owner = t => gate.depth = Len(path[t])

\* A walk is inside of a node once.
PathDistinct(t) ==
  \A m, n \in 1 .. Len(path[t]) : path[t][m].node = path[t][n].node => m = n

\* The leases of a walk are those of its path; its last node has none while the
\* walk is about to take it or has given it back.
LeasesOnPath(t) ==
  path[t] # << >> =>
    /\ walk[t] = "lease" => target[t] = path[t][Len(path[t])].node
    /\ \A h \in held[t] : \E n \in 1 .. Len(path[t]) :
         /\ h = HandleOf(path[t][n].node)
         /\ walk[t] # "node" => n < Len(path[t])

\* A thread that waits for a lease has none, unless it walks; a thread that
\* waits for the gate has none and waits for nothing else.
WaitsClean(t) ==
  /\ walk[t] \in AtGate => held[t] = {}
  /\ walk[t] \notin {"out", "lease"} => pc[t] = "run"
  /\ walk[t] = "out" /\ pc[t] # "run" => held[t] = {}
  /\ walk[t] = "lease" /\ pc[t] # "run" =>
       pc[t] \in {"asleep", "woken"} /\ arg[t] = HandleOf(target[t])

ThreadClean(t) == Owner(t) /\ PathDistinct(t) /\ LeasesOnPath(t) /\ WaitsClean(t)

WalkInv ==
  /\ WalkTyped
  /\ gate.owner = NoThread => gate.depth = 0
  /\ \A t \in Thread : ThreadClean(t)

AllInv == IInv /\ WalkInv

----------------------------------------------------------------------------
(* The table under the walks *)

\* Every container has its handle.
LEMMA HandleOfTyped ==
  ASSUME NEW i \in Index
  PROVE  HandleOf(i) \in Handle /\ HandleOf(i).index = i
BY DEF HandleOf, pack, Handle, Gen

\* Containers differ if and only if their handles do.
LEMMA HandleOfInjective ==
  ASSUME NEW i, NEW j, HandleOf(i) = HandleOf(j)
  PROVE  i = j
BY DEF HandleOf, pack

\* What a call of thread t does to the other threads: it may wake them.
OthersKept(t) ==
  /\ issued' = issued
  /\ \A u \in Thread \ {t} :
       /\ held'[u] = held[u]
       /\ arg'[u] = arg[u]
       /\ pc'[u] = pc[u] \/ (pc[u] = "asleep" /\ pc'[u] = "woken")

\* A walk step acquires although it has leases; the table does not mind.
LEMMA AcquireInv ==
  ASSUME IInv, NEW t \in Thread, NEW h \in Handle, AcquireBody(t, h)
  PROVE  /\ IInv'
         /\ OthersKept(t)
         /\ \/ AcquireTakes(t, h) /\ held'[t] = held[t] \cup {h} /\ pc'[t] = "run"
            \/ held'[t] = held[t] /\ pc'[t] = "run"
            \/ held'[t] = held[t] /\ pc'[t] = "asleep" /\ arg'[t] = h
<1>1. TypeOK'
  BY AcquireTyped DEF IInv
<1>2. Preserved /\ issued' = issued
  BY <1>1, AcquireKeeps DEF AcquireBody, AcquireFails, AcquireSleeps, AcquireTakes
<1>3. IssuedLiveOrBuried'
  BY <1>2 DEF Preserved, Kept, IssuedLiveOrBuried
<1>4. IInv'
  BY <1>1, <1>2, <1>3 DEF IInv, Preserved
<1>5. OthersKept(t)
  BY <1>2 DEF IInv, TypeOK, OthersKept, AcquireBody, AcquireFails, AcquireSleeps,
              AcquireTakes
<1>6. CASE AcquireFails(t, h)
  BY <1>4, <1>5, <1>6 DEF IInv, TypeOK, AcquireFails
<1>7. CASE AcquireSleeps(t, h)
  BY <1>4, <1>5, <1>7 DEF IInv, TypeOK, AcquireSleeps
<1>8. CASE AcquireTakes(t, h)
  BY <1>4, <1>5, <1>8 DEF IInv, TypeOK, AcquireTakes
<1> QED BY <1>6, <1>7, <1>8 DEF AcquireBody

\* notify_all wakes sleepers and does nothing else.
LEMMA NotifiedKeeps ==
  ASSUME NEW u \in Thread
  PROVE  /\ Notified[u] = pc[u] \/ (pc[u] = "asleep" /\ Notified[u] = "woken")
         /\ pc[u] = "run" => Notified[u] = "run"
BY DEF Notified

\* Dropping a guard.
LEMMA ReleaseInv ==
  ASSUME IInv, NEW t \in Thread, NEW h \in issued, Release(t, h)
  PROVE  /\ IInv'
         /\ OthersKept(t)
         /\ held'[t] = held[t] \ {h} /\ pc[t] = "run" /\ pc'[t] = "run"
<1>1. IInv'
  BY InvStep DEF Next, ThreadStep, LeaseStep
<1>2. pc' = Notified \/ pc' = pc
  BY DEF Release
<1>3. \A u \in Thread : /\ pc'[u] = pc[u] \/ (pc[u] = "asleep" /\ pc'[u] = "woken")
                        /\ pc[u] = "run" => pc'[u] = "run"
  BY <1>2, NotifiedKeeps
<1>4. /\ held' = [held EXCEPT ![t] = @ \ {h}] /\ arg' = arg /\ issued' = issued
      /\ pc[t] = "run"
  BY DEF Release
<1>5. OthersKept(t)
  BY <1>3, <1>4 DEF OthersKept, IInv, TypeOK
<1> QED BY <1>1, <1>3, <1>4, <1>5 DEF IInv, TypeOK

\* Retiring a container.
LEMMA DestroyInv ==
  ASSUME IInv, NEW t \in Thread, NEW h \in issued, held[t] = {}, Destroy(t, h)
  PROVE  IInv' /\ OthersKept(t) /\ held' = held
<1>1. IInv'
  BY InvStep DEF Next, ThreadStep, CallStep
<1>2. /\ pc' = [Notified EXCEPT ![t] = "finish"] /\ arg' = [arg EXCEPT ![t] = h]
      /\ held' = held /\ issued' = issued
  BY DEF Destroy
<1>3. Notified \in [Thread -> {"run", "asleep", "woken", "finish"}]
  BY NotifiedTyped DEF IInv
<1>4. \A u \in Thread \ {t} : pc'[u] = Notified[u]
  BY <1>2, <1>3
<1> QED BY <1>1, <1>2, <1>4, NotifiedKeeps DEF OthersKept, IInv, TypeOK

\* Its second half.
LEMMA DestroyFinishInv ==
  ASSUME IInv, NEW t \in Thread, DestroyFinish(t)
  PROVE  IInv' /\ OthersKept(t) /\ held' = held /\ pc'[t] = "run"
<1>1. IInv'
  BY InvStep DEF Next, ThreadStep
<1>2. /\ pc' = [Notified EXCEPT ![t] = "run"] \/ pc' = [pc EXCEPT ![t] = "run"]
      /\ arg' = [arg EXCEPT ![t] = NoArg] /\ held' = held /\ issued' = issued
  BY DEF DestroyFinish
<1>3. /\ Notified \in [Thread -> {"run", "asleep", "woken", "finish"}]
      /\ pc \in [Thread -> {"run", "asleep", "woken", "finish"}]
  BY NotifiedTyped DEF IInv, TypeOK
<1>4. pc'[t] = "run" /\ \A u \in Thread \ {t} : pc'[u] \in {pc[u], Notified[u]}
  BY <1>2, <1>3
<1> QED BY <1>1, <1>2, <1>4, NotifiedKeeps DEF OthersKept, IInv, TypeOK

----------------------------------------------------------------------------
(* The steps of a walk *)

\* The walks and operations of the other threads are as they were, except that
\* some of them may have been woken.
WalksKept(t) ==
  \A u \in Thread \ {t} :
    /\ path'[u] = path[u]
    /\ target'[u] = target[u]
    /\ walk'[u] = walk[u] \/ (walk[u] = "gate_asleep" /\ walk'[u] = "gate_woken")

\* The gate is with the same other thread, at the same depth, or with none.
GateKept(t) ==
  \A u \in Thread \ {t} :
    /\ gate'.owner = u <=> gate.owner = u
    /\ gate.owner = u => gate' = gate

\* So what holds of the other threads still holds.
LEMMA OthersClean ==
  ASSUME NEW t \in Thread, NEW u \in Thread \ {t}, ThreadClean(u),
         OthersKept(t), WalksKept(t), GateKept(t)
  PROVE  ThreadClean(u)'
<1>1. /\ held'[u] = held[u] /\ arg'[u] = arg[u] /\ path'[u] = path[u]
      /\ target'[u] = target[u]
      /\ pc'[u] = pc[u] \/ (pc[u] = "asleep" /\ pc'[u] = "woken")
      /\ walk'[u] = walk[u] \/ (walk[u] = "gate_asleep" /\ walk'[u] = "gate_woken")
      /\ gate'.owner = u <=> gate.owner = u
      /\ gate.owner = u => gate' = gate
  BY DEF OthersKept, WalksKept, GateKept
<1>2. Owner(u)'
  BY <1>1 DEF ThreadClean, Owner, Walking
<1>3. PathDistinct(u)'
  BY <1>1 DEF ThreadClean, PathDistinct
<1>4. LeasesOnPath(u)'
  BY <1>1 DEF ThreadClean, LeasesOnPath, Owner, Walking
<1>5. WaitsClean(u)'
  BY <1>1 DEF ThreadClean, WaitsClean, AtGate
<1> QED BY <1>2, <1>3, <1>4, <1>5 DEF ThreadClean

\* A step that leaves the table alone keeps its invariant.
LEMMA QuietTable ==
  ASSUME IInv, UNCHANGED vars, NEW t \in Thread
  PROVE  IInv' /\ OthersKept(t)
<1>1. IInv'
  BY InvStep
<1> QED BY <1>1 DEF vars, OthersKept

\* json_container_scope, entered by a walk that is at a node, or by a thread
\* that has no lease.
LEMMA EnterScopeKeeps ==
  ASSUME AllInv, UNCHANGED vars,
         NEW t \in Thread, NEW i \in Index, NEW p \in Seq(Frame),
         Len(p) = Len(path[t]),
         \A n \in 1 .. Len(p) : p[n].node = path[t][n].node,
         walk[t] \in {"out", "gate_woken", "node"}, pc[t] = "run",
         walk[t] # "node" => held[t] = {},
         EnterScope(t, i, p)
  PROVE  AllInv'
<1>0. /\ WalkTyped /\ ThreadClean(t) /\ \A u \in Thread : ThreadClean(u)
      /\ (gate.owner = NoThread => gate.depth = 0)
      /\ held' = held /\ pc' = pc /\ arg' = arg /\ issued' = issued
  BY DEF AllInv, WalkInv, vars
<1>1. IInv' /\ OthersKept(t)
  BY QuietTable DEF AllInv
<1>2. path[t] \in Seq(Frame) /\ Len(path[t]) \in Nat
  BY <1>0 DEF WalkTyped
<1>3. p = << >> <=> path[t] = << >>
  BY <1>2
<1>4. CASE GateSleeps(t, i, p)
  <2>1. path[t] = << >> /\ p = << >> /\ walk[t] # "node" /\ held[t] = {}
    BY <1>0, <1>3, <1>4 DEF ThreadClean, Owner, GateSleeps, Walking
  <2>2. /\ path' = path /\ gate' = gate
        /\ walk' = [walk EXCEPT ![t] = "gate_asleep"]
        /\ target' = [target EXCEPT ![t] = i]
    BY <1>0, <1>4, <2>1 DEF GateSleeps, WalkTyped
  <2>3. WalkTyped'
    BY <1>0, <2>2 DEF WalkTyped, AtGate
  <2>4. WalksKept(t) /\ GateKept(t)
    BY <1>0, <2>2 DEF WalksKept, GateKept, WalkTyped
  <2>5. ThreadClean(t)'
    BY <1>0, <2>1, <2>2 DEF ThreadClean, Owner, PathDistinct, LeasesOnPath, WaitsClean,
                            WalkTyped, AtGate, Walking
  <2>6. \A u \in Thread : ThreadClean(u)'
    BY <1>0, <1>1, <2>4, <2>5, OthersClean
  <2> QED BY <1>0, <1>1, <2>2, <2>3, <2>6 DEF AllInv, WalkInv
<1>5. CASE GateEnters(t, i, p)
  <2> DEFINE f == [node |-> i, todo |-> Children[i]]
             q == Append(p, f)
  <2>1. f \in Frame /\ f.node = i
    BY DEF Frame
  <2>2. /\ q \in Seq(Frame) /\ Len(q) = Len(p) + 1 /\ q # << >>
        /\ q[Len(q)] = f
        /\ \A n \in 1 .. Len(p) : q[n] = p[n]
    BY <2>1, AppendProperties
  <2>3. /\ gate' = [owner |-> t, depth |-> gate.depth + 1]
        /\ path' = [path EXCEPT ![t] = q]
        /\ walk' = [walk EXCEPT ![t] = "lease"]
        /\ target' = [target EXCEPT ![t] = i]
        /\ gate.owner \in {NoThread, t}
        /\ \A n \in 1 .. Len(p) : p[n].node # i
    BY <1>5 DEF GateEnters, OnPath
  <2> HIDE DEF q, f
  <2>4. WalkTyped'
    BY <1>0, <2>2, <2>3 DEF WalkTyped, Walking
  <2>5. WalksKept(t) /\ GateKept(t)
    BY <1>0, <2>3 DEF WalksKept, GateKept, WalkTyped
  <2>6. path'[t] = q /\ walk'[t] = "lease" /\ target'[t] = i
    BY <1>0, <2>3 DEF WalkTyped
  <2>7. gate.depth = Len(p) /\ gate'.owner = t /\ gate'.depth = Len(q)
    BY <1>0, <1>2, <2>2, <2>3 DEF ThreadClean, Owner, WalkTyped
  <2>8. Owner(t)'
    BY <2>2, <2>6, <2>7 DEF Owner, Walking
  <2>9. PathDistinct(t)'
    <3>1. \A m, n \in 1 .. Len(p) : p[m].node = p[n].node => m = n
      BY <1>0 DEF ThreadClean, PathDistinct
    <3> SUFFICES ASSUME NEW m \in 1 .. Len(q), NEW n \in 1 .. Len(q),
                        q[m].node = q[n].node
                 PROVE  m = n
      BY <2>6 DEF PathDistinct
    <3>2. \A k \in 1 .. Len(q) : k = Len(q) \/ k \in 1 .. Len(p)
      BY <1>2, <2>2
    <3>3. q[Len(q)].node = i /\ \A k \in 1 .. Len(p) : q[k].node # i
      BY <2>1, <2>2, <2>3
    <3> QED BY <2>2, <3>1, <3>2, <3>3
  <2>10. LeasesOnPath(t)'
    <3>1. target'[t] = path'[t][Len(path'[t])].node
      BY <2>1, <2>2, <2>6
    <3>2. ASSUME NEW h \in held[t]
          PROVE  \E n \in 1 .. Len(p) : h = HandleOf(p[n].node)
      <4>1. path[t] # << >>
        BY <1>0, <3>2 DEF ThreadClean, Owner, Walking
      <4> QED BY <1>0, <4>1 DEF ThreadClean, LeasesOnPath
    <3>3. ASSUME NEW h \in held[t]
          PROVE  \E n \in 1 .. Len(q) : h = HandleOf(q[n].node) /\ n < Len(q)
      <4>1. PICK n \in 1 .. Len(p) : h = HandleOf(p[n].node)
        BY <3>2
      <4>2. n \in 1 .. Len(q) /\ n < Len(q) /\ q[n] = p[n]
        BY <1>2, <2>2, <4>1
      <4> QED BY <4>1, <4>2
    <3> QED BY <1>0, <2>6, <3>1, <3>3 DEF LeasesOnPath
  <2>11. WaitsClean(t)'
    BY <1>0, <2>6 DEF WaitsClean, AtGate
  <2>12. \A u \in Thread : ThreadClean(u)'
    BY <1>0, <1>1, <2>5, <2>8, <2>9, <2>10, <2>11, OthersClean DEF ThreadClean
  <2> QED BY <1>1, <2>3, <2>4, <2>12 DEF AllInv, WalkInv
<1>6. CASE GateFindsCycle(t, i, p)
  <2>1. /\ path' = [path EXCEPT ![t] = p] /\ gate' = gate /\ walk' = walk
        /\ target' = target /\ gate.owner = t
    BY <1>6 DEF GateFindsCycle
  <2>2. walk[t] = "node" /\ path[t] # << >> /\ p # << >>
    BY <1>0, <1>3, <2>1 DEF ThreadClean, Owner, Walking
  <2>3. WalkTyped' /\ path'[t] = p
    BY <1>0, <2>1 DEF WalkTyped
  <2>4. WalksKept(t) /\ GateKept(t)
    BY <1>0, <2>1 DEF WalksKept, GateKept, WalkTyped
  <2>5. Owner(t)' /\ WaitsClean(t)'
    BY <1>0, <2>1, <2>2, <2>3 DEF ThreadClean, Owner, WaitsClean, AtGate, Walking
  <2>6. PathDistinct(t)'
    BY <1>0, <2>3 DEF ThreadClean, PathDistinct
  <2>7. LeasesOnPath(t)'
    BY <1>0, <2>1, <2>2, <2>3 DEF ThreadClean, LeasesOnPath
  <2>8. \A u \in Thread : ThreadClean(u)'
    BY <1>0, <1>1, <2>4, <2>5, <2>6, <2>7, OthersClean DEF ThreadClean
  <2> QED BY <1>0, <1>1, <2>1, <2>3, <2>8 DEF AllInv, WalkInv
<1> QED BY <1>4, <1>5, <1>6 DEF EnterScope

\* Leaving the scope gives back the path's last node and the gate's last entry.
LEMMA LeaveScopeKeeps ==
  ASSUME AllInv, NEW t \in Thread, LeaveScope(t)
  PROVE  AllInv'
<1> DEFINE rest == Front(path[t])
           next == IF rest = << >> THEN "out" ELSE "node"
<1>0. /\ WalkTyped /\ ThreadClean(t) /\ \A u \in Thread : ThreadClean(u)
      /\ UNCHANGED vars
      /\ held' = held /\ pc' = pc /\ arg' = arg /\ issued' = issued
      /\ target' = target /\ walk[t] = "leave"
      /\ path' = [path EXCEPT ![t] = rest]
  BY DEF AllInv, WalkInv, LeaveScope, vars
<1>1. IInv' /\ OthersKept(t)
  BY <1>0, QuietTable DEF AllInv
<1>2. path[t] \in Seq(Frame) /\ path[t] # << >> /\ gate.owner = t
      /\ gate.depth = Len(path[t]) /\ Len(path[t]) \in Nat \ {0}
  BY <1>0 DEF WalkTyped, ThreadClean, Owner, Walking
<1>3. /\ rest \in Seq(Frame) /\ Len(rest) = Len(path[t]) - 1
      /\ \A n \in 1 .. Len(rest) : rest[n] = path[t][n]
  BY <1>2 DEF Front
<1>4. (rest = << >>) <=> gate.depth = 1
  <2> HIDE DEF rest
  <2>1. rest = << >> <=> Len(rest) = 0
    BY <1>3, EmptySeq
  <2> QED BY <1>2, <1>3, <2>1
<1> HIDE DEF rest
<1>5. \A u \in Thread \ {t} : gate.owner # u /\ walk[u] \notin Walking
  BY <1>0, <1>2 DEF ThreadClean, Owner
<1>6. /\ gate' = [owner |-> IF rest = << >> THEN NoThread ELSE t, depth |-> Len(rest)]
      /\ walk' = [GateNotified EXCEPT ![t] = next] \/ walk' = [walk EXCEPT ![t] = next]
  <2>1. CASE gate.depth = 1
    BY <1>2, <1>3, <1>4, <2>1 DEF LeaveScope, rest
  <2>2. CASE gate.depth # 1
    <3>1. gate' = [gate EXCEPT !.depth = @ - 1] /\ walk' = [walk EXCEPT ![t] = next]
      BY <2>2 DEF LeaveScope, rest
    <3>2. gate = [owner |-> t, depth |-> Len(path[t])]
      BY <1>0, <1>2 DEF WalkTyped
    <3> QED BY <1>3, <1>4, <2>2, <3>1, <3>2
  <2> QED BY <2>1, <2>2
<1>7. GateNotified \in [Thread -> {"out"} \cup AtGate \cup Walking]
  BY <1>0 DEF GateNotified, WalkTyped, AtGate, Walking
<1>8. /\ walk'[t] = next
      /\ \A u \in Thread \ {t} :
           walk'[u] = walk[u] \/ (walk[u] = "gate_asleep" /\ walk'[u] = "gate_woken")
  <2>1. \A u \in Thread :
          \/ GateNotified[u] = walk[u]
          \/ walk[u] = "gate_asleep" /\ GateNotified[u] = "gate_woken"
    BY DEF GateNotified
  <2>2. walk'[t] = next /\ \A u \in Thread \ {t} : walk'[u] \in {walk[u], GateNotified[u]}
    BY <1>0, <1>6, <1>7 DEF WalkTyped
  <2> QED BY <2>1, <2>2
<1>9. path'[t] = rest /\ \A u \in Thread \ {t} : path'[u] = path[u]
  BY <1>0 DEF WalkTyped
<1>10. WalkTyped'
  <2>1. gate' \in [owner : Thread \cup {NoThread}, depth : Nat]
    BY <1>3, <1>6
  <2>2. next \in {"out"} \cup AtGate \cup Walking
    BY DEF Walking
  <2>3. walk' \in [Thread -> {"out"} \cup AtGate \cup Walking]
    BY <1>0, <1>6, <1>7, <2>2 DEF WalkTyped
  <2> QED BY <1>0, <1>3, <2>1, <2>3 DEF WalkTyped
<1>11. WalksKept(t) /\ GateKept(t)
  BY <1>0, <1>5, <1>6, <1>8, <1>9 DEF WalksKept, GateKept
<1>12. Owner(t)'
  BY <1>6, <1>8, <1>9 DEF Owner, Walking
<1>13. PathDistinct(t)'
  <2>1. \A n \in 1 .. Len(rest) : n \in 1 .. Len(path[t])
    BY <1>2, <1>3
  <2> QED BY <1>0, <1>3, <1>9, <2>1 DEF ThreadClean, PathDistinct
<1>14. \A h \in held[t] : \E n \in 1 .. Len(rest) : h = HandleOf(rest[n].node)
  <2> SUFFICES ASSUME NEW h \in held[t]
               PROVE  \E n \in 1 .. Len(rest) : h = HandleOf(rest[n].node)
    OBVIOUS
  <2>1. PICK n \in 1 .. Len(path[t]) : h = HandleOf(path[t][n].node) /\ n < Len(path[t])
    BY <1>0, <1>2 DEF ThreadClean, LeasesOnPath
  <2>2. n \in 1 .. Len(rest)
    BY <1>2, <1>3, <2>1
  <2> QED BY <1>3, <2>1, <2>2
<1>15. LeasesOnPath(t)'
  BY <1>0, <1>8, <1>9, <1>14 DEF LeasesOnPath
<1>16. WaitsClean(t)'
  BY <1>0, <1>8 DEF ThreadClean, WaitsClean, AtGate
<1>17. \A u \in Thread : ThreadClean(u)'
  BY <1>0, <1>1, <1>11, <1>12, <1>13, <1>15, <1>16, OthersClean DEF ThreadClean
<1>18. gate'.owner = NoThread => gate'.depth = 0
  BY <1>2, <1>3, <1>4, <1>6
<1> QED BY <1>1, <1>10, <1>17, <1>18 DEF AllInv, WalkInv

\* The node that a walk wants to lease is not among its leases.
LEMMA TargetNotHeld ==
  ASSUME AllInv, NEW t \in Thread, walk[t] = "lease"
  PROVE  /\ HandleOf(target[t]) \notin held[t]
         /\ path[t] # << >>
         /\ target[t] = path[t][Len(path[t])].node
<1>1. WalkTyped /\ ThreadClean(t)
  BY DEF AllInv, WalkInv
<1>2. path[t] \in Seq(Frame) /\ path[t] # << >>
  BY <1>1 DEF WalkTyped, ThreadClean, Owner, Walking
<1>3. target[t] = path[t][Len(path[t])].node /\ Len(path[t]) \in 1 .. Len(path[t])
  BY <1>1, <1>2 DEF ThreadClean, LeasesOnPath
<1>4. ASSUME HandleOf(target[t]) \in held[t] PROVE FALSE
  <2>1. PICK n \in 1 .. Len(path[t]) :
          HandleOf(target[t]) = HandleOf(path[t][n].node) /\ n < Len(path[t])
    BY <1>1, <1>2, <1>4 DEF ThreadClean, LeasesOnPath
  <2>2. target[t] = path[t][n].node
    BY <2>1, HandleOfInjective
  <2>3. n = Len(path[t])
    BY <1>1, <1>3, <2>1, <2>2 DEF ThreadClean, PathDistinct
  <2> QED BY <1>2, <2>1, <2>3
<1> QED BY <1>2, <1>3, <1>4

\* map_from_handle inside a walk.
LEMMA LeaseNodeKeeps ==
  ASSUME AllInv, NEW t \in Thread, LeaseNode(t)
  PROVE  AllInv'
<1> DEFINE h == HandleOf(target[t])
<1>0. /\ IInv /\ WalkTyped /\ ThreadClean(t) /\ \A u \in Thread : ThreadClean(u)
      /\ gate' = gate /\ path' = path /\ target' = target /\ walk[t] = "lease"
      /\ walk' = IF h \in held'[t] THEN [walk EXCEPT ![t] = "node"] ELSE walk
  BY DEF AllInv, WalkInv, LeaseNode
<1>1. h \in Handle /\ h \notin held[t] /\ path[t] # << >>
      /\ target[t] = path[t][Len(path[t])].node
  BY <1>0, HandleOfTyped, TargetNotHeld DEF WalkTyped
<1>2. AcquireBody(t, h)
  BY <1>0 DEF LeaseNode, Acquire, Reacquire, ThreadClean, WaitsClean
<1> HIDE DEF h
<1>3. /\ IInv' /\ OthersKept(t)
      /\ \/ held'[t] = held[t] \cup {h} /\ pc'[t] = "run"
         \/ held'[t] = held[t] /\ pc'[t] = "run"
         \/ held'[t] = held[t] /\ pc'[t] = "asleep" /\ arg'[t] = h
  BY <1>0, <1>1, <1>2, AcquireInv
<1>4. walk'[t] = (IF h \in held'[t] THEN "node" ELSE "lease")
      /\ \A u \in Thread \ {t} : walk'[u] = walk[u]
  BY <1>0 DEF WalkTyped
<1>5. WalkTyped'
  BY <1>0, <1>3 DEF WalkTyped, Walking, OthersKept
<1>6. WalksKept(t) /\ GateKept(t)
  BY <1>0, <1>4 DEF WalksKept, GateKept
<1>7. Owner(t)' /\ PathDistinct(t)'
  BY <1>0, <1>4 DEF ThreadClean, Owner, PathDistinct, Walking
<1>8. LeasesOnPath(t)'
  <2>1. \A k \in held[t] : \E n \in 1 .. Len(path[t]) :
          k = HandleOf(path[t][n].node) /\ n < Len(path[t])
    BY <1>0, <1>1 DEF ThreadClean, LeasesOnPath
  <2>2. Len(path[t]) \in 1 .. Len(path[t]) /\ h = HandleOf(path[t][Len(path[t])].node)
    BY <1>0, <1>1 DEF WalkTyped, h
  <2> QED BY <1>0, <1>1, <1>3, <1>4, <2>1, <2>2 DEF LeasesOnPath
<1>9. WaitsClean(t)'
  BY <1>0, <1>1, <1>3, <1>4 DEF WaitsClean, AtGate, h
<1>10. \A u \in Thread : ThreadClean(u)'
  BY <1>0, <1>3, <1>6, <1>7, <1>8, <1>9, OthersClean DEF ThreadClean
<1> QED BY <1>0, <1>3, <1>5, <1>10 DEF AllInv, WalkInv

\* The last entry was written: the node's guard is dropped.
LEMMA FinishNodeKeeps ==
  ASSUME AllInv, NEW t \in Thread, FinishNode(t)
  PROVE  AllInv'
<1> DEFINE h == HandleOf(Last(path[t]).node)
<1>0. /\ IInv /\ WalkTyped /\ ThreadClean(t) /\ \A u \in Thread : ThreadClean(u)
      /\ gate' = gate /\ path' = path /\ target' = target /\ walk[t] = "node"
      /\ walk' = [walk EXCEPT ![t] = "leave"] /\ Release(t, h)
  BY DEF AllInv, WalkInv, FinishNode
<1>1. path[t] \in Seq(Frame) /\ path[t] # << >> /\ Len(path[t]) \in 1 .. Len(path[t])
  BY <1>0 DEF WalkTyped, ThreadClean, Owner, Walking
<1>2. Last(path[t]) = path[t][Len(path[t])] /\ path[t][Len(path[t])].node \in Index
  <2>1. path[t][Len(path[t])] \in Frame
    BY <1>1
  <2> QED BY <2>1 DEF Last, Frame
<1>3. h \in issued
  BY <1>0, <1>2 DEF WalkTyped
<1>4. /\ IInv' /\ OthersKept(t)
      /\ held'[t] = held[t] \ {h} /\ pc[t] = "run" /\ pc'[t] = "run"
  BY <1>0, <1>3, ReleaseInv
<1>5. walk'[t] = "leave" /\ \A u \in Thread \ {t} : walk'[u] = walk[u]
  BY <1>0 DEF WalkTyped
<1>6. WalkTyped'
  BY <1>0, <1>4 DEF WalkTyped, Walking, OthersKept
<1>7. WalksKept(t) /\ GateKept(t)
  BY <1>0, <1>5 DEF WalksKept, GateKept
<1>8. Owner(t)' /\ PathDistinct(t)' /\ WaitsClean(t)'
  BY <1>0, <1>4, <1>5 DEF ThreadClean, Owner, PathDistinct, WaitsClean, Walking, AtGate
<1>9. LeasesOnPath(t)'
  <2> SUFFICES ASSUME NEW k \in held[t], k # h
               PROVE  \E n \in 1 .. Len(path[t]) :
                        k = HandleOf(path[t][n].node) /\ n < Len(path[t])
    BY <1>0, <1>4, <1>5 DEF LeasesOnPath
  <2>1. PICK n \in 1 .. Len(path[t]) : k = HandleOf(path[t][n].node)
    BY <1>0, <1>1 DEF ThreadClean, LeasesOnPath
  <2>2. n # Len(path[t])
    BY <1>2, <2>1
  <2> QED BY <1>1, <2>1, <2>2
<1>10. \A u \in Thread : ThreadClean(u)'
  BY <1>0, <1>4, <1>7, <1>8, <1>9, OthersClean DEF ThreadClean
<1> QED BY <1>0, <1>4, <1>6, <1>10 DEF AllInv, WalkInv

----------------------------------------------------------------------------
(* Every step *)

\* The next child of the node.
LEMMA VisitChildKeeps ==
  ASSUME AllInv, NEW t \in Thread, VisitChild(t)
  PROVE  AllInv'
<1>0. WalkTyped /\ ThreadClean(t) /\ walk[t] = "node" /\ UNCHANGED vars
  BY DEF AllInv, WalkInv, VisitChild
<1>1. path[t] \in Seq(Frame) /\ path[t] # << >> /\ Len(path[t]) \in 1 .. Len(path[t])
  BY <1>0 DEF WalkTyped, ThreadClean, Owner, Walking
<1>2. PICK c \in Last(path[t]).todo :
        EnterScope(t, c, [path[t] EXCEPT ![Len(path[t])].todo = @ \ {c}])
  BY DEF VisitChild
<1> DEFINE n == Len(path[t])
           p == [path[t] EXCEPT ![n].todo = @ \ {c}]
<1>3. path[t][n] \in Frame
  BY <1>1
<1>4. c \in Index
  BY <1>2, <1>3 DEF Last, Frame
<1>5. /\ p = [path[t] EXCEPT ![n] = [path[t][n] EXCEPT !.todo = @ \ {c}]]
      /\ [path[t][n] EXCEPT !.todo = @ \ {c}] \in Frame
      /\ [path[t][n] EXCEPT !.todo = @ \ {c}].node = path[t][n].node
  BY <1>1, <1>3 DEF Frame
<1>6. /\ p \in Seq(Frame) /\ Len(p) = Len(path[t])
      /\ \A m \in 1 .. Len(p) : p[m].node = path[t][m].node
  BY <1>1, <1>5
<1>7. pc[t] = "run"
  BY <1>0 DEF ThreadClean, WaitsClean
<1> HIDE DEF n, p
<1>8. EnterScope(t, c, p)
  BY <1>2 DEF n, p
<1> QED BY <1>0, <1>4, <1>6, <1>7, <1>8, EnterScopeKeeps

\* A thread without a path enters the scope: a new walk, or one that was woken.
LEMMA OutsideEnters ==
  ASSUME AllInv, NEW t \in Thread,
         (\E i \in Index : StartWalk(t, i)) \/ GateWoken(t)
  PROVE  AllInv'
<1>0. WalkTyped /\ ThreadClean(t) /\ UNCHANGED vars
  BY DEF AllInv, WalkInv, StartWalk, GateWoken
<1>1. walk[t] \in {"out", "gate_woken"} /\ held[t] = {} /\ pc[t] = "run"
  BY <1>0 DEF StartWalk, GateWoken, CountCall, Idle, ThreadClean, WaitsClean, AtGate
<1>2. path[t] = << >>
  BY <1>0, <1>1 DEF ThreadClean, Owner, Walking
<1>3. PICK i \in Index : EnterScope(t, i, << >>)
  BY <1>0, <1>2 DEF StartWalk, GateWoken, WalkTyped
<1>4. /\ << >> \in Seq(Frame) /\ Len(<< >>) = Len(path[t])
      /\ \A n \in 1 .. Len(<< >>) : << >>[n].node = path[t][n].node
  BY <1>2
<1> QED BY <1>0, <1>1, <1>3, <1>4, EnterScopeKeeps

\* An operation of a thread that is in no walk: it acquires with no guard, or
\* ends with the one it has.
LEMMA PlainKeeps ==
  ASSUME AllInv, NEW t \in Thread,
         (\E i \in Index : PlainCall(t, HandleOf(i))) \/ PlainContinue(t)
  PROVE  AllInv'
<1>0. /\ IInv /\ WalkTyped /\ ThreadClean(t) /\ \A u \in Thread : ThreadClean(u)
      /\ (gate.owner = NoThread => gate.depth = 0)
      /\ gate' = gate /\ path' = path /\ target' = target /\ walk' = walk
      /\ walk[t] = "out"
  BY DEF AllInv, WalkInv, PlainCall, PlainContinue, walkVars, CountCall, Idle
<1>1. WalksKept(t) /\ GateKept(t)
  BY <1>0 DEF WalksKept, GateKept
<1>2. path[t] = << >>
  BY <1>0 DEF ThreadClean, Owner, Walking
<1>3. ASSUME IInv', OthersKept(t), pc'[t] # "run" => held'[t] = {}
      PROVE  AllInv'
  <2>1. WalkTyped'
    BY <1>0, <1>3 DEF WalkTyped, OthersKept
  <2>2. ThreadClean(t)'
    BY <1>0, <1>2, <1>3 DEF ThreadClean, Owner, PathDistinct, LeasesOnPath, WaitsClean,
                            AtGate
  <2>3. \A u \in Thread : ThreadClean(u)'
    BY <1>0, <1>1, <1>3, <2>2, OthersClean
  <2> QED BY <1>0, <1>3, <2>1, <2>3 DEF AllInv, WalkInv
<1>4. ASSUME NEW h \in Handle, AcquireBody(t, h), held[t] = {} PROVE AllInv'
  BY <1>0, <1>3, <1>4, AcquireInv
<1>5. ASSUME NEW i \in Index, PlainCall(t, HandleOf(i)) PROVE AllInv'
  <2>1. held[t] = {} /\ HandleOf(i) \in Handle /\ HandleOf(i) \in issued
    BY <1>0, <1>5, HandleOfTyped DEF PlainCall, CountCall, Idle, WalkTyped
  <2>2. CASE Acquire(t, HandleOf(i))
    BY <1>4, <2>1, <2>2 DEF Acquire
  <2>3. CASE Destroy(t, HandleOf(i))
    BY <1>0, <1>3, <2>1, <2>3, DestroyInv
  <2> QED BY <1>5, <2>2, <2>3 DEF PlainCall
<1>6. CASE PlainContinue(t)
  <2>1. CASE Reacquire(t)
    <3>1. arg[t] \in Handle /\ held[t] = {}
      BY <1>0, <2>1 DEF Reacquire, IInv, TypeOK, ThreadClean, WaitsClean
    <3> QED BY <1>4, <2>1, <3>1 DEF Reacquire
  <2>2. CASE DestroyFinish(t)
    BY <1>0, <1>3, <2>2, DestroyFinishInv
  <2>3. ASSUME NEW h \in issued, Release(t, h) PROVE AllInv'
    BY <1>0, <1>3, <2>3, ReleaseInv
  <2> QED BY <1>6, <2>1, <2>2, <2>3 DEF PlainContinue
<1> QED BY <1>5, <1>6

LEMMA WalkInvStep == AllInv /\ [WalkNext]_allVars => AllInv'
<1> SUFFICES ASSUME AllInv, [WalkNext]_allVars PROVE AllInv'
  OBVIOUS
<1>1. CASE UNCHANGED allVars
  <2>1. IInv'
    BY <1>1, InvStep DEF allVars, AllInv
  <2> QED BY <1>1, <2>1 DEF allVars, walkVars, vars, AllInv, WalkInv, WalkTyped,
             ThreadClean, Owner, PathDistinct, LeasesOnPath, WaitsClean
<1> QED BY <1>1, EnterScopeKeeps, LeaveScopeKeeps, LeaseNodeKeeps, FinishNodeKeeps,
           VisitChildKeeps, OutsideEnters, PlainKeeps
        DEF WalkNext, WalkStep

LEMMA WalkInvInit == WalkInit => AllInv
<1> SUFFICES ASSUME WalkInit PROVE AllInv
  OBVIOUS
<1>1. 1 \in Gen /\ NewSlot(1) \in Slot /\ 1 \in Index
  BY SlotsTyped DEF Gen, Index
<1>2. TypeOK
  <2>1. issued \subseteq Handle
    BY HandleOfTyped DEF WalkInit
  <2>2. slots \in [Index -> Slot] /\ free \in Seq(Index) /\ floor \in Gen
    BY <1>1 DEF WalkInit
  <2>3. arg \in [Thread -> Handle]
    BY NoArgTyped DEF WalkInit
  <2>4. len \in 0 .. MaxIndex
    BY DEF WalkInit
  <2>5. /\ pc \in [Thread -> {"run", "asleep", "woken", "finish"}]
        /\ held \in [Thread -> SUBSET Handle]
        /\ exhausted \in BOOLEAN
    BY DEF WalkInit
  <2> QED BY <2>1, <2>2, <2>3, <2>4, <2>5 DEF TypeOK
<1>3. \A i \in Index : slots[i] = NewSlot(1) /\ i <= len
  BY DEF WalkInit, Index
<1>4. TableInv
  BY <1>3 DEF WalkInit, TableInv, TailAbsent, FloorBound, FreeStackExact,
              DeferredFreeHasHolder, PinsNeedObject, NewSlot, Index
<1>5. ThreadInv
  BY <1>3 DEF WalkInit, ThreadInv, LeaseKeepsObject, OwnerHoldsGuard, SleepersHaveReason,
              NewSlot
<1>6. IssuedLiveOrBuried
  BY <1>3, HandleOfTyped DEF WalkInit, IssuedLiveOrBuried, Live, Matches, InTable,
                             NewSlot, HandleOf, pack
<1>7. WalkTyped
  BY <1>1 DEF WalkInit, WalkTyped
<1>8. \A t \in Thread : ThreadClean(t)
  BY DEF WalkInit, ThreadClean, Owner, PathDistinct, LeasesOnPath, WaitsClean, AtGate,
         Walking
<1>9. gate.depth = 0
  BY DEF WalkInit
<1> QED BY <1>2, <1>4, <1>5, <1>6, <1>7, <1>8, <1>9 DEF AllInv, IInv, WalkInv

----------------------------------------------------------------------------
(* Results *)

\* The inductive invariant holds in every reachable state: the table's own, and
\* that only the gate's owner is inside of a walk, that its leases are those of
\* its path, and that whoever waits outside a walk has no lease.
THEOREM WalkInvariance == WalkSpec => []AllInv
BY WalkInvInit, WalkInvStep, PTL DEF WalkSpec

\* Who owns a lease and waits is inside of a walk, so it owns the gate.
LEMMA WaitingOwnerHasGate ==
  ASSUME AllInv, NEW t \in Thread, NEW u \in Thread,
         pc[t] = "asleep", slots[arg[t].index].owner = u,
         walk[u] \in AtGate \/ pc[u] = "asleep"
  PROVE  gate.owner = u /\ u # t
<1>1. TypeOK /\ ThreadInv /\ WalkTyped /\ ThreadClean(u)
  BY DEF AllInv, IInv, WalkInv
<1>2. arg[t].index \in Index /\ u # t
  BY <1>1 DEF TypeOK, Handle, ThreadInv, SleepersHaveReason
<1>3. held[u] # {}
  BY <1>1, <1>2 DEF ThreadInv, OwnerHoldsGuard
<1>4. walk[u] = "lease"
  BY <1>1, <1>3 DEF ThreadClean, WaitsClean
<1> QED BY <1>1, <1>2, <1>4 DEF ThreadClean, Owner, Walking

\* The argument against a circle: every thread in it would wait for the owner of
\* the gate, and that one would wait for itself.
LEMMA NoCircle == AllInv => NoWaitCycle
<1> SUFFICES ASSUME AllInv, NEW S \in SUBSET Thread, S # {},
                    \A t \in S : WaitsFor(t) \in S
             PROVE  FALSE
  BY DEF NoWaitCycle
<1>1. WalkTyped /\ \A t \in Thread : ThreadClean(t)
  BY DEF AllInv, WalkInv
<1>2. ASSUME NEW t \in S
      PROVE  \/ walk[t] = "gate_asleep" /\ gate.owner \in S
             \/ /\ walk[t] # "gate_asleep" /\ pc[t] = "asleep"
                /\ slots[arg[t].index].owner \in S
  <2>1. CASE walk[t] = "gate_asleep"
    <3>1. pc[t] # "asleep"
      BY <1>1, <2>1 DEF ThreadClean, WaitsClean
    <3>2. WaitsFor(t) = gate.owner
      BY <2>1, <3>1 DEF WaitsFor
    <3> QED BY <2>1, <3>2
  <2>2. CASE walk[t] # "gate_asleep" /\ pc[t] = "asleep"
    <3>1. WaitsFor(t) = slots[arg[t].index].owner
      BY <2>2 DEF WaitsFor
    <3> QED BY <2>2, <3>1
  <2>3. CASE walk[t] # "gate_asleep" /\ pc[t] # "asleep"
    <3>1. WaitsFor(t) = NoThread
      BY <2>3 DEF WaitsFor
    <3> QED BY <3>1
  <2> QED BY <2>1, <2>2, <2>3
<1>3. \A t \in S : walk[t] \in AtGate \/ pc[t] = "asleep"
  BY <1>2 DEF AtGate
<1>4. gate.owner \in S
  BY <1>2, <1>3, WaitingOwnerHasGate
<1> DEFINE g == gate.owner
<1>5. walk[g] \in Walking
  BY <1>1, <1>4 DEF ThreadClean, Owner
<1>6. pc[g] = "asleep" /\ slots[arg[g].index].owner \in S
  BY <1>2, <1>4, <1>5 DEF Walking
<1>7. /\ gate.owner = slots[arg[g].index].owner
      /\ slots[arg[g].index].owner # g
  BY <1>3, <1>4, <1>6, WaitingOwnerHasGate
<1> QED BY <1>7

\* Walks and operations never wait for each other in a circle, whatever graph
\* they walk: only the gate's owner waits while it owns leases.
THEOREM NoDeadlock == WalkSpec => []NoWaitCycle
BY WalkInvariance, NoCircle, PTL

\* A walk never asks for a lease it already owns, which would abort the process:
\* the nodes of its path are distinct, and its leases are those of the path.
THEOREM NoReentry == WalkSpec => []WalkNeverReenters
<1>1. AllInv => WalkNeverReenters
  <2> SUFFICES ASSUME AllInv, NEW t \in Thread, walk[t] = "lease",
                      slots[target[t]].owner = t
               PROVE  FALSE
    BY DEF WalkNeverReenters
  <2>1. TypeOK /\ ThreadInv /\ WalkTyped /\ ThreadClean(t) /\ target[t] \in Index
    BY DEF AllInv, IInv, WalkInv, WalkTyped
  <2>2. pack(target[t], slots[target[t]].generation) \in held[t]
    BY <2>1 DEF ThreadInv, OwnerHoldsGuard
  <2>3. path[t] # << >> /\ HandleOf(target[t]) \notin held[t]
    BY TargetNotHeld
  <2>4. PICK n \in 1 .. Len(path[t]) :
          pack(target[t], slots[target[t]].generation) = HandleOf(path[t][n].node)
    BY <2>1, <2>2, <2>3 DEF ThreadClean, LeasesOnPath
  <2>5. slots[target[t]].generation = 1
    BY <2>4 DEF HandleOf, pack
  <2> QED BY <2>2, <2>3, <2>5 DEF HandleOf
<1> QED BY <1>1, WalkInvariance, PTL

\* No thread sleeps on the table's condition variable without a reason, although
\* a walk acquires with other leases in its hands.
THEOREM WalkNoLostWakeup == WalkSpec => []SleepersHaveReason
BY WalkInvariance, PTL DEF AllInv, IInv, ThreadInv

\* A thread that goes to sleep at the gate saw an owner, and who leaves the gate
\* to nobody wakes all that sleep there.
LEMMA GateStep ==
  AllInv /\ GateSleepersHaveReason /\ [WalkNext]_allVars => GateSleepersHaveReason'
<1> SUFFICES ASSUME AllInv, GateSleepersHaveReason, [WalkNext]_allVars,
                    NEW u \in Thread, walk'[u] = "gate_asleep"
             PROVE  gate'.owner \notin {NoThread, u}
  BY DEF GateSleepersHaveReason
<1>0. /\ WalkTyped /\ walk \in [Thread -> {"out"} \cup AtGate \cup Walking]
      /\ gate \in [owner : Thread \cup {NoThread}, depth : Nat]
  BY DEF AllInv, WalkInv, WalkTyped
<1>1. ASSUME walk'[u] = walk[u], gate' = gate PROVE gate'.owner \notin {NoThread, u}
  BY <1>1 DEF GateSleepersHaveReason
<1>2. ASSUME NEW t \in Thread, NEW i \in Index, NEW p, EnterScope(t, i, p)
      PROVE  gate'.owner \notin {NoThread, u}
  <2>1. CASE GateSleeps(t, i, p)
    BY <1>0, <1>1, <2>1 DEF GateSleeps
  <2>2. CASE GateEnters(t, i, p)
    BY <1>0, <2>2 DEF GateEnters
  <2>3. CASE GateFindsCycle(t, i, p)
    BY <1>1, <2>3 DEF GateFindsCycle
  <2> QED BY <1>2, <2>1, <2>2, <2>3 DEF EnterScope
<1>3. ASSUME NEW t \in Thread, LeaveScope(t) PROVE gate'.owner \notin {NoThread, u}
  <2>1. CASE gate.depth = 1
    <3>1. walk'[u] = GateNotified[u] \/ walk'[u] \in {"out", "node"}
      BY <1>3, <2>1 DEF LeaveScope, GateNotified
    <3> QED BY <3>1 DEF GateNotified
  <2>2. CASE gate.depth # 1
    <3>1. gate'.owner = gate.owner
      BY <1>0, <1>3, <2>2 DEF LeaveScope
    <3>2. walk'[u] = walk[u]
      BY <1>0, <1>3, <2>2 DEF LeaveScope
    <3> QED BY <3>1, <3>2 DEF GateSleepersHaveReason
  <2> QED BY <2>1, <2>2
<1>4. ASSUME NEW t \in Thread, LeaseNode(t) \/ FinishNode(t) \/ PlainContinue(t)
      PROVE  gate'.owner \notin {NoThread, u}
  BY <1>0, <1>1, <1>4 DEF LeaseNode, FinishNode, PlainContinue, walkVars
<1>5. ASSUME NEW t \in Thread, NEW i \in Index, PlainCall(t, HandleOf(i))
      PROVE  gate'.owner \notin {NoThread, u}
  BY <1>1, <1>5 DEF PlainCall
<1>6. ASSUME NEW t \in Thread, GateWoken(t) PROVE gate'.owner \notin {NoThread, u}
  <2>1. target[t] \in Index
    BY <1>0 DEF WalkTyped
  <2> QED BY <1>2, <1>6, <2>1 DEF GateWoken
<1>7. ASSUME NEW t \in Thread, VisitChild(t) PROVE gate'.owner \notin {NoThread, u}
  <2>1. ThreadClean(t) /\ path[t] \in Seq(Frame) /\ path[t] # << >>
    BY <1>0, <1>7 DEF AllInv, WalkInv, WalkTyped, VisitChild, ThreadClean, Owner, Walking
  <2>2. Last(path[t]) = path[t][Len(path[t])] /\ path[t][Len(path[t])] \in Frame
    BY <2>1 DEF Last
  <2>3. Last(path[t]).todo \subseteq Index
    BY <2>2 DEF Frame
  <2> QED BY <1>2, <1>7, <2>3 DEF VisitChild
<1>8. CASE UNCHANGED allVars
  BY <1>1, <1>8 DEF allVars, walkVars
<1> QED BY <1>2, <1>3, <1>4, <1>5, <1>6, <1>7, <1>8 DEF WalkNext, WalkStep, StartWalk

\* No thread sleeps at the gate without a reason: somebody else is inside of it.
THEOREM GateNoLostWakeup == WalkSpec => []GateSleepersHaveReason
<1>1. WalkInit => GateSleepersHaveReason
  BY DEF WalkInit, GateSleepersHaveReason
<1> QED BY <1>1, GateStep, WalkInvariance, PTL DEF WalkSpec

\* Who owns a lease or the gate is inside of a call.
LEMMA OwnersBusy ==
  ASSUME AllInv, NEW u \in Thread,
         gate.owner = u \/ \E i \in Index : slots[i].owner = u
  PROVE  ~Idle(u)
<1>1. ThreadInv /\ ThreadClean(u)
  BY DEF AllInv, IInv, WalkInv
<1>2. CASE gate.owner = u
  BY <1>1, <1>2 DEF ThreadClean, Owner, Idle, Walking
<1>3. ASSUME NEW i \in Index, slots[i].owner = u PROVE ~Idle(u)
  <2>1. u # NoThread
    OBVIOUS
  <2> QED BY <1>1, <1>3, <2>1 DEF ThreadInv, OwnerHoldsGuard, Idle
<1> QED BY <1>2, <1>3

\* Everybody asleep would wait, at the gate or behind one lease, for the gate's
\* owner; that one would wait for the owner of a lease, who then owns the gate.
THEOREM WalkProgress == WalkSpec => []SomeCallGoesOn
<1>1. AllInv /\ GateSleepersHaveReason => SomeCallGoesOn
  <2> SUFFICES ASSUME AllInv, GateSleepersHaveReason, NEW t \in Thread, ~Idle(t),
                      \A u \in Thread : ~Awake(u)
               PROVE  FALSE
    BY DEF SomeCallGoesOn
  <2>1. TypeOK /\ ThreadInv /\ WalkTyped /\ \A u \in Thread : ThreadClean(u)
    BY DEF AllInv, IInv, WalkInv
  <2>2. \A u \in Thread : ~Idle(u) => walk[u] \in AtGate \/ pc[u] = "asleep"
    BY DEF Awake, AtGate
  <2>3. ASSUME NEW u \in Thread, pc[u] = "asleep"
        PROVE  /\ gate.owner \in Thread
               /\ gate.owner = slots[arg[u].index].owner
               /\ gate.owner # u
    <3>1. arg[u].index \in Index
      BY <2>1 DEF TypeOK, Handle
    <3>2. slots[arg[u].index].owner \in Thread
      BY <2>1, <2>3, <3>1 DEF TypeOK, Slot, ThreadInv, SleepersHaveReason
    <3>3. ~Idle(slots[arg[u].index].owner)
      BY <3>1, <3>2, OwnersBusy
    <3> QED BY <2>2, <2>3, <3>2, <3>3, WaitingOwnerHasGate
  <2>4. gate.owner \in Thread
    <3>1. CASE walk[t] = "gate_asleep"
      BY <2>1, <3>1 DEF GateSleepersHaveReason, WalkTyped
    <3>2. CASE walk[t] # "gate_asleep"
      BY <2>3, <3>2 DEF Awake
    <3> QED BY <3>1, <3>2
  <2>5. ~Idle(gate.owner) /\ walk[gate.owner] \in Walking
    BY <2>1, <2>4, OwnersBusy DEF ThreadClean, Owner
  <2>6. pc[gate.owner] = "asleep"
    BY <2>2, <2>4, <2>5 DEF Walking, AtGate
  <2> QED BY <2>3, <2>4, <2>6
<1> QED BY <1>1, WalkInvariance, GateNoLostWakeup, PTL
=============================================================================
