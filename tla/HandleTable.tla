---------------------------- MODULE HandleTable ----------------------------
(***************************************************************************)
(* The generational handle table of the native runtime (runtime/handle.rs) *)
(* behind every Map and every Set.  Compiled code and C callers never see  *)
(* a pointer: they hold a packed (index, generation) handle.  Each         *)
(* operation looks the slot up under one table mutex, takes an exclusive   *)
(* operation LEASE on it, works on the object outside the mutex, and       *)
(* releases the lease.  C callers may also PIN a handle.  Destruction is   *)
(* two critical sections (begin, finish) and is deferred while a lease or  *)
(* a pin remains.                                                          *)
(*                                                                         *)
(* One action is one critical section of the table mutex.  A thread that   *)
(* waits on the table's condition variable is "asleep"; notify_all makes   *)
(* it "woken", and it runs its acquire loop again when it gets the mutex.  *)
(* IsMap selects between the two tables, whose code differs in finish_free *)
(* (only Maps raise the generation floor and compact) and in the MapRoot   *)
(* operations (only Maps have them).                                       *)
(***************************************************************************)
EXTENDS Integers, Sequences, FiniteSets

CONSTANTS
  Thread,     \* threads of the host process (LeaseThreadId)
  NoThread,   \* active_owner = None
  MaxIndex,   \* largest slot index: 2^32 - 1 in the code
  MaxGen,     \* largest generation: 2^32 - 1 in the code
  MaxPins,    \* bound on the pins of one slot: i64::MAX in the code
  IsMap       \* TRUE for MAP_TABLE, FALSE for SET_TABLE

ASSUME TableAssumption ==
  /\ NoThread \notin Thread
  /\ "none" \notin Thread /\ "root" \notin Thread
  /\ MaxIndex \in Nat \ {0}
  /\ MaxGen \in Nat \ {0}
  /\ MaxPins \in Nat \ {0}
  /\ IsMap \in BOOLEAN

VARIABLES
  slots,      \* Table.slots without the reserved slot 0
  len,        \* number of slots in the vector (reserved slot excluded)
  free,       \* Table.free, a stack of indices
  floor,      \* Table.generation_floor
  exhausted,  \* Table.generation_exhausted
  pc,         \* what a thread is doing between two critical sections
  arg,        \* the handle its acquire or destroy call is about
  held,       \* the handles of the MapLease / SetLease guards it owns
  issued      \* history: every handle alloc_slot ever returned

table == <<slots, len, free, floor, exhausted>>
vars == <<slots, len, free, floor, exhausted, pc, arg, held, issued>>

Index == 1 .. MaxIndex
Gen == 1 .. MaxGen

\* pack/unpack: two 32-bit fields of one i64; index 0 is never handed out,
\* so no handle equals the null handle 0.
Handle == [index : Index, gen : Gen]
pack(i, g) == [index |-> i, gen |-> g]

\* arg of a thread that is in no call, which nothing reads.
NoArg == pack(1, 1)

\* The contents of an object, abstracted to its last writer: the thread that
\* leased it, or "root" for its creation and the MapRoot operations.
Content == Thread \cup {"root"}

Slot == [generation : Gen, leases : {0, 1}, owner : Thread \cup {NoThread},
         pins : 0 .. MaxPins, retired : BOOLEAN, pending_free : BOOLEAN,
         obj : {"none"} \cup Content]

\* A freshly pushed slot holding a new, empty Map or Set.
NewSlot(g) ==
  [generation |-> g, leases |-> 0, owner |-> NoThread, pins |-> 0,
   retired |-> FALSE, pending_free |-> FALSE, obj |-> "root"]

\* A slot without its object: reusable, or permanently retired.
EmptySlot(g, ret) ==
  [generation |-> g, leases |-> 0, owner |-> NoThread, pins |-> 0,
   retired |-> ret, pending_free |-> FALSE, obj |-> "none"]

\* Value of slots[i] for an index that is not in the vector.
Absent == EmptySlot(1, FALSE)

InTable(i) == i <= len
Matches(h) == InTable(h.index) /\ slots[h.index].generation = h.gen

\* The handle names an object that exists.
Live(h) == Matches(h) /\ slots[h.index].obj # "none"

\* The handle is accepted by acquire and pin: live and not being destroyed.
Usable(h) == Live(h) /\ ~slots[h.index].retired

\* notify_all on the table's condition variable.
Notified == [t \in Thread |-> IF pc[t] = "asleep" THEN "woken" ELSE pc[t]]

Init ==
  /\ slots = [i \in Index |-> Absent]
  /\ len = 0
  /\ free = << >>
  /\ floor = 1
  /\ exhausted = FALSE
  /\ pc = [t \in Thread |-> "run"]
  /\ arg = [t \in Thread |-> NoArg]
  /\ held = [t \in Thread |-> {}]
  /\ issued = {}

----------------------------------------------------------------------------
(* Allocation *)

MaxOf(a, b) == IF a >= b THEN a ELSE b

\* alloc_slot, first branch: pop a free index and reuse its slot.
AllocReuse ==
  /\ free # << >>
  /\ LET i == free[Len(free)]
         g == MaxOf(slots[i].generation, floor)
     IN  /\ slots' = [slots EXCEPT ![i] = NewSlot(g)]
         /\ issued' = issued \cup {pack(i, g)}
  /\ free' = SubSeq(free, 1, Len(free) - 1)
  /\ UNCHANGED <<len, floor, exhausted, pc, arg, held>>

\* Mutant: a fresh slot starts at generation 1, compaction or not.
AllocFreshAtOne ==
  /\ free = << >>
  /\ len < MaxIndex
  /\ len' = len + 1
  /\ slots' = [slots EXCEPT ![len + 1] = NewSlot(1)]
  /\ issued' = issued \cup {pack(len + 1, 1)}
  /\ UNCHANGED <<free, floor, exhausted, pc, arg, held>>

\* alloc_slot, second branch: push a fresh slot at the generation floor.  When
\* the index would not fit checked_slot_index refuses and the call returns 0.
AllocFresh ==
  /\ free = << >>
  /\ len < MaxIndex
  /\ len' = len + 1
  /\ slots' = [slots EXCEPT ![len + 1] = NewSlot(floor)]
  /\ issued' = issued \cup {pack(len + 1, floor)}
  /\ UNCHANGED <<free, floor, exhausted, pc, arg, held>>

----------------------------------------------------------------------------
(* Reclamation: finish_map_free and finish_set_free *)

\* The slot after its object was taken out.  generation.checked_add(1): the
\* generation never wraps.
FreedSlot(s) ==
  IF s.generation < MaxGen
    THEN EmptySlot(s.generation + 1, FALSE)
    ELSE EmptySlot(s.generation, TRUE)

\* compact_empty_map_table: nothing live and nothing permanently retired.
Compactable(sl) ==
  /\ IsMap
  /\ ~exhausted'
  /\ \A i \in Index : i <= len => sl[i].obj = "none" /\ ~sl[i].retired

\* Mutant: an index is pushed on the free stack even at the last generation.
FinishFreeAlwaysPushes(i) ==
  /\ slots' = [slots EXCEPT ![i] = FreedSlot(slots[i])]
  /\ free' = Append(free, i)
  /\ UNCHANGED <<len, floor, exhausted>>

\* Every field of the slot is overwritten, so what the caller changed in it
\* within the same critical section does not matter.
FinishFree(i) ==
  LET g  == slots[i].generation
      fr == [slots EXCEPT ![i] = FreedSlot(slots[i])]
  IN  /\ exhausted' = (exhausted \/ (IsMap /\ g = MaxGen))
      /\ floor' = IF IsMap /\ g < MaxGen THEN MaxOf(floor, g + 1) ELSE floor
      /\ IF Compactable(fr)
           THEN /\ slots' = [j \in Index |-> Absent]
                /\ len' = 0
                /\ free' = << >>
           ELSE /\ slots' = fr
                /\ len' = len
                /\ free' = IF g < MaxGen THEN Append(free, i) ELSE free

\* Slot i becomes s, and is reclaimed at once if that drained it.
UpdateOrFree(i, s, drained) ==
  IF drained
    THEN FinishFree(i)
    ELSE /\ slots' = [slots EXCEPT ![i] = s]
         /\ UNCHANGED <<len, free, floor, exhausted>>

----------------------------------------------------------------------------
(* Operation leases *)

\* The acquire loop's body, entered on the call and after every wake-up.
AcquireFails(t, h) ==
  /\ \/ ~Usable(h)
     \/ slots[h.index].owner = t
  /\ pc' = [pc EXCEPT ![t] = "run"]
  /\ arg' = [arg EXCEPT ![t] = NoArg]
  /\ UNCHANGED <<table, held, issued>>

AcquireSleeps(t, h) ==
  /\ Usable(h)
  /\ slots[h.index].owner \notin {NoThread, t}
  /\ pc' = [pc EXCEPT ![t] = "asleep"]
  /\ arg' = [arg EXCEPT ![t] = h]
  /\ UNCHANGED <<table, held, issued>>

AcquireTakes(t, h) ==
  /\ Usable(h)
  /\ slots[h.index].owner = NoThread
  /\ slots' = [slots EXCEPT ![h.index] = [@ EXCEPT !.owner = t, !.leases = 1]]
  /\ held' = [held EXCEPT ![t] = @ \cup {h}]
  /\ pc' = [pc EXCEPT ![t] = "run"]
  /\ arg' = [arg EXCEPT ![t] = NoArg]
  /\ UNCHANGED <<len, free, floor, exhausted, issued>>

AcquireBody(t, h) ==
  AcquireFails(t, h) \/ AcquireSleeps(t, h) \/ AcquireTakes(t, h)

\* map_acquire / set_acquire.
Acquire(t, h) == pc[t] = "run" /\ AcquireBody(t, h)
Reacquire(t) == pc[t] = "woken" /\ AcquireBody(t, arg[t])

\* A Condvar may wake a waiter that nobody notified.
SpuriousWake(t) ==
  /\ pc[t] = "asleep"
  /\ pc' = [pc EXCEPT ![t] = "woken"]
  /\ UNCHANGED <<table, arg, held, issued>>

\* The lease owner works on the object through its raw pointer, without the
\* table mutex.  Whatever is behind (index, generation) now is what it writes.
UseLease(t, h) ==
  /\ pc[t] = "run"
  /\ h \in held[t]
  /\ slots[h.index].obj # "none"
  /\ slots' = [slots EXCEPT ![h.index] = [@ EXCEPT !.obj = t]]
  /\ UNCHANGED <<len, free, floor, exhausted, pc, arg, held, issued>>

\* Mutant: release refuses a retired slot, as acquire and pin do.
ReleaseRefusesRetired(t, h) ==
  /\ pc[t] = "run"
  /\ h \in held[t]
  /\ held' = [held EXCEPT ![t] = @ \ {h}]
  /\ IF Usable(h) /\ slots[h.index].owner = t
       THEN /\ slots' = [slots EXCEPT ![h.index] =
                           [@ EXCEPT !.owner = NoThread, !.leases = 0]]
            /\ pc' = Notified
       ELSE UNCHANGED <<slots, pc>>
  /\ UNCHANGED <<len, free, floor, exhausted, arg, issued>>

\* The lease guard is dropped: map_release / set_release.  The guards at the
\* top return an error and change nothing; the guard object is gone anyway.
Release(t, h) ==
  /\ pc[t] = "run"
  /\ h \in held[t]
  /\ held' = [held EXCEPT ![t] = @ \ {h}]
  /\ IF Matches(h) /\ slots[h.index].owner = t /\ slots[h.index].leases = 1
       THEN LET s == [slots[h.index] EXCEPT !.owner = NoThread, !.leases = 0]
            IN  /\ UpdateOrFree(h.index, s, s.pins = 0 /\ s.pending_free)
                /\ pc' = Notified
       ELSE UNCHANGED <<table, pc>>
  /\ UNCHANGED <<arg, issued>>

----------------------------------------------------------------------------
(* C ABI lifetime pins *)

\* map_pin / set_pin (mimi_map_lease_acquire, mimi_set_lease_acquire).
Pin(t, h) ==
  /\ pc[t] = "run"
  /\ Usable(h)
  /\ slots[h.index].pins < MaxPins
  /\ slots' = [slots EXCEPT ![h.index] = [@ EXCEPT !.pins = slots[h.index].pins + 1]]
  /\ UNCHANGED <<len, free, floor, exhausted, pc, arg, held, issued>>

\* Mutant: dropping the last pin leaves the reclamation to somebody else.
UnpinNeverFrees(t, h) ==
  /\ pc[t] = "run"
  /\ Matches(h)
  /\ slots[h.index].pins > 0
  /\ slots' = [slots EXCEPT ![h.index].pins = @ - 1]
  /\ pc' = Notified
  /\ UNCHANGED <<len, free, floor, exhausted, arg, held, issued>>

\* map_unpin / set_unpin.  A retired slot still accepts it.
Unpin(t, h) ==
  /\ pc[t] = "run"
  /\ Matches(h)
  /\ slots[h.index].pins > 0
  /\ LET s == [slots[h.index] EXCEPT !.pins = @ - 1]
     IN  UpdateOrFree(h.index, s, s.pins + s.leases = 0 /\ s.pending_free)
  /\ pc' = Notified
  /\ UNCHANGED <<arg, held, issued>>

----------------------------------------------------------------------------
(* Destruction *)

\* map_begin_destroy / set_begin_destroy when they do not fail.
Retire(h) ==
  /\ Live(h)
  /\ slots' = [slots EXCEPT ![h.index] = [@ EXCEPT !.retired = TRUE]]
  /\ UNCHANGED <<len, free, floor, exhausted>>

\* mimi_map_begin_destroy: the C caller may or may not call finish later.
BeginDestroy(t, h) ==
  /\ pc[t] = "run"
  /\ Retire(h)
  /\ pc' = Notified
  /\ UNCHANGED <<arg, held, issued>>

\* Mutant: retiring a slot does not wake the threads that wait for it.
DestroyWithoutNotify(t, h) ==
  /\ pc[t] = "run"
  /\ Retire(h)
  /\ pc' = [pc EXCEPT ![t] = "finish"]
  /\ arg' = [arg EXCEPT ![t] = h]
  /\ UNCHANGED <<held, issued>>

\* First half of map_destroy / set_destroy: the table is unlocked before
\* finish_destroy locks it again.
Destroy(t, h) ==
  /\ pc[t] = "run"
  /\ Retire(h)
  /\ pc' = [Notified EXCEPT ![t] = "finish"]
  /\ arg' = [arg EXCEPT ![t] = h]
  /\ UNCHANGED <<held, issued>>

\* Mutant: finish_destroy looks at the pins only.
FinishBodyIgnoresLeases(h) ==
  IF Live(h)
    THEN UpdateOrFree(h.index,
                      [slots[h.index] EXCEPT !.retired = TRUE, !.pending_free = TRUE],
                      slots[h.index].pins = 0)
    ELSE UNCHANGED table

\* map_finish_destroy / set_finish_destroy.
FinishBody(h) ==
  IF Live(h)
    THEN LET s == [slots[h.index] EXCEPT !.retired = TRUE]
             idle == s.leases = 0 /\ s.pins = 0
         IN  UpdateOrFree(h.index,
                          IF idle THEN s ELSE [s EXCEPT !.pending_free = TRUE],
                          idle)
    ELSE UNCHANGED table

\* mimi_map_finish_destroy called directly, with or without a begin.
FinishDestroy(t, h) ==
  /\ pc[t] = "run"
  /\ FinishBody(h)
  /\ pc' = IF Live(h) THEN Notified ELSE pc
  /\ UNCHANGED <<arg, held, issued>>

\* Second half of map_destroy / set_destroy.
DestroyFinish(t) ==
  /\ pc[t] = "finish"
  /\ FinishBody(arg[t])
  /\ pc' = [(IF Live(arg[t]) THEN Notified ELSE pc) EXCEPT ![t] = "run"]
  /\ arg' = [arg EXCEPT ![t] = NoArg]
  /\ UNCHANGED <<held, issued>>

----------------------------------------------------------------------------
(* MapRoot operations: canonical MIR's Maps, under the table mutex itself *)

\* Mutant: a MapRoot operation accepts a slot that is leased.
RootValidIgnoresLeases(h) == Usable(h) /\ slots[h.index].pins = 0

\* validate_map_root_slot.
RootValid(h) ==
  /\ Usable(h)
  /\ slots[h.index].leases = 0
  /\ slots[h.index].pins = 0
  /\ slots[h.index].owner = NoThread

\* map_root_set, map_root_set_owned_any_string and map_root_remove.
MapRootWrite(h) ==
  /\ IsMap
  /\ RootValid(h)
  /\ slots' = [slots EXCEPT ![h.index] = [@ EXCEPT !.obj = "root"]]
  /\ UNCHANGED <<len, free, floor, exhausted, pc, arg, held, issued>>

\* map_root_drop: reclaims at once and notifies nobody.
MapRootDrop(h) ==
  /\ IsMap
  /\ RootValid(h)
  /\ FinishFree(h.index)
  /\ UNCHANGED <<pc, arg, held, issued>>

----------------------------------------------------------------------------
\* A runtime function that owns a lease guard works on the object and drops
\* the guard before it returns; it calls no other table operation meanwhile.
LeaseStep(t, h) == UseLease(t, h) \/ Release(t, h)

\* Any call of the table's API by a thread that owns no guard.
CallStep(t, h) ==
  /\ held[t] = {}
  /\ \/ Acquire(t, h)
     \/ Pin(t, h)
     \/ Unpin(t, h)
     \/ BeginDestroy(t, h)
     \/ Destroy(t, h)
     \/ FinishDestroy(t, h)

ThreadStep(t) ==
  \/ \E h \in issued : LeaseStep(t, h) \/ CallStep(t, h)
  \/ Reacquire(t)
  \/ SpuriousWake(t)
  \/ DestroyFinish(t)

Next ==
  \/ AllocReuse
  \/ AllocFresh
  \/ \E t \in Thread : ThreadStep(t)
  \/ \E h \in issued : MapRootWrite(h) \/ MapRootDrop(h)

\* The pin that defers a reclamation is dropped.
LastUnpin ==
  \E t \in Thread, h \in issued :
    held[t] = {} /\ slots[h.index].pending_free /\ Unpin(t, h)

\* A lease guard is a Rust value that lives for one operation, so it is
\* dropped; a thread that was woken or is inside map_destroy keeps running.
\* A C caller that pinned a handle balances the pin, whatever else it calls
\* in between: strong fairness, an obligation of the ABI's client.
Fairness ==
  /\ \A t \in Thread :
       /\ WF_vars(Reacquire(t))
       /\ WF_vars(DestroyFinish(t))
       /\ WF_vars(\E h \in issued : Release(t, h))
  /\ SF_vars(LastUnpin)

Spec == Init /\ [][Next]_vars
FairSpec == Spec /\ Fairness

----------------------------------------------------------------------------
(* Properties *)

\* Every variable has its type.
TypeOK ==
  /\ slots \in [Index -> Slot]
  /\ len \in 0 .. MaxIndex
  /\ free \in Seq(Index)
  /\ floor \in Gen
  /\ exhausted \in BOOLEAN
  /\ pc \in [Thread -> {"run", "asleep", "woken", "finish"}]
  /\ arg \in [Thread -> Handle]
  /\ held \in [Thread -> SUBSET Handle]
  /\ issued \in SUBSET Handle

\* While a thread owns a lease guard, the guard's handle still names the same
\* existing object and the slot records that thread as the exclusive owner:
\* no destroy, unpin, MapRoot drop or compaction pulls it away, and no second
\* thread (or the same thread again) gets in.
LeaseKeepsObject ==
  \A t \in Thread : \A h \in held[t] :
    /\ Live(h)
    /\ slots[h.index].owner = t
    /\ slots[h.index].leases = 1

\* A slot that records an owner has a thread that holds the guard: a lease is
\* never leaked, which would block every later operation on the handle.
OwnerHoldsGuard ==
  \A i \in Index :
    slots[i].owner # NoThread =>
      /\ i <= len
      /\ pack(i, slots[i].generation) \in held[slots[i].owner]

\* A reclamation that was deferred has somebody left to perform it: the slot
\* still has its object and a lease or a pin whose end will free it.
DeferredFreeHasHolder ==
  \A i \in Index :
    slots[i].pending_free =>
      /\ slots[i].obj # "none"
      /\ slots[i].retired
      /\ slots[i].leases = 1 \/ slots[i].pins > 0

\* No lost wake-up: a thread sleeps on the condition variable only while the
\* handle it wants is usable and leased by another thread.
SleepersHaveReason ==
  \A t \in Thread :
    pc[t] = "asleep" =>
      /\ Usable(arg[t])
      /\ slots[arg[t].index].owner \notin {NoThread, t}

\* The free stack names each reclaimed slot once, and every slot of the table
\* is in use, on the stack, or permanently retired at the last generation.
FreeStackExact ==
  /\ \A m, n \in 1 .. Len(free) : free[m] = free[n] => m = n
  /\ \A i \in Index :
       (\E n \in 1 .. Len(free) : free[n] = i)
         <=> (i <= len /\ slots[i].obj = "none" /\ ~slots[i].retired)

\* No resurrection: once an issued handle names no object it never names one
\* again, whatever slot reuse, compaction or generation exhaustion follows.
NoRevival ==
  [][\A h \in issued : ~Live(h) => ~Live(h)']_vars

\* The object behind a leased handle is written by its lease owner only, and
\* taken away only by the release that ends the lease: no MapRoot operation
\* works under somebody's raw pointer.
LeasedContentIsPrivate ==
  [][\A i \in Index :
       (slots[i].owner # NoThread /\ slots'[i].obj # slots[i].obj) =>
         \/ slots'[i].obj = slots[i].owner
         \/ pack(i, slots[i].generation) \notin held'[slots[i].owner]]_vars

(* The table as an ideal registry: slots, generations, reuse and compaction *)
(* disappear, and every handle lives its own life.                         *)
LifeOf(h) ==
  IF h \notin issued THEN "unissued"
  ELSE IF ~Live(h) THEN "dead"
  ELSE IF slots[h.index].pending_free THEN "dying"
  ELSE IF slots[h.index].retired THEN "doomed"
  ELSE "live"

UserOf(h) == IF h \in issued /\ Live(h) THEN slots[h.index].owner ELSE NoThread
PinsOf(h) == IF h \in issued /\ Live(h) THEN slots[h.index].pins ELSE 0

Life == INSTANCE HandleLife WITH
  User <- Thread,
  NoUser <- NoThread,
  life <- [h \in Handle |-> LifeOf(h)],
  user <- [h \in Handle |-> UserOf(h)],
  pins <- [h \in Handle |-> PinsOf(h)]

\* The table implements the ideal registry: a handle is issued once, no call
\* and no reclamation of another handle's slot changes its life, its user or
\* its pins, and it dies when its destruction is due and its last user left.
ImplementsHandleLife == Life!Spec

\* A deferred reclamation happens: once finish_destroy was called, the object
\* goes away when the operations and pins that deferred it have ended.
DeferredFreeHappens ==
  \A i \in Index, g \in Gen :
    (slots[i].pending_free /\ slots[i].generation = g)
      ~> ~Live(pack(i, g))
=============================================================================
