------------------------------ MODULE RefCount ------------------------------
(***************************************************************************)
(* The atomic reference counts of shared and weak values (mimi_rc_* in     *)
(* runtime/mod.rs): one allocation, whose header holds a strong and a weak *)
(* count.  The strong side and the weak side decrement their own count and *)
(* then look at the other one; whoever finds both at zero deallocates.     *)
(*                                                                         *)
(* One action is one atomic access of the header.  A thread calls an       *)
(* operation only on a reference it owns (the Arc-class contract of the    *)
(* code's comments); compiled code may hand a new reference to a thread.   *)
(* Atomics are sequentially consistent here.  After a deallocation only    *)
(* the checks that were already under way go on, and their load may return *)
(* anything; what else would touch the header then is undefined and ends   *)
(* the behaviour.                                                          *)
(***************************************************************************)
EXTENDS Integers, FiniteSets

CONSTANTS
  Thread,
  MaxRefs   \* bound on each count: i64::MAX in the code

ASSUME RefAssumption == MaxRefs \in Nat \ {0} /\ IsFiniteSet(Thread)

VARIABLES
  strong,   \* RcHeader.strong
  weak,     \* RcHeader.weak
  frees,    \* how often the allocation was passed to dealloc
  own,      \* the references each thread owns
  pc,       \* the next atomic access of the operation a thread is in
  op,       \* "weak_retain" or "upgrade", while in their common loop
  seen      \* the counts the thread loaded

vars == <<strong, weak, frees, own, pc, op, seen>>

\* mimi_rc_alloc: one strong reference, owned by the allocating thread.
Init ==
  /\ strong = 1
  /\ weak = 0
  /\ frees = 0
  /\ \E t \in Thread :
       own = [u \in Thread |-> [s |-> IF u = t THEN 1 ELSE 0, w |-> 0]]
  /\ pc = [t \in Thread |-> "idle"]
  /\ op = [t \in Thread |-> "weak_retain"]
  /\ seen = [t \in Thread |-> [s |-> 0, w |-> 0]]

Goto(t, l) == pc' = [pc EXCEPT ![t] = l]

\* What a load of a count with value x may return.
Loaded(x) == IF frees = 0 THEN {x} ELSE {0, 1}

\* mimi_rc_retain; the new reference goes to thread u.
Retain(t, u) ==
  /\ pc[t] = "idle" /\ frees = 0
  /\ own[t].s > 0
  /\ strong < MaxRefs
  /\ strong' = strong + 1
  /\ own' = [own EXCEPT ![u].s = @ + 1]
  /\ UNCHANGED <<weak, frees, pc, op, seen>>

\* mimi_rc_release: strong.fetch_sub, and the rest only if it returned 1.
Release(t) ==
  /\ pc[t] = "idle" /\ frees = 0
  /\ own[t].s > 0
  /\ strong' = strong - 1
  /\ own' = [own EXCEPT ![t].s = @ - 1]
  /\ Goto(t, IF strong = 1 THEN "weak_check" ELSE "idle")
  /\ UNCHANGED <<weak, frees, op, seen>>

\* The last strong reference went: deallocate if the weak count reads zero.
WeakCheck(t) ==
  /\ pc[t] = "weak_check"
  /\ \E w \in Loaded(weak) : frees' = IF w = 0 THEN frees + 1 ELSE frees
  /\ Goto(t, "idle")
  /\ UNCHANGED <<strong, weak, own, op, seen>>

\* mimi_rc_weak_retain, by the owner of a strong or a weak reference, and
\* mimi_rc_upgrade, by the owner of a weak one, start with the same loop.
BeginIncrement(t, o) ==
  /\ pc[t] = "idle" /\ frees = 0
  /\ own[t].w > 0 \/ (o = "weak_retain" /\ own[t].s > 0)
  /\ weak < MaxRefs
  /\ op' = [op EXCEPT ![t] = o]
  /\ Goto(t, "load_strong")
  /\ UNCHANGED <<strong, weak, frees, own, seen>>

LoadStrong(t) ==
  /\ pc[t] = "load_strong" /\ frees = 0
  /\ seen' = [seen EXCEPT ![t].s = strong]
  /\ Goto(t, "load_weak")
  /\ UNCHANGED <<strong, weak, frees, own, op>>

\* Both counts zero means the object is gone: return without incrementing.
LoadWeak(t) ==
  /\ pc[t] = "load_weak" /\ frees = 0
  /\ seen' = [seen EXCEPT ![t].w = weak]
  /\ Goto(t, IF seen[t].s = 0 /\ weak = 0 THEN "idle" ELSE "cas_weak")
  /\ UNCHANGED <<strong, weak, frees, own, op>>

\* Mutant: the increment of the weak count is a load and a store.
IncrementWeakNotAtomic(t) ==
  /\ pc[t] = "cas_weak" /\ frees = 0
  /\ weak' = seen[t].w + 1
  /\ IF op[t] = "upgrade"
       THEN /\ Goto(t, "up_load")
            /\ UNCHANGED own
       ELSE /\ Goto(t, "idle")
            /\ own' = [own EXCEPT ![t].w = @ + 1]
  /\ UNCHANGED <<strong, frees, op, seen>>

\* The compare-exchange that increments the weak count succeeds.
IncrementWeak(t) ==
  /\ pc[t] = "cas_weak" /\ frees = 0
  /\ weak = seen[t].w
  /\ weak < MaxRefs
  /\ weak' = weak + 1
  /\ IF op[t] = "upgrade"
       THEN /\ Goto(t, "up_load")
            /\ UNCHANGED own
       ELSE /\ Goto(t, "idle")
            /\ own' = [own EXCEPT ![t].w = @ + 1]
  /\ UNCHANGED <<strong, frees, op, seen>>

\* It fails and the loop starts again; upgrade's may fail spuriously.
IncrementWeakFails(t) ==
  /\ pc[t] = "cas_weak" /\ frees = 0
  /\ weak # seen[t].w \/ op[t] = "upgrade"
  /\ Goto(t, "load_strong")
  /\ UNCHANGED <<strong, weak, frees, own, op, seen>>

\* upgrade: the load before the second loop.
UpgradeLoad(t) ==
  /\ pc[t] = "up_load" /\ frees = 0
  /\ seen' = [seen EXCEPT ![t].s = strong]
  /\ Goto(t, IF strong = 0 THEN "up_drop" ELSE "up_cas")
  /\ UNCHANGED <<strong, weak, frees, own, op>>

\* Mutant: the strong count is incremented without comparing it again.
UpgradeStrongAlways(t) ==
  /\ pc[t] = "up_cas" /\ frees = 0
  /\ strong < MaxRefs
  /\ strong' = strong + 1
  /\ own' = [own EXCEPT ![t].s = @ + 1]
  /\ Goto(t, "up_drop")
  /\ UNCHANGED <<weak, frees, op, seen>>

\* upgrade: the compare-exchange that increments the strong count succeeds.
UpgradeStrong(t) ==
  /\ pc[t] = "up_cas" /\ frees = 0
  /\ strong = seen[t].s
  /\ strong < MaxRefs
  /\ strong' = strong + 1
  /\ own' = [own EXCEPT ![t].s = @ + 1]
  /\ Goto(t, "up_drop")
  /\ UNCHANGED <<weak, frees, op, seen>>

\* It fails, perhaps spuriously, and hands back the current count.
UpgradeStrongFails(t) ==
  /\ pc[t] = "up_cas" /\ frees = 0
  /\ seen' = [seen EXCEPT ![t].s = strong]
  /\ Goto(t, IF strong = 0 THEN "up_drop" ELSE "up_cas")
  /\ UNCHANGED <<strong, weak, frees, own, op>>

\* weak.fetch_sub, and the rest only if it returned 1.
DecrementWeak(t) ==
  /\ weak' = weak - 1
  /\ Goto(t, IF weak = 1 THEN "strong_check" ELSE "idle")
  /\ UNCHANGED <<strong, frees, op, seen>>

\* upgrade gives its temporary weak reference back.
UpgradeDrop(t) ==
  /\ pc[t] = "up_drop" /\ frees = 0
  /\ DecrementWeak(t)
  /\ UNCHANGED own

\* mimi_rc_weak_release.
WeakRelease(t) ==
  /\ pc[t] = "idle" /\ frees = 0
  /\ own[t].w > 0
  /\ own' = [own EXCEPT ![t].w = @ - 1]
  /\ DecrementWeak(t)

\* Mutant: the last weak reference leaves the header to the strong side.
StrongCheckNeverFrees(t) ==
  /\ pc[t] = "strong_check"
  /\ Goto(t, "idle")
  /\ UNCHANGED <<strong, weak, frees, own, op, seen>>

\* Mutant: it deallocates whatever the strong count is.
StrongCheckAlwaysFrees(t) ==
  /\ pc[t] = "strong_check"
  /\ frees' = frees + 1
  /\ Goto(t, "idle")
  /\ UNCHANGED <<strong, weak, own, op, seen>>

\* The last weak reference went: deallocate if the strong count reads zero.
StrongCheck(t) ==
  /\ pc[t] = "strong_check"
  /\ \E s \in Loaded(strong) : frees' = IF s <= 0 THEN frees + 1 ELSE frees
  /\ Goto(t, "idle")
  /\ UNCHANGED <<strong, weak, own, op, seen>>

\* Every reference is gone and every operation returned.
Over == \A t \in Thread : pc[t] = "idle" /\ own[t].s = 0 /\ own[t].w = 0

Next ==
  \/ \E t \in Thread :
       \/ \E u \in Thread : Retain(t, u)
       \/ \E o \in {"weak_retain", "upgrade"} : BeginIncrement(t, o)
       \/ Release(t)
       \/ WeakCheck(t)
       \/ LoadStrong(t)
       \/ LoadWeak(t)
       \/ IncrementWeak(t)
       \/ IncrementWeakFails(t)
       \/ UpgradeLoad(t)
       \/ UpgradeStrong(t)
       \/ UpgradeStrongFails(t)
       \/ UpgradeDrop(t)
       \/ WeakRelease(t)
       \/ StrongCheck(t)
  \/ (Over \/ frees > 0) /\ UNCHANGED vars

Spec == Init /\ [][Next]_vars

----------------------------------------------------------------------------
(* Properties *)

\* Every variable has its type.
TypeOK ==
  /\ strong \in 0 .. MaxRefs
  /\ weak \in 0 .. MaxRefs
  /\ frees \in Nat
  /\ own \in [Thread -> [s : 0 .. MaxRefs, w : 0 .. MaxRefs]]
  /\ pc \in [Thread -> {"idle", "weak_check", "load_strong", "load_weak", "cas_weak",
                        "up_load", "up_cas", "up_drop", "strong_check"}]
  /\ op \in [Thread -> {"weak_retain", "upgrade"}]
  /\ seen \in [Thread -> [s : 0 .. MaxRefs, w : 0 .. MaxRefs]]

\* The threads that hold upgrade's temporary weak reference.
Upgrading == {t \in Thread : pc[t] \in {"up_load", "up_cas", "up_drop"}}

\* What the threads own, when thread t owns c[t] references: each is a pair of
\* its owner and a number.
Owned(c) == {r \in Thread \X (1 .. MaxRefs) : r[2] <= c[r[1]]}
StrongRefs == Owned([t \in Thread |-> own[t].s])
WeakRefs == Owned([t \in Thread |-> own[t].w])

\* The counts are the references that exist: racing retains, upgrades and
\* releases lose no update and count nothing twice.
CountsExact ==
  /\ strong = Cardinality(StrongRefs)
  /\ weak = Cardinality(Upgrading) + Cardinality(WeakRefs)

\* A thread that owns a strong reference finds the object allocated: no other
\* thread's release, strong or weak, pulls it away.
StrongKeepsObject == frees > 0 => \A t \in Thread : own[t].s = 0

\* Once the last strong reference is gone no upgrade brings the object back.
ZeroStrongIsFinal == [][strong = 0 => strong' = 0]_vars

\* The allocation is not leaked: when the last reference of either kind is
\* gone and its release returned, it was deallocated.
LastReferenceFrees == Over => frees > 0

\* The release paths' comments: "strong==0 and weak==0 guarantee exclusive
\* access", so the allocation is passed to dealloc once.
FreedOnce == frees <= 1

\* Does not hold.  mimi_rc_weak_retain's comment: "weak > 0 keeping the header
\* mapped".  A thread that owns a weak reference, or upgrade's temporary one,
\* finds the header allocated.
WeakKeepsHeader ==
  frees > 0 => Upgrading = {} /\ \A t \in Thread : own[t].w = 0
=============================================================================
