----------------------------- MODULE FutureLife -----------------------------
(***************************************************************************)
(* What the runtime promises about futures, with no reference count, no    *)
(* lock and no program counters: who holds a future keeps it, a holder can *)
(* be added only while there is one, the address is vouched for until the  *)
(* last holder left, and then the memory is given back once.  A future     *)
(* completes at most once, nobody goes to sleep on a completed one, and    *)
(* completion leaves nobody asleep.  Only a future whose owner gave it up  *)
(* is ever abandoned; abandoning it wakes nobody.                          *)
(*                                                                         *)
(* Futures are independent, and one step may move several of them.         *)
(***************************************************************************)
EXTENDS Naturals

CONSTANTS
  Future,
  Holder,    \* whatever can hold a future
  Owner      \* the holders that own it

VARIABLES
  flag,      \* "unborn", "pending", "ready" or "abandoned"
  holders,   \* who holds the future
  waiting,   \* the holders asleep until it completes
  known,     \* the futures whose address is vouched for
  returned   \* how often the memory was given back

vars == <<flag, holders, waiting, known, returned>>

Init ==
  /\ flag = [f \in Future |-> "unborn"]
  /\ holders = [f \in Future |-> {}]
  /\ waiting = [f \in Future |-> {}]
  /\ known = {}
  /\ returned = [f \in Future |-> 0]

Flag(f, l) == flag'[f] = l
Hold(f, S) == holders'[f] = S
Asleep(f, S) == waiting'[f] = S
Memory(f, k, n) == (f \in known' <=> k) /\ returned'[f] = n

SameFlag(f) == Flag(f, flag[f])
SameHolders(f) == Hold(f, holders[f])
SameWaiting(f) == Asleep(f, waiting[f])
SameMemory(f) == Memory(f, f \in known, returned[f])

Create(f, h) ==
  /\ flag[f] = "unborn" /\ Flag(f, "pending")
  /\ Hold(f, {h}) /\ Memory(f, TRUE, 0) /\ SameWaiting(f)

\* One more holder; those before it need not know.
Share(f, h) ==
  /\ holders[f] # {} /\ f \in known /\ Hold(f, holders[f] \cup {h})
  /\ SameFlag(f) /\ SameWaiting(f) /\ SameMemory(f)

\* A holder that is awake passes what it holds to another one, or leaves.
Pass(f, h, k) ==
  /\ h \in holders[f] \ waiting[f] /\ Hold(f, (holders[f] \ {h}) \cup {k})
  /\ SameFlag(f) /\ SameWaiting(f) /\ SameMemory(f)

Leave(f, h) ==
  /\ h \in holders[f] \ waiting[f] /\ Hold(f, holders[f] \ {h})
  /\ SameFlag(f) /\ SameWaiting(f) /\ SameMemory(f)

Sleep(f, h) ==
  /\ flag[f] = "pending" /\ h \in holders[f] /\ Asleep(f, waiting[f] \cup {h})
  /\ SameFlag(f) /\ SameHolders(f) /\ SameMemory(f)

\* Sleepers may be woken for no reason of theirs.
Wake(f) ==
  /\ waiting'[f] \subseteq waiting[f]
  /\ SameFlag(f) /\ SameHolders(f) /\ SameMemory(f)

Complete(f) ==
  /\ flag[f] = "pending" /\ holders[f] # {} /\ Flag(f, "ready") /\ Asleep(f, {})
  /\ SameHolders(f) /\ SameMemory(f)

Abandon(f) ==
  /\ flag[f] \in {"pending", "ready"} /\ holders[f] # {} /\ holders[f] \cap Owner = {}
  /\ Flag(f, "abandoned")
  /\ SameHolders(f) /\ SameWaiting(f) /\ SameMemory(f)

\* The last holder left: first the address goes, then the memory.
Forget(f) ==
  /\ flag[f] # "unborn" /\ holders[f] = {} /\ f \in known /\ Memory(f, FALSE, returned[f])
  /\ SameFlag(f) /\ SameHolders(f) /\ SameWaiting(f)

Collect(f) ==
  /\ flag[f] # "unborn" /\ holders[f] = {} /\ f \notin known /\ returned[f] = 0
  /\ Memory(f, FALSE, 1)
  /\ SameFlag(f) /\ SameHolders(f) /\ SameWaiting(f)

Step(f) ==
  \/ \E h \in Owner : Create(f, h)
  \/ \E h \in Holder : Share(f, h) \/ Leave(f, h) \/ Sleep(f, h)
  \/ \E h, k \in Holder : Pass(f, h, k)
  \/ Wake(f) \/ Complete(f) \/ Abandon(f) \/ Forget(f) \/ Collect(f)

Stays(f) == SameFlag(f) /\ SameHolders(f) /\ SameWaiting(f) /\ SameMemory(f)

Next == \A f \in Future : Step(f) \/ Stays(f)

Spec == Init /\ [][Next]_vars
=============================================================================
