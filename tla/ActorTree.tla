----------------------------- MODULE ActorTree -----------------------------
(***************************************************************************)
(* The live-actor registry of the native runtime (runtime/actor.rs):       *)
(* spawning attached and detached actors under the process-wide quota,     *)
(* dropping them, and SystemKill, which cuts a whole ownership subtree.    *)
(*                                                                         *)
(* A thread is a plain thread or the worker of an actor, which spawns      *)
(* children of that actor (CURRENT_ACTOR_ID) and may outlive its           *)
(* registration.  A spawn is three steps that other threads interleave     *)
(* with: the quota test, the insertion under the registry lock, and the    *)
(* increment of the count.  Mailboxes and joins are ActorMailbox's.        *)
(***************************************************************************)
EXTENDS Naturals, FiniteSets

CONSTANTS
  Actor,      \* actor ids, in no order: an id is used once
  Outside,    \* threads that are not actor workers
  Quota,      \* the values given to mimi_actor_set_max_children
  None        \* parent_id: None

ASSUME TreeAssumption ==
  /\ Actor \cap Outside = {}
  /\ None \notin Actor
  /\ Quota \subseteq Nat
  /\ IsFiniteSet(Actor) /\ IsFiniteSet(Outside)

Thread == Actor \cup Outside

VARIABLES
  reg,        \* LIVE_ACTORS
  parent,     \* the parent_id of every actor so far
  used,       \* ids taken from ACTOR_ID_COUNTER
  ended,      \* actors whose worker has returned
  count,      \* ACTOR_SPAWN_COUNT
  max,        \* ACTOR_SPAWN_MAX, 0 for unlimited
  pc,         \* the next step of the call a thread is in
  new,        \* the actor a thread is spawning
  removed,    \* how many slots a thread still has to give back
  handles,    \* actors whose handle was returned by spawn
  killed      \* history: the actors SystemKill cut

vars == <<reg, parent, used, ended, count, max, pc, new, removed, handles, killed>>

Init ==
  /\ reg = {}
  /\ parent = [a \in Actor |-> None]
  /\ used = {}
  /\ ended = {}
  /\ count = 0
  /\ max = 0
  /\ pc = [t \in Thread |-> "idle"]
  /\ new = [t \in Thread |-> None]
  /\ removed = [t \in Thread |-> 0]
  /\ handles = {}
  /\ killed = {}

\* A worker runs methods from the time its actor can be called until it ends.
Idle(t) == pc[t] = "idle" /\ (t \in Outside \/ t \in handles \ ended)

Goto(t, l) == pc' = [pc EXCEPT ![t] = l]

SaturatingSub(m, n) == IF m > n THEN m - n ELSE 0

----------------------------------------------------------------------------
(* mimi_actor_spawn_with_mode *)

\* CURRENT_ACTOR_ID, unless the new actor is detached.
ParentId(t, detached) == IF detached \/ t \in Outside THEN None ELSE t

\* The quota test, an id, and the worker thread.
SpawnStart(t, a, detached) ==
  /\ Idle(t)
  /\ max > 0 => count < max
  /\ a \notin used
  /\ used' = used \cup {a}
  /\ parent' = [parent EXCEPT ![a] = ParentId(t, detached)]
  /\ new' = [new EXCEPT ![t] = a]
  /\ Goto(t, "insert")
  /\ UNCHANGED <<reg, ended, count, max, removed, handles, killed>>

\* The worker thread cannot be created: the id is spent and spawn returns null.
SpawnFails(t, a) ==
  /\ Idle(t)
  /\ max > 0 => count < max
  /\ a \notin used
  /\ used' = used \cup {a}
  /\ UNCHANGED <<reg, parent, ended, count, max, pc, new, removed, handles, killed>>

\* Mutant: the parent is not looked up again under the registry lock.
SpawnInsertUnchecked(t) ==
  /\ pc[t] = "insert"
  /\ reg' = reg \cup {new[t]}
  /\ Goto(t, "count")
  /\ UNCHANGED <<parent, used, ended, count, max, new, removed, handles, killed>>

\* Under the registry lock: the parent must still be registered.
SpawnInsert(t) ==
  /\ pc[t] = "insert"
  /\ IF parent[new[t]] # None /\ parent[new[t]] \notin reg
       THEN /\ Goto(t, "idle")
            /\ new' = [new EXCEPT ![t] = None]
            /\ UNCHANGED reg
       ELSE /\ reg' = reg \cup {new[t]}
            /\ Goto(t, "count")
            /\ UNCHANGED new
  /\ UNCHANGED <<parent, used, ended, count, max, removed, handles, killed>>

SpawnCount(t) ==
  /\ pc[t] = "count"
  /\ count' = count + 1
  /\ handles' = handles \cup {new[t]}
  /\ new' = [new EXCEPT ![t] = None]
  /\ Goto(t, "idle")
  /\ UNCHANGED <<reg, parent, used, ended, max, removed, killed>>

----------------------------------------------------------------------------
(* mimi_actor_drop, mimi_actor_drop_all, mimi_actor_system_kill *)

\* The actors leave the registry; their slots are given back in a later step.
Unregister(t, actors) ==
  /\ reg' = reg \ actors
  /\ removed' = [removed EXCEPT ![t] = Cardinality(actors)]
  /\ Goto(t, "release")
  /\ UNCHANGED <<parent, used, ended, count, max, new, handles>>

\* Mutant: the slot is freed although the handle was already taken.
DropTwice(t, a) ==
  /\ Idle(t)
  /\ a \in handles
  /\ Unregister(t, {a})
  /\ UNCHANGED killed

Drop(t, a) ==
  /\ Idle(t)
  /\ a \in handles \cap reg
  /\ Unregister(t, {a})
  /\ UNCHANGED killed

\* Native main calls it before it returns; actors may be live and spawning.
DropAll(t) ==
  /\ t \in Outside
  /\ Idle(t)
  /\ reg # {}
  /\ Unregister(t, reg)
  /\ UNCHANGED killed

\* What the worklist of mimi_actor_system_kill ends with: the least set of
\* registered actors that holds a and the children of its members.  A detached
\* actor has no parent.
Closed(ids) == \A b \in reg : parent[b] \in ids => b \in ids
Subtree(a) == {b \in reg : \A ids \in SUBSET reg : a \in ids /\ Closed(ids) => b \in ids}

\* mimi_actor_system_kill, mimi_actor_fault.  The victims are faulted and their
\* mailboxes closed between the cut and the release of their slots.
SystemKill(t, a) ==
  /\ Idle(t)
  /\ a \in handles \cap reg
  /\ Unregister(t, Subtree(a))
  /\ killed' = killed \cup Subtree(a)

ReleaseSlots(t) ==
  /\ pc[t] = "release"
  /\ count' = SaturatingSub(count, removed[t])
  /\ removed' = [removed EXCEPT ![t] = 0]
  /\ Goto(t, "idle")
  /\ UNCHANGED <<reg, parent, used, ended, max, new, handles, killed>>

----------------------------------------------------------------------------
\* mimi_actor_set_max_children.
SetMaxChildren(t, n) ==
  /\ Idle(t)
  /\ max' = n
  /\ UNCHANGED <<reg, parent, used, ended, count, pc, new, removed, handles, killed>>

\* The worker of an unregistered actor finds its mailbox closed and returns.
WorkerEnds(a) ==
  /\ Idle(a)
  /\ a \notin reg
  /\ ended' = ended \cup {a}
  /\ UNCHANGED <<reg, parent, used, count, max, pc, new, removed, handles, killed>>

Next ==
  \/ \E t \in Thread :
       \/ SpawnInsert(t) \/ SpawnCount(t) \/ ReleaseSlots(t) \/ DropAll(t)
       \/ \E n \in Quota : SetMaxChildren(t, n)
       \/ \E a \in Actor :
            \/ SpawnStart(t, a, TRUE) \/ SpawnStart(t, a, FALSE) \/ SpawnFails(t, a)
            \/ Drop(t, a) \/ SystemKill(t, a)
  \/ \E a \in Actor : WorkerEnds(a)

Spec == Init /\ [][Next]_vars

----------------------------------------------------------------------------
(* Properties *)

Quiet == \A t \in Thread : pc[t] = "idle"

\* Every variable has its type; a killed actor has left the registry for good.
TypeOK ==
  /\ reg \subseteq used /\ used \subseteq Actor
  /\ ended \subseteq handles \ reg
  /\ handles \subseteq used
  /\ killed \subseteq used \ reg
  /\ parent \in [Actor -> handles \cup {None}]
  /\ count \in 0 .. Cardinality(Actor)
  /\ max \in Quota \cup {0}
  /\ pc \in [Thread -> {"idle", "insert", "count", "release"}]
  /\ new \in [Thread -> Actor \cup {None}]
  /\ removed \in [Thread -> 0 .. Cardinality(Actor)]

\* "A child cannot appear after its parent was cut": whatever spawns, drops and
\* kills race, no registered actor is the child of a killed one, which nothing
\* would ever kill.
NoChildOfKilled == \A a \in reg : parent[a] \notin killed

\* Racing spawns, drops and kills never leave the count below the number of
\* registered actors, which would let every later spawn exceed the quota.
CountCoversRegistry == Quiet => count >= Cardinality(reg)

\* Does not hold.  ACTOR_SPAWN_COUNT's comment: the "number of actors
\* successfully spawned (not yet dropped)".  A kill that overtakes the increment
\* of a spawn loses a decrement to saturation.
CountExact == Quiet => count = Cardinality(reg)

\* Does not hold.  ACTOR_SPAWN_MAX's comment: the "process-wide max children".
\* The quota is tested before the insertion that uses it up.
QuotaHolds ==
  [][Cardinality(reg') > Cardinality(reg) /\ max > 0 => Cardinality(reg') <= max]_vars

\* The owners of an actor, direct and transitive, registered or not.
Ancestors(a) ==
  {b \in used : \A ids \in SUBSET used :
     parent[a] \in ids /\ (\A c \in ids : parent[c] \in ids \cup {None}) => b \in ids}

\* Does not hold.  The kill's comment: "Terminate an actor and every transitively
\* owned, non-detached child".  The cascade cannot pass an actor that was dropped.
KillReachesDescendants ==
  \A a \in reg : parent[a] # None => Ancestors(a) \cap killed = {}

\* Registered actors whose owner has left the registry.
Orphans == {a \in reg : parent[a] # None /\ parent[a] \notin reg}

\* The cascade of a kill is complete, and a spawn that races it inserts nothing
\* under what it cut: what leaves an actor without its owner is a
\* mimi_actor_drop of that owner, never a kill, a fault or a drop_all.
OnlyDropOrphans ==
  [][\A a \in Orphans' \ Orphans : \E t \in Thread : Drop(t, parent[a])]_vars

\* Where KillReachesDescendants holds: while nobody dropped the owner of a
\* registered actor, every actor that a kill had to reach is gone.
KillReachesOwned == Orphans = {} => KillReachesDescendants
=============================================================================
