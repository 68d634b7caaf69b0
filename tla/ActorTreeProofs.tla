-------------------------- MODULE ActorTreeProofs --------------------------
(***************************************************************************)
(* Proofs about ActorTree: its types, that no actor outlives the kill of   *)
(* its parent, and that the count covers the registry, for any number of   *)
(* actors, threads and quotas.                                             *)
(***************************************************************************)
EXTENDS ActorTree, FiniteSetTheorems, TLAPS

\* Between the quota test and the end of a spawn its actor is the spawning
\* thread's alone: no registry entry before the insertion, no handle before the
\* increment, and no two threads spawn the same actor.
SpawnIsPrivate ==
  /\ \A t \in Thread : pc[t] = "insert" => new[t] \in used \ (reg \cup killed \cup handles)
  /\ \A t \in Thread : pc[t] = "count" => new[t] \in used \ handles
  /\ \A t \in Thread : pc[t] \in {"idle", "release"} => new[t] = None
  /\ \A t, u \in Thread : new[t] # None /\ new[t] = new[u] => t = u

\* Every increment of the count hands out a handle.
CountBounded == count <= Cardinality(handles)

IInv == TypeOK /\ SpawnIsPrivate /\ CountBounded /\ NoChildOfKilled

\* The victims of a kill: the root, and with an actor its registered children.
LEMMA SubtreeClosed ==
  ASSUME NEW a \in reg
  PROVE  /\ Subtree(a) \subseteq reg
         /\ a \in Subtree(a)
         /\ \A b \in reg : parent[b] \in Subtree(a) => b \in Subtree(a)
  BY DEF Subtree, Closed

\* Sets of actors are finite and no larger than Actor.
LEMMA ActorSubset ==
  ASSUME NEW S \in SUBSET Actor
  PROVE  /\ IsFiniteSet(S)
         /\ Cardinality(S) \in Nat
         /\ Cardinality(S) \in 0 .. Cardinality(Actor)
  <1>1. IsFiniteSet(Actor)  BY TreeAssumption
  <1>2. IsFiniteSet(S) /\ Cardinality(S) <= Cardinality(Actor)  BY <1>1, FS_Subset
  <1>3. Cardinality(S) \in Nat /\ Cardinality(Actor) \in Nat  BY <1>1, <1>2, FS_CardinalityType
  <1> QED  BY <1>2, <1>3

\* The initial state satisfies the invariant.
LEMMA InitIInv == Init => IInv
  <1> SUFFICES ASSUME Init PROVE IInv  OBVIOUS
  <1>1. Cardinality(Actor) \in Nat  BY TreeAssumption, FS_CardinalityType
  <1>2. TypeOK  BY <1>1 DEF Init, TypeOK
  <1>3. SpawnIsPrivate  BY DEF Init, SpawnIsPrivate
  <1>4. CountBounded  BY FS_EmptySet DEF Init, CountBounded
  <1>5. NoChildOfKilled  BY DEF Init, NoChildOfKilled
  <1> QED  BY <1>2, <1>3, <1>4, <1>5 DEF IInv

\* Starting a spawn: the id is new to every set of actors.
LEMMA SpawnStartIInv ==
  ASSUME IInv, NEW t \in Thread, NEW a \in Actor, NEW d \in BOOLEAN, SpawnStart(t, a, d)
  PROVE  IInv'
  <1>1. TypeOK'
    BY TreeAssumption DEF IInv, TypeOK, SpawnStart, Goto, ParentId, Idle, Thread
  <1>2. SpawnIsPrivate'
    BY TreeAssumption DEF IInv, TypeOK, SpawnIsPrivate, SpawnStart, Goto, Idle
  <1>3. CountBounded'  BY DEF IInv, CountBounded, SpawnStart
  <1>4. NoChildOfKilled'  BY DEF IInv, TypeOK, NoChildOfKilled, SpawnStart
  <1> QED  BY <1>1, <1>2, <1>3, <1>4 DEF IInv

\* A spawn that fails only spends its id.
LEMMA SpawnFailsIInv ==
  ASSUME IInv, NEW t \in Thread, NEW a \in Actor, SpawnFails(t, a)
  PROVE  IInv'
  <1>1. TypeOK'  BY DEF IInv, TypeOK, SpawnFails
  <1>2. SpawnIsPrivate'  BY DEF IInv, SpawnIsPrivate, SpawnFails
  <1>3. CountBounded'  BY DEF IInv, CountBounded, SpawnFails
  <1>4. NoChildOfKilled'  BY DEF IInv, NoChildOfKilled, SpawnFails
  <1> QED  BY <1>1, <1>2, <1>3, <1>4 DEF IInv

\* The insertion: a parent that is registered was not killed.
LEMMA SpawnInsertIInv ==
  ASSUME IInv, NEW t \in Thread, SpawnInsert(t)
  PROVE  IInv'
  <1>0. new[t] \in used \ (reg \cup killed \cup handles)
    BY DEF IInv, SpawnIsPrivate, SpawnInsert
  <1>1. TypeOK'
    BY <1>0 DEF IInv, TypeOK, SpawnInsert, Goto
  <1>2. SpawnIsPrivate'
    <2>1. \A u \in Thread : u # t => pc'[u] = pc[u] /\ new'[u] = new[u]
      BY DEF IInv, TypeOK, SpawnInsert, Goto
    <2>2. \A u \in Thread : u # t => new[u] # new[t]
      BY <1>0, TreeAssumption DEF IInv, TypeOK, SpawnIsPrivate
    <2>3. (pc'[t] = "idle" /\ new'[t] = None) \/ (pc'[t] = "count" /\ new'[t] = new[t])
      BY DEF IInv, TypeOK, SpawnInsert, Goto
    <2>4. reg' \subseteq reg \cup {new[t]} /\ UNCHANGED <<used, handles, killed>>
      BY DEF SpawnInsert
    <2> QED  BY <1>0, <2>1, <2>2, <2>3, <2>4 DEF IInv, SpawnIsPrivate
  <1>3. CountBounded'  BY DEF IInv, CountBounded, SpawnInsert
  <1>4. NoChildOfKilled'
    BY TreeAssumption DEF IInv, TypeOK, NoChildOfKilled, SpawnInsert
  <1> QED  BY <1>1, <1>2, <1>3, <1>4 DEF IInv

\* The increment, with the handle.
LEMMA SpawnCountIInv ==
  ASSUME IInv, NEW t \in Thread, SpawnCount(t)
  PROVE  IInv'
  <1>0. new[t] \in used \ handles /\ new[t] \in Actor
    BY DEF IInv, TypeOK, SpawnIsPrivate, SpawnCount
  <1>1. /\ IsFiniteSet(handles) /\ handles \subseteq Actor /\ handles' \subseteq Actor
        /\ Cardinality(handles') = Cardinality(handles) + 1
    <2>1. handles \subseteq Actor /\ handles' \subseteq Actor
      BY <1>0 DEF IInv, TypeOK, SpawnCount
    <2>2. IsFiniteSet(handles)  BY <2>1, ActorSubset
    <2>3. handles' = handles \cup {new[t]}  BY DEF SpawnCount
    <2> QED  BY <1>0, <2>1, <2>2, <2>3, FS_AddElement
  <1>2. /\ Cardinality(handles) \in Nat
        /\ Cardinality(handles') \in 0 .. Cardinality(Actor)
        /\ count' = count + 1 /\ count \in Nat
    BY <1>1, ActorSubset DEF IInv, TypeOK, SpawnCount
  <1>3. CountBounded'  BY <1>1, <1>2 DEF IInv, CountBounded
  <1>4. count' \in 0 .. Cardinality(Actor)  BY <1>1, <1>2, <1>3, ActorSubset DEF CountBounded
  <1>5. TypeOK'
    <2>1. /\ pc' \in [Thread -> {"idle", "insert", "count", "release"}]
          /\ new' \in [Thread -> Actor \cup {None}]
      BY DEF IInv, TypeOK, SpawnCount, Goto
    <2> QED  BY <1>0, <1>4, <2>1 DEF IInv, TypeOK, SpawnCount
  <1>6. SpawnIsPrivate'
    <2>1. \A u \in Thread : u # t => pc'[u] = pc[u] /\ new'[u] = new[u]
      BY DEF IInv, TypeOK, SpawnCount, Goto
    <2>2. \A u \in Thread : u # t => new[u] # new[t]
      BY <1>0, TreeAssumption DEF IInv, TypeOK, SpawnIsPrivate
    <2>3. pc'[t] = "idle" /\ new'[t] = None
      BY DEF IInv, TypeOK, SpawnCount, Goto
    <2>4. handles' = handles \cup {new[t]} /\ UNCHANGED <<used, reg, killed>>
      BY DEF SpawnCount
    <2> QED  BY <2>1, <2>2, <2>3, <2>4 DEF IInv, SpawnIsPrivate
  <1>7. NoChildOfKilled'  BY DEF IInv, NoChildOfKilled, SpawnCount
  <1> QED  BY <1>3, <1>5, <1>6, <1>7 DEF IInv

\* What drop, drop_all and kill share: actors leave the registry.
LEMMA UnregisterIInv ==
  ASSUME IInv, NEW t \in Thread, NEW S \in SUBSET reg, Idle(t), Unregister(t, S),
         killed' = killed \/ killed' = killed \cup S,
         \A b \in reg : parent[b] \in S /\ killed' # killed => b \in S
  PROVE  IInv'
  <1>0. S \subseteq Actor /\ S \subseteq used  BY DEF IInv, TypeOK
  <1>1. Cardinality(S) \in 0 .. Cardinality(Actor)  BY <1>0, ActorSubset
  <1>2. TypeOK'
    <2>1. /\ pc' \in [Thread -> {"idle", "insert", "count", "release"}]
          /\ removed' \in [Thread -> 0 .. Cardinality(Actor)]
      BY <1>1 DEF IInv, TypeOK, Unregister, Goto
    <2>2. killed' \subseteq used' \ reg' /\ reg' \subseteq used' /\ ended' \subseteq handles' \ reg'
      BY <1>0 DEF IInv, TypeOK, Unregister
    <2> QED  BY <2>1, <2>2 DEF IInv, TypeOK, Unregister
  <1>3. SpawnIsPrivate'
    <2>1. \A u \in Thread : u # t => pc'[u] = pc[u]
      BY DEF IInv, TypeOK, Unregister, Goto
    <2>2. pc'[t] = "release" /\ new[t] = None
      BY DEF IInv, TypeOK, SpawnIsPrivate, Unregister, Goto, Idle
    <2>3. reg' \cup killed' \subseteq reg \cup killed /\ UNCHANGED <<used, handles, new>>
      BY DEF Unregister
    <2> QED  BY <2>1, <2>2, <2>3 DEF IInv, SpawnIsPrivate
  <1>4. CountBounded'  BY DEF IInv, CountBounded, Unregister
  <1>5. NoChildOfKilled'  BY DEF IInv, NoChildOfKilled, Unregister
  <1> QED  BY <1>2, <1>3, <1>4, <1>5 DEF IInv

\* Giving slots back never lets the count leave its range.
LEMMA ReleaseSlotsIInv ==
  ASSUME IInv, NEW t \in Thread, ReleaseSlots(t)
  PROVE  IInv'
  <1>1. count' \in 0 .. Cardinality(Actor) /\ count' <= count
    <2>1. /\ Cardinality(Actor) \in Nat
          /\ count \in 0 .. Cardinality(Actor) /\ removed[t] \in 0 .. Cardinality(Actor)
      BY TreeAssumption, FS_CardinalityType DEF IInv, TypeOK
    <2> QED  BY <2>1 DEF ReleaseSlots, SaturatingSub
  <1>2. TypeOK'
    <2>1. /\ pc' \in [Thread -> {"idle", "insert", "count", "release"}]
          /\ removed' \in [Thread -> 0 .. Cardinality(Actor)]
      BY TreeAssumption, FS_CardinalityType DEF IInv, TypeOK, ReleaseSlots, Goto
    <2> QED  BY <1>1, <2>1 DEF IInv, TypeOK, ReleaseSlots
  <1>3. SpawnIsPrivate'
    BY DEF IInv, TypeOK, SpawnIsPrivate, ReleaseSlots, Goto
  <1>4. CountBounded'
    <2>1. Cardinality(handles) \in Nat /\ count \in Nat /\ count' \in Nat /\ handles' = handles
      BY <1>1, ActorSubset, TreeAssumption, FS_CardinalityType DEF IInv, TypeOK, ReleaseSlots
    <2> QED  BY <1>1, <2>1 DEF IInv, CountBounded
  <1>5. NoChildOfKilled'  BY DEF IInv, NoChildOfKilled, ReleaseSlots
  <1> QED  BY <1>2, <1>3, <1>4, <1>5 DEF IInv

\* The configuration of the quota, and the end of a worker.
LEMMA OtherIInv ==
  ASSUME IInv,
         \/ \E t \in Thread, n \in Quota : SetMaxChildren(t, n)
         \/ \E a \in Actor : WorkerEnds(a)
         \/ UNCHANGED vars
  PROVE  IInv'
  <1>0. UNCHANGED <<reg, parent, used, count, pc, new, removed, handles, killed>>
    BY DEF SetMaxChildren, WorkerEnds, vars
  <1>1. TypeOK'
    <2>1. max' \in Quota \cup {0}  BY DEF IInv, TypeOK, SetMaxChildren, WorkerEnds, vars
    <2>2. ended' \subseteq handles \ reg
      BY TreeAssumption DEF IInv, TypeOK, SetMaxChildren, WorkerEnds, Idle, vars
    <2> QED  BY <1>0, <2>1, <2>2 DEF IInv, TypeOK
  <1>2. SpawnIsPrivate'  BY <1>0 DEF IInv, SpawnIsPrivate
  <1>3. CountBounded'  BY <1>0 DEF IInv, CountBounded
  <1>4. NoChildOfKilled'  BY <1>0 DEF IInv, NoChildOfKilled
  <1> QED  BY <1>1, <1>2, <1>3, <1>4 DEF IInv

\* Every step preserves the invariant.
LEMMA NextIInv == IInv /\ [Next]_vars => IInv'
  <1> SUFFICES ASSUME IInv, [Next]_vars PROVE IInv'  OBVIOUS
  <1>1. ASSUME NEW t \in Thread, SpawnInsert(t) \/ SpawnCount(t) \/ ReleaseSlots(t)
        PROVE  IInv'
    BY <1>1, SpawnInsertIInv, SpawnCountIInv, ReleaseSlotsIInv
  <1>2. ASSUME NEW t \in Thread, DropAll(t) PROVE IInv'
    <2>1. Idle(t) /\ Unregister(t, reg) /\ killed' = killed  BY <1>2 DEF DropAll
    <2> QED  BY <2>1, UnregisterIInv
  <1>3. ASSUME NEW t \in Thread, NEW a \in Actor,
               SpawnStart(t, a, TRUE) \/ SpawnStart(t, a, FALSE) \/ SpawnFails(t, a)
        PROVE  IInv'
    BY <1>3, SpawnStartIInv, SpawnFailsIInv
  <1>4. ASSUME NEW t \in Thread, NEW a \in Actor, Drop(t, a) PROVE IInv'
    <2>1. Idle(t) /\ {a} \in SUBSET reg /\ Unregister(t, {a}) /\ killed' = killed
      BY <1>4 DEF Drop
    <2> QED  BY <2>1, UnregisterIInv
  <1>5. ASSUME NEW t \in Thread, NEW a \in Actor, SystemKill(t, a) PROVE IInv'
    <2>1. /\ Idle(t) /\ a \in reg
          /\ Unregister(t, Subtree(a)) /\ killed' = killed \cup Subtree(a)
      BY <1>5 DEF SystemKill
    <2>2. /\ Subtree(a) \in SUBSET reg
          /\ \A b \in reg : parent[b] \in Subtree(a) => b \in Subtree(a)
      BY <2>1, SubtreeClosed
    <2> QED  BY <2>1, <2>2, UnregisterIInv
  <1>6. ASSUME NEW t \in Thread, NEW n \in Quota, SetMaxChildren(t, n) PROVE IInv'
    BY <1>6, OtherIInv
  <1>7. ASSUME NEW a \in Actor, WorkerEnds(a) PROVE IInv'  BY <1>7, OtherIInv
  <1>8. CASE UNCHANGED vars  BY <1>8, OtherIInv
  <1> QED  BY <1>1, <1>2, <1>3, <1>4, <1>5, <1>6, <1>7, <1>8 DEF Next

\* The invariant holds in every reachable state.
THEOREM TreeInvariance == Spec => []IInv
  BY InitIInv, NextIInv, PTL DEF Spec

\* Every variable of the registry has its type, whatever spawns, drops and kills
\* race; in particular a killed actor never comes back to LIVE_ACTORS.
THEOREM TreeTypeCorrect == Spec => []TypeOK
  <1>1. IInv => TypeOK  BY DEF IInv
  <1> QED  BY <1>1, TreeInvariance, PTL

\* No registered actor is the child of a killed one: the parent test under the
\* registry lock makes mimi_actor_spawn and mimi_actor_system_kill atomic
\* relative to each other.
THEOREM NoOrphanOfKill == Spec => []NoChildOfKilled
  <1>1. IInv => NoChildOfKilled  BY DEF IInv
  <1> QED  BY <1>1, TreeInvariance, PTL

----------------------------------------------------------------------------
(* The count and the registry *)

\* The threads between the insertion and the increment of a spawn.
Counting == {t \in Thread : pc[t] = "count"}

\* The slots that threads still have to give back, one pair for each.
Slots(r) == {x \in Thread \X (1 .. Cardinality(Actor)) : x[2] <= r[x[1]]}

\* Every registered actor, and every slot to be given back, is in the count or
\* about to be.  The increments may come after the decrements they belong to,
\* which then saturate: the count errs to the high side only.
Covered ==
  /\ \A t \in Thread : pc[t] # "release" => removed[t] = 0
  /\ count + Cardinality(Counting) >= Cardinality(reg) + Cardinality(Slots(removed))

LEMMA Finite ==
  /\ IsFiniteSet(Thread) /\ Cardinality(Actor) \in Nat
  /\ IsFiniteSet(Counting) /\ Cardinality(Counting) \in Nat
  <1>1. IsFiniteSet(Thread)  BY TreeAssumption, FS_Union DEF Thread
  <1>2. Counting \in SUBSET Thread  BY DEF Counting
  <1> QED  BY <1>1, <1>2, TreeAssumption, FS_Subset, FS_CardinalityType

LEMMA SlotsFinite ==
  ASSUME NEW r
  PROVE  IsFiniteSet(Slots(r)) /\ Cardinality(Slots(r)) \in Nat
  <1>1. IsFiniteSet(1 .. Cardinality(Actor))  BY Finite, FS_Interval
  <1>2. IsFiniteSet(Thread \X (1 .. Cardinality(Actor)))  BY <1>1, Finite, FS_Product
  <1>3. Slots(r) \in SUBSET (Thread \X (1 .. Cardinality(Actor)))  BY DEF Slots
  <1>4. IsFiniteSet(Slots(r))  BY <1>2, <1>3, FS_Subset
  <1> QED  BY <1>4, FS_CardinalityType

\* A thread that owes nothing takes on n slots.
LEMMA SlotsAdded ==
  ASSUME NEW r \in [Thread -> 0 .. Cardinality(Actor)], NEW t \in Thread, r[t] = 0,
         NEW n \in 0 .. Cardinality(Actor)
  PROVE  Cardinality(Slots([r EXCEPT ![t] = n])) = Cardinality(Slots(r)) + n
  <1> DEFINE N == {t} \X (1 .. n)
  <1>0. n \in Int /\ Cardinality(Actor) \in Nat  BY Finite
  <1>1. IsFiniteSet(1 .. n) /\ Cardinality(1 .. n) = IF 1 > n THEN 0 ELSE n - 1 + 1
    BY <1>0, FS_Interval
  <1>2. IsFiniteSet(N) /\ Cardinality(N) = 1 * Cardinality(1 .. n)
    <2>1. IsFiniteSet({t}) /\ Cardinality({t}) = 1  BY FS_Singleton
    <2> HIDE DEF N
    <2>2. IsFiniteSet({t} \X (1 .. n)) /\ Cardinality({t} \X (1 .. n)) = Cardinality({t}) * Cardinality(1 .. n)
      BY <1>1, <2>1, FS_Product
    <2> QED  BY <2>1, <2>2 DEF N
  <1>3. Cardinality(N) = n  BY <1>0, <1>1, <1>2
  <1>4. Slots([r EXCEPT ![t] = n]) = Slots(r) \cup N
    <2>1. ASSUME NEW u \in Thread, NEW i \in 1 .. Cardinality(Actor)
          PROVE  i <= [r EXCEPT ![t] = n][u] <=> i <= r[u] \/ <<u, i>> \in N
      BY <1>0
    <2>2. N \subseteq Thread \X (1 .. Cardinality(Actor))  BY <1>0
    <2> QED  BY <2>1, <2>2 DEF Slots
  <1>5. Slots(r) \cap N = {}  BY DEF Slots
  <1>6. Cardinality(Slots(r) \cup N) = Cardinality(Slots(r)) + Cardinality(N) - Cardinality(Slots(r) \cap N)
    BY <1>2, SlotsFinite, FS_Union
  <1>7. Cardinality(Slots(r) \cap N) = 0  BY <1>5, FS_EmptySet
  <1>8. Cardinality(Slots(r)) \in Nat  BY SlotsFinite
  <1> HIDE DEF N
  <1>9. Cardinality(Slots(r) \cup N) = Cardinality(Slots(r)) + n
    BY <1>0, <1>3, <1>6, <1>7, <1>8
  <1> QED  BY <1>4, <1>9

LEMMA CountingMoves ==
  ASSUME IInv, NEW t \in Thread, NEW l, Goto(t, l)
  PROVE  Cardinality(Counting') =
           IF pc[t] = "count" /\ l # "count" THEN Cardinality(Counting) - 1
           ELSE IF pc[t] # "count" /\ l = "count" THEN Cardinality(Counting) + 1
           ELSE Cardinality(Counting)
  <1>0. DOMAIN pc = Thread /\ pc' = [pc EXCEPT ![t] = l]  BY DEF IInv, TypeOK, Goto
  <1>1. t \in Counting <=> pc[t] = "count"  BY DEF Counting
  <1>2. CASE l = "count"
    <2>1. Counting' = Counting \cup {t}  BY <1>0, <1>2 DEF Counting
    <2> QED  BY <1>1, <1>2, <2>1, Finite, FS_AddElement
  <1>3. CASE l # "count"
    <2>1. Counting' = Counting \ {t}  BY <1>0, <1>3 DEF Counting
    <2> QED  BY <1>1, <1>3, <2>1, Finite, FS_RemoveElement
  <1> QED  BY <1>2, <1>3

\* The numbers that Covered compares.
LEMMA Numbers ==
  ASSUME IInv
  PROVE  /\ count \in Nat /\ IsFiniteSet(reg) /\ Cardinality(reg) \in Nat
         /\ Cardinality(Counting) \in Nat /\ Cardinality(Slots(removed)) \in Nat
         /\ \A t \in Thread : removed[t] \in 0 .. Cardinality(Actor)
  <1>1. reg \in SUBSET Actor  BY DEF IInv, TypeOK
  <1> QED  BY <1>1, ActorSubset, Finite, SlotsFinite DEF IInv, TypeOK

LEMMA InitCovered == Init => Covered
  <1> SUFFICES ASSUME Init PROVE Covered  OBVIOUS
  <1>1. Counting = {} /\ reg = {} /\ count = 0  BY DEF Init, Counting
  <1>2. Slots(removed) = {}  BY DEF Init, Slots
  <1>3. \A t \in Thread : removed[t] = 0  BY DEF Init
  <1> QED  BY <1>1, <1>2, <1>3, FS_EmptySet DEF Covered

LEMMA UnregisterCovered ==
  ASSUME IInv, Covered, NEW t \in Thread, NEW S \in SUBSET reg, Idle(t), Unregister(t, S)
  PROVE  Covered'
  <1>0. /\ pc[t] = "idle" /\ Goto(t, "release") /\ reg' = reg \ S /\ UNCHANGED count
        /\ removed' = [removed EXCEPT ![t] = Cardinality(S)]
    BY DEF Unregister, Idle
  <1>1. /\ IsFiniteSet(S) /\ Cardinality(S) \in 0 .. Cardinality(Actor)
        /\ removed \in [Thread -> 0 .. Cardinality(Actor)] /\ removed[t] = 0
    BY <1>0, ActorSubset DEF IInv, TypeOK, Covered
  <1>2. Cardinality(Slots([removed EXCEPT ![t] = Cardinality(S)])) = Cardinality(Slots(removed)) + Cardinality(S)
    BY <1>1, SlotsAdded
  <1>3. Slots(removed)' = Slots([removed EXCEPT ![t] = Cardinality(S)])  BY <1>0 DEF Slots
  <1>4. Cardinality(reg \ S) = Cardinality(reg) - Cardinality(S)
    <2>1. reg \cap S = S  OBVIOUS
    <2> QED  BY <2>1, Numbers, FS_Difference
  <1>5. Cardinality(Counting') = Cardinality(Counting)  BY <1>0, CountingMoves
  <1>6. (count + Cardinality(Counting) >= Cardinality(reg) + Cardinality(Slots(removed)))'
    <2>1. Cardinality(reg') = Cardinality(reg) - Cardinality(S)  BY <1>0, <1>4
    <2>2. Cardinality(Slots(removed)') = Cardinality(Slots(removed)) + Cardinality(S)  BY <1>2, <1>3
    <2>3. Cardinality(S) \in Nat  BY <1>1, Finite
    <2> QED  BY <1>0, <1>5, <2>1, <2>2, <2>3, Numbers DEF Covered
  <1>7. \A u \in Thread : pc'[u] # "release" => removed'[u] = 0
    BY <1>0 DEF IInv, TypeOK, Goto, Covered
  <1> QED  BY <1>6, <1>7 DEF Covered

LEMMA ReleaseCovered ==
  ASSUME IInv, Covered, NEW t \in Thread, ReleaseSlots(t)
  PROVE  Covered'
  <1> DEFINE n == removed[t]
             r == [removed EXCEPT ![t] = 0]
  <1>0. /\ pc[t] = "release" /\ Goto(t, "idle") /\ removed' = r /\ UNCHANGED reg
        /\ count' = IF count > n THEN count - n ELSE 0
    BY DEF ReleaseSlots, SaturatingSub
  <1>1. /\ removed \in [Thread -> 0 .. Cardinality(Actor)] /\ n \in 0 .. Cardinality(Actor)
        /\ r \in [Thread -> 0 .. Cardinality(Actor)] /\ r[t] = 0 /\ [r EXCEPT ![t] = n] = removed
    <2>1. removed \in [Thread -> 0 .. Cardinality(Actor)] /\ n \in 0 .. Cardinality(Actor)
      BY DEF IInv, TypeOK
    <2>2. 0 \in 0 .. Cardinality(Actor)  BY Finite
    <2> QED  BY <2>1, <2>2
  <1>2. Cardinality(Slots(removed)) = Cardinality(Slots(r)) + n
    <2>1. Cardinality(Slots([r EXCEPT ![t] = n])) = Cardinality(Slots(r)) + n  BY <1>1, SlotsAdded
    <2> QED  BY <1>1, <2>1
  <1>3. Slots(removed)' = Slots(r)  BY <1>0 DEF Slots
  <1>4. Cardinality(Counting') = Cardinality(Counting)  BY <1>0, CountingMoves
  <1> HIDE DEF r, n
  <1>5. (count + Cardinality(Counting) >= Cardinality(reg) + Cardinality(Slots(removed)))'
    <2>1. Cardinality(Slots(r)) \in Nat /\ n \in Nat  BY <1>1, SlotsFinite, Finite
    <2> QED  BY <1>0, <1>2, <1>3, <1>4, <2>1, Numbers DEF Covered
  <1>6. \A u \in Thread : pc'[u] # "release" => removed'[u] = 0
    BY <1>0 DEF IInv, TypeOK, Goto, Covered, r
  <1> QED  BY <1>5, <1>6 DEF Covered

LEMMA SpawnCovered ==
  ASSUME IInv, Covered, NEW t \in Thread, SpawnInsert(t) \/ SpawnCount(t)
  PROVE  Covered'
  <1>0. PICK l \in {"idle", "count"} : Goto(t, l)  BY DEF SpawnInsert, SpawnCount
  <1>1. removed' = removed /\ pc[t] \in {"insert", "count"}  BY DEF SpawnInsert, SpawnCount
  <1>2. (count + Cardinality(Counting) >= Cardinality(reg) + Cardinality(Slots(removed)))'
    <2>1. Slots(removed)' = Slots(removed)  BY <1>1 DEF Slots
    <2>2. CASE SpawnInsert(t) /\ reg' = reg
      <3>1. Cardinality(Counting') >= Cardinality(Counting) /\ UNCHANGED count /\ pc[t] = "insert"
        BY <1>0, <2>2, CountingMoves, Finite DEF SpawnInsert
      <3>2. Cardinality(Counting') \in Nat
        BY <1>0, <3>1, CountingMoves, Finite
      <3> QED  BY <2>1, <2>2, <3>1, <3>2, Numbers DEF Covered
    <2>3. CASE SpawnInsert(t) /\ reg' # reg
      <3>1. reg' = reg \cup {new[t]} /\ Goto(t, "count") /\ UNCHANGED count /\ pc[t] = "insert"
        BY <2>3 DEF SpawnInsert
      <3>2. Cardinality(Counting') = Cardinality(Counting) + 1  BY <3>1, CountingMoves
      <3>3. Cardinality(reg') = Cardinality(reg) + 1  
        <4>1. new[t] \notin reg /\ IsFiniteSet(reg)  BY <2>3, <3>1, Numbers
        <4> QED  BY <3>1, <4>1, FS_AddElement
      <3> QED  BY <2>1, <3>1, <3>2, <3>3, Numbers DEF Covered
    <2>4. CASE SpawnCount(t)
      <3>1. reg' = reg /\ Goto(t, "idle") /\ count' = count + 1 /\ pc[t] = "count"
        BY <2>4 DEF SpawnCount
      <3>2. Cardinality(Counting') = Cardinality(Counting) - 1  BY <3>1, CountingMoves
      <3> QED  BY <2>1, <3>1, <3>2, Numbers DEF Covered
    <2> QED  BY <2>2, <2>3, <2>4
  <1>3. \A u \in Thread : pc'[u] # "release" => removed'[u] = 0
    BY <1>0, <1>1 DEF IInv, TypeOK, Goto, Covered
  <1> QED  BY <1>2, <1>3 DEF Covered

\* The steps that change neither the count nor the registry.
LEMMA OtherCovered ==
  ASSUME IInv, Covered, UNCHANGED <<reg, count, removed>>,
         pc' = pc \/ \E t \in Thread : Idle(t) /\ Goto(t, "insert")
  PROVE  Covered'
  <1>1. Slots(removed)' = Slots(removed)  BY DEF Slots
  <1>2. Cardinality(Counting') = Cardinality(Counting)
    <2>1. CASE pc' = pc  BY <2>1 DEF Counting
    <2>2. ASSUME NEW t \in Thread, Idle(t), Goto(t, "insert")
          PROVE  Cardinality(Counting') = Cardinality(Counting)
      BY <2>2, CountingMoves DEF Idle
    <2> QED  BY <2>1, <2>2
  <1>3. \A u \in Thread : pc'[u] # "release" => removed'[u] = 0
    BY DEF IInv, TypeOK, Goto, Covered, Idle
  <1>4. (count + Cardinality(Counting) >= Cardinality(reg) + Cardinality(Slots(removed)))'
    BY <1>1, <1>2 DEF Covered
  <1> QED  BY <1>3, <1>4 DEF Covered

LEMMA NextCovered == IInv /\ Covered /\ [Next]_vars => Covered'
  <1> SUFFICES ASSUME IInv, Covered, [Next]_vars PROVE Covered'  OBVIOUS
  <1>1. ASSUME NEW t \in Thread, SpawnInsert(t) \/ SpawnCount(t) PROVE Covered'
    BY <1>1, SpawnCovered
  <1>2. ASSUME NEW t \in Thread, ReleaseSlots(t) PROVE Covered'  BY <1>2, ReleaseCovered
  <1>3. ASSUME NEW t \in Thread, DropAll(t) PROVE Covered'
    BY <1>3, UnregisterCovered DEF DropAll
  <1>4. ASSUME NEW t \in Thread, NEW a \in Actor, Drop(t, a) PROVE Covered'
    <2>1. Idle(t) /\ {a} \in SUBSET reg /\ Unregister(t, {a})  BY <1>4 DEF Drop
    <2> QED  BY <2>1, UnregisterCovered
  <1>5. ASSUME NEW t \in Thread, NEW a \in Actor, SystemKill(t, a) PROVE Covered'
    <2>1. Idle(t) /\ a \in reg /\ Unregister(t, Subtree(a))  BY <1>5 DEF SystemKill
    <2>2. Subtree(a) \in SUBSET reg  BY <2>1, SubtreeClosed
    <2> QED  BY <2>1, <2>2, UnregisterCovered
  <1>6. ASSUME NEW t \in Thread, NEW a \in Actor,
               SpawnStart(t, a, TRUE) \/ SpawnStart(t, a, FALSE) \/ SpawnFails(t, a)
        PROVE  Covered'
    BY <1>6, OtherCovered DEF SpawnStart, SpawnFails
  <1>7. ASSUME NEW t \in Thread, NEW n \in Quota, SetMaxChildren(t, n) PROVE Covered'
    BY <1>7, OtherCovered DEF SetMaxChildren
  <1>8. ASSUME NEW a \in Actor, WorkerEnds(a) PROVE Covered'
    BY <1>8, OtherCovered DEF WorkerEnds
  <1>9. CASE UNCHANGED vars  BY <1>9, OtherCovered DEF vars
  <1> QED  BY <1>1, <1>2, <1>3, <1>4, <1>5, <1>6, <1>7, <1>8, <1>9 DEF Next

\* When no call is under way the count is at least the number of registered
\* actors, for any number of racing spawns, drops and kills: the saturating
\* decrement errs to the side of the quota.
THEOREM QuotaSafety == Spec => []CountCoversRegistry
  <1>1. Spec => []Covered
    BY InitCovered, NextCovered, TreeInvariance, PTL DEF Spec
  <1>2. IInv /\ Covered => CountCoversRegistry
    <2> SUFFICES ASSUME IInv, Covered, Quiet PROVE count >= Cardinality(reg)
      BY DEF CountCoversRegistry
    <2>1. Counting = {}  BY DEF Quiet, Counting
    <2> QED  BY <2>1, FS_EmptySet, Numbers DEF Covered
  <1> QED  BY <1>1, <1>2, TreeInvariance, PTL

----------------------------------------------------------------------------
(* III. The cascade *)

\* The step that makes an orphan is the drop of its owner.
LEMMA OrphansNext ==
  ASSUME IInv, Next
  PROVE  \A b \in Orphans' \ Orphans : \E t \in Thread : Drop(t, parent[b])
  <1> SUFFICES ASSUME NEW b \in Orphans' \ Orphans
               PROVE  \E t \in Thread : Drop(t, parent[b])
    OBVIOUS
  <1>0. b \in reg' /\ parent'[b] # None /\ parent'[b] \notin reg'  BY DEF Orphans
  \* A step that takes nobody off the registry makes no orphan.
  <1>1. ASSUME reg' = reg, \A a \in reg : parent'[a] = parent[a] PROVE FALSE
    BY <1>0, <1>1 DEF Orphans
  <1>2. ASSUME NEW t \in Thread, SpawnInsert(t) PROVE FALSE
    <2>1. UNCHANGED parent  BY <1>2 DEF SpawnInsert
    <2>2. CASE reg' = reg  BY <1>1, <2>1, <2>2
    <2>3. CASE reg' # reg
      <3>1. reg' = reg \cup {new[t]} /\ (parent[new[t]] = None \/ parent[new[t]] \in reg)
        BY <1>2, <2>3 DEF SpawnInsert
      <3> QED  BY <1>0, <2>1, <3>1 DEF Orphans
    <2> QED  BY <2>2, <2>3
  <1>3. ASSUME NEW t \in Thread, SpawnCount(t) \/ ReleaseSlots(t) PROVE FALSE
    BY <1>1, <1>3 DEF SpawnCount, ReleaseSlots
  <1>4. ASSUME NEW t \in Thread, DropAll(t) PROVE FALSE
    BY <1>0, <1>4 DEF DropAll, Unregister
  <1>5. ASSUME NEW t \in Thread, NEW n \in Quota, SetMaxChildren(t, n) PROVE FALSE
    BY <1>1, <1>5 DEF SetMaxChildren
  <1>6. ASSUME NEW t \in Thread, NEW a \in Actor,
               SpawnStart(t, a, TRUE) \/ SpawnStart(t, a, FALSE) \/ SpawnFails(t, a)
        PROVE  FALSE
    <2>1. reg' = reg /\ a \notin reg  BY <1>6 DEF SpawnStart, SpawnFails, IInv, TypeOK
    <2>2. \A c \in reg : parent'[c] = parent[c]
      BY <1>6, <2>1 DEF SpawnStart, SpawnFails, IInv, TypeOK
    <2> QED  BY <1>1, <2>1, <2>2
  <1>7. ASSUME NEW t \in Thread, NEW a \in Actor, SystemKill(t, a) PROVE FALSE
    <2>1. reg' = reg \ Subtree(a) /\ UNCHANGED parent  BY <1>7 DEF SystemKill, Unregister
    <2>2. b \in reg /\ b \notin Subtree(a) /\ parent[b] # None /\ parent[b] \in Subtree(a)
      BY <1>0, <2>1 DEF Orphans
    <2>3. \A c \in reg : parent[c] \in Subtree(a) => c \in Subtree(a)
      BY <1>7, SubtreeClosed DEF SystemKill
    <2> QED  BY <2>2, <2>3
  <1>8. ASSUME NEW t \in Thread, NEW a \in Actor, Drop(t, a) PROVE Drop(t, parent[b])
    <2>1. reg' = reg \ {a} /\ UNCHANGED parent  BY <1>8 DEF Drop, Unregister
    <2>2. parent[b] = a  BY <1>0, <2>1 DEF Orphans
    <2> QED  BY <1>8, <2>2
  <1>9. ASSUME NEW a \in Actor, WorkerEnds(a) PROVE FALSE
    BY <1>1, <1>9 DEF WorkerEnds
  <1> QED  BY <1>2, <1>3, <1>4, <1>5, <1>6, <1>7, <1>8, <1>9 DEF Next

\* For any number of actors and threads, only a drop leaves a registered actor
\* without its owner: no kill does, whatever spawns race it.
THEOREM CascadeComplete == Spec => OnlyDropOrphans
  <1>1. IInv /\ [Next]_vars =>
          [\A a \in Orphans' \ Orphans : \E t \in Thread : Drop(t, parent[a])]_vars
    BY OrphansNext
  <1> QED  BY <1>1, TreeInvariance, PTL DEF Spec, OnlyDropOrphans

\* While no owner was dropped, the ancestors of a registered actor are all
\* registered, so that none of them was killed.
THEOREM KillSafety == Spec => []KillReachesOwned
  <1>1. IInv => KillReachesOwned
    <2> SUFFICES ASSUME IInv, Orphans = {}, NEW a \in reg, parent[a] # None,
                        NEW b \in Ancestors(a) \cap killed
                 PROVE  FALSE
      BY DEF KillReachesOwned, KillReachesDescendants
    <2>1. reg \in SUBSET used  BY DEF IInv, TypeOK
    <2>2. \A c \in reg : parent[c] \in reg \cup {None}  BY DEF Orphans
    <2>3. parent[a] \in reg  BY DEF Orphans
    <2>4. b \in reg  BY <2>1, <2>2, <2>3 DEF Ancestors
    <2> QED  BY <2>4 DEF IInv, TypeOK
  <1> QED  BY <1>1, TreeInvariance, PTL
=============================================================================
