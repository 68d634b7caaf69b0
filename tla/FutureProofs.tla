---------------------------- MODULE FutureProofs ----------------------------
(***************************************************************************)
(* The lifetime of futures, for any number of futures, callers and pool    *)
(* workers: exact reference counts, no use after free, one deallocation,   *)
(* no leak, no missed completion; and that all of it together implements   *)
(* the abstract life of FutureLife.                                        *)
(***************************************************************************)
EXTENDS Future, FiniteSetTheorems, TLAPS

USE FutureAssumption

\* The steps of a call between its retain and its releases.
Body == {"set", "read", "check", "locked", "asleep", "mark", "push", "poll"}

\* What a thread owes at each step of a call.
Calls ==
  \A t \in Thread :
    /\ pc[t] = "idle" => \A f \in Fut : owed[t][f] = 0
    /\ pc[t] \in Body => \A f \in Fut : f # cur[t] => owed[t][f] = 0
    /\ pc[t] \in {"push", "poll"} => owed[t][cur[t]] = 1

\* Thread t dropped the last reference to f and has yet to deallocate it.
Ending(t, f) == cur[t] = f /\ pc[t] \in {"unregister", "dealloc"}

Born(f) == owner[f] # {}

\* A future is unborn, referenced and registered, being ended by one thread, or
\* deallocated.
LifeOf(f) ==
  /\ Born(f) => \E t \in Caller : owner[f] = {t}
  /\ f \in freeCalled => Born(f)
  /\ ~Born(f) => refs[f] = 0 /\ f \notin registered /\ deallocs[f] = 0
  /\ refs[f] > 0 => f \in registered /\ deallocs[f] = 0
  /\ deallocs[f] = 1 => f \notin registered
  /\ \A t \in Thread : Ending(t, f) =>
       /\ Born(f) /\ refs[f] = 0 /\ deallocs[f] = 0
       /\ f \in registered <=> pc[t] = "unregister"
  /\ \A t, u \in Thread : Ending(t, f) /\ Ending(u, f) => t = u
  /\ Born(f) /\ refs[f] = 0 /\ deallocs[f] = 0 => \E t \in Thread : Ending(t, f)

Life == \A f \in Fut : LifeOf(f)

IInv == TypeOK /\ Calls /\ Life /\ RefsExact

----------------------------------------------------------------------------
(* Counting references *)

Tallies == [Thread -> 0 .. 2]
Rank == 1 .. 2
Tokens(c) == {r \in Thread \X Rank : r[2] <= c[r[1]]}

One(f, S) == IF f \in S THEN 1 ELSE 0

\* RefsExact without cardinalities but that of the calls' references.
Exact(f) ==
  refs[f] = Cardinality(CallRefs(f)) + One(f, jobs) + One(f, queue)
          + (IF Born(f) THEN 1 ELSE 0) - One(f, freeCalled)

LEMMA ThreadFinite == IsFiniteSet(Thread)
  BY FS_Union DEF Thread

LEMMA TokensFinite ==
  ASSUME NEW c
  PROVE  IsFiniteSet(Tokens(c)) /\ Cardinality(Tokens(c)) \in Nat
<1>1. IsFiniteSet(Rank)
  <2>1. Rank = {1} \cup {2}
    BY DEF Rank
  <2>2. IsFiniteSet({1} \cup {2})
    BY FS_Singleton, FS_AddElement
  <2>3. QED
    BY <2>1, <2>2
<1>2. IsFiniteSet(Thread \X Rank)
  BY <1>1, ThreadFinite, FS_Product
<1>3. Tokens(c) \in SUBSET (Thread \X Rank)
  BY DEF Tokens
<1>4. IsFiniteSet(Tokens(c))
  BY <1>2, <1>3, FS_Subset
<1>5. QED
  BY <1>4, FS_CardinalityType

\* A thread that owes nothing takes on n references.
LEMMA TokensAdded ==
  ASSUME NEW c \in Tallies, NEW t \in Thread, c[t] = 0, NEW n \in 0 .. 2
  PROVE  Cardinality(Tokens([c EXCEPT ![t] = n])) = Cardinality(Tokens(c)) + n
<1> DEFINE N == {t} \X (1 .. n)
           d == [c EXCEPT ![t] = n]
<1>1. IsFiniteSet(1 .. n) /\ Cardinality(1 .. n) = IF 1 > n THEN 0 ELSE n - 1 + 1
  BY FS_Interval
<1>2. IsFiniteSet(N) /\ Cardinality(N) = n
  <2>1. IsFiniteSet({t}) /\ Cardinality({t}) = 1
    BY FS_Singleton
  <2> HIDE DEF N
  <2>2. /\ IsFiniteSet({t} \X (1 .. n))
        /\ Cardinality({t} \X (1 .. n)) = Cardinality({t}) * Cardinality(1 .. n)
    BY <1>1, <2>1, FS_Product
  <2>3. QED
    BY <1>1, <2>1, <2>2 DEF N
<1>3. Tokens(d) = Tokens(c) \cup N
  <2>1. ASSUME NEW u \in Thread, NEW i \in Rank
        PROVE  i <= d[u] <=> i <= c[u] \/ <<u, i>> \in N
    BY DEF Tallies, Rank
  <2>2. N \subseteq Thread \X Rank
    BY DEF Rank
  <2>3. QED
    BY <2>1, <2>2 DEF Tokens
<1>4. Tokens(c) \cap N = {}
  BY DEF Tokens
<1> HIDE DEF N
<1>5. Cardinality(Tokens(c) \cup N) =
        Cardinality(Tokens(c)) + Cardinality(N) - Cardinality(Tokens(c) \cap N)
  BY <1>2, TokensFinite, FS_Union
<1>6. Cardinality(Tokens(c) \cap N) = 0
  BY <1>4, FS_EmptySet
<1>7. Cardinality(Tokens(c)) \in Nat
  BY TokensFinite
<1>8. Cardinality(Tokens(c) \cup N) = Cardinality(Tokens(c)) + n
  BY <1>2, <1>5, <1>6, <1>7
<1>9. QED
  BY <1>3, <1>8

LEMMA TokensMove ==
  ASSUME NEW c \in Tallies, NEW t \in Thread, NEW n \in 0 .. 2
  PROVE  Cardinality(Tokens([c EXCEPT ![t] = n])) = Cardinality(Tokens(c)) + n - c[t]
<1> DEFINE b == [c EXCEPT ![t] = 0]
           m == c[t]
<1>1. b \in Tallies /\ b[t] = 0 /\ m \in 0 .. 2
  BY DEF Tallies
<1>2. [b EXCEPT ![t] = n] = [c EXCEPT ![t] = n] /\ [b EXCEPT ![t] = m] = c
  BY DEF Tallies
<1>3. Cardinality(Tokens([b EXCEPT ![t] = n])) = Cardinality(Tokens(b)) + n
  BY <1>1, TokensAdded
<1>4. Cardinality(Tokens([b EXCEPT ![t] = m])) = Cardinality(Tokens(b)) + m
  BY <1>1, TokensAdded
<1>5. Cardinality(Tokens(b)) \in Nat
  BY TokensFinite
<1> HIDE DEF b, m
<1>6. Cardinality(Tokens(c)) = Cardinality(Tokens(b)) + m
  BY <1>2, <1>4
<1>7. Cardinality(Tokens([c EXCEPT ![t] = n])) = Cardinality(Tokens(b)) + n
  BY <1>2, <1>3
<1>8. Cardinality(Tokens([c EXCEPT ![t] = n])) = Cardinality(Tokens(c)) + n - m
  BY <1>1, <1>5, <1>6, <1>7
<1>9. QED
  BY <1>8 DEF m

LEMMA TokensSome ==
  ASSUME NEW c \in Tallies, NEW t \in Thread, c[t] > 0
  PROVE  Cardinality(Tokens(c)) > 0
<1>1. <<t, 1>> \in Tokens(c)
  BY DEF Tokens, Tallies, Rank
<1>2. Cardinality(Tokens(c)) # 0
  BY <1>1, TokensFinite, FS_EmptySet
<1>3. QED
  BY <1>2, TokensFinite

LEMMA TokensNone ==
  ASSUME NEW c \in Tallies, \A t \in Thread : c[t] = 0
  PROVE  Cardinality(Tokens(c)) = 0
<1>1. Tokens(c) = {}
  BY DEF Tokens, Tallies, Rank
<1>2. QED
  BY <1>1, FS_EmptySet

Owes(f) == [t \in Thread |-> owed[t][f]]

LEMMA CallRefsAre ==
  ASSUME TypeOK, NEW f \in Fut
  PROVE  /\ CallRefs(f) = Tokens(Owes(f)) /\ Owes(f) \in Tallies
         /\ \A t \in Thread : Owes(f)[t] = owed[t][f]
         /\ Cardinality(CallRefs(f)) \in Nat
<1>1. CallRefs(f) = Tokens(Owes(f))
  BY DEF CallRefs, Tokens, Owes, Rank
<1>2. QED
  BY <1>1, TokensFinite DEF TypeOK, Owes, Tallies

LEMMA SingleOrNot ==
  ASSUME NEW f, NEW S
  PROVE  Cardinality({f} \cap S) = One(f, S)
<1>1. {f} \cap S = IF f \in S THEN {f} ELSE {}
  OBVIOUS
<1>2. QED
  BY <1>1, FS_EmptySet, FS_Singleton DEF One

LEMMA ExactIs ==
  ASSUME Life
  PROVE  RefsExact <=> \A f \in Fut : Exact(f)
<1>1. ASSUME NEW f \in Fut
      PROVE  Cardinality(owner[f]) = IF Born(f) THEN 1 ELSE 0
  <2>1. CASE Born(f)
    <3>1. PICK t : owner[f] = {t}
      BY <2>1 DEF Life, LifeOf
    <3>2. QED
      BY <2>1, <3>1, FS_Singleton
  <2>2. CASE ~Born(f)
    BY <2>2, FS_EmptySet DEF Born
  <2>3. QED
    BY <2>1, <2>2
<1>2. QED
  BY <1>1, SingleOrNot DEF RefsExact, Exact

\* Whoever holds a reference keeps the count positive.
LEMMA Held ==
  ASSUME IInv, NEW f \in Fut,
         f \in jobs \cup queue \/ (\E t \in Thread : owed[t][f] > 0) \/ (Born(f) /\ f \notin freeCalled)
  PROVE  refs[f] > 0 /\ f \in registered /\ deallocs[f] = 0
<1>1. Exact(f) /\ (f \in freeCalled => Born(f))
  BY ExactIs DEF IInv, Life, LifeOf
<1>2. Cardinality(CallRefs(f)) \in Nat
  BY CallRefsAre DEF IInv
<1>3. (\E t \in Thread : owed[t][f] > 0) => Cardinality(CallRefs(f)) > 0
  BY CallRefsAre, TokensSome DEF IInv
<1>4. refs[f] > 0
  BY <1>1, <1>2, <1>3 DEF Exact, One
<1>5. QED
  BY <1>4 DEF IInv, Life, LifeOf

LEMMA InvImplies == IInv => TouchedIsAllocated /\ FreedFutureGoes
<1> SUFFICES ASSUME IInv PROVE TouchedIsAllocated /\ FreedFutureGoes
  OBVIOUS
<1>1. TouchedIsAllocated
  <2> SUFFICES ASSUME NEW f \in Fut,
                      \/ f \in registered \cup jobs \cup queue
                      \/ \E t \in Thread : owed[t][f] > 0 \/ Ending(t, f)
               PROVE  deallocs[f] = 0
    BY DEF TouchedIsAllocated, Ending
  <2>1. CASE f \in registered
    BY <2>1 DEF IInv, TypeOK, Life, LifeOf
  <2>2. CASE f \in jobs \cup queue \/ \E t \in Thread : owed[t][f] > 0
    BY <2>2, Held
  <2>3. CASE \E t \in Thread : Ending(t, f)
    BY <2>3 DEF IInv, Life, LifeOf
  <2>4. QED
    BY <2>1, <2>2, <2>3
<1>2. FreedFutureGoes
  <2> SUFFICES ASSUME NEW f \in freeCalled, f \notin jobs \cup queue,
                      \A t \in Thread : pc[t] = "idle"
               PROVE  deallocs[f] = 1
    BY DEF FreedFutureGoes
  <2>1. f \in Fut /\ deallocs[f] \in 0 .. 1 /\ Born(f)
    BY DEF IInv, TypeOK, Life, LifeOf
  <2>2. Cardinality(CallRefs(f)) = 0
    BY <2>1, CallRefsAre, TokensNone DEF IInv, Calls
  <2>3. refs[f] = 0
    BY <2>1, <2>2, ExactIs DEF IInv, Exact, One
  <2>4. \A t \in Thread : ~Ending(t, f)
    BY DEF Ending
  <2>5. QED
    BY <2>1, <2>3, <2>4 DEF IInv, Life, LifeOf
<1>3. QED
  BY <1>1, <1>2

LEMMA InvInit == Init => IInv
<1> SUFFICES ASSUME Init PROVE IInv
  OBVIOUS
<1>1. (CHOOSE f \in Fut : TRUE) \in Fut
  OBVIOUS
<1>2. TypeOK
  BY <1>1 DEF Init, TypeOK
<1>3. Calls
  BY DEF Init, Calls, Body
<1>4. Life
  BY DEF Init, Life, LifeOf, Born, Ending
<1>5. RefsExact
  <2>1. ASSUME NEW f \in Fut PROVE Exact(f)
    <3>1. Cardinality(CallRefs(f)) = 0
      BY <1>2, CallRefsAre, TokensNone DEF Init
    <3>2. QED
      BY <3>1 DEF Init, Exact, One, Born
  <2>2. QED
    BY <1>4, <2>1, ExactIs
<1>6. QED
  BY <1>2, <1>3, <1>4, <1>5 DEF IInv

----------------------------------------------------------------------------
(* Steps *)

\* What the count has beside the calls' references.
Rest(f) ==
  refs[f] - One(f, jobs) - One(f, queue) - (IF Born(f) THEN 1 ELSE 0) + One(f, freeCalled)

LEMMA RestIs ==
  ASSUME TypeOK, NEW f \in Fut
  PROVE  Rest(f) \in Int /\ (Exact(f) <=> Rest(f) = Cardinality(CallRefs(f)))
<1>1. Cardinality(CallRefs(f)) \in Nat
  BY CallRefsAre
<1>2. refs[f] \in Nat
  BY DEF TypeOK
<1>3. QED
  BY <1>1, <1>2 DEF Rest, Exact, One

\* A step of thread t moves the count with what the thread owes.
LEMMA RefsMove ==
  ASSUME IInv, TypeOK', Life', NEW t \in Thread,
         \A u \in Thread : u # t => owed'[u] = owed[u],
         \A f \in Fut : Rest(f)' = Rest(f) + owed'[t][f] - owed[t][f]
  PROVE  RefsExact'
<1>1. ASSUME NEW f \in Fut PROVE Exact(f)'
  <2>1. Owes(f) \in Tallies /\ owed'[t][f] \in 0 .. 2 /\ Owes(f)[t] = owed[t][f]
    BY CallRefsAre DEF IInv, TypeOK
  <2>2. Owes(f)' = [Owes(f) EXCEPT ![t] = owed'[t][f]]
    BY DEF Owes
  <2>3. Cardinality(Tokens([Owes(f) EXCEPT ![t] = owed'[t][f]])) =
          Cardinality(Tokens(Owes(f))) + owed'[t][f] - owed[t][f]
    <3> DEFINE c == Owes(f)
               n == owed'[t][f]
    <3>1. c \in Tallies /\ n \in 0 .. 2 /\ c[t] = owed[t][f]
      BY <2>1
    <3> HIDE DEF c, n
    <3>2. Cardinality(Tokens([c EXCEPT ![t] = n])) = Cardinality(Tokens(c)) + n - c[t]
      BY <3>1, TokensMove
    <3>3. QED
      BY <3>1, <3>2 DEF c, n
  <2>4. CallRefs(f)' = Tokens([Owes(f) EXCEPT ![t] = owed'[t][f]])
    <3>1. CallRefs(f)' = Tokens(Owes(f)')
      BY DEF CallRefs, Tokens, Owes, Rank
    <3>2. QED
      BY <2>2, <3>1
  <2>5. Rest(f) = Cardinality(Tokens(Owes(f)))
    BY CallRefsAre, RestIs, ExactIs DEF IInv
  <2>6. Rest(f)' = Cardinality(CallRefs(f)')
    BY <2>3, <2>4, <2>5
  <2>7. Exact(f)' <=> Rest(f)' = Cardinality(CallRefs(f)')
    <3>1. Cardinality(CallRefs(f)') \in Nat
      BY <2>4, TokensFinite
    <3>2. refs'[f] \in Nat
      BY DEF TypeOK
    <3>3. QED
      BY <3>1, <3>2 DEF Rest, Exact, One
  <2>8. QED
    BY <2>6, <2>7
<1>2. ASSUME NEW f \in Fut
      PROVE  Cardinality(owner'[f]) = IF Born(f)' THEN 1 ELSE 0
  <2>1. CASE Born(f)'
    <3>1. PICK u : owner'[f] = {u}
      BY <2>1 DEF Life, LifeOf
    <3>2. QED
      BY <2>1, <3>1, FS_Singleton
  <2>2. CASE ~Born(f)'
    BY <2>2, FS_EmptySet DEF Born
  <2>3. QED
    BY <2>1, <2>2
<1>3. QED
  BY <1>1, <1>2, SingleOrNot DEF RefsExact, Exact

\* A step that ends no future: counts stay, or stay positive.
LEMMA LifeKeeps ==
  ASSUME IInv, UNCHANGED <<owner, registered, deallocs>>,
         \A f \in Fut : refs'[f] = refs[f] \/ (refs[f] > 0 /\ refs'[f] > 0),
         \A f \in freeCalled' : f \in freeCalled \/ Born(f),
         \A u \in Thread : pc[u] \in {"unregister", "dealloc"} \/ pc'[u] \in {"unregister", "dealloc"}
                             => pc'[u] = pc[u] /\ cur'[u] = cur[u]
  PROVE  Life'
<1> SUFFICES ASSUME NEW f \in Fut PROVE LifeOf(f)'
  BY DEF Life
<1>1. \A u \in Thread : Ending(u, f)' <=> Ending(u, f)
  BY DEF Ending
<1>2. Born(f)' <=> Born(f)
  BY DEF Born
<1>3. refs[f] \in Nat /\ LifeOf(f)
  BY DEF IInv, TypeOK, Life
<1>4. \A u \in Thread : Ending(u, f) => pc'[u] = pc[u]
  BY DEF Ending
<1>5. (Born(f) => \E t \in Caller : owner[f] = {t})' /\ (f \in freeCalled => Born(f))'
  BY <1>2, <1>3 DEF LifeOf
<1>6. (~Born(f) => refs[f] = 0 /\ f \notin registered /\ deallocs[f] = 0)'
  BY <1>2, <1>3 DEF LifeOf
<1>7. /\ (refs[f] > 0 => f \in registered /\ deallocs[f] = 0)'
      /\ (deallocs[f] = 1 => f \notin registered)'
  BY <1>3 DEF LifeOf
<1>8. \A t \in Thread : Ending(t, f)' =>
        /\ Born(f)' /\ refs'[f] = 0 /\ deallocs'[f] = 0
        /\ f \in registered' <=> pc'[t] = "unregister"
  BY <1>1, <1>2, <1>3, <1>4 DEF LifeOf
<1>9. \A t, u \in Thread : Ending(t, f)' /\ Ending(u, f)' => t = u
  BY <1>1, <1>3 DEF LifeOf
<1>10. Born(f)' /\ refs'[f] = 0 /\ deallocs'[f] = 0 => \E t \in Thread : Ending(t, f)'
  BY <1>1, <1>2, <1>3 DEF LifeOf
<1>11. QED
  BY <1>5, <1>6, <1>7, <1>8, <1>9, <1>10 DEF LifeOf

LEMMA InvStutter == IInv /\ UNCHANGED vars => IInv'
<1> SUFFICES ASSUME IInv, UNCHANGED vars PROVE IInv'
  OBVIOUS
<1>1. TypeOK' /\ Calls'
  BY DEF vars, header, IInv, TypeOK, Calls
<1>2. Life'
  BY LifeKeeps DEF vars, header
<1>3. RefsExact'
  BY DEF vars, header, IInv, RefsExact, CallRefs
<1>4. QED
  BY <1>1, <1>2, <1>3 DEF IInv

\* The steps of a call on its header that neither retain nor release.
Work(t) ==
  \/ Set(t) \/ Read(t) \/ Check(t) \/ Mark(t) \/ PollPends(t)
  \/ PollCompletes(t) /\ UNCHANGED refs

LEMMA InvWork ==
  ASSUME IInv, NEW t \in Thread, Work(t), UNCHANGED <<refs, cur, owed>>
  PROVE  IInv'
<1>1. /\ UNCHANGED <<owner, registered, deallocs, freeCalled, jobs, spawned, queue, submitted>>
      /\ completed' \in [Fut -> {-1, 0, 1}]
  BY DEF Work, Set, Read, Check, Mark, PollPends, PollCompletes, header, IInv, TypeOK
<1>2. /\ DOMAIN pc' = Thread
      /\ pc[t] \in Body
      /\ pc'[t] \in {"release", "locked", "asleep"}
      /\ \A u \in Thread : u # t => pc'[u] = pc[u] \/ (pc[u] = "asleep" /\ pc'[u] = "locked")
  <2>1. CASE Set(t)
    BY <2>1 DEF Set, IInv, TypeOK, Body
  <2>2. CASE Read(t) \/ Check(t) \/ Mark(t) \/ PollPends(t)
    BY <2>2 DEF Read, Check, Mark, PollPends, IInv, TypeOK, Body, Goto
  <2>3. CASE PollCompletes(t) /\ UNCHANGED refs
    <3>1. ~Retainable(cur[t])
      BY <2>3 DEF PollCompletes, Enter, Retainable, IInv, TypeOK
    <3>2. QED
      BY <2>3, <3>1 DEF PollCompletes, IInv, TypeOK, Body, Goto
  <2>4. QED
    BY <2>1, <2>2, <2>3 DEF Work
<1>3. TypeOK'
  <2>1. pc' \in [Thread -> {"idle", "release", "unregister", "dealloc", "set", "read",
                            "check", "locked", "asleep", "mark", "push", "poll"}]
    <3>1. pc' = [u \in Thread |-> pc'[u]]
      BY DEF Work, Set, Read, Check, Mark, PollPends, PollCompletes, Enter, Goto, IInv, TypeOK
    <3>2. QED
      BY <1>2, <3>1 DEF IInv, TypeOK
  <2>2. QED
    BY <1>1, <2>1 DEF IInv, TypeOK
<1>4. Calls'
  BY <1>2 DEF IInv, Calls, Body
<1>5. Life'
  <2>1. \A u \in Thread : pc[u] \in {"unregister", "dealloc"} \/ pc'[u] \in {"unregister", "dealloc"}
                             => pc'[u] = pc[u]
    BY <1>2 DEF Body
  <2>2. QED
    BY <1>1, <2>1, LifeKeeps
<1>6. RefsExact'
  BY <1>1 DEF IInv, RefsExact, CallRefs
<1>7. QED
  BY <1>3, <1>4, <1>5, <1>6 DEF IInv

\* A retain for a call: by a caller that is idle, or by a poll function.
LEMMA InvEnter ==
  ASSUME IInv, NEW t \in Thread, NEW f \in Fut, NEW l \in Body, NEW n \in 1 .. 2,
         Enter(t, f, l, n),
         pc[t] = "idle" \/ (pc[t] = "poll" /\ cur[t] = f),
         l = "push" => n = 1, l # "poll",
         freeCalled' = IF n = 2 /\ pc[t] = "idle" THEN freeCalled \cup {f} ELSE freeCalled,
         n = 2 /\ pc[t] = "idle" => f \notin freeCalled /\ Born(f),
         pc[t] = "poll" => n = 2,
         UNCHANGED <<owner, completed, registered, deallocs, jobs, spawned, queue, submitted>>
  PROVE  IInv'
<1>1. /\ refs[f] > 0 /\ refs' = [refs EXCEPT ![f] = @ + 1] /\ refs \in [Fut -> Nat]
      /\ pc' = [pc EXCEPT ![t] = l] /\ cur' = [cur EXCEPT ![t] = f]
      /\ owed' = [owed EXCEPT ![t][f] = n]
  BY DEF Enter, Retainable, IInv, TypeOK
<1>2. TypeOK'
  <2>1. /\ refs' \in [Fut -> Nat] /\ cur' \in [Thread -> Fut]
        /\ owed' \in [Thread -> [Fut -> 0 .. 2]] /\ freeCalled' \subseteq Fut
    BY <1>1 DEF IInv, TypeOK
  <2>2. QED
    BY <1>1, <2>1 DEF IInv, TypeOK, Body
<1>3. /\ \A u \in Thread : u # t => owed'[u] = owed[u] /\ pc'[u] = pc[u] /\ cur'[u] = cur[u]
      /\ pc'[t] = l /\ cur'[t] = f
      /\ \A g \in Fut : owed'[t][g] = IF g = f THEN n ELSE owed[t][g]
      /\ owed[t][f] = IF pc[t] = "idle" THEN 0 ELSE 1
      /\ \A g \in Fut : g # f => owed[t][g] = 0
  BY <1>1 DEF IInv, TypeOK, Calls, Body
<1>4. Calls'
  BY <1>3 DEF IInv, Calls, Body
<1>5. Life'
  <2>1. \A g \in Fut : refs'[g] = refs[g] \/ (refs[g] > 0 /\ refs'[g] > 0)
    BY <1>1
  <2>2. \A u \in Thread : pc[u] \in {"unregister", "dealloc"} \/ pc'[u] \in {"unregister", "dealloc"}
                             => pc'[u] = pc[u] /\ cur'[u] = cur[u]
    BY <1>3 DEF Body
  <2>3. QED
    BY <2>1, <2>2, LifeKeeps
<1>6. RefsExact'
  <2>1. ASSUME NEW g \in Fut
        PROVE  Rest(g)' = Rest(g) + owed'[t][g] - owed[t][g]
    <3>1. refs[g] \in Nat /\ Born(g)' = Born(g) /\ owed[t][g] \in 0 .. 2
      BY DEF IInv, TypeOK, Born
    <3>2. CASE g # f
      BY <1>1, <1>3, <3>1, <3>2 DEF Rest, One
    <3>3. CASE g = f
      BY <1>1, <1>3, <3>1, <3>3 DEF Rest, One
    <3>4. QED
      BY <3>2, <3>3
  <2>2. QED
    BY <1>2, <1>3, <1>5, <2>1, RefsMove
<1>7. QED
  BY <1>2, <1>4, <1>5, <1>6 DEF IInv

LEMMA InvAlloc ==
  ASSUME IInv, NEW t \in Caller, NEW f \in Fut, Alloc(t, f)
  PROVE  IInv'
<1>1. /\ owner[f] = {} /\ owner' = [owner EXCEPT ![f] = {t}]
      /\ refs' = [refs EXCEPT ![f] = 1] /\ registered' = registered \cup {f}
      /\ UNCHANGED <<completed, deallocs, freeCalled, jobs, spawned, queue, submitted, pc, cur, owed>>
  BY DEF Alloc
<1>2. TypeOK'
  BY <1>1 DEF IInv, TypeOK
<1>3. Calls'
  BY <1>1 DEF IInv, Calls
<1>4. ~Born(f) /\ LifeOf(f)
  BY <1>1 DEF Born, IInv, Life
<1>5. Life'
  <2> SUFFICES ASSUME NEW g \in Fut PROVE LifeOf(g)'
    BY DEF Life
  <2>1. \A u \in Thread : Ending(u, g)' <=> Ending(u, g)
    BY <1>1 DEF Ending
  <2>2. CASE g # f
    <3>1. LifeOf(g) /\ owner'[g] = owner[g] /\ refs'[g] = refs[g]
          /\ (g \in registered' <=> g \in registered)
      BY <1>1, <2>2 DEF IInv, TypeOK, Life
    <3>2. QED
      BY <1>1, <2>1, <3>1 DEF LifeOf, Born
  <2>3. CASE g = f
    <3>1. /\ owner'[f] = {t} /\ Born(f)' /\ refs'[f] = 1 /\ f \in registered'
          /\ deallocs'[f] = 0 /\ f \notin freeCalled /\ \A u \in Thread : ~Ending(u, f)
      BY <1>1, <1>4 DEF LifeOf, Born, IInv, TypeOK
    <3>2. QED
      BY <2>1, <2>3, <3>1 DEF LifeOf
  <2>4. QED
    BY <2>2, <2>3
<1>6. RefsExact'
  <2>0. t \in Thread
    BY DEF Thread
  <2>1. ASSUME NEW g \in Fut
        PROVE  Rest(g)' = Rest(g) + owed'[t][g] - owed[t][g]
    <3>1. /\ refs[g] \in Nat /\ owed[t][g] \in 0 .. 2 /\ owed' = owed
          /\ UNCHANGED <<jobs, queue, freeCalled>>
      BY <1>1, <2>0 DEF IInv, TypeOK
    <3>2. CASE g # f
      <4>1. Born(g)' = Born(g) /\ refs'[g] = refs[g]
        BY <1>1, <3>2 DEF Born, IInv, TypeOK
      <4>2. QED
        BY <3>1, <4>1 DEF Rest, One
    <3>3. CASE g = f
      <4>1. ~Born(g) /\ Born(g)' /\ refs'[g] = 1 /\ refs[g] = 0
        BY <1>1, <1>4, <3>3 DEF Born, LifeOf, IInv, TypeOK
      <4>2. QED
        BY <3>1, <4>1 DEF Rest, One
    <3>4. QED
      BY <3>2, <3>3
  <2>2. QED
    BY <1>1, <1>2, <1>5, <2>0, <2>1, RefsMove
<1>7. QED
  BY <1>2, <1>3, <1>5, <1>6 DEF IInv

LEMMA InvSpawn ==
  ASSUME IInv, NEW t \in Caller, NEW f \in Fut, Spawn(t, f)
  PROVE  IInv'
<1>1. /\ f \notin jobs /\ refs[f] > 0 /\ refs' = [refs EXCEPT ![f] = @ + 1]
      /\ jobs' = jobs \cup {f} /\ spawned' = spawned \cup {f}
      /\ UNCHANGED <<owner, completed, registered, deallocs, freeCalled, queue, submitted,
                     pc, cur, owed>>
  BY DEF Spawn, Retainable, IInv, TypeOK
<1>2. TypeOK'
  BY <1>1 DEF IInv, TypeOK
<1>3. Calls'
  BY <1>1 DEF IInv, Calls
<1>4. Life'
  <2>1. \A g \in Fut : refs'[g] = refs[g] \/ (refs[g] > 0 /\ refs'[g] > 0)
    BY <1>1 DEF IInv, TypeOK
  <2>2. QED
    BY <1>1, <2>1, LifeKeeps
<1>5. RefsExact'
  <2>0. t \in Thread
    BY DEF Thread
  <2>1. ASSUME NEW g \in Fut
        PROVE  Rest(g)' = Rest(g) + owed'[t][g] - owed[t][g]
    <3>1. /\ refs[g] \in Nat /\ owed[t][g] \in 0 .. 2 /\ owed' = owed
          /\ UNCHANGED <<queue, freeCalled>> /\ Born(g)' = Born(g)
      BY <1>1, <2>0 DEF IInv, TypeOK, Born
    <3>2. refs'[g] = IF g = f THEN refs[g] + 1 ELSE refs[g]
      BY <1>1 DEF IInv, TypeOK
    <3>3. One(g, jobs') = IF g = f THEN One(g, jobs) + 1 ELSE One(g, jobs)
      BY <1>1 DEF One
    <3>4. QED
      BY <3>1, <3>2, <3>3 DEF Rest, One
  <2>2. QED
    BY <1>1, <1>2, <1>4, <2>0, <2>1, RefsMove
<1>6. QED
  BY <1>2, <1>3, <1>4, <1>5 DEF IInv

\* A reference changes hands: from the jobs or the queue to a thread.
LEMMA InvTake ==
  ASSUME IInv, NEW t \in Thread, NEW f \in Fut, TakeJob(t, f) \/ RunOne(t, f)
  PROVE  IInv'
<1>1. /\ pc[t] = "idle" /\ pc' = [pc EXCEPT ![t] = "poll"] /\ cur' = [cur EXCEPT ![t] = f]
      /\ owed' = [owed EXCEPT ![t][f] = 1]
      /\ UNCHANGED <<owner, completed, refs, registered, deallocs, freeCalled, spawned, submitted>>
  BY DEF TakeJob, RunOne, Goto, header
<1>2. \/ f \in jobs /\ jobs' = jobs \ {f} /\ UNCHANGED queue
      \/ f \in queue /\ queue' = queue \ {f} /\ UNCHANGED jobs
  BY DEF TakeJob, RunOne
<1>3. TypeOK'
  <2>1. cur' \in [Thread -> Fut] /\ owed' \in [Thread -> [Fut -> 0 .. 2]]
    BY <1>1 DEF IInv, TypeOK
  <2>2. jobs' \subseteq jobs /\ queue' \subseteq queue
    BY <1>2
  <2>3. QED
    BY <1>1, <2>1, <2>2 DEF IInv, TypeOK
<1>4. /\ \A u \in Thread : u # t => owed'[u] = owed[u] /\ pc'[u] = pc[u] /\ cur'[u] = cur[u]
      /\ pc'[t] = "poll" /\ cur'[t] = f
      /\ \A g \in Fut : owed[t][g] = 0 /\ owed'[t][g] = IF g = f THEN 1 ELSE 0
  BY <1>1 DEF IInv, TypeOK, Calls
<1>5. Calls'
  BY <1>4 DEF IInv, Calls, Body
<1>6. Life'
  <2>1. \A u \in Thread : pc[u] \in {"unregister", "dealloc"} \/ pc'[u] \in {"unregister", "dealloc"}
                             => pc'[u] = pc[u] /\ cur'[u] = cur[u]
    BY <1>1, <1>4
  <2>2. QED
    BY <1>1, <2>1, LifeKeeps
<1>7. RefsExact'
  <2>1. ASSUME NEW g \in Fut
        PROVE  Rest(g)' = Rest(g) + owed'[t][g] - owed[t][g]
    <3>1. /\ refs[g] \in Nat /\ UNCHANGED <<refs, freeCalled>> /\ Born(g)' = Born(g)
      BY <1>1 DEF IInv, TypeOK, Born
    <3>2. One(g, jobs') + One(g, queue') =
            One(g, jobs) + One(g, queue) - (IF g = f THEN 1 ELSE 0)
      BY <1>2 DEF One
    <3>3. QED
      BY <1>4, <3>1, <3>2 DEF Rest, One
  <2>2. QED
    BY <1>3, <1>4, <1>6, <2>1, RefsMove
<1>8. QED
  BY <1>3, <1>5, <1>6, <1>7 DEF IInv

\* ... from the caller of mimi_executor_spawn to the queue, ...
LEMMA InvPush ==
  ASSUME IInv, NEW t \in Thread, Push(t)
  PROVE  IInv'
<1> DEFINE f == cur[t]
<1>1. /\ pc[t] = "push" /\ f \in Fut
      /\ queue' = queue \cup {f} /\ submitted' = submitted \cup {f}
      /\ UNCHANGED <<owner, completed, refs, registered, deallocs, freeCalled, jobs, spawned, cur>>
  BY DEF Push, header, IInv, TypeOK
<1>2. IF f \in queue THEN Goto(t, "release") /\ UNCHANGED owed
      ELSE Goto(t, "idle") /\ owed' = [owed EXCEPT ![t][f] = 0]
  BY DEF Push
<1>3. owed[t][f] = 1 /\ \A g \in Fut : g # f => owed[t][g] = 0
  BY <1>1 DEF IInv, Calls, Body
<1> HIDE DEF f
<1>4. /\ \A u \in Thread : u # t => owed'[u] = owed[u] /\ pc'[u] = pc[u]
      /\ pc'[t] = IF f \in queue THEN "release" ELSE "idle"
      /\ \A g \in Fut : owed'[t][g] = IF g = f /\ f \notin queue THEN 0 ELSE owed[t][g]
      /\ owed' \in [Thread -> [Fut -> 0 .. 2]]
  <2>1. CASE f \in queue
    BY <1>1, <1>2, <2>1 DEF Goto, IInv, TypeOK
  <2>2. CASE f \notin queue
    <3>1. Goto(t, "idle") /\ owed' = [owed EXCEPT ![t][f] = 0]
      BY <1>2, <2>2
    <3>2. owed \in [Thread -> [Fut -> 0 .. 2]] /\ DOMAIN pc = Thread
      BY DEF IInv, TypeOK
    <3>3. owed' \in [Thread -> [Fut -> 0 .. 2]] /\ \A u \in Thread : u # t => owed'[u] = owed[u]
      BY <1>1, <3>1, <3>2
    <3>4. \A g \in Fut : owed'[t][g] = IF g = f THEN 0 ELSE owed[t][g]
      BY <1>1, <3>1, <3>2
    <3>5. QED
      BY <2>2, <3>1, <3>2, <3>3, <3>4 DEF Goto
  <2>3. QED
    BY <2>1, <2>2
<1>5. TypeOK'
  BY <1>1, <1>2, <1>4 DEF IInv, TypeOK, Goto
<1>6. Calls'
  BY <1>1, <1>3, <1>4 DEF IInv, Calls, Body
<1>7. Life'
  <2>1. \A u \in Thread : pc[u] \in {"unregister", "dealloc"} \/ pc'[u] \in {"unregister", "dealloc"}
                             => pc'[u] = pc[u]
    BY <1>1, <1>4
  <2>2. QED
    BY <1>1, <2>1, LifeKeeps
<1>8. RefsExact'
  <2>1. ASSUME NEW g \in Fut
        PROVE  Rest(g)' = Rest(g) + owed'[t][g] - owed[t][g]
    <3>1. /\ refs[g] \in Nat /\ UNCHANGED <<refs, freeCalled, jobs>> /\ Born(g)' = Born(g)
          /\ owed[t][g] \in 0 .. 2
      BY <1>1 DEF IInv, TypeOK, Born
    <3>2. One(g, queue') = One(g, queue) + (IF g = f /\ f \notin queue THEN 1 ELSE 0)
      BY <1>1 DEF One
    <3>3. QED
      BY <1>3, <1>4, <3>1, <3>2 DEF Rest, One
  <2>2. QED
    BY <1>4, <1>5, <1>7, <2>1, RefsMove
<1>9. QED
  BY <1>5, <1>6, <1>7, <1>8 DEF IInv

\* ... and all at once when mimi_executor_run drains the queue.
LEMMA InvRunDrain ==
  ASSUME IInv, NEW t \in Thread, RunDrain(t)
  PROVE  IInv'
<1>1. /\ pc[t] = "idle" /\ queue' = {} /\ Goto(t, "release")
      /\ owed' = [owed EXCEPT ![t] = [f \in Fut |-> IF f \in queue THEN 1 ELSE 0]]
      /\ UNCHANGED <<owner, completed, refs, registered, deallocs, freeCalled, jobs, spawned,
                     submitted, cur>>
  BY DEF RunDrain, header
<1>2. TypeOK'
  <2>1. owed' \in [Thread -> [Fut -> 0 .. 2]]
    BY <1>1 DEF IInv, TypeOK
  <2>2. QED
    BY <1>1, <2>1 DEF IInv, TypeOK, Goto
<1>3. /\ \A u \in Thread : u # t => owed'[u] = owed[u] /\ pc'[u] = pc[u]
      /\ pc'[t] = "release"
      /\ \A g \in Fut : owed[t][g] = 0 /\ owed'[t][g] = One(g, queue)
  BY <1>1 DEF IInv, TypeOK, Calls, Goto, One
<1>4. Calls'
  BY <1>1, <1>3 DEF IInv, Calls, Body
<1>5. Life'
  <2>1. \A u \in Thread : pc[u] \in {"unregister", "dealloc"} \/ pc'[u] \in {"unregister", "dealloc"}
                             => pc'[u] = pc[u]
    BY <1>1, <1>3
  <2>2. QED
    BY <1>1, <2>1, LifeKeeps
<1>6. RefsExact'
  <2>1. ASSUME NEW g \in Fut
        PROVE  Rest(g)' = Rest(g) + owed'[t][g] - owed[t][g]
    <3>1. /\ refs[g] \in Nat /\ UNCHANGED <<refs, freeCalled, jobs>> /\ Born(g)' = Born(g)
          /\ One(g, queue') = 0
      BY <1>1 DEF IInv, TypeOK, Born, One
    <3>2. QED
      BY <1>3, <3>1 DEF Rest, One
  <2>2. QED
    BY <1>2, <1>3, <1>5, <2>1, RefsMove
<1>7. QED
  BY <1>2, <1>4, <1>5, <1>6 DEF IInv

----------------------------------------------------------------------------
(* Releases *)

LEMMA InvRelease ==
  ASSUME IInv, NEW t \in Thread, NEW f \in Fut, Release(t, f)
  PROVE  IInv'
<1>1. /\ pc[t] = "release" /\ owed[t][f] > 0 /\ owed[t][f] \in 0 .. 2
      /\ refs' = [refs EXCEPT ![f] = @ - 1] /\ owed' = [owed EXCEPT ![t][f] = @ - 1]
      /\ cur' = [cur EXCEPT ![t] = f]
      /\ UNCHANGED <<owner, completed, registered, deallocs, freeCalled, jobs, spawned,
                     queue, submitted>>
  BY DEF Release, IInv, TypeOK
<1>2. PICK l \in {"unregister", "idle", "release"} :
        /\ pc' = [pc EXCEPT ![t] = l] /\ (l = "unregister" <=> refs[f] = 1)
        /\ l = "idle" => \A g \in Fut : owed'[t][g] = 0
  BY DEF Release, Goto, Returned
<1>3. /\ refs[f] > 0 /\ f \in registered /\ deallocs[f] = 0 /\ refs \in [Fut -> Nat]
      /\ \A g \in Fut : refs'[g] = IF g = f THEN refs[f] - 1 ELSE refs[g]
  BY <1>1, Held DEF IInv, TypeOK
<1>4. /\ \A u \in Thread : u # t => owed'[u] = owed[u] /\ pc'[u] = pc[u] /\ cur'[u] = cur[u]
      /\ pc'[t] = l /\ cur'[t] = f
      /\ \A g \in Fut : owed'[t][g] = IF g = f THEN owed[t][f] - 1 ELSE owed[t][g]
      /\ owed' \in [Thread -> [Fut -> 0 .. 2]]
  <2>1. owed \in [Thread -> [Fut -> 0 .. 2]] /\ DOMAIN pc = Thread /\ DOMAIN cur = Thread
    BY DEF IInv, TypeOK
  <2>2. owed' \in [Thread -> [Fut -> 0 .. 2]] /\ \A u \in Thread : u # t => owed'[u] = owed[u]
    BY <1>1, <2>1
  <2>3. \A g \in Fut : owed'[t][g] = IF g = f THEN owed[t][f] - 1 ELSE owed[t][g]
    BY <1>1, <2>1
  <2>4. QED
    BY <1>1, <1>2, <2>1, <2>2, <2>3
<1>5. TypeOK'
  <2>1. refs' \in [Fut -> Nat]
    BY <1>1, <1>3
  <2>2. QED
    BY <1>1, <1>2, <1>4, <2>1 DEF IInv, TypeOK
<1>6. Calls'
  BY <1>2, <1>4 DEF IInv, Calls, Body
<1>7. Life'
  <2> SUFFICES ASSUME NEW g \in Fut PROVE LifeOf(g)'
    BY DEF Life
  <2>0. LifeOf(g) /\ LifeOf(f) /\ (Born(g)' <=> Born(g)) /\ refs[g] \in Nat
    BY <1>1 DEF IInv, Life, Born, TypeOK
  <2>1. CASE g # f \/ refs[f] # 1
    <3>1. \A u \in Thread : /\ Ending(u, g)' <=> Ending(u, g)
                            /\ Ending(u, g) => pc'[u] = pc[u]
      BY <1>1, <1>2, <1>4, <2>1 DEF Ending
    <3>2. refs'[g] = refs[g] \/ (refs[g] > 0 /\ refs'[g] > 0)
      BY <1>3, <2>1
    <3>3. QED
      BY <1>1, <2>0, <3>1, <3>2 DEF LifeOf
  <2>2. CASE g = f /\ refs[f] = 1
    <3>1. \A u \in Thread : ~Ending(u, f)
      BY <2>0, <2>2 DEF LifeOf
    <3>2. Ending(t, f)' /\ pc'[t] = "unregister" /\ \A u \in Thread : u # t => ~Ending(u, f)'
      BY <1>2, <1>4, <2>2, <3>1 DEF Ending
    <3>3. refs'[f] = 0 /\ Born(f) /\ deallocs'[f] = 0 /\ f \in registered'
      BY <1>1, <1>3, <2>0, <2>2 DEF LifeOf
    <3>4. QED
      BY <1>1, <2>0, <2>2, <3>2, <3>3 DEF LifeOf
  <2>3. QED
    BY <2>1, <2>2
<1>8. RefsExact'
  <2>1. ASSUME NEW g \in Fut
        PROVE  Rest(g)' = Rest(g) + owed'[t][g] - owed[t][g]
    <3>1. /\ refs[g] \in Nat /\ UNCHANGED <<freeCalled, jobs, queue>> /\ Born(g)' = Born(g)
          /\ owed[t][g] \in 0 .. 2
      BY <1>1 DEF IInv, TypeOK, Born
    <3>2. QED
      BY <1>1, <1>3, <1>4, <3>1 DEF Rest, One
  <2>2. QED
    BY <1>4, <1>5, <1>7, <2>1, RefsMove
<1>9. QED
  BY <1>5, <1>6, <1>7, <1>8 DEF IInv

LEMMA InvUnregister ==
  ASSUME IInv, NEW t \in Thread, Unregister(t)
  PROVE  IInv'
<1> DEFINE f == cur[t]
<1>1. /\ pc[t] = "unregister" /\ f \in Fut /\ registered' = registered \ {f}
      /\ pc' = [pc EXCEPT ![t] = "dealloc"]
      /\ UNCHANGED <<owner, completed, refs, deallocs, freeCalled, jobs, spawned, queue,
                     submitted, cur, owed>>
  BY DEF Unregister, Goto, IInv, TypeOK
<1>2. TypeOK'
  BY <1>1 DEF IInv, TypeOK
<1>3. \A u \in Thread : pc'[u] = IF u = t THEN "dealloc" ELSE pc[u]
  BY <1>1 DEF IInv, TypeOK
<1>4. Calls'
  BY <1>1, <1>3 DEF IInv, Calls, Body
<1>5. Life'
  <2> SUFFICES ASSUME NEW g \in Fut PROVE LifeOf(g)'
    BY DEF Life
  <2>0. LifeOf(g) /\ LifeOf(f) /\ (Born(g)' <=> Born(g))
    BY <1>1 DEF IInv, Life, Born
  <2>1. \A u \in Thread : Ending(u, g)' <=> Ending(u, g)
    BY <1>1, <1>3 DEF Ending
  <2>2. CASE g # f
    <3>1. /\ g \in registered' <=> g \in registered
          /\ \A u \in Thread : Ending(u, g) => pc'[u] = pc[u]
      BY <1>1, <1>3, <2>2 DEF Ending
    <3>2. QED
      BY <1>1, <2>0, <2>1, <3>1 DEF LifeOf
  <2>3. CASE g = f
    <3>1. Ending(t, f) /\ f \notin registered' /\ pc'[t] = "dealloc"
      BY <1>1, <1>3 DEF Ending
    <3>2. refs[f] = 0 /\ deallocs[f] = 0 /\ Born(f) /\ \A u \in Thread : Ending(u, f) => u = t
      BY <2>0, <3>1 DEF LifeOf
    <3>3. QED
      BY <1>1, <2>0, <2>1, <2>3, <3>1, <3>2 DEF LifeOf
  <2>4. QED
    BY <2>2, <2>3
<1>6. RefsExact'
  BY <1>1 DEF IInv, RefsExact, CallRefs
<1>7. QED
  BY <1>2, <1>4, <1>5, <1>6 DEF IInv

LEMMA InvDealloc ==
  ASSUME IInv, NEW t \in Thread, Dealloc(t)
  PROVE  IInv'
<1> DEFINE f == cur[t]
<1>1. /\ pc[t] = "dealloc" /\ f \in Fut /\ deallocs' = [deallocs EXCEPT ![f] = @ + 1]
      /\ UNCHANGED <<owner, completed, refs, registered, freeCalled, jobs, spawned, queue,
                     submitted, cur, owed>>
  BY DEF Dealloc, IInv, TypeOK
<1>2. PICK l \in {"idle", "release"} :
        pc' = [pc EXCEPT ![t] = l] /\ (l = "idle" => \A g \in Fut : owed[t][g] = 0)
  BY DEF Dealloc, Goto, Returned
<1>3. /\ refs[f] = 0 /\ deallocs[f] = 0 /\ Born(f) /\ f \notin registered
      /\ \A u \in Thread : Ending(u, f) => u = t
  <2>1. Ending(t, f) /\ LifeOf(f)
    BY <1>1 DEF Ending, IInv, Life
  <2>2. QED
    BY <1>1, <2>1 DEF LifeOf
<1>4. \A u \in Thread : pc'[u] = IF u = t THEN l ELSE pc[u]
  BY <1>2 DEF IInv, TypeOK
<1>5. TypeOK'
  <2>1. deallocs' \in [Fut -> 0 .. 1]
    BY <1>1, <1>3 DEF IInv, TypeOK
  <2>2. QED
    BY <1>1, <1>2, <2>1 DEF IInv, TypeOK
<1>6. Calls'
  BY <1>1, <1>2, <1>4 DEF IInv, Calls, Body
<1>7. Life'
  <2> SUFFICES ASSUME NEW g \in Fut PROVE LifeOf(g)'
    BY DEF Life
  <2>0. LifeOf(g) /\ (Born(g)' <=> Born(g))
    BY <1>1 DEF IInv, Life, Born
  <2>1. CASE g # f
    <3>1. /\ deallocs'[g] = deallocs[g]
          /\ \A u \in Thread : (Ending(u, g)' <=> Ending(u, g)) /\ (Ending(u, g) => pc'[u] = pc[u])
      BY <1>1, <1>2, <1>4, <2>1 DEF Ending, IInv, TypeOK
    <3>2. QED
      BY <1>1, <2>0, <3>1 DEF LifeOf
  <2>2. CASE g = f
    <3>1. deallocs'[f] = 1
      BY <1>1, <1>3 DEF IInv, TypeOK
    <3>2. \A u \in Thread : ~Ending(u, f)'
      BY <1>1, <1>2, <1>3, <1>4 DEF Ending
    <3>3. QED
      BY <1>1, <1>3, <2>0, <2>2, <3>1, <3>2 DEF LifeOf
  <2>3. QED
    BY <2>1, <2>2
<1>8. RefsExact'
  BY <1>1 DEF IInv, RefsExact, CallRefs
<1>9. QED
  BY <1>5, <1>6, <1>7, <1>8 DEF IInv

LEMMA InvPollCompletes ==
  ASSUME IInv, NEW t \in Thread, PollCompletes(t)
  PROVE  IInv'
<1>1. pc[t] = "poll" /\ cur[t] \in Fut
  BY DEF PollCompletes, IInv, TypeOK
<1>2. CASE Retainable(cur[t])
  <2>1. /\ Enter(t, cur[t], "set", 2)
        /\ UNCHANGED <<owner, completed, registered, deallocs, freeCalled, jobs, spawned,
                       queue, submitted>>
    BY <1>2 DEF PollCompletes
  <2>2. "set" \in Body /\ 2 \in 1 .. 2
    BY DEF Body
  <2>3. QED
    BY <1>1, <2>1, <2>2, InvEnter
<1>3. CASE ~Retainable(cur[t])
  BY <1>3, InvWork DEF PollCompletes, Work
<1>4. QED
  BY <1>2, <1>3

LEMMA InvEntry ==
  ASSUME IInv, NEW t \in Caller, NEW f \in Fut,
         (\E l \in {"set", "read", "check", "push"} : Call(t, f, l)) \/ Free(t, f)
  PROVE  IInv'
<1>0. t \in Thread
  BY DEF Thread
<1>1. ASSUME NEW l \in {"set", "read", "check", "push"}, Call(t, f, l)
      PROVE  IInv'
  <2>1. /\ pc[t] = "idle" /\ Enter(t, f, l, 1)
        /\ UNCHANGED <<owner, completed, registered, deallocs, freeCalled, jobs, spawned,
                       queue, submitted>>
    BY <1>1 DEF Call
  <2>2. l \in Body /\ 1 \in 1 .. 2 /\ l # "poll"
    BY DEF Body
  <2>3. QED
    BY <1>0, <2>1, <2>2, InvEnter
<1>2. CASE Free(t, f)
  <2>1. /\ pc[t] = "idle" /\ Enter(t, f, "mark", 2) /\ f \notin freeCalled /\ Born(f)
        /\ freeCalled' = freeCalled \cup {f}
        /\ UNCHANGED <<owner, completed, registered, deallocs, jobs, spawned, queue, submitted>>
    BY <1>2 DEF Free, Born
  <2>2. "mark" \in Body /\ 2 \in 1 .. 2
    BY DEF Body
  <2>3. QED
    BY <1>0, <2>1, <2>2, InvEnter
<1>3. QED
  BY <1>1, <1>2

LEMMA InvNext == IInv /\ [Next]_vars => IInv'
<1> SUFFICES ASSUME IInv, [Next]_vars PROVE IInv'
  OBVIOUS
<1>1. CASE UNCHANGED vars
  BY <1>1, InvStutter
<1>2. ASSUME NEW t \in Thread, NEW f \in Fut, Release(t, f) PROVE IInv'
  BY <1>2, InvRelease
<1>3. ASSUME NEW t \in Thread, Unregister(t) \/ Dealloc(t) \/ PollCompletes(t) \/ Push(t)
      PROVE  IInv'
  BY <1>3, InvUnregister, InvDealloc, InvPollCompletes, InvPush
<1>4. ASSUME NEW t \in Thread, Set(t) \/ Read(t) \/ Check(t) \/ Mark(t) \/ PollPends(t)
      PROVE  IInv'
  BY <1>4, InvWork DEF Work, Set, Read, Check, Mark, PollPends, header
<1>5. ASSUME NEW t \in Caller, NEW f \in Fut, Alloc(t, f) \/ Spawn(t, f) PROVE IInv'
  BY <1>5, InvAlloc, InvSpawn
<1>6. ASSUME NEW t \in Caller, NEW f \in Fut,
             (\E l \in {"set", "read", "check", "push"} : Call(t, f, l)) \/ Free(t, f)
      PROVE  IInv'
  BY <1>6, InvEntry
<1>7. ASSUME NEW t \in Thread, NEW f \in Fut, TakeJob(t, f) \/ RunOne(t, f) PROVE IInv'
  BY <1>7, InvTake
<1>8. ASSUME NEW t \in Thread, RunDrain(t) PROVE IInv'
  BY <1>8, InvRunDrain
<1>9. Caller \subseteq Thread /\ Worker \subseteq Thread
  BY DEF Thread
<1>10. QED
  BY <1>1, <1>2, <1>3, <1>4, <1>5, <1>6, <1>7, <1>8, <1>9 DEF Next, CallStep

----------------------------------------------------------------------------
(* Theorems *)

\* The invariant holds in every behaviour of the futures.
THEOREM Invariance == Spec => []IInv
  BY InvInit, InvNext, PTL DEF Spec

\* Every variable of the futures has its type; no future is deallocated twice.
THEOREM FutureTypeCorrect == Spec => []TypeOK
<1>1. IInv => TypeOK
  BY DEF IInv
<1>2. QED
  BY <1>1, Invariance, PTL

\* However retains and releases of callers, pool workers and the executor
\* interleave, the header's count is the references that exist.
THEOREM RefsSafety == Spec => []RefsExact
<1>1. IInv => RefsExact
  BY DEF IInv
<1>2. QED
  BY <1>1, Invariance, PTL

\* No future that a call, a job, the queue or the registry can still reach was
\* deallocated.
THEOREM NoUseAfterFree == Spec => []TouchedIsAllocated
  BY Invariance, InvImplies, PTL

\* A future whose owner freed it and that nobody uses is deallocated.
THEOREM NoFutureLeak == Spec => []FreedFutureGoes
  BY Invariance, InvImplies, PTL

----------------------------------------------------------------------------
(***************************************************************************)
(* II. Completion.  On top of IInv: a call holds the future it is about,   *)
(* flags move only on futures that exist, the freed mark is the owner's,   *)
(* and no spawned future is forgotten.                                     *)
(***************************************************************************)

\* Inside a call a thread holds the future the call is about.
Holding == \A t \in Thread : pc[t] \in Body => owed[t][cur[t]] > 0

\* Only a future that was allocated has its flag set, and only free marks it.
Flags ==
  /\ \A f \in Fut : completed[f] # 0 => Born(f)
  /\ \A f \in Fut : completed[f] = -1 => f \in freeCalled
  /\ \A t \in Thread : pc[t] = "mark" => cur[t] \in freeCalled

\* Nobody sleeps on a future that is ready.
Awake == \A t \in Thread : pc[t] = "asleep" => completed[cur[t]] # 1

DoneInv == Holding /\ Flags /\ Awake /\ SpawnedIsServed

LEMMA DoneInit == Init => DoneInv
  BY DEF Init, DoneInv, Holding, Flags, Awake, SpawnedIsServed, Body

\* A call's future exists.
LEMMA CallFuture ==
  ASSUME IInv, Holding, NEW t \in Thread, pc[t] \in Body
  PROVE  cur[t] \in Fut /\ Born(cur[t]) /\ refs[cur[t]] > 0 /\ cur[t] \in registered
<1>1. cur[t] \in Fut /\ owed[t][cur[t]] > 0
  BY DEF IInv, TypeOK, Holding
<1>2. refs[cur[t]] > 0 /\ cur[t] \in registered
  BY <1>1, Held
<1>3. QED
  BY <1>1, <1>2 DEF IInv, Life, LifeOf

\* What keeps DoneInv in a step of thread t that moves nobody else, except that
\* it may wake sleepers.
LEMMA DoneKeeps ==
  ASSUME IInv, DoneInv, TypeOK', NEW t \in Thread,
         \A u \in Thread : u # t =>
           /\ owed'[u] = owed[u] /\ cur'[u] = cur[u]
           /\ pc'[u] = pc[u] \/ (pc[u] = "asleep" /\ pc'[u] = "locked"),
         pc'[t] \in Body => owed'[t][cur'[t]] > 0,
         pc'[t] = "mark" => cur'[t] \in freeCalled',
         pc'[t] = "asleep" => completed'[cur'[t]] # 1,
         owner' = owner \/ (\A f \in Fut : owner[f] # {} => owner'[f] # {}),
         UNCHANGED completed, freeCalled \subseteq freeCalled',
         \A f \in spawned' :
           \/ f \in jobs'
           \/ f \in spawned /\ f \notin jobs
                /\ (cur[t] = f /\ pc[t] \in {"poll", "set"} /\ t \in Worker
                     => cur'[t] = f /\ pc'[t] \in {"poll", "set"})
           \/ t \in Worker /\ cur'[t] = f /\ pc'[t] \in {"poll", "set"}
  PROVE  DoneInv'
<1>1. Holding'
  <2> SUFFICES ASSUME NEW u \in Thread, pc'[u] \in Body PROVE owed'[u][cur'[u]] > 0
    BY DEF Holding
  <2>1. CASE u = t
    BY <2>1
  <2>2. CASE u # t
    <3>1. pc[u] \in Body
      BY <2>2 DEF Body
    <3>2. owed[u][cur[u]] > 0
      BY <3>1 DEF DoneInv, Holding
    <3>3. owed'[u] = owed[u] /\ cur'[u] = cur[u]
      BY <2>2
    <3>4. QED
      BY <3>2, <3>3
  <2>3. QED
    BY <2>1, <2>2
<1>2. Flags'
  <2>1. \A u \in Thread : pc'[u] = "mark" => cur'[u] \in freeCalled'
    BY DEF DoneInv, Flags
  <2>2. QED
    BY <2>1 DEF DoneInv, Flags, Born
<1>3. Awake'
  BY DEF DoneInv, Awake
<1>4. SpawnedIsServed'
  <2> SUFFICES ASSUME NEW f \in spawned', f \notin jobs', completed'[f] = 0
               PROVE  \E w \in Worker : cur'[w] = f /\ pc'[w] \in {"poll", "set"}
    BY DEF SpawnedIsServed
  <2>1. CASE t \in Worker /\ cur'[t] = f /\ pc'[t] \in {"poll", "set"}
    BY <2>1
  <2>2. CASE ~(t \in Worker /\ cur'[t] = f /\ pc'[t] \in {"poll", "set"})
    <3>1. /\ f \in spawned /\ f \notin jobs
          /\ cur[t] = f /\ pc[t] \in {"poll", "set"} /\ t \in Worker
                     => cur'[t] = f /\ pc'[t] \in {"poll", "set"}
      BY <2>2
    <3>2. PICK w \in Worker : cur[w] = f /\ pc[w] \in {"poll", "set"}
      BY <3>1 DEF DoneInv, SpawnedIsServed
    <3>3. w \in Thread
      BY DEF Thread
    <3>4. QED
      BY <3>1, <3>2, <3>3
  <2>3. QED
    BY <2>1, <2>2
<1>5. QED
  BY <1>1, <1>2, <1>3, <1>4 DEF DoneInv

LEMMA DoneSet ==
  ASSUME IInv, DoneInv, NEW t \in Thread, Set(t)
  PROVE  DoneInv'
<1> DEFINE f == cur[t]
<1>1. /\ pc[t] = "set" /\ f \in Fut /\ Born(f)
      /\ \A g \in Fut : completed'[g] = IF g = f /\ completed[f] = 0 THEN 1 ELSE completed[g]
      /\ \A u \in Thread : pc'[u] = IF u = t THEN "release"
                                    ELSE IF completed[f] = 0 /\ pc[u] = "asleep" THEN "locked"
                                    ELSE pc[u]
      /\ UNCHANGED <<owner, refs, registered, deallocs, freeCalled, jobs, spawned, queue,
                     submitted, cur, owed>>
  BY CallFuture DEF Set, DoneInv, IInv, TypeOK, Body
<1>2. Holding'
  BY <1>1 DEF DoneInv, Holding, Body
<1>3. Flags'
  BY <1>1 DEF DoneInv, Flags, Born
<1>4. Awake'
  BY <1>1 DEF DoneInv, Awake, IInv, TypeOK
<1>5. SpawnedIsServed'
  <2> SUFFICES ASSUME NEW g \in spawned, g \notin jobs, completed'[g] = 0
               PROVE  \E w \in Worker : cur[w] = g /\ pc'[w] \in {"poll", "set"}
    BY <1>1 DEF SpawnedIsServed
  <2>1. g \in Fut /\ g # f /\ completed[g] = 0
    BY <1>1 DEF IInv, TypeOK
  <2>2. PICK w \in Worker : cur[w] = g /\ pc[w] \in {"poll", "set"}
    BY <2>1 DEF DoneInv, SpawnedIsServed
  <2>3. w \in Thread /\ w # t
    BY <2>1, <2>2 DEF Thread
  <2>4. QED
    BY <1>1, <2>2, <2>3
<1>6. QED
  BY <1>2, <1>3, <1>4, <1>5 DEF DoneInv

LEMMA DoneMark ==
  ASSUME IInv, DoneInv, NEW t \in Thread, Mark(t)
  PROVE  DoneInv'
<1> DEFINE f == cur[t]
<1>1. /\ pc[t] = "mark" /\ f \in Fut /\ Born(f) /\ f \in freeCalled
      /\ \A g \in Fut : completed'[g] = IF g = f THEN -1 ELSE completed[g]
      /\ \A u \in Thread : pc'[u] = IF u = t THEN "release" ELSE pc[u]
      /\ UNCHANGED <<owner, refs, registered, deallocs, freeCalled, jobs, spawned, queue,
                     submitted, cur, owed>>
  BY CallFuture DEF Mark, Goto, DoneInv, Flags, IInv, TypeOK, Body
<1>2. Holding' /\ Awake'
  BY <1>1 DEF DoneInv, Holding, Body, Awake, IInv, TypeOK
<1>3. Flags'
  BY <1>1 DEF DoneInv, Flags, Born
<1>4. SpawnedIsServed'
  <2> SUFFICES ASSUME NEW g \in spawned, g \notin jobs, completed'[g] = 0
               PROVE  \E w \in Worker : cur[w] = g /\ pc'[w] \in {"poll", "set"}
    BY <1>1 DEF SpawnedIsServed
  <2>1. g \in Fut /\ completed[g] = 0
    BY <1>1 DEF IInv, TypeOK
  <2>2. PICK w \in Worker : cur[w] = g /\ pc[w] \in {"poll", "set"}
    BY <2>1 DEF DoneInv, SpawnedIsServed
  <2>3. w \in Thread
    BY DEF Thread
  <2>4. QED
    BY <1>1, <2>2, <2>3
<1>5. QED
  BY <1>2, <1>3, <1>4 DEF DoneInv

\* The steps that leave every flag alone.
LEMMA DoneQuiet ==
  ASSUME IInv, DoneInv, IInv', NEW t \in Thread, NEW f \in Fut,
         \/ Release(t, f) \/ Unregister(t) \/ Dealloc(t) \/ PollCompletes(t) \/ PollPends(t)
         \/ Read(t) \/ Check(t) \/ Push(t)
  PROVE  DoneInv'
<1>1. TypeOK'
  BY DEF IInv
<1>2. /\ UNCHANGED <<owner, completed, freeCalled, jobs, spawned>>
      /\ \A u \in Thread : u # t => owed'[u] = owed[u] /\ cur'[u] = cur[u] /\ pc'[u] = pc[u]
  BY DEF Release, Unregister, Dealloc, PollCompletes, PollPends, Read, Check, Push, Goto,
         Enter, header, IInv, TypeOK
<1>3. /\ pc'[t] \in Body => owed'[t][cur'[t]] > 0
      /\ pc'[t] # "mark"
      /\ pc'[t] = "asleep" => completed[cur'[t]] = 0
      /\ (pc[t] \in {"poll", "set"} /\ t \in Worker) => cur'[t] = cur[t] /\ pc'[t] \in {"poll", "set"}
  <2>1. CASE Release(t, f) \/ Unregister(t) \/ Dealloc(t) \/ PollPends(t) \/ Read(t) \/ Push(t)
    <3>1. t \in Caller => t \notin Worker
      OBVIOUS
    <3>2. pc'[t] \in {"release", "unregister", "dealloc", "idle"}
      BY <2>1 DEF Release, Unregister, Dealloc, PollPends, Read, Push, Goto, Returned, IInv, TypeOK
    <3>3. pc[t] \notin {"poll", "set"} \/ t \in Caller
      BY <2>1 DEF Release, Unregister, Dealloc, PollPends, Read, Push
    <3>4. QED
      BY <3>1, <3>2, <3>3 DEF Body
  <2>2. CASE PollCompletes(t)
    <3>1. pc[t] = "poll" /\ cur[t] \in Fut
      BY <2>2 DEF PollCompletes, IInv, TypeOK
    <3>2. Retainable(cur[t])
      BY <3>1, CallFuture DEF Retainable, DoneInv, Body
    <3>3. Enter(t, cur[t], "set", 2)
      BY <2>2, <3>2 DEF PollCompletes
    <3>4. pc'[t] = "set" /\ cur'[t] = cur[t] /\ owed'[t][cur[t]] = 2
      BY <3>1, <3>3 DEF Enter, IInv, TypeOK
    <3>5. QED
      BY <3>1, <3>4
  <2>3. CASE Check(t)
    <3>1. /\ pc[t] \in {"check", "locked"} /\ UNCHANGED <<cur, owed>>
          /\ pc'[t] \in {"release", "locked", "asleep"}
          /\ pc'[t] = "asleep" => completed[cur[t]] = 0
      BY <2>3 DEF Check, Goto, IInv, TypeOK
    <3>2. QED
      BY <3>1 DEF DoneInv, Holding, Body
  <2>4. QED
    BY <2>1, <2>2, <2>3
<1>4. \A g \in spawned' :
        \/ g \in jobs'
        \/ g \in spawned /\ g \notin jobs
             /\ (cur[t] = g /\ pc[t] \in {"poll", "set"} /\ t \in Worker
                  => cur'[t] = g /\ pc'[t] \in {"poll", "set"})
        \/ t \in Worker /\ cur'[t] = g /\ pc'[t] \in {"poll", "set"}
  BY <1>2, <1>3
<1>5. pc'[t] = "asleep" => completed'[cur'[t]] # 1
  BY <1>2, <1>3
<1>6. QED
  BY <1>1, <1>2, <1>3, <1>4, <1>5, DoneKeeps

\* The first steps of calls, of jobs and of the executor.
LEMMA DoneEntry ==
  ASSUME IInv, DoneInv, IInv', NEW t \in Thread, NEW f \in Fut,
         \/ Alloc(t, f) \/ Free(t, f) \/ Spawn(t, f) \/ RunDrain(t)
         \/ RunOne(t, f) /\ t \in Caller
         \/ \E l \in {"set", "read", "check", "push"} : Call(t, f, l)
         \/ TakeJob(t, f) /\ t \in Worker
  PROVE  DoneInv'
<1>1. TypeOK' /\ pc[t] = "idle"
  BY DEF IInv, Alloc, Free, Spawn, RunDrain, RunOne, Call, TakeJob
<1>2. /\ UNCHANGED completed /\ freeCalled \subseteq freeCalled'
      /\ \A u \in Thread : u # t => owed'[u] = owed[u] /\ cur'[u] = cur[u] /\ pc'[u] = pc[u]
      /\ \A g \in Fut : owner[g] # {} => owner'[g] # {}
  BY DEF Alloc, Free, Spawn, RunDrain, RunOne, Call, TakeJob, Goto, Enter, header, IInv, TypeOK
<1>3. /\ pc'[t] \in Body => owed'[t][cur'[t]] > 0
      /\ pc'[t] = "mark" => cur'[t] \in freeCalled'
      /\ pc'[t] # "asleep"
  <2>1. CASE Alloc(t, f) \/ Spawn(t, f) \/ RunDrain(t)
    BY <1>1, <2>1 DEF Alloc, Spawn, RunDrain, Goto, Body, IInv, TypeOK
  <2>2. CASE Free(t, f)
    <3>1. Enter(t, f, "mark", 2) /\ f \in freeCalled'
      BY <2>2 DEF Free
    <3>2. QED
      BY <3>1 DEF Enter, IInv, TypeOK
  <2>3. ASSUME NEW l \in {"set", "read", "check", "push"}, Call(t, f, l)
        PROVE  /\ owed'[t][cur'[t]] > 0 /\ pc'[t] # "mark" /\ pc'[t] # "asleep"
    BY <2>3 DEF Call, Enter, IInv, TypeOK
  <2>4. CASE RunOne(t, f) \/ TakeJob(t, f)
    <3>1. pc'[t] = "poll" /\ cur'[t] = f /\ owed'[t][f] = 1
      BY <2>4 DEF RunOne, TakeJob, Goto, IInv, TypeOK
    <3>2. QED
      BY <3>1
  <2>5. QED
    BY <2>1, <2>2, <2>3, <2>4
<1>4. ASSUME NEW g \in spawned'
      PROVE  \/ g \in jobs'
             \/ g \in spawned /\ g \notin jobs
             \/ t \in Worker /\ cur'[t] = g /\ pc'[t] = "poll"
  <2>1. CASE Spawn(t, f)
    BY <2>1 DEF Spawn
  <2>2. CASE TakeJob(t, f) /\ t \in Worker
    BY <2>2 DEF TakeJob, Goto, IInv, TypeOK
  <2>3. CASE UNCHANGED <<spawned, jobs>>
    BY <2>3
  <2>4. QED
    BY <2>1, <2>2, <2>3 DEF Alloc, Free, RunDrain, RunOne, Call
<1>5. QED
  BY <1>1, <1>2, <1>3, <1>4, DoneKeeps

LEMMA DoneNext == IInv /\ DoneInv /\ IInv' /\ [Next]_vars => DoneInv'
<1> SUFFICES ASSUME IInv, DoneInv, IInv', [Next]_vars PROVE DoneInv'
  OBVIOUS
<1>1. CASE UNCHANGED vars
  BY <1>1 DEF vars, header, DoneInv, Holding, Flags, Awake, SpawnedIsServed, Born
<1>2. ASSUME NEW t \in Thread, CallStep(t) \/ PollPends(t) PROVE DoneInv'
  <2>1. PICK f : f \in Fut
    OBVIOUS
  <2>2. QED
    BY <1>2, <2>1, DoneQuiet, DoneSet, DoneMark DEF CallStep
<1>3. Caller \subseteq Thread /\ Worker \subseteq Thread /\ \E f \in Fut : TRUE
  BY DEF Thread
<1>4. QED
  BY <1>1, <1>2, <1>3, DoneEntry DEF Next

\* A spawned future is never forgotten by the pool, whatever is freed, awaited
\* or polled by the executor meanwhile.
THEOREM SpawnedSafety == Spec => []SpawnedIsServed
<1>1. DoneInv => SpawnedIsServed
  BY DEF DoneInv
<1>2. QED
  BY <1>1, DoneInit, DoneNext, Invariance, PTL DEF Spec

\* No thread sleeps through a completion: the flag is set and the sleepers are
\* woken in one critical section, and a sleeper looked at the flag in one.
THEOREM NoMissedCompletion == Spec => []SleeperIsOwedAWakeup
<1>1. IInv /\ DoneInv => SleeperIsOwedAWakeup
  <2> SUFFICES ASSUME IInv, DoneInv, NEW t \in Thread, pc[t] = "asleep"
               PROVE  /\ completed[cur[t]] # 1
                      /\ (cur[t] \in spawned \ freeCalled) =>
                           \/ cur[t] \in jobs
                           \/ \E w \in Worker : cur[w] = cur[t] /\ pc[w] \in {"poll", "set"}
    BY DEF SleeperIsOwedAWakeup
  <2>1. cur[t] \in Fut /\ completed[cur[t]] \in {-1, 0, 1} /\ completed[cur[t]] # 1
    BY DEF IInv, TypeOK, DoneInv, Awake
  <2>2. cur[t] \notin freeCalled => completed[cur[t]] = 0
    BY <2>1 DEF DoneInv, Flags
  <2>3. QED
    BY <2>1, <2>2 DEF DoneInv, SpawnedIsServed
<1>2. QED
  BY <1>1, DoneInit, DoneNext, Invariance, PTL DEF Spec

----------------------------------------------------------------------------
(***************************************************************************)
(* III. Refinement.  A step shows at the holders, the sleepers, the flag   *)
(* and the memory of a future in one of the ways that FutureLife allows.   *)
(***************************************************************************)

Roles(C, O, J, Q) ==
  ({"call"} \X C) \cup ({"owner"} \X O) \cup ({"job"} \X J) \cup ({"queue"} \X Q)

CallsOn(f) == {t \in Thread : owed[t][f] > 0}
OwnersOf(f) == {t \in owner[f] : f \notin freeCalled}

LEMMA HoldersAre ==
  ASSUME NEW f
  PROVE  HoldersOf(f) = Roles(CallsOn(f), OwnersOf(f), {f} \cap jobs, {f} \cap queue)
  BY DEF HoldersOf, Roles, CallsOn, OwnersOf

LEMMA RolesEmpty ==
  ASSUME NEW C, NEW O, NEW J, NEW Q
  PROVE  Roles(C, O, J, Q) = {} <=> C = {} /\ O = {} /\ J = {} /\ Q = {}
<1>1. ASSUME NEW w, w \in C \/ w \in O \/ w \in J \/ w \in Q
      PROVE  Roles(C, O, J, Q) # {}
  <2>1. \/ <<"call", w>> \in Roles(C, O, J, Q) \/ <<"owner", w>> \in Roles(C, O, J, Q)
        \/ <<"job", w>> \in Roles(C, O, J, Q) \/ <<"queue", w>> \in Roles(C, O, J, Q)
    BY <1>1 DEF Roles
  <2>2. QED
    BY <2>1
<1>2. ASSUME C = {} /\ O = {} /\ J = {} /\ Q = {}
      PROVE  Roles(C, O, J, Q) = {}
  BY <1>2 DEF Roles
<1>3. QED
  BY <1>1, <1>2

\* Somebody holds a future if and only if its count is positive.
LEMMA HoldersExist ==
  ASSUME IInv, NEW f \in Fut
  PROVE  HoldersOf(f) = {} <=> refs[f] = 0
<1>1. /\ Exact(f) /\ refs[f] \in Nat /\ Cardinality(CallRefs(f)) \in Nat
      /\ f \in freeCalled => Born(f)
      /\ Born(f) => \E t \in Caller : owner[f] = {t}
  BY ExactIs, CallRefsAre DEF IInv, Life, LifeOf, TypeOK
<1>2. (\A t \in Thread : owed[t][f] = 0) => Cardinality(CallRefs(f)) = 0
  BY CallRefsAre, TokensNone DEF IInv
<1>3. HoldersOf(f) = {} <=> /\ CallsOn(f) = {} /\ OwnersOf(f) = {}
                            /\ f \notin jobs /\ f \notin queue
  <2>1. ({f} \cap jobs = {} <=> f \notin jobs) /\ ({f} \cap queue = {} <=> f \notin queue)
    OBVIOUS
  <2>2. Roles(CallsOn(f), OwnersOf(f), {f} \cap jobs, {f} \cap queue) = {}
          <=> CallsOn(f) = {} /\ OwnersOf(f) = {} /\ {f} \cap jobs = {} /\ {f} \cap queue = {}
    BY RolesEmpty
  <2>3. QED
    BY <2>1, <2>2, HoldersAre
<1>4. CallsOn(f) = {} => \A t \in Thread : owed[t][f] = 0
  BY DEF CallsOn, IInv, TypeOK
<1>5. OwnersOf(f) = {} <=> ~Born(f) \/ f \in freeCalled
  BY DEF OwnersOf, Born
<1>6. HoldersOf(f) = {} => refs[f] = 0
  BY <1>1, <1>2, <1>3, <1>4, <1>5 DEF Exact, One
<1>7. HoldersOf(f) # {} => refs[f] > 0
  <2>1. CallsOn(f) # {} => \E t \in Thread : owed[t][f] > 0
    BY DEF CallsOn
  <2>2. QED
    BY <1>3, <1>5, <2>1, Held
<1>8. QED
  BY <1>1, <1>6, <1>7

SameLook(f) ==
  /\ FlagOf(f)' = FlagOf(f) /\ HoldersOf(f)' = HoldersOf(f) /\ AsleepOn(f)' = AsleepOn(f)
  /\ f \in registered' <=> f \in registered
  /\ deallocs'[f] = deallocs[f]

LEMMA SameLookStays ==
  ASSUME NEW f \in Fut, SameLook(f)
  PROVE  Ideal!Stays(f)
  BY DEF SameLook, Ideal!Stays, Ideal!SameFlag, Ideal!SameHolders, Ideal!SameWaiting,
         Ideal!SameMemory, Ideal!Flag, Ideal!Hold, Ideal!Asleep, Ideal!Memory

\* What each part of the picture is drawn from.
LEMMA SameFlagLook ==
  ASSUME NEW f, owner'[f] = owner[f], completed'[f] = completed[f]
  PROVE  FlagOf(f)' = FlagOf(f)
  BY DEF FlagOf

LEMMA SameAsleepLook ==
  ASSUME NEW f, \A u \in Thread : (pc'[u] = "asleep" /\ cur'[u] = f) <=> (pc[u] = "asleep" /\ cur[u] = f)
  PROVE  AsleepOn(f)' = AsleepOn(f)
  BY DEF AsleepOn

LEMMA SameHoldersLook ==
  ASSUME NEW f, owner'[f] = owner[f], f \in freeCalled' <=> f \in freeCalled,
         f \in jobs' <=> f \in jobs, f \in queue' <=> f \in queue,
         \A u \in Thread : owed'[u][f] > 0 <=> owed[u][f] > 0
  PROVE  HoldersOf(f)' = HoldersOf(f)
<1>1. CallsOn(f)' = CallsOn(f) /\ OwnersOf(f)' = OwnersOf(f)
  BY DEF CallsOn, OwnersOf
<1>2. {f} \cap jobs' = {f} \cap jobs /\ {f} \cap queue' = {f} \cap queue
  OBVIOUS
<1>3. HoldersOf(f)' = Roles(CallsOn(f)', OwnersOf(f)', {f} \cap jobs', {f} \cap queue')
  BY DEF HoldersOf, Roles, CallsOn, OwnersOf
<1>4. QED
  BY <1>1, <1>2, <1>3, HoldersAre

\* A step of thread t changes the holders of f, and of f only that.
Hands(t, f, S) ==
  /\ HoldersOf(f)' = S
  /\ FlagOf(f)' = FlagOf(f) /\ AsleepOn(f)' = AsleepOn(f)
  /\ f \in registered' <=> f \in registered
  /\ deallocs'[f] = deallocs[f]

MayHold == ({"call"} \X Thread) \cup ({"owner"} \X Caller) \cup ({"job", "queue"} \X Fut)

LEMMA HandsShare ==
  ASSUME IInv, NEW t, NEW f \in Fut, NEW h \in MayHold, Retainable(f),
         Hands(t, f, HoldersOf(f) \cup {h})
  PROVE  Ideal!Step(f)
<1>1. HoldersOf(f) # {} /\ f \in registered
  BY HoldersExist DEF Retainable
<1>2. Ideal!Share(f, h)
  BY <1>1 DEF Hands, Ideal!Share, Ideal!SameFlag, Ideal!SameWaiting,
         Ideal!SameMemory, Ideal!Flag, Ideal!Hold, Ideal!Asleep, Ideal!Memory
<1>3. QED
  BY <1>2 DEF Ideal!Step, MayHold

LEMMA HandsPass ==
  ASSUME NEW t, NEW f \in Fut, NEW h \in MayHold, NEW k \in MayHold,
         h \in HoldersOf(f), h \notin {"call"} \X AsleepOn(f),
         Hands(t, f, (HoldersOf(f) \ {h}) \cup {k})
  PROVE  Ideal!Step(f)
<1>1. Ideal!Pass(f, h, k)
  BY DEF Hands, Ideal!Pass, Ideal!SameFlag, Ideal!SameWaiting,
         Ideal!SameMemory, Ideal!Flag, Ideal!Hold, Ideal!Asleep, Ideal!Memory
<1>2. QED
  BY <1>1 DEF Ideal!Step, MayHold

LEMMA HandsLeave ==
  ASSUME NEW t, NEW f \in Fut, NEW h \in MayHold,
         h \in HoldersOf(f), h \notin {"call"} \X AsleepOn(f),
         Hands(t, f, HoldersOf(f) \ {h})
  PROVE  Ideal!Step(f)
<1>1. Ideal!Leave(f, h)
  BY DEF Hands, Ideal!Leave, Ideal!SameFlag, Ideal!SameWaiting,
         Ideal!SameMemory, Ideal!Flag, Ideal!Hold, Ideal!Asleep, Ideal!Memory
<1>2. QED
  BY <1>1 DEF Ideal!Step, MayHold

----------------------------------------------------------------------------
(* Each action, at every future *)

LEMMA QuietShows ==
  ASSUME NEW g \in Fut, owner'[g] = owner[g], completed'[g] = completed[g],
         g \in registered' <=> g \in registered, deallocs'[g] = deallocs[g],
         g \in freeCalled' <=> g \in freeCalled,
         g \in jobs' <=> g \in jobs, g \in queue' <=> g \in queue,
         \A u \in Thread : owed'[u][g] > 0 <=> owed[u][g] > 0,
         \A u \in Thread : (pc'[u] = "asleep" /\ cur'[u] = g) <=> (pc[u] = "asleep" /\ cur[u] = g)
  PROVE  Ideal!Stays(g)
<1>1. SameLook(g)
  BY SameFlagLook, SameHoldersLook, SameAsleepLook DEF SameLook
<1>2. QED
  BY <1>1, SameLookStays

\* mimi_future_set_completed completes its future and wakes all sleepers.
LEMMA SetShows ==
  ASSUME IInv, DoneInv, NEW t \in Thread, Set(t)
  PROVE  Ideal!Next
<1>0. PICK f \in Fut : f = cur[t]
  BY DEF IInv, TypeOK
<1>1. /\ pc[t] = "set" /\ f \in Fut /\ Born(f) /\ refs[f] > 0
      /\ \A g \in Fut : completed'[g] = IF g = f /\ completed[f] = 0 THEN 1 ELSE completed[g]
      /\ \A u \in Thread : pc'[u] = IF u = t THEN "release"
                                    ELSE IF completed[f] = 0 /\ pc[u] = "asleep" THEN "locked"
                                    ELSE pc[u]
      /\ UNCHANGED <<owner, refs, registered, deallocs, freeCalled, jobs, spawned, queue,
                     submitted, cur, owed>>
  BY <1>0, CallFuture DEF Set, DoneInv, IInv, TypeOK, Body
<1>2. ASSUME NEW g \in Fut PROVE Ideal!Step(g) \/ Ideal!Stays(g)
  <2>1. HoldersOf(g)' = HoldersOf(g)
    BY <1>1, SameHoldersLook
  <2>2. CASE completed[f] # 0
    <3>1. \A u \in Thread : (pc'[u] = "asleep" /\ cur'[u] = g) <=> (pc[u] = "asleep" /\ cur[u] = g)
      BY <1>1, <2>2
    <3>2. completed'[g] = completed[g]
      BY <1>1, <2>2
    <3>3. QED
      BY <1>1, <3>1, <3>2, QuietShows
  <2>3. CASE completed[f] = 0
    <3>1. AsleepOn(g)' = {}
      BY <1>1, <2>3 DEF AsleepOn
    <3>2. CASE g = f
      <4>1. FlagOf(f) = "pending" /\ FlagOf(f)' = "ready"
        BY <1>1, <2>3 DEF FlagOf, Born
      <4>2. HoldersOf(f) # {}
        BY <1>1, HoldersExist
      <4>3. Ideal!Complete(f)
        BY <1>1, <2>1, <3>1, <3>2, <4>1, <4>2
           DEF Ideal!Complete, Ideal!SameHolders, Ideal!SameMemory, Ideal!Flag, Ideal!Hold,
               Ideal!Asleep, Ideal!Memory
      <4>4. QED
        BY <3>2, <4>3 DEF Ideal!Step
    <3>3. CASE g # f
      <4>1. FlagOf(g)' = FlagOf(g)
        BY <1>1, <3>3, SameFlagLook
      <4>2. Ideal!Wake(g)
        BY <1>1, <2>1, <3>1, <4>1
           DEF Ideal!Wake, Ideal!SameHolders, Ideal!SameMemory, Ideal!SameFlag, Ideal!Flag,
               Ideal!Hold, Ideal!Memory
      <4>3. QED
        BY <4>2 DEF Ideal!Step
    <3>4. QED
      BY <3>2, <3>3
  <2>4. QED
    BY <2>2, <2>3
<1>3. QED
  BY <1>2 DEF Ideal!Next

\* mimi_future_free marks a future that has no owner any more.
LEMMA MarkShows ==
  ASSUME IInv, DoneInv, NEW t \in Thread, Mark(t)
  PROVE  Ideal!Next
<1>0. PICK f \in Fut : f = cur[t]
  BY DEF IInv, TypeOK
<1>1. /\ pc[t] = "mark" /\ f \in Fut /\ Born(f) /\ refs[f] > 0 /\ f \in freeCalled
      /\ \A g \in Fut : completed'[g] = IF g = f THEN -1 ELSE completed[g]
      /\ \A u \in Thread : pc'[u] = IF u = t THEN "release" ELSE pc[u]
      /\ UNCHANGED <<owner, refs, registered, deallocs, freeCalled, jobs, spawned, queue,
                     submitted, cur, owed>>
      /\ completed[f] \in {-1, 0, 1}
  BY <1>0, CallFuture DEF Mark, Goto, DoneInv, Flags, IInv, TypeOK, Body
<1>2. ASSUME NEW g \in Fut PROVE Ideal!Step(g) \/ Ideal!Stays(g)
  <2>1. HoldersOf(g)' = HoldersOf(g) /\ AsleepOn(g)' = AsleepOn(g)
    BY <1>1, SameHoldersLook, SameAsleepLook
  <2>2. CASE g # f \/ completed[f] = -1
    <3>1. SameLook(g)
      BY <1>1, <2>1, <2>2, SameFlagLook DEF SameLook
    <3>2. QED
      BY <3>1, SameLookStays
  <2>3. CASE g = f /\ completed[f] # -1
    <3>1. FlagOf(f) \in {"pending", "ready"} /\ FlagOf(f)' = "abandoned"
      BY <1>1, <2>3 DEF FlagOf, Born
    <3>2. HoldersOf(f) # {}
      BY <1>1, HoldersExist
    <3>3. HoldersOf(f) \cap ({"owner"} \X Caller) = {}
      BY <1>1 DEF HoldersOf
    <3>4. Ideal!Abandon(f)
      BY <1>1, <2>1, <2>3, <3>1, <3>2, <3>3
         DEF Ideal!Abandon, Ideal!SameHolders, Ideal!SameMemory, Ideal!SameWaiting, Ideal!Flag,
             Ideal!Hold, Ideal!Asleep, Ideal!Memory
    <3>5. QED
      BY <2>3, <3>4 DEF Ideal!Step
  <2>4. QED
    BY <2>2, <2>3
<1>3. QED
  BY <1>2 DEF Ideal!Next

\* await goes to sleep on a pending future, having looked under the lock.
LEMMA CheckShows ==
  ASSUME IInv, DoneInv, NEW t \in Thread, Check(t)
  PROVE  Ideal!Next
<1>0. PICK f \in Fut : f = cur[t]
  BY DEF IInv, TypeOK
<1>1. /\ pc[t] \in {"check", "locked"} /\ f \in Fut /\ Born(f) /\ owed[t][f] > 0
      /\ \A u \in Thread : u # t => pc'[u] = pc[u]
      /\ pc'[t] \in {"release", "locked", "asleep"}
      /\ pc'[t] = "asleep" => completed[f] = 0
      /\ UNCHANGED <<owner, completed, refs, registered, deallocs, freeCalled, jobs, spawned,
                     queue, submitted, cur, owed>>
  BY <1>0, CallFuture DEF Check, Goto, header, DoneInv, Holding, IInv, TypeOK, Body
<1>2. ASSUME NEW g \in Fut PROVE Ideal!Step(g) \/ Ideal!Stays(g)
  <2>1. CASE g # f \/ pc'[t] # "asleep"
    <3>1. \A u \in Thread : (pc'[u] = "asleep" /\ cur'[u] = g) <=> (pc[u] = "asleep" /\ cur[u] = g)
      BY <1>1, <1>0, <2>1
    <3>2. QED
      BY <1>1, <3>1, QuietShows
  <2>2. CASE g = f /\ pc'[t] = "asleep"
    <3>1. HoldersOf(f)' = HoldersOf(f) /\ FlagOf(f)' = FlagOf(f)
      BY <1>1, SameHoldersLook, SameFlagLook
    <3>2. FlagOf(f) = "pending"
      BY <1>1, <2>2 DEF FlagOf, Born
    <3>3. <<"call", t>> \in HoldersOf(f)
      BY <1>1 DEF HoldersOf
    <3>4. AsleepOn(f)' = AsleepOn(f) \cup {t}
      BY <1>1, <1>0, <2>2 DEF AsleepOn
    <3>5. {"call"} \X AsleepOn(f)' = ({"call"} \X AsleepOn(f)) \cup {<<"call", t>>}
      BY <3>4
    <3>6. Ideal!Sleep(f, <<"call", t>>)
      BY <1>1, <3>1, <3>2, <3>3, <3>5
         DEF Ideal!Sleep, Ideal!SameHolders, Ideal!SameMemory, Ideal!SameFlag, Ideal!Flag,
             Ideal!Hold, Ideal!Asleep, Ideal!Memory
    <3>7. QED
      BY <2>2, <3>6 DEF Ideal!Step
  <2>3. QED
    BY <2>1, <2>2
<1>3. QED
  BY <1>2 DEF Ideal!Next

\* The steps that no future's callers can see.
LEMMA HiddenShows ==
  ASSUME IInv, DoneInv, NEW t \in Thread, Read(t) \/ PollPends(t) \/ PollCompletes(t)
  PROVE  Ideal!Next
<1>1. /\ pc[t] # "asleep" /\ pc'[t] # "asleep"
      /\ \A u \in Thread : u # t => pc'[u] = pc[u] /\ cur'[u] = cur[u] /\ owed'[u] = owed[u]
      /\ UNCHANGED <<owner, completed, registered, deallocs, freeCalled, jobs, queue>>
  BY DEF Read, PollPends, PollCompletes, Enter, Goto, header, IInv, TypeOK
<1>2. \A g \in Fut : owed'[t][g] > 0 <=> owed[t][g] > 0
  <2>1. CASE UNCHANGED owed
    BY <2>1
  <2>2. CASE PollCompletes(t) /\ Retainable(cur[t])
    <3>1. pc[t] = "poll" /\ cur[t] \in Fut /\ owed[t][cur[t]] = 1
      BY <2>2 DEF PollCompletes, IInv, TypeOK, Calls
    <3>2. owed' = [owed EXCEPT ![t][cur[t]] = 2]
      BY <2>2 DEF PollCompletes, Enter
    <3>3. QED
      BY <3>1, <3>2 DEF IInv, TypeOK
  <2>3. QED
    BY <2>1, <2>2 DEF Read, PollPends, PollCompletes
<1>3. ASSUME NEW g \in Fut PROVE Ideal!Stays(g)
  BY <1>1, <1>2, QuietShows
<1>4. QED
  BY <1>3 DEF Ideal!Next

\* Thread t, awake before and after, changes hands of f and of no other future.
LEMMA HandsShow ==
  ASSUME IInv, NEW t \in Thread, NEW f \in Fut,
         pc[t] # "asleep", pc'[t] # "asleep",
         \A u \in Thread : u # t => pc'[u] = pc[u] /\ cur'[u] = cur[u] /\ owed'[u] = owed[u],
         UNCHANGED <<owner, completed, registered, deallocs>>,
         \A g \in Fut : g # f =>
           /\ (g \in freeCalled' <=> g \in freeCalled) /\ (g \in jobs' <=> g \in jobs)
           /\ (g \in queue' <=> g \in queue) /\ (owed'[t][g] > 0 <=> owed[t][g] > 0),
         NEW S, HoldersOf(f)' = S,
         Hands(t, f, S) => Ideal!Step(f) \/ Ideal!Stays(f)
  PROVE  Ideal!Next
<1>1. ASSUME NEW g \in Fut PROVE AsleepOn(g)' = AsleepOn(g) /\ FlagOf(g)' = FlagOf(g)
  BY SameAsleepLook, SameFlagLook
<1>2. ASSUME NEW g \in Fut, g # f PROVE Ideal!Stays(g)
  <2>1. HoldersOf(g)' = HoldersOf(g)
    BY <1>2, SameHoldersLook
  <2>2. SameLook(g)
    BY <1>1, <2>1 DEF SameLook
  <2>3. QED
    BY <2>2, SameLookStays
<1>3. Hands(t, f, S)
  BY <1>1 DEF Hands
<1>4. QED
  BY <1>2, <1>3 DEF Ideal!Next

LEMMA HoldersThen ==
  ASSUME NEW f
  PROVE  HoldersOf(f)' = Roles(CallsOn(f)', OwnersOf(f)', {f} \cap jobs', {f} \cap queue')
  BY DEF HoldersOf, Roles, CallsOn, OwnersOf

\* A call begins: the caller joins the holders, or takes the owner's place.
LEMMA CallShows ==
  ASSUME IInv, NEW t \in Caller, NEW f \in Fut, NEW l \in {"set", "read", "check", "push"},
         Call(t, f, l)
  PROVE  Ideal!Next
<1>1. t \in Thread
  BY DEF Thread
<1>2. /\ pc[t] = "idle" /\ pc'[t] = l /\ Retainable(f)
      /\ \A u \in Thread : u # t => pc'[u] = pc[u] /\ cur'[u] = cur[u] /\ owed'[u] = owed[u]
      /\ \A g \in Fut : owed'[t][g] = IF g = f THEN 1 ELSE owed[t][g]
      /\ UNCHANGED <<owner, completed, registered, deallocs, freeCalled, jobs, queue>>
  BY <1>1 DEF Call, Enter, IInv, TypeOK
<1>3. CallsOn(f)' = CallsOn(f) \cup {t} /\ OwnersOf(f)' = OwnersOf(f)
  BY <1>1, <1>2 DEF CallsOn, OwnersOf
<1>4. HoldersOf(f)' = HoldersOf(f) \cup {<<"call", t>>}
  <2>1. HoldersOf(f)' = Roles(CallsOn(f) \cup {t}, OwnersOf(f), {f} \cap jobs, {f} \cap queue)
    BY <1>2, <1>3, HoldersThen
  <2>2. Roles(CallsOn(f) \cup {t}, OwnersOf(f), {f} \cap jobs, {f} \cap queue) =
          Roles(CallsOn(f), OwnersOf(f), {f} \cap jobs, {f} \cap queue) \cup {<<"call", t>>}
    BY DEF Roles
  <2>3. QED
    BY <2>1, <2>2, HoldersAre, Zenon
<1>5. <<"call", t>> \in MayHold
  BY <1>1 DEF MayHold
<1>6. QED
  BY <1>1, <1>2, <1>4, <1>5, HandsShare, HandsShow

LEMMA FreeShows ==
  ASSUME IInv, NEW t \in Caller, NEW f \in Fut, Free(t, f)
  PROVE  Ideal!Next
<1>1. t \in Thread
  BY DEF Thread
<1>2. /\ pc[t] = "idle" /\ pc'[t] = "mark" /\ t \in owner[f] /\ f \notin freeCalled
      /\ \A u \in Thread : u # t => pc'[u] = pc[u] /\ cur'[u] = cur[u] /\ owed'[u] = owed[u]
      /\ \A g \in Fut : owed'[t][g] = IF g = f THEN 2 ELSE owed[t][g]
      /\ freeCalled' = freeCalled \cup {f}
      /\ UNCHANGED <<owner, completed, registered, deallocs, jobs, queue>>
  BY <1>1 DEF Free, Enter, IInv, TypeOK
<1>3. owner[f] = {t}
  BY <1>2 DEF IInv, Life, LifeOf, Born
<1>4. CallsOn(f)' = CallsOn(f) \cup {t} /\ OwnersOf(f) = {t} /\ OwnersOf(f)' = OwnersOf(f) \ {t}
  BY <1>1, <1>2, <1>3 DEF CallsOn, OwnersOf
<1>5. HoldersOf(f)' = (HoldersOf(f) \ {<<"owner", t>>}) \cup {<<"call", t>>}
  <2>1. HoldersOf(f)' = Roles(CallsOn(f) \cup {t}, OwnersOf(f) \ {t}, {f} \cap jobs, {f} \cap queue)
    BY <1>2, <1>4, HoldersThen
  <2>2. Roles(CallsOn(f) \cup {t}, OwnersOf(f) \ {t}, {f} \cap jobs, {f} \cap queue) =
          (Roles(CallsOn(f), OwnersOf(f), {f} \cap jobs, {f} \cap queue) \ {<<"owner", t>>}) \cup {<<"call", t>>}
    BY DEF Roles
  <2>3. QED
    BY <2>1, <2>2, HoldersAre, Zenon
<1>6. /\ <<"call", t>> \in MayHold /\ <<"owner", t>> \in MayHold
      /\ <<"owner", t>> \notin {"call"} \X AsleepOn(f)
  BY <1>1 DEF MayHold
<1>7. <<"owner", t>> \in HoldersOf(f)
  BY <1>2, <1>3 DEF HoldersOf
<1>8. QED
  BY <1>1, <1>2, <1>5, <1>6, <1>7, HandsPass, HandsShow

LEMMA SpawnShows ==
  ASSUME IInv, NEW t \in Caller, NEW f \in Fut, Spawn(t, f)
  PROVE  Ideal!Next
<1>1. t \in Thread
  BY DEF Thread
<1>2. /\ pc[t] = "idle" /\ Retainable(f) /\ jobs' = jobs \cup {f}
      /\ UNCHANGED <<owner, completed, registered, deallocs, freeCalled, queue, pc, cur, owed>>
  BY DEF Spawn
<1>3. CallsOn(f)' = CallsOn(f) /\ OwnersOf(f)' = OwnersOf(f)
  BY <1>2 DEF CallsOn, OwnersOf
<1>4. {f} \cap jobs' = ({f} \cap jobs) \cup {f}
  BY <1>2
<1>5. HoldersOf(f)' = HoldersOf(f) \cup {<<"job", f>>}
  <2>1. HoldersOf(f)' = Roles(CallsOn(f), OwnersOf(f), ({f} \cap jobs) \cup {f}, {f} \cap queue)
    BY <1>2, <1>3, <1>4, HoldersThen
  <2>2. Roles(CallsOn(f), OwnersOf(f), ({f} \cap jobs) \cup {f}, {f} \cap queue) =
          Roles(CallsOn(f), OwnersOf(f), {f} \cap jobs, {f} \cap queue) \cup {<<"job", f>>}
    BY DEF Roles
  <2>3. QED
    BY <2>1, <2>2, HoldersAre, Zenon
<1>6. <<"job", f>> \in MayHold
  BY DEF MayHold
<1>7. QED
  BY <1>1, <1>2, <1>5, <1>6, HandsShare, HandsShow

\* A worker takes a job, or the executor an entry of its queue.
LEMMA TakeShows ==
  ASSUME IInv, NEW t \in Thread, NEW f \in Fut, TakeJob(t, f) \/ RunOne(t, f)
  PROVE  Ideal!Next
<1>1. /\ pc[t] = "idle" /\ pc'[t] = "poll"
      /\ \A u \in Thread : u # t => pc'[u] = pc[u] /\ cur'[u] = cur[u] /\ owed'[u] = owed[u]
      /\ \A g \in Fut : owed'[t][g] = IF g = f THEN 1 ELSE owed[t][g]
      /\ UNCHANGED <<owner, completed, registered, deallocs, freeCalled>>
  BY DEF TakeJob, RunOne, Goto, header, IInv, TypeOK
<1>2. CallsOn(f)' = CallsOn(f) \cup {t} /\ OwnersOf(f)' = OwnersOf(f)
  BY <1>1 DEF CallsOn, OwnersOf
<1>3. <<"call", t>> \in MayHold /\ <<"job", f>> \in MayHold /\ <<"queue", f>> \in MayHold
  BY DEF MayHold
<1>4. <<"job", f>> \notin {"call"} \X AsleepOn(f) /\ <<"queue", f>> \notin {"call"} \X AsleepOn(f)
  OBVIOUS
<1>5. CASE TakeJob(t, f)
  <2>1. f \in jobs /\ jobs' = jobs \ {f} /\ UNCHANGED queue
    BY <1>5 DEF TakeJob
  <2>2. {f} \cap jobs' = ({f} \cap jobs) \ {f}
    BY <2>1
  <2>3. HoldersOf(f)' = (HoldersOf(f) \ {<<"job", f>>}) \cup {<<"call", t>>}
    <3>1. HoldersOf(f)' = Roles(CallsOn(f) \cup {t}, OwnersOf(f), ({f} \cap jobs) \ {f}, {f} \cap queue)
      BY <1>2, <2>1, <2>2, HoldersThen
    <3>2. Roles(CallsOn(f) \cup {t}, OwnersOf(f), ({f} \cap jobs) \ {f}, {f} \cap queue) =
            (Roles(CallsOn(f), OwnersOf(f), {f} \cap jobs, {f} \cap queue) \ {<<"job", f>>}) \cup {<<"call", t>>}
      BY DEF Roles
    <3>3. QED
      BY <3>1, <3>2, HoldersAre, Zenon
  <2>4. <<"job", f>> \in HoldersOf(f)
    BY <2>1 DEF HoldersOf
  <2>5. QED
    BY <1>1, <1>3, <1>4, <2>1, <2>3, <2>4, HandsPass, HandsShow
<1>6. CASE RunOne(t, f)
  <2>1. f \in queue /\ queue' = queue \ {f} /\ UNCHANGED jobs
    BY <1>6 DEF RunOne
  <2>2. {f} \cap queue' = ({f} \cap queue) \ {f}
    BY <2>1
  <2>3. HoldersOf(f)' = (HoldersOf(f) \ {<<"queue", f>>}) \cup {<<"call", t>>}
    <3>1. HoldersOf(f)' = Roles(CallsOn(f) \cup {t}, OwnersOf(f), {f} \cap jobs, ({f} \cap queue) \ {f})
      BY <1>2, <2>1, <2>2, HoldersThen
    <3>2. Roles(CallsOn(f) \cup {t}, OwnersOf(f), {f} \cap jobs, ({f} \cap queue) \ {f}) =
            (Roles(CallsOn(f), OwnersOf(f), {f} \cap jobs, {f} \cap queue) \ {<<"queue", f>>}) \cup {<<"call", t>>}
      BY DEF Roles
    <3>3. QED
      BY <3>1, <3>2, HoldersAre, Zenon
  <2>4. <<"queue", f>> \in HoldersOf(f)
    BY <2>1 DEF HoldersOf
  <2>5. QED
    BY <1>1, <1>3, <1>4, <2>1, <2>3, <2>4, HandsPass, HandsShow
<1>7. QED
  BY <1>5, <1>6

\* mimi_executor_spawn leaves its reference to the queue.
LEMMA PushShows ==
  ASSUME IInv, NEW t \in Thread, Push(t)
  PROVE  Ideal!Next
<1>0. PICK f \in Fut : f = cur[t]
  BY DEF IInv, TypeOK
<1>1. /\ pc[t] = "push" /\ owed[t][f] = 1 /\ queue' = queue \cup {f}
      /\ UNCHANGED <<owner, completed, registered, deallocs, freeCalled, jobs, cur>>
  BY <1>0 DEF Push, header, IInv, Calls
<1>2. CASE f \in queue
  <2>1. queue' = queue /\ owed' = owed /\ Goto(t, "release")
    BY <1>0, <1>1, <1>2 DEF Push
  <2>2. \A u \in Thread : pc'[u] = "asleep" <=> pc[u] = "asleep"
    BY <1>1, <2>1 DEF Goto, IInv, TypeOK
  <2>3. ASSUME NEW g \in Fut PROVE Ideal!Stays(g)
    BY <1>1, <2>1, <2>2, QuietShows
  <2>4. QED
    BY <2>3 DEF Ideal!Next
<1>3. CASE f \notin queue
  <2>1. Goto(t, "idle") /\ owed' = [owed EXCEPT ![t][f] = 0]
    BY <1>0, <1>3 DEF Push
  <2>2. /\ pc'[t] = "idle"
        /\ \A u \in Thread : u # t => pc'[u] = pc[u] /\ cur'[u] = cur[u] /\ owed'[u] = owed[u]
        /\ \A g \in Fut : owed'[t][g] = IF g = f THEN 0 ELSE owed[t][g]
    BY <1>1, <2>1 DEF Goto, IInv, TypeOK
  <2>3. /\ CallsOn(f)' = CallsOn(f) \ {t} /\ OwnersOf(f)' = OwnersOf(f)
        /\ {f} \cap queue' = ({f} \cap queue) \cup {f}
    BY <1>1, <2>2 DEF CallsOn, OwnersOf
  <2>4. HoldersOf(f)' = (HoldersOf(f) \ {<<"call", t>>}) \cup {<<"queue", f>>}
    <3>1. HoldersOf(f)' = Roles(CallsOn(f) \ {t}, OwnersOf(f), {f} \cap jobs, ({f} \cap queue) \cup {f})
      BY <1>1, <2>3, HoldersThen
    <3>2. Roles(CallsOn(f) \ {t}, OwnersOf(f), {f} \cap jobs, ({f} \cap queue) \cup {f}) =
            (Roles(CallsOn(f), OwnersOf(f), {f} \cap jobs, {f} \cap queue) \ {<<"call", t>>})
              \cup {<<"queue", f>>}
      BY DEF Roles
    <3>3. QED
      BY <3>1, <3>2, HoldersAre, Zenon
  <2>5. /\ <<"call", t>> \in MayHold /\ <<"queue", f>> \in MayHold
        /\ <<"call", t>> \in HoldersOf(f) /\ <<"call", t>> \notin {"call"} \X AsleepOn(f)
    BY <1>1 DEF MayHold, HoldersOf, AsleepOn
  <2>6. \A g \in Fut : g # f =>
          /\ (g \in freeCalled' <=> g \in freeCalled) /\ (g \in jobs' <=> g \in jobs)
          /\ (g \in queue' <=> g \in queue) /\ (owed'[t][g] > 0 <=> owed[t][g] > 0)
    BY <1>1, <2>2
  <2>7. QED
    BY <1>1, <2>2, <2>4, <2>5, <2>6, HandsPass, HandsShow
<1>4. QED
  BY <1>2, <1>3

\* mimi_executor_run takes over every entry of a queue with nothing pending.
LEMMA RunDrainShows ==
  ASSUME IInv, NEW t \in Thread, RunDrain(t)
  PROVE  Ideal!Next
<1>1. /\ pc[t] = "idle" /\ pc'[t] = "release" /\ queue' = {}
      /\ \A u \in Thread : u # t => pc'[u] = pc[u] /\ owed'[u] = owed[u]
      /\ \A g \in Fut : owed[t][g] = 0 /\ owed'[t][g] = IF g \in queue THEN 1 ELSE 0
      /\ UNCHANGED <<owner, completed, registered, deallocs, freeCalled, jobs, cur>>
  BY DEF RunDrain, Goto, header, IInv, TypeOK, Calls
<1>2. ASSUME NEW g \in Fut PROVE Ideal!Step(g) \/ Ideal!Stays(g)
  <2>1. CASE g \notin queue
    <3>1. (g \in queue' <=> g \in queue) /\ \A u \in Thread : owed'[u][g] > 0 <=> owed[u][g] > 0
      BY <1>1, <2>1
    <3>2. \A u \in Thread : pc'[u] = "asleep" <=> pc[u] = "asleep"
      BY <1>1
    <3>3. QED
      BY <1>1, <3>1, <3>2, QuietShows
  <2>2. CASE g \in queue
    <3>1. /\ CallsOn(g)' = CallsOn(g) \cup {t} /\ OwnersOf(g)' = OwnersOf(g)
          /\ {g} \cap queue' = ({g} \cap queue) \ {g}
      BY <1>1, <2>2 DEF CallsOn, OwnersOf
    <3>2. HoldersOf(g)' = (HoldersOf(g) \ {<<"queue", g>>}) \cup {<<"call", t>>}
      <4>1. HoldersOf(g)' = Roles(CallsOn(g) \cup {t}, OwnersOf(g), {g} \cap jobs, ({g} \cap queue) \ {g})
        BY <1>1, <3>1, HoldersThen
      <4>2. Roles(CallsOn(g) \cup {t}, OwnersOf(g), {g} \cap jobs, ({g} \cap queue) \ {g}) =
              (Roles(CallsOn(g), OwnersOf(g), {g} \cap jobs, {g} \cap queue) \ {<<"queue", g>>})
                \cup {<<"call", t>>}
        BY DEF Roles
      <4>3. QED
        BY <4>1, <4>2, HoldersAre, Zenon
    <3>3. FlagOf(g)' = FlagOf(g) /\ AsleepOn(g)' = AsleepOn(g)
      BY <1>1, SameFlagLook, SameAsleepLook
    <3>4. Hands(t, g, (HoldersOf(g) \ {<<"queue", g>>}) \cup {<<"call", t>>})
      BY <1>1, <3>2, <3>3 DEF Hands
    <3>5. /\ <<"call", t>> \in MayHold /\ <<"queue", g>> \in MayHold
          /\ <<"queue", g>> \in HoldersOf(g) /\ <<"queue", g>> \notin {"call"} \X AsleepOn(g)
      BY <2>2 DEF MayHold, HoldersOf
    <3>6. QED
      BY <3>4, <3>5, HandsPass
  <2>3. QED
    BY <2>1, <2>2
<1>3. QED
  BY <1>2 DEF Ideal!Next

\* A release shows when it is the thread's last one of that future.
LEMMA ReleaseShows ==
  ASSUME IInv, NEW t \in Thread, NEW f \in Fut, Release(t, f)
  PROVE  Ideal!Next
<1>1. /\ pc[t] = "release" /\ pc'[t] # "asleep" /\ owed[t][f] \in 1 .. 2
      /\ \A u \in Thread : u # t => pc'[u] = pc[u] /\ cur'[u] = cur[u] /\ owed'[u] = owed[u]
      /\ \A g \in Fut : owed'[t][g] = IF g = f THEN owed[t][f] - 1 ELSE owed[t][g]
      /\ UNCHANGED <<owner, completed, registered, deallocs, freeCalled, jobs, queue>>
  BY DEF Release, Goto, Returned, IInv, TypeOK
<1>2. OwnersOf(f)' = OwnersOf(f)
  BY <1>1 DEF OwnersOf
<1>3. CASE owed[t][f] = 2
  <2>1. ASSUME NEW g \in Fut PROVE Ideal!Stays(g)
    <3>1. \A u \in Thread : owed'[u][g] > 0 <=> owed[u][g] > 0
      BY <1>1, <1>3
    <3>2. \A u \in Thread : (pc'[u] = "asleep" /\ cur'[u] = g) <=> (pc[u] = "asleep" /\ cur[u] = g)
      BY <1>1
    <3>3. QED
      BY <1>1, <3>1, <3>2, QuietShows
  <2>2. QED
    BY <2>1 DEF Ideal!Next
<1>4. CASE owed[t][f] = 1
  <2>1. CallsOn(f)' = CallsOn(f) \ {t}
    BY <1>1, <1>4 DEF CallsOn
  <2>2. HoldersOf(f)' = HoldersOf(f) \ {<<"call", t>>}
    <3>1. HoldersOf(f)' = Roles(CallsOn(f) \ {t}, OwnersOf(f), {f} \cap jobs, {f} \cap queue)
      BY <1>1, <1>2, <2>1, HoldersThen
    <3>2. Roles(CallsOn(f) \ {t}, OwnersOf(f), {f} \cap jobs, {f} \cap queue) =
            Roles(CallsOn(f), OwnersOf(f), {f} \cap jobs, {f} \cap queue) \ {<<"call", t>>}
      BY DEF Roles
    <3>3. QED
      BY <3>1, <3>2, HoldersAre, Zenon
  <2>3. /\ <<"call", t>> \in MayHold
        /\ <<"call", t>> \in HoldersOf(f) /\ <<"call", t>> \notin {"call"} \X AsleepOn(f)
    BY <1>1 DEF MayHold, HoldersOf, AsleepOn
  <2>4. QED
    BY <1>1, <2>2, <2>3, HandsLeave, HandsShow
<1>5. QED
  BY <1>1, <1>3, <1>4

\* The thread that dropped the last reference forgets the address, ...
LEMMA UnregisterShows ==
  ASSUME IInv, NEW t \in Thread, Unregister(t)
  PROVE  Ideal!Next
<1>0. PICK f \in Fut : f = cur[t]
  BY DEF IInv, TypeOK
<1>1. /\ pc[t] = "unregister" /\ registered' = registered \ {f}
      /\ \A u \in Thread : pc'[u] = "asleep" <=> pc[u] = "asleep"
      /\ UNCHANGED <<owner, completed, deallocs, freeCalled, jobs, queue, cur, owed>>
  BY <1>0 DEF Unregister, Goto, IInv, TypeOK
<1>2. refs[f] = 0 /\ f \in registered /\ Born(f)
  BY <1>0, <1>1 DEF IInv, Life, LifeOf, Ending
<1>3. ASSUME NEW g \in Fut PROVE Ideal!Step(g) \/ Ideal!Stays(g)
  <2>1. HoldersOf(g)' = HoldersOf(g) /\ FlagOf(g)' = FlagOf(g) /\ AsleepOn(g)' = AsleepOn(g)
    BY <1>1, SameHoldersLook, SameFlagLook, SameAsleepLook
  <2>2. CASE g # f
    <3>1. SameLook(g)
      BY <1>1, <2>1, <2>2 DEF SameLook
    <3>2. QED
      BY <3>1, SameLookStays
  <2>3. CASE g = f
    <3>1. HoldersOf(f) = {} /\ FlagOf(f) # "unborn"
      BY <1>2, HoldersExist DEF FlagOf, Born
    <3>2. Ideal!Forget(f)
      BY <1>1, <1>2, <2>1, <2>3, <3>1
         DEF Ideal!Forget, Ideal!SameHolders, Ideal!SameWaiting, Ideal!SameFlag, Ideal!Flag,
             Ideal!Hold, Ideal!Asleep, Ideal!Memory
    <3>3. QED
      BY <2>3, <3>2 DEF Ideal!Step
  <2>4. QED
    BY <2>2, <2>3
<1>4. QED
  BY <1>3 DEF Ideal!Next

\* ... and then gives the memory back.
LEMMA DeallocShows ==
  ASSUME IInv, NEW t \in Thread, Dealloc(t)
  PROVE  Ideal!Next
<1>0. PICK f \in Fut : f = cur[t]
  BY DEF IInv, TypeOK
<1>1. /\ pc[t] = "dealloc"
      /\ \A g \in Fut : deallocs'[g] = IF g = f THEN deallocs[f] + 1 ELSE deallocs[g]
      /\ \A u \in Thread : pc'[u] = "asleep" <=> pc[u] = "asleep"
      /\ UNCHANGED <<owner, completed, registered, freeCalled, jobs, queue, cur, owed>>
  BY <1>0 DEF Dealloc, Goto, Returned, IInv, TypeOK
<1>2. refs[f] = 0 /\ f \notin registered /\ deallocs[f] = 0 /\ Born(f)
  BY <1>0, <1>1 DEF IInv, Life, LifeOf, Ending
<1>3. ASSUME NEW g \in Fut PROVE Ideal!Step(g) \/ Ideal!Stays(g)
  <2>1. HoldersOf(g)' = HoldersOf(g) /\ FlagOf(g)' = FlagOf(g) /\ AsleepOn(g)' = AsleepOn(g)
    BY <1>1, SameHoldersLook, SameFlagLook, SameAsleepLook
  <2>2. CASE g # f
    <3>1. SameLook(g)
      BY <1>1, <2>1, <2>2 DEF SameLook
    <3>2. QED
      BY <3>1, SameLookStays
  <2>3. CASE g = f
    <3>1. HoldersOf(f) = {} /\ FlagOf(f) # "unborn" /\ deallocs'[f] = 1
      BY <1>1, <1>2, HoldersExist DEF FlagOf, Born
    <3>2. Ideal!Collect(f)
      BY <1>1, <1>2, <2>1, <2>3, <3>1
         DEF Ideal!Collect, Ideal!SameHolders, Ideal!SameWaiting, Ideal!SameFlag, Ideal!Flag,
             Ideal!Hold, Ideal!Asleep, Ideal!Memory
    <3>3. QED
      BY <2>3, <3>2 DEF Ideal!Step
  <2>4. QED
    BY <2>2, <2>3
<1>4. QED
  BY <1>3 DEF Ideal!Next

\* mimi_future_alloc creates a future that nobody held.
LEMMA AllocShows ==
  ASSUME IInv, DoneInv, NEW t \in Caller, NEW f \in Fut, Alloc(t, f)
  PROVE  Ideal!Next
<1>1. /\ owner[f] = {} /\ \A g \in Fut : owner'[g] = IF g = f THEN {t} ELSE owner[g]
      /\ registered' = registered \cup {f}
      /\ UNCHANGED <<completed, deallocs, freeCalled, jobs, queue, pc, cur, owed>>
  BY DEF Alloc, IInv, TypeOK
<1>2. ~Born(f) /\ refs[f] = 0 /\ deallocs[f] = 0 /\ f \notin freeCalled /\ completed[f] = 0
  BY <1>1 DEF Born, IInv, Life, LifeOf, DoneInv, Flags
<1>3. HoldersOf(f) = {}
  BY <1>2, HoldersExist
<1>4. ASSUME NEW g \in Fut PROVE Ideal!Step(g) \/ Ideal!Stays(g)
  <2>1. CASE g # f
    BY <1>1, <2>1, QuietShows
  <2>2. CASE g = f
    <3>1. AsleepOn(f)' = AsleepOn(f)
      BY <1>1, SameAsleepLook
    <3>2. FlagOf(f) = "unborn" /\ FlagOf(f)' = "pending"
      BY <1>1, <1>2 DEF FlagOf
    <3>3. HoldersOf(f)' = {<<"owner", t>>}
      <4>1. CallsOn(f)' = CallsOn(f) /\ OwnersOf(f)' = {t}
        BY <1>1, <1>2 DEF CallsOn, OwnersOf
      <4>2. CallsOn(f) = {} /\ {f} \cap jobs = {} /\ {f} \cap queue = {}
        <5>1. Roles(CallsOn(f), OwnersOf(f), {f} \cap jobs, {f} \cap queue) = {}
          BY <1>3, HoldersAre
        <5>2. QED
          BY <5>1, RolesEmpty
      <4>3. HoldersOf(f)' = Roles({}, {t}, {}, {})
        BY <1>1, <4>1, <4>2, HoldersThen
      <4>4. Roles({}, {t}, {}, {}) = {<<"owner", t>>}
        BY DEF Roles
      <4>5. QED
        BY <4>3, <4>4
    <3>4. Ideal!Create(f, <<"owner", t>>)
      BY <1>1, <1>2, <3>1, <3>2, <3>3
         DEF Ideal!Create, Ideal!SameWaiting, Ideal!Flag, Ideal!Hold, Ideal!Asleep, Ideal!Memory
    <3>5. QED
      BY <2>2, <3>4 DEF Ideal!Step
  <2>3. QED
    BY <2>1, <2>2
<1>5. QED
  BY <1>4 DEF Ideal!Next

LEMMA StepShows ==
  ASSUME IInv, DoneInv, Next
  PROVE  Ideal!Next
<1>1. ASSUME NEW t \in Thread, CallStep(t) \/ PollPends(t) PROVE Ideal!Next
  BY <1>1, ReleaseShows, UnregisterShows, DeallocShows, HiddenShows, SetShows, CheckShows,
     MarkShows, PushShows DEF CallStep
<1>2. Caller \subseteq Thread /\ Worker \subseteq Thread
  BY DEF Thread
<1>3. QED
  BY <1>1, <1>2, AllocShows, CallShows, FreeShows, SpawnShows, TakeShows, RunDrainShows DEF Next

LEMMA StutterShows ==
  ASSUME UNCHANGED vars
  PROVE  UNCHANGED Ideal!vars
<1>1. ASSUME NEW f \in Fut
      PROVE  FlagOf(f)' = FlagOf(f) /\ HoldersOf(f)' = HoldersOf(f) /\ AsleepOn(f)' = AsleepOn(f)
  BY SameFlagLook, SameHoldersLook, SameAsleepLook DEF vars, header
<1>2. QED
  BY <1>1 DEF vars, header, Ideal!vars

LEMMA InitShows ==
  ASSUME Init
  PROVE  Ideal!Init
<1>1. ASSUME NEW f \in Fut
      PROVE  FlagOf(f) = "unborn" /\ HoldersOf(f) = {} /\ {"call"} \X AsleepOn(f) = {}
  BY DEF Init, FlagOf, HoldersOf, AsleepOn
<1>2. QED
  BY <1>1 DEF Init, Ideal!Init

\* The runtime's futures implement the abstract ones, for any number of
\* futures, callers and workers: counts, registry, jobs and the queue of the
\* executor amount to a set of holders, and the condition variable to sleepers
\* that a completion never leaves behind.
THEOREM FutureRefinement == Spec => ImplementsFutureLife
<1>1. IInv /\ DoneInv /\ [Next]_vars => [Ideal!Next]_(Ideal!vars)
  BY StepShows, StutterShows
<1>2. Init => Ideal!Init
  BY InitShows
<1>3. QED
  BY <1>1, <1>2, DoneInit, DoneNext, Invariance, PTL DEF Spec, ImplementsFutureLife, Ideal!Spec

=============================================================================
