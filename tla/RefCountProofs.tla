--------------------------- MODULE RefCountProofs ---------------------------
(***************************************************************************)
(* The counts of a shared value, for any number of threads and references. *)
(* The references are counted as a set of tokens, one for each, so that an *)
(* operation adds or removes one element of it.                            *)
(***************************************************************************)
EXTENDS RefCount, FiniteSetTheorems, TLAPS

USE RefAssumption

S == [t \in Thread |-> own[t].s]
W == [t \in Thread |-> own[t].w]

\* The thread that took the strong count to zero, or the weak count, looks at
\* the other one next.
Checks == {"weak_check", "strong_check"}

\* No strong reference appears once there is none.
Final ==
  /\ \A t \in Thread : pc[t] = "weak_check" => strong = 0
  /\ \A t \in Thread : pc[t] = "up_cas" => seen[t].s > 0
  /\ frees > 0 => strong = 0

\* When there are no references, someone deallocated or is about to look.
Duty ==
  strong = 0 /\ weak = 0 => frees > 0 \/ \E t \in Thread : pc[t] \in Checks

IInv == TypeOK /\ CountsExact /\ Final /\ Duty

----------------------------------------------------------------------------
(* Tokens *)

Tallies == [Thread -> 0 .. MaxRefs]

LEMMA OwnedFinite ==
  ASSUME NEW c
  PROVE  IsFiniteSet(Owned(c)) /\ Cardinality(Owned(c)) \in Nat
<1>1. IsFiniteSet(1 .. MaxRefs)
  BY FS_Interval
<1>2. IsFiniteSet(Thread \X (1 .. MaxRefs))
  BY <1>1, FS_Product
<1>3. Owned(c) \in SUBSET (Thread \X (1 .. MaxRefs))
  BY DEF Owned
<1>4. IsFiniteSet(Owned(c))
  BY <1>2, <1>3, FS_Subset
<1>5. QED
  BY <1>4, FS_CardinalityType

LEMMA OwnedUp ==
  ASSUME NEW c \in Tallies, NEW t \in Thread, c[t] < MaxRefs
  PROVE  Cardinality(Owned([c EXCEPT ![t] = @ + 1])) = Cardinality(Owned(c)) + 1
<1> DEFINE d == [c EXCEPT ![t] = @ + 1]
           x == <<t, c[t] + 1>>
<1>1. c[t] \in 0 .. MaxRefs
  BY DEF Tallies
<1>2. x \in Thread \X (1 .. MaxRefs) /\ x \notin Owned(c)
  BY <1>1 DEF Owned
<1>3. Owned(d) = Owned(c) \cup {x}
  <2>1. ASSUME NEW u \in Thread, NEW i \in 1 .. MaxRefs
        PROVE  i <= d[u] <=> i <= c[u] \/ <<u, i>> = x
    BY <1>1 DEF Tallies
  <2>2. QED
    BY <1>2, <2>1 DEF Owned
<1>4. QED
  BY <1>2, <1>3, OwnedFinite, FS_AddElement

LEMMA OwnedDown ==
  ASSUME NEW c \in Tallies, NEW t \in Thread, c[t] > 0
  PROVE  Cardinality(Owned([c EXCEPT ![t] = @ - 1])) = Cardinality(Owned(c)) - 1
<1> DEFINE d == [c EXCEPT ![t] = @ - 1]
<1>0. c[t] \in 0 .. MaxRefs /\ d[t] = c[t] - 1 /\ d \in Tallies
  BY DEF Tallies
<1>1. d \in Tallies /\ d[t] < MaxRefs /\ [d EXCEPT ![t] = @ + 1] = c
  <2>1. [d EXCEPT ![t] = @ + 1] = [c EXCEPT ![t] = c[t]]
    BY <1>0 DEF Tallies
  <2>2. QED
    BY <1>0, <2>1 DEF Tallies
<1>2. Cardinality(Owned(c)) = Cardinality(Owned(d)) + 1
  BY <1>1, OwnedUp
<1>3. QED
  BY <1>2, OwnedFinite

LEMMA OwnedBound ==
  ASSUME NEW c \in Tallies, NEW t \in Thread
  PROVE  c[t] <= Cardinality(Owned(c))
<1> DEFINE I == 1 .. c[t]
           T == {t} \X I
<1>1. c[t] \in 0 .. MaxRefs
  BY DEF Tallies
<1>2. IsFiniteSet(I) /\ Cardinality(I) = c[t]
  <2>1. 1 \in Int /\ c[t] \in Int
    BY <1>1
  <2>2. IsFiniteSet(I) /\ Cardinality(I) = IF 1 > c[t] THEN 0 ELSE c[t] - 1 + 1
    BY <2>1, FS_Interval
  <2>3. QED
    BY <1>1, <2>2
<1>3. IsFiniteSet({t}) /\ Cardinality({t}) = 1
  BY FS_Singleton
<1>4. Cardinality(T) = 1 * c[t]
  BY <1>2, <1>3, FS_Product
<1>5. T \in SUBSET Owned(c)
  BY <1>1 DEF Owned
<1>6. Cardinality(T) <= Cardinality(Owned(c))
  BY <1>5, OwnedFinite, FS_Subset
<1>7. QED
  BY <1>1, <1>4, <1>6

LEMMA OwnedNone ==
  ASSUME NEW c \in Tallies, \A t \in Thread : c[t] = 0
  PROVE  Cardinality(Owned(c)) = 0
<1>1. Owned(c) = {}
  BY DEF Owned, Tallies
<1>2. QED
  BY <1>1, FS_EmptySet

LEMMA UpgradingFinite ==
  IsFiniteSet(Upgrading) /\ Cardinality(Upgrading) \in Nat
<1>1. Upgrading \in SUBSET Thread
  BY DEF Upgrading
<1>2. IsFiniteSet(Upgrading)
  BY <1>1, FS_Subset
<1>3. QED
  BY <1>2, FS_CardinalityType

\* What the counts say about one thread.
LEMMA CountBounds ==
  ASSUME TypeOK, CountsExact, NEW t \in Thread
  PROVE  /\ S \in Tallies /\ W \in Tallies
         /\ S[t] = own[t].s /\ W[t] = own[t].w
         /\ own[t].s <= strong /\ own[t].w <= weak
         /\ t \in Upgrading => own[t].w < weak
<1>1. S \in Tallies /\ W \in Tallies /\ S[t] = own[t].s /\ W[t] = own[t].w
  BY DEF TypeOK, S, W, Tallies
<1>2. /\ strong = Cardinality(Owned(S))
      /\ weak = Cardinality(Upgrading) + Cardinality(Owned(W))
  BY DEF CountsExact, StrongRefs, WeakRefs, S, W
<1>3. t \in Upgrading => Cardinality(Upgrading) # 0
  BY UpgradingFinite, FS_EmptySet
<1>4. /\ S[t] <= Cardinality(Owned(S)) /\ W[t] <= Cardinality(Owned(W))
      /\ S[t] \in Nat /\ W[t] \in Nat
  BY <1>1, OwnedBound DEF Tallies
<1>5. QED
  BY <1>1, <1>2, <1>3, <1>4, OwnedFinite, UpgradingFinite

\* A count moves with the tokens.
LEMMA CountsMove ==
  ASSUME TypeOK, CountsExact, NEW i \in {-1, 0, 1}, NEW j \in {-1, 0, 1}, NEW k \in {-1, 0, 1},
         Cardinality(Owned(S)') = Cardinality(Owned(S)) + i,
         Cardinality(Owned(W)') = Cardinality(Owned(W)) + j,
         Cardinality(Upgrading') = Cardinality(Upgrading) + k,
         strong' = strong + i, weak' = weak + j + k
  PROVE  CountsExact'
<1>1. /\ strong = Cardinality(Owned(S))
      /\ weak = Cardinality(Upgrading) + Cardinality(Owned(W))
  BY DEF CountsExact, StrongRefs, WeakRefs, S, W
<1>2. /\ strong' = Cardinality(Owned(S)')
      /\ weak' = Cardinality(Upgrading') + Cardinality(Owned(W)')
  BY <1>1, OwnedFinite, UpgradingFinite
<1>3. QED
  BY <1>2 DEF CountsExact, StrongRefs, WeakRefs, S, W

LEMMA Naturals ==
  /\ Cardinality(Owned(S)) \in Nat /\ Cardinality(Owned(W)) \in Nat
  /\ Cardinality(Upgrading) \in Nat
  BY OwnedFinite, UpgradingFinite

LEMMA UpgradingMoves ==
  ASSUME TypeOK, NEW t \in Thread, NEW l, Goto(t, l)
  PROVE  LET Up == {"up_load", "up_cas", "up_drop"} IN
         Cardinality(Upgrading') =
           IF pc[t] \in Up /\ l \notin Up THEN Cardinality(Upgrading) - 1
           ELSE IF pc[t] \notin Up /\ l \in Up THEN Cardinality(Upgrading) + 1
           ELSE Cardinality(Upgrading)
<1> DEFINE Up == {"up_load", "up_cas", "up_drop"}
<1>p. DOMAIN pc = Thread /\ pc' = [pc EXCEPT ![t] = l]
  BY DEF TypeOK, Goto
<1>1. CASE l \in Up
  <2>1. Upgrading' = Upgrading \cup {t}
    BY <1>p, <1>1 DEF Upgrading
  <2>2. t \in Upgrading <=> pc[t] \in Up
    BY DEF Upgrading
  <2>3. QED
    BY <1>1, <2>1, <2>2, UpgradingFinite, FS_AddElement
<1>2. CASE l \notin Up
  <2>1. Upgrading' = Upgrading \ {t}
    BY <1>p, <1>2 DEF Upgrading
  <2>2. t \in Upgrading <=> pc[t] \in Up
    BY DEF Upgrading
  <2>3. QED
    BY <1>2, <2>1, <2>2, UpgradingFinite, FS_RemoveElement
<1>3. QED
  BY <1>1, <1>2

----------------------------------------------------------------------------
(* Steps *)

LEMMA InvInit == Init => IInv
<1> SUFFICES ASSUME Init PROVE IInv
  OBVIOUS
<1>1. TypeOK
  BY DEF Init, TypeOK
<1>2. Final /\ Duty
  BY DEF Init, Final, Duty
<1>3. CountsExact
  <2> DEFINE z == [t \in Thread |-> 0]
  <2>1. PICK t \in Thread :
          own = [u \in Thread |-> [s |-> IF u = t THEN 1 ELSE 0, w |-> 0]]
    BY DEF Init
  <2>2. z \in Tallies /\ z[t] = 0 /\ \A u \in Thread : z[u] = 0
    BY DEF Tallies
  <2>3. S = [z EXCEPT ![t] = @ + 1] /\ W = z
    BY <2>1, <2>2 DEF S, W
  <2>4. Cardinality(Owned(z)) = 0
    BY <2>2, OwnedNone
  <2>5. Cardinality(Owned([z EXCEPT ![t] = @ + 1])) = 1
    BY <2>2, <2>4, OwnedUp
  <2>6. Upgrading = {}
    BY DEF Init, Upgrading
  <2>7. Cardinality(Upgrading) = 0
    BY <2>6, FS_EmptySet
  <2>8. Cardinality(StrongRefs) = 1 /\ Cardinality(WeakRefs) = 0
    BY <2>3, <2>4, <2>5 DEF StrongRefs, WeakRefs, S, W
  <2>9. QED
    BY <2>7, <2>8 DEF Init, CountsExact
<1>4. QED
  BY <1>1, <1>2, <1>3 DEF IInv
\* The four ways a call changes what a thread owns.
LEMMA StrongUp ==
  ASSUME TypeOK, NEW t \in Thread, own[t].s < MaxRefs,
         own' = [own EXCEPT ![t].s = @ + 1]
  PROVE  /\ own' \in [Thread -> [s : 0 .. MaxRefs, w : 0 .. MaxRefs]]
         /\ Cardinality(Owned(S)') = Cardinality(Owned(S)) + 1
         /\ Cardinality(Owned(W)') = Cardinality(Owned(W))
<1>1. /\ own' \in [Thread -> [s : 0 .. MaxRefs, w : 0 .. MaxRefs]]
      /\ S' = [S EXCEPT ![t] = @ + 1] /\ W' = W
      /\ S \in Tallies /\ S[t] = own[t].s
  <2>1. own \in [Thread -> [s : 0 .. MaxRefs, w : 0 .. MaxRefs]] /\ own[t].s \in 0 .. MaxRefs
    BY DEF TypeOK
  <2>2. own' \in [Thread -> [s : 0 .. MaxRefs, w : 0 .. MaxRefs]]
    BY <2>1
  <2>3. /\ \A u \in Thread : own'[u].w = own[u].w
        /\ \A u \in Thread : own'[u].s = IF u = t THEN own[t].s + 1 ELSE own[u].s
    BY <2>1
  <2>4. S' = [S EXCEPT ![t] = @ + 1] /\ W' = W
    BY <2>3 DEF S, W
  <2>5. QED
    BY <2>1, <2>2, <2>4 DEF S, W, Tallies
<1>2. Cardinality(Owned([S EXCEPT ![t] = @ + 1])) = Cardinality(Owned(S)) + 1
  BY <1>1, OwnedUp
<1>3. Owned(S)' = Owned([S EXCEPT ![t] = @ + 1]) /\ Owned(W)' = Owned(W)
  BY <1>1 DEF Owned
<1>4. QED
  BY <1>1, <1>2, <1>3

LEMMA StrongDown ==
  ASSUME TypeOK, NEW t \in Thread, own[t].s > 0,
         own' = [own EXCEPT ![t].s = @ - 1]
  PROVE  /\ own' \in [Thread -> [s : 0 .. MaxRefs, w : 0 .. MaxRefs]]
         /\ Cardinality(Owned(S)') = Cardinality(Owned(S)) - 1
         /\ Cardinality(Owned(W)') = Cardinality(Owned(W))
<1>1. /\ own' \in [Thread -> [s : 0 .. MaxRefs, w : 0 .. MaxRefs]]
      /\ S' = [S EXCEPT ![t] = @ - 1] /\ W' = W
      /\ S \in Tallies /\ S[t] = own[t].s
  <2>1. own \in [Thread -> [s : 0 .. MaxRefs, w : 0 .. MaxRefs]] /\ own[t].s \in 0 .. MaxRefs
    BY DEF TypeOK
  <2>2. own' \in [Thread -> [s : 0 .. MaxRefs, w : 0 .. MaxRefs]]
    BY <2>1
  <2>3. /\ \A u \in Thread : own'[u].w = own[u].w
        /\ \A u \in Thread : own'[u].s = IF u = t THEN own[t].s - 1 ELSE own[u].s
    BY <2>1
  <2>4. S' = [S EXCEPT ![t] = @ - 1] /\ W' = W
    BY <2>3 DEF S, W
  <2>5. QED
    BY <2>1, <2>2, <2>4 DEF S, W, Tallies
<1>2. Cardinality(Owned([S EXCEPT ![t] = @ - 1])) = Cardinality(Owned(S)) - 1
  BY <1>1, OwnedDown
<1>3. Owned(S)' = Owned([S EXCEPT ![t] = @ - 1]) /\ Owned(W)' = Owned(W)
  BY <1>1 DEF Owned
<1>4. QED
  BY <1>1, <1>2, <1>3

LEMMA WeakUp ==
  ASSUME TypeOK, NEW t \in Thread, own[t].w < MaxRefs,
         own' = [own EXCEPT ![t].w = @ + 1]
  PROVE  /\ own' \in [Thread -> [s : 0 .. MaxRefs, w : 0 .. MaxRefs]]
         /\ Cardinality(Owned(W)') = Cardinality(Owned(W)) + 1
         /\ Cardinality(Owned(S)') = Cardinality(Owned(S))
<1>1. /\ own' \in [Thread -> [s : 0 .. MaxRefs, w : 0 .. MaxRefs]]
      /\ W' = [W EXCEPT ![t] = @ + 1] /\ S' = S
      /\ W \in Tallies /\ W[t] = own[t].w
  <2>1. own \in [Thread -> [s : 0 .. MaxRefs, w : 0 .. MaxRefs]] /\ own[t].w \in 0 .. MaxRefs
    BY DEF TypeOK
  <2>2. own' \in [Thread -> [s : 0 .. MaxRefs, w : 0 .. MaxRefs]]
    BY <2>1
  <2>3. /\ \A u \in Thread : own'[u].s = own[u].s
        /\ \A u \in Thread : own'[u].w = IF u = t THEN own[t].w + 1 ELSE own[u].w
    BY <2>1
  <2>4. W' = [W EXCEPT ![t] = @ + 1] /\ S' = S
    BY <2>3 DEF S, W
  <2>5. QED
    BY <2>1, <2>2, <2>4 DEF S, W, Tallies
<1>2. Cardinality(Owned([W EXCEPT ![t] = @ + 1])) = Cardinality(Owned(W)) + 1
  BY <1>1, OwnedUp
<1>3. Owned(W)' = Owned([W EXCEPT ![t] = @ + 1]) /\ Owned(S)' = Owned(S)
  BY <1>1 DEF Owned
<1>4. QED
  BY <1>1, <1>2, <1>3

LEMMA WeakDown ==
  ASSUME TypeOK, NEW t \in Thread, own[t].w > 0,
         own' = [own EXCEPT ![t].w = @ - 1]
  PROVE  /\ own' \in [Thread -> [s : 0 .. MaxRefs, w : 0 .. MaxRefs]]
         /\ Cardinality(Owned(W)') = Cardinality(Owned(W)) - 1
         /\ Cardinality(Owned(S)') = Cardinality(Owned(S))
<1>1. /\ own' \in [Thread -> [s : 0 .. MaxRefs, w : 0 .. MaxRefs]]
      /\ W' = [W EXCEPT ![t] = @ - 1] /\ S' = S
      /\ W \in Tallies /\ W[t] = own[t].w
  <2>1. own \in [Thread -> [s : 0 .. MaxRefs, w : 0 .. MaxRefs]] /\ own[t].w \in 0 .. MaxRefs
    BY DEF TypeOK
  <2>2. own' \in [Thread -> [s : 0 .. MaxRefs, w : 0 .. MaxRefs]]
    BY <2>1
  <2>3. /\ \A u \in Thread : own'[u].s = own[u].s
        /\ \A u \in Thread : own'[u].w = IF u = t THEN own[t].w - 1 ELSE own[u].w
    BY <2>1
  <2>4. W' = [W EXCEPT ![t] = @ - 1] /\ S' = S
    BY <2>3 DEF S, W
  <2>5. QED
    BY <2>1, <2>2, <2>4 DEF S, W, Tallies
<1>2. Cardinality(Owned([W EXCEPT ![t] = @ - 1])) = Cardinality(Owned(W)) - 1
  BY <1>1, OwnedDown
<1>3. Owned(W)' = Owned([W EXCEPT ![t] = @ - 1]) /\ Owned(S)' = Owned(S)
  BY <1>1 DEF Owned
<1>4. QED
  BY <1>1, <1>2, <1>3

LEMMA OwnSame ==
  ASSUME UNCHANGED own
  PROVE  /\ Cardinality(Owned(S)') = Cardinality(Owned(S))
         /\ Cardinality(Owned(W)') = Cardinality(Owned(W))
  BY DEF Owned, S, W

LEMMA UpgradingSame ==
  ASSUME UNCHANGED pc
  PROVE  Cardinality(Upgrading') = Cardinality(Upgrading)
  BY DEF Upgrading

LEMMA InvRetain ==
  ASSUME IInv, NEW t \in Thread, NEW u \in Thread, Retain(t, u)
  PROVE  IInv'
<1> USE DEF IInv
<1>1. own[t].s <= strong /\ own[u].s <= strong /\ strong \in Nat /\ own[t].s \in Nat
  BY CountBounds DEF TypeOK
<1>2. own[u].s < MaxRefs /\ own' = [own EXCEPT ![u].s = @ + 1]
  BY <1>1 DEF Retain, TypeOK
<1>3. TypeOK'
  BY <1>1, <1>2, StrongUp DEF Retain, TypeOK
<1>4. CountsExact'
  <2>0. /\ Cardinality(Owned(S)') = Cardinality(Owned(S)) + 1
        /\ Cardinality(Owned(W)') = Cardinality(Owned(W))
    BY <1>2, StrongUp
  <2>1. /\ Cardinality(Owned(S)') = Cardinality(Owned(S)) + 1
        /\ Cardinality(Owned(W)') = Cardinality(Owned(W)) + 0
        /\ Cardinality(Upgrading') = Cardinality(Upgrading) + 0
    BY <2>0, <1>2, UpgradingSame, Naturals DEF Retain
  <2>2. strong' = strong + 1 /\ weak' = weak + 0 + 0
    BY DEF Retain, TypeOK
  <2>3. QED
    BY <2>1, <2>2, CountsMove
<1>5. Final' /\ Duty'
  BY <1>1 DEF Retain, Final, Duty, TypeOK
<1>6. QED
  BY <1>3, <1>4, <1>5

LEMMA InvRelease ==
  ASSUME IInv, NEW t \in Thread, Release(t)
  PROVE  IInv'
<1> USE DEF IInv
<1>1. /\ own[t].s <= strong /\ own[t].s \in Nat /\ strong \in Nat /\ strong > 0
      /\ strong' = strong - 1 /\ own' = [own EXCEPT ![t].s = @ - 1]
  BY CountBounds DEF TypeOK, Release
<1>2. PICK l \in {"weak_check", "idle"} : Goto(t, l) /\ (l = "weak_check" <=> strong = 1)
  BY DEF Release
<1>3. TypeOK'
  BY <1>1, <1>2, StrongDown DEF Release, TypeOK, Goto
<1>4. CountsExact'
  <2>1. Cardinality(Upgrading') = Cardinality(Upgrading)
    BY <1>2, UpgradingMoves DEF Release
  <2>0. /\ Cardinality(Owned(S)') = Cardinality(Owned(S)) - 1
        /\ Cardinality(Owned(W)') = Cardinality(Owned(W))
    BY <1>1, StrongDown DEF Release
  <2>2. /\ Cardinality(Owned(S)') = Cardinality(Owned(S)) + (-1)
        /\ Cardinality(Owned(W)') = Cardinality(Owned(W)) + 0
        /\ Cardinality(Upgrading') = Cardinality(Upgrading) + 0
    BY <2>0, <1>1, <2>1, Naturals DEF Release
  <2>3. strong' = strong + (-1) /\ weak' = weak + 0 + 0
    BY <1>1 DEF Release, TypeOK
  <2>4. QED
    BY <2>2, <2>3, CountsMove
<1>5. Final' /\ Duty'
  BY <1>1, <1>2 DEF Release, Final, Duty, TypeOK, Goto, Checks
<1>6. QED
  BY <1>3, <1>4, <1>5

\* A step that counts nothing keeps the counts.
LEMMA CountsKeep ==
  ASSUME IInv, UNCHANGED <<strong, weak, own>>,
         NEW t \in Thread, NEW l, Goto(t, l),
         LET Up == {"up_load", "up_cas", "up_drop"} IN pc[t] \in Up <=> l \in Up
  PROVE  CountsExact'
<1>1. Cardinality(Upgrading') = Cardinality(Upgrading)
  BY UpgradingMoves DEF IInv
<1>2. /\ Cardinality(Owned(S)') = Cardinality(Owned(S))
      /\ Cardinality(Owned(W)') = Cardinality(Owned(W))
  BY OwnSame
<1>3. QED
  BY <1>1, <1>2 DEF IInv, CountsExact, StrongRefs, WeakRefs, S, W

LEMMA InvChecks ==
  ASSUME IInv, NEW t \in Thread, WeakCheck(t) \/ StrongCheck(t)
  PROVE  IInv'
<1> USE DEF IInv
<1>1. /\ Goto(t, "idle") /\ pc[t] \in Checks /\ UNCHANGED <<strong, weak, own, op, seen>>
      /\ frees \in Nat /\ frees' \in {frees, frees + 1}
      /\ pc[t] = "weak_check" => strong = 0
  BY DEF WeakCheck, StrongCheck, Checks, TypeOK, Final
<1>2. frees = 0 /\ frees' > 0 => strong = 0
  BY <1>1 DEF WeakCheck, StrongCheck, Loaded, TypeOK
<1>3. frees = 0 /\ strong = 0 /\ weak = 0 => frees' > 0
  BY <1>1 DEF WeakCheck, StrongCheck, Loaded, TypeOK
<1>4. TypeOK'
  BY <1>1 DEF TypeOK, Goto
<1>5. CountsExact'
  BY <1>1, CountsKeep DEF Checks
<1>6. Final'
  BY <1>1, <1>2 DEF Final, Goto, TypeOK
<1>7. Duty'
  BY <1>1, <1>3 DEF Duty, TypeOK
<1>8. QED
  BY <1>4, <1>5, <1>6, <1>7

\* The loads and the failed exchanges of the two loops.
Quiet(t) ==
  \/ \E o \in {"weak_retain", "upgrade"} : BeginIncrement(t, o)
  \/ LoadStrong(t) \/ LoadWeak(t) \/ IncrementWeakFails(t)
  \/ UpgradeLoad(t) \/ UpgradeStrongFails(t)

LEMMA InvQuiet ==
  ASSUME IInv, NEW t \in Thread, Quiet(t)
  PROVE  IInv'
<1> USE DEF IInv
<1> DEFINE Up == {"up_load", "up_cas", "up_drop"}
           Quiets == {"idle", "load_strong", "load_weak", "cas_weak"} \cup Up
<1>1. PICK l \in Quiets :
        Goto(t, l) /\ (pc[t] \in Up <=> l \in Up) /\ (l = "up_cas" => seen'[t].s > 0)
  BY DEF Quiet, BeginIncrement, LoadStrong, LoadWeak, IncrementWeakFails, UpgradeLoad,
         UpgradeStrongFails, TypeOK
<1>2. /\ UNCHANGED <<strong, weak, frees, own>> /\ pc[t] \notin Checks
      /\ op' \in [Thread -> {"weak_retain", "upgrade"}]
      /\ seen' \in [Thread -> [s : 0 .. MaxRefs, w : 0 .. MaxRefs]]
      /\ \A v \in Thread : v # t => seen'[v] = seen[v]
  BY DEF Quiet, BeginIncrement, LoadStrong, LoadWeak, IncrementWeakFails, UpgradeLoad,
         UpgradeStrongFails, TypeOK, Checks
<1>3. TypeOK'
  BY <1>1, <1>2 DEF TypeOK, Goto
<1>4. CountsExact'
  BY <1>1, <1>2, CountsKeep
<1>5. Final' /\ Duty'
  BY <1>1, <1>2 DEF Final, Duty, Checks, Goto, TypeOK
<1>6. QED
  BY <1>3, <1>4, <1>5

LEMMA InvIncrementWeak ==
  ASSUME IInv, NEW t \in Thread, IncrementWeak(t)
  PROVE  IInv'
<1> USE DEF IInv
<1>1. /\ pc[t] = "cas_weak" /\ weak \in Nat /\ weak < MaxRefs /\ weak' = weak + 1
      /\ UNCHANGED <<strong, frees, op, seen>>
      /\ own[t].w <= weak /\ own[t].w \in Nat
  BY CountBounds DEF IncrementWeak, TypeOK
<1>2. CASE op[t] = "upgrade"
  <2>1. Goto(t, "up_load") /\ UNCHANGED own
    BY <1>2 DEF IncrementWeak
  <2>2. TypeOK'
    BY <1>1, <2>1 DEF TypeOK, Goto
  <2>3. CountsExact'
    <3>1. Cardinality(Upgrading') = Cardinality(Upgrading) + 1
      BY <1>1, <2>1, UpgradingMoves
    <3>2. /\ Cardinality(Owned(S)') = Cardinality(Owned(S)) + 0
          /\ Cardinality(Owned(W)') = Cardinality(Owned(W)) + 0
      BY <2>1, OwnSame, OwnedFinite
    <3>3. strong' = strong + 0 /\ weak' = weak + 0 + 1
      BY <1>1 DEF TypeOK
    <3>4. QED
      BY <3>1, <3>2, <3>3, CountsMove
  <2>4. Final' /\ Duty'
    BY <1>1, <2>1 DEF Final, Duty, Goto, TypeOK
  <2>5. QED
    BY <2>2, <2>3, <2>4
<1>3. CASE op[t] # "upgrade"
  <2>1. Goto(t, "idle") /\ own' = [own EXCEPT ![t].w = @ + 1] /\ own[t].w < MaxRefs
    BY <1>1, <1>3 DEF IncrementWeak
  <2>2. TypeOK'
    BY <1>1, <2>1, WeakUp DEF TypeOK, Goto
  <2>3. CountsExact'
    <3>1. Cardinality(Upgrading') = Cardinality(Upgrading)
      BY <1>1, <2>1, UpgradingMoves
    <3>0. /\ Cardinality(Owned(W)') = Cardinality(Owned(W)) + 1
          /\ Cardinality(Owned(S)') = Cardinality(Owned(S))
      BY <2>1, WeakUp
    <3>2. /\ Cardinality(Owned(S)') = Cardinality(Owned(S)) + 0
          /\ Cardinality(Owned(W)') = Cardinality(Owned(W)) + 1
          /\ Cardinality(Upgrading') = Cardinality(Upgrading) + 0
      BY <2>1, <3>1, <3>0, Naturals
    <3>3. strong' = strong + 0 /\ weak' = weak + 1 + 0
      BY <1>1 DEF TypeOK
    <3>4. QED
      BY <3>2, <3>3, CountsMove
  <2>4. Final' /\ Duty'
    BY <1>1, <2>1 DEF Final, Duty, Goto, TypeOK
  <2>5. QED
    BY <2>2, <2>3, <2>4
<1>4. QED
  BY <1>2, <1>3

LEMMA InvUpgradeStrong ==
  ASSUME IInv, NEW t \in Thread, UpgradeStrong(t)
  PROVE  IInv'
<1> USE DEF IInv
<1>1. /\ pc[t] = "up_cas" /\ strong \in Nat /\ 0 < strong /\ strong < MaxRefs
      /\ strong' = strong + 1 /\ Goto(t, "up_drop") /\ UNCHANGED <<weak, frees, op, seen>>
      /\ own[t].s < MaxRefs /\ own' = [own EXCEPT ![t].s = @ + 1]
  BY CountBounds DEF UpgradeStrong, TypeOK, Final
<1>2. TypeOK'
  BY <1>1, StrongUp DEF TypeOK, Goto
<1>3. CountsExact'
  <2>1. Cardinality(Upgrading') = Cardinality(Upgrading)
    BY <1>1, UpgradingMoves
  <2>0. /\ Cardinality(Owned(S)') = Cardinality(Owned(S)) + 1
        /\ Cardinality(Owned(W)') = Cardinality(Owned(W))
    BY <1>1, <2>1, StrongUp
  <2>2. /\ Cardinality(Owned(S)') = Cardinality(Owned(S)) + 1
        /\ Cardinality(Owned(W)') = Cardinality(Owned(W)) + 0
        /\ Cardinality(Upgrading') = Cardinality(Upgrading) + 0
    BY <2>0, <1>1, <2>1, Naturals
  <2>3. strong' = strong + 1 /\ weak' = weak + 0 + 0
    BY <1>1 DEF TypeOK
  <2>4. QED
    BY <2>2, <2>3, CountsMove
<1>4. Final' /\ Duty'
  BY <1>1 DEF Final, Duty, Goto, TypeOK
<1>5. QED
  BY <1>2, <1>3, <1>4

\* What the two ends of a weak reference share.
LEMMA AfterDecrement ==
  ASSUME IInv, NEW t \in Thread, DecrementWeak(t), frees = 0, weak > 0,
         pc[t] \in {"idle", "up_drop"},
         own' \in [Thread -> [s : 0 .. MaxRefs, w : 0 .. MaxRefs]]
  PROVE  TypeOK' /\ Final' /\ Duty'
<1> USE DEF IInv
<1>1. /\ weak \in Nat /\ weak' = weak - 1 /\ UNCHANGED <<strong, frees, op, seen>>
      /\ Goto(t, IF weak = 1 THEN "strong_check" ELSE "idle")
  BY DEF DecrementWeak, TypeOK
<1>2. TypeOK'
  BY <1>1 DEF TypeOK, Goto
<1>3. Final' /\ Duty'
  BY <1>1 DEF Final, Duty, Goto, TypeOK, Checks
<1>4. QED
  BY <1>2, <1>3

LEMMA InvDrops ==
  ASSUME IInv, NEW t \in Thread, UpgradeDrop(t) \/ WeakRelease(t)
  PROVE  IInv'
<1> USE DEF IInv
<1> DEFINE l == IF weak = 1 THEN "strong_check" ELSE "idle"
<1>1. /\ DecrementWeak(t) /\ frees = 0 /\ Goto(t, l) /\ weak \in Nat /\ weak' = weak - 1
      /\ l \notin {"up_load", "up_cas", "up_drop"} /\ UNCHANGED strong /\ strong \in Nat
  BY DEF UpgradeDrop, WeakRelease, DecrementWeak, TypeOK
<1>2. own[t].w <= weak /\ own[t].w \in Nat /\ (t \in Upgrading => own[t].w < weak)
  BY CountBounds DEF TypeOK
<1> HIDE DEF l
<1>3. CASE UpgradeDrop(t)
  <2>1. pc[t] = "up_drop" /\ UNCHANGED own /\ weak > 0
    BY <1>1, <1>2, <1>3 DEF UpgradeDrop, Upgrading
  <2>2. CountsExact'
    <3>1. Cardinality(Upgrading') = Cardinality(Upgrading) - 1
      BY <1>1, <2>1, UpgradingMoves
    <3>2. /\ Cardinality(Owned(S)') = Cardinality(Owned(S)) + 0
          /\ Cardinality(Owned(W)') = Cardinality(Owned(W)) + 0
          /\ Cardinality(Upgrading') = Cardinality(Upgrading) + (-1)
      BY <2>1, <3>1, OwnSame, Naturals
    <3>3. strong' = strong + 0 /\ weak' = weak + 0 + (-1)
      BY <1>1
    <3>4. QED
      BY <3>2, <3>3, CountsMove
  <2>3. own' \in [Thread -> [s : 0 .. MaxRefs, w : 0 .. MaxRefs]]
    BY <2>1 DEF TypeOK
  <2>4. QED
    BY <1>1, <2>1, <2>2, <2>3, AfterDecrement
<1>4. CASE WeakRelease(t)
  <2>1. /\ pc[t] = "idle" /\ own[t].w > 0 /\ weak > 0
        /\ own' = [own EXCEPT ![t].w = @ - 1]
    BY <1>1, <1>2, <1>4 DEF WeakRelease
  <2>2. CountsExact'
    <3>1. Cardinality(Upgrading') = Cardinality(Upgrading)
      BY <1>1, <2>1, UpgradingMoves
    <3>0. /\ Cardinality(Owned(W)') = Cardinality(Owned(W)) - 1
          /\ Cardinality(Owned(S)') = Cardinality(Owned(S))
      BY <2>1, WeakDown
    <3>2. /\ Cardinality(Owned(S)') = Cardinality(Owned(S)) + 0
          /\ Cardinality(Owned(W)') = Cardinality(Owned(W)) + (-1)
          /\ Cardinality(Upgrading') = Cardinality(Upgrading) + 0
      BY <3>0, <2>1, <3>1, Naturals
    <3>3. strong' = strong + 0 /\ weak' = weak + (-1) + 0
      BY <1>1
    <3>4. QED
      BY <3>2, <3>3, CountsMove
  <2>3. own' \in [Thread -> [s : 0 .. MaxRefs, w : 0 .. MaxRefs]]
    BY <2>1, WeakDown
  <2>4. QED
    BY <1>1, <2>1, <2>2, <2>3, AfterDecrement
<1>5. QED
  BY <1>3, <1>4

LEMMA InvStutter == IInv /\ UNCHANGED vars => IInv'
<1> SUFFICES ASSUME IInv, UNCHANGED vars PROVE IInv'
  OBVIOUS
<1>1. TypeOK' /\ Final' /\ Duty'
  BY DEF vars, IInv, TypeOK, Final, Duty
<1>2. CountsExact'
  <2>1. StrongRefs' = StrongRefs /\ WeakRefs' = WeakRefs /\ Upgrading' = Upgrading
    BY DEF vars, StrongRefs, WeakRefs, Upgrading, Owned
  <2>2. QED
    BY <2>1 DEF vars, IInv, CountsExact
<1>3. QED
  BY <1>1, <1>2 DEF IInv

LEMMA InvNext == IInv /\ [Next]_vars => IInv'
<1> SUFFICES ASSUME IInv, [Next]_vars PROVE IInv'
  OBVIOUS
<1>1. CASE UNCHANGED vars
  BY <1>1, InvStutter
<1>2. ASSUME NEW t \in Thread, NEW u \in Thread, Retain(t, u)
      PROVE  IInv'
  BY <1>2, InvRetain
<1>3. ASSUME NEW t \in Thread, Release(t)
      PROVE  IInv'
  BY <1>3, InvRelease
<1>4. ASSUME NEW t \in Thread, WeakCheck(t) \/ StrongCheck(t)
      PROVE  IInv'
  BY <1>4, InvChecks
<1>5. ASSUME NEW t \in Thread, Quiet(t)
      PROVE  IInv'
  BY <1>5, InvQuiet
<1>6. ASSUME NEW t \in Thread, IncrementWeak(t)
      PROVE  IInv'
  BY <1>6, InvIncrementWeak
<1>7. ASSUME NEW t \in Thread, UpgradeStrong(t)
      PROVE  IInv'
  BY <1>7, InvUpgradeStrong
<1>8. ASSUME NEW t \in Thread, UpgradeDrop(t) \/ WeakRelease(t)
      PROVE  IInv'
  BY <1>8, InvDrops
<1>9. QED
  BY <1>1, <1>2, <1>3, <1>4, <1>5, <1>6, <1>7, <1>8 DEF Next, Quiet

----------------------------------------------------------------------------
(* Theorems *)

\* The invariant holds in every behaviour of the counts.
THEOREM Invariance == Spec => []IInv
  BY InvInit, InvNext, PTL DEF Spec

\* Every variable of the counts has its type; the counts stay within their
\* bounds.
THEOREM RefTypeCorrect == Spec => []TypeOK
<1>1. IInv => TypeOK
  BY DEF IInv
<1>2. QED
  BY <1>1, Invariance, PTL

\* However retains, upgrades and releases of any number of threads interleave,
\* the two counts of the header are the references that exist.
THEOREM CountSafety == Spec => []CountsExact
<1>1. IInv => CountsExact
  BY DEF IInv
<1>2. QED
  BY <1>1, Invariance, PTL

\* No thread that owns a strong reference finds the allocation gone.
THEOREM StrongSafety == Spec => []StrongKeepsObject
<1>1. IInv => StrongKeepsObject
  <2> SUFFICES ASSUME IInv, frees > 0, NEW t \in Thread PROVE own[t].s = 0
    BY DEF StrongKeepsObject
  <2>1. own[t].s <= strong
    BY CountBounds DEF IInv
  <2>2. QED
    BY <2>1 DEF IInv, Final, TypeOK
<1>2. QED
  BY <1>1, Invariance, PTL

\* When the last reference of either kind is gone and every call returned, the
\* allocation was freed: it is not leaked.
THEOREM NoLeak == Spec => []LastReferenceFrees
<1>1. IInv => LastReferenceFrees
  <2> SUFFICES ASSUME IInv, Over PROVE frees > 0
    BY DEF LastReferenceFrees
  <2>0. S \in Tallies /\ W \in Tallies
    BY DEF IInv, TypeOK, S, W, Tallies
  <2>1. Cardinality(StrongRefs) = 0 /\ Cardinality(WeakRefs) = 0
    BY <2>0, OwnedNone DEF Over, S, W, StrongRefs, WeakRefs
  <2>2. Upgrading = {}
    BY DEF Over, Upgrading
  <2>3. strong = 0 /\ weak = 0
    BY <2>1, <2>2, FS_EmptySet DEF IInv, CountsExact
  <2>4. QED
    BY <2>3 DEF IInv, Duty, Over, Checks
<1>2. QED
  BY <1>1, Invariance, PTL

\* A strong count of zero stays zero: no retain or upgrade, however late, brings
\* a released object back.
THEOREM StrongFinality == Spec => ZeroStrongIsFinal
<1>1. IInv /\ [Next]_vars => [strong = 0 => strong' = 0]_vars
  <2> SUFFICES ASSUME IInv, Next, strong = 0 PROVE strong' = 0
    BY DEF vars
  <2>1. \A t \in Thread : own[t].s \in Nat /\ own[t].s <= 0
    BY CountBounds DEF IInv, TypeOK
  <2>2. \A t \in Thread : ~UpgradeStrong(t) /\ ~Release(t)
    BY <2>1 DEF IInv, Final, UpgradeStrong, Release
  <2>3. \A t, u \in Thread : ~Retain(t, u)
    BY <2>1 DEF Retain
  <2>4. QED
    BY <2>2, <2>3 DEF Next, vars, BeginIncrement, WeakCheck, LoadStrong, LoadWeak,
       IncrementWeak, IncrementWeakFails, UpgradeLoad, UpgradeStrongFails,
       UpgradeDrop, WeakRelease, DecrementWeak, StrongCheck
<1>2. QED
  BY <1>1, Invariance, PTL DEF Spec, ZeroStrongIsFinal

----------------------------------------------------------------------------
(* Values without weak references.  FreedOnce fails where the strong and   *)
(* the weak side look at each other's count at the same time; with one     *)
(* side alone it holds.                                                    *)

NoWeak == weak = 0

\* Who frees is the thread that took the strong count to zero, and there is one.
OneChecker ==
  /\ \A t \in Thread : pc[t] \notin {"up_load", "up_cas", "up_drop", "strong_check"}
  /\ \A t, u \in Thread : pc[t] = "weak_check" /\ pc[u] = "weak_check" => t = u
  /\ frees <= 1
  /\ frees = 1 => \A t \in Thread : pc[t] # "weak_check"

LEMMA OneCheckerInit == Init => OneChecker
  BY DEF Init, OneChecker

LEMMA OneCheckerNext ==
  IInv /\ NoWeak /\ NoWeak' /\ OneChecker /\ [Next]_vars => OneChecker'
<1> SUFFICES ASSUME IInv, NoWeak, NoWeak', OneChecker, [Next]_vars PROVE OneChecker'
  OBVIOUS
<1>0. /\ DOMAIN pc = Thread /\ frees \in Nat /\ strong \in Nat
      /\ \A t \in Thread : own[t].w \in Nat /\ own[t].w <= 0
  BY CountBounds DEF IInv, TypeOK, NoWeak
<1>1. CASE UNCHANGED vars
  BY <1>1 DEF vars, OneChecker
<1>2. ASSUME NEW t \in Thread, NEW u \in Thread, Retain(t, u) PROVE OneChecker'
  BY <1>2 DEF Retain, OneChecker
<1>3. ASSUME NEW t \in Thread, NEW l \in {"idle", "load_strong", "load_weak", "cas_weak"},
             Goto(t, l), UNCHANGED frees
      PROVE  OneChecker'
  BY <1>0, <1>3 DEF Goto, OneChecker
<1>4. ASSUME NEW t \in Thread, NEW o \in {"weak_retain", "upgrade"}, BeginIncrement(t, o)
      PROVE  OneChecker'
  BY <1>3, <1>4 DEF BeginIncrement
<1>5. ASSUME NEW t \in Thread, LoadStrong(t) \/ LoadWeak(t) \/ IncrementWeakFails(t)
      PROVE  OneChecker'
  BY <1>3, <1>5 DEF LoadStrong, LoadWeak, IncrementWeakFails
<1>6. ASSUME NEW t \in Thread, Release(t) PROVE OneChecker'
  <2>1. CASE strong = 1
    <3>1. \A u \in Thread : pc[u] # "weak_check"
      BY <2>1 DEF IInv, Final
    <3>2. frees = 0 /\ UNCHANGED frees /\ Goto(t, "weak_check")
      BY <1>6, <2>1 DEF Release
    <3>3. QED
      BY <1>0, <3>1, <3>2 DEF Goto, OneChecker
  <2>2. CASE strong # 1
    BY <1>3, <1>6, <2>2 DEF Release
  <2>3. QED
    BY <2>1, <2>2
<1>7. ASSUME NEW t \in Thread, WeakCheck(t) PROVE OneChecker'
  <2>1. pc[t] = "weak_check" /\ Goto(t, "idle") /\ frees = 0 /\ frees' \in {0, 1}
    BY <1>0, <1>7 DEF WeakCheck, OneChecker
  <2>2. \A u \in Thread : pc'[u] # "weak_check"
    BY <1>0, <2>1 DEF Goto, OneChecker
  <2>3. QED
    BY <1>0, <2>1, <2>2 DEF Goto, OneChecker
<1>8. ASSUME NEW t \in Thread, IncrementWeak(t) PROVE FALSE
  BY <1>8 DEF IncrementWeak, NoWeak
<1>9. ASSUME NEW t \in Thread, WeakRelease(t) PROVE FALSE
  BY <1>0, <1>9 DEF WeakRelease
<1>10. \A t \in Thread : ~(UpgradeLoad(t) \/ UpgradeStrong(t) \/ UpgradeStrongFails(t)
                           \/ UpgradeDrop(t) \/ StrongCheck(t))
  BY DEF OneChecker, UpgradeLoad, UpgradeStrong, UpgradeStrongFails, UpgradeDrop, StrongCheck
<1>11. QED
  BY <1>1, <1>2, <1>4, <1>5, <1>6, <1>7, <1>8, <1>9, <1>10 DEF Next

\* A shared value of which no weak reference is ever taken is freed at most
\* once, whatever retains and releases of any number of threads race, and with
\* NoLeak exactly once.
THEOREM StrongOnlyFreedOnce == Spec /\ []NoWeak => []FreedOnce
<1>1. OneChecker => FreedOnce
  BY DEF OneChecker, FreedOnce
<1>2. QED
  BY <1>1, OneCheckerInit, OneCheckerNext, Invariance, PTL DEF Spec
=============================================================================
