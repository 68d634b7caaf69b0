------------------------- MODULE ActorMailboxProofs -------------------------
(***************************************************************************)
(* Backpressure, the end of an actor and the absorption of faults, for any *)
(* number of callers and any limits.                                       *)
(***************************************************************************)
EXTENDS ActorMailbox, FiniteSetTheorems, TLAPS

USE MailboxAssumption

\* Where a call is before its message is in the mailbox.
Counted == {"mute", "send"}
Early == {"fault", "pressure", "writable", "reserve"} \cup Counted

\* Where a thread holds an Arc.
Inside == Early \cup {"wait", "unpin", "kill", "close"}

\* The thread that destroys the actor was the last to hold it, and nobody pins
\* it again.
Pins ==
  /\ \A t \in Thread : pc[t] \in Inside => t \in pinned
  /\ \A t \in Thread : pc[t] = "join" => ~live /\ ~open /\ pinned = {}
  /\ pc[Self] \in {"idle", "unpin", "kill", "close"}

\* A message in the mailbox or in the worker's hands is the one its caller
\* waits for.
Mail ==
  /\ \A i \in 1 .. Len(mbox) : pc[mbox[i]] = "wait"
  /\ \A i, j \in 1 .. Len(mbox) : mbox[i] = mbox[j] => i = j
  /\ worker \in {"recv", "exited"} => msg = << >>
  /\ worker \notin {"recv", "exited"} =>
       Len(msg) = 1 /\ pc[msg[1]] = "wait" /\ \A i \in 1 .. Len(mbox) : mbox[i] # msg[1]

\* A call has no result before it has one, and its method runs once the worker
\* holds its message.
Runs ==
  \A t \in Caller :
    /\ pc[t] \in Early \cup {"wait"} => result[t] = "none"
    /\ pc[t] \in Early => ~ran[t]
    /\ pc[t] = "wait" /\ ran[t] => worker = "dispatch" /\ msg[1] = t

Reserved == {t \in Caller : pc[t] \in Counted}

Depth == 0 .. Cardinality(Caller)

\* TypeOK with no bound on the depth.
Types ==
  /\ live \in BOOLEAN /\ open \in BOOLEAN /\ faulted \in BOOLEAN /\ muted \in BOOLEAN
  /\ pinned \subseteq Thread
  /\ mbox \in Seq(Caller) /\ msg \in Seq(Caller) /\ Len(msg) <= 1
  /\ depth \in Nat /\ seen \in Depth /\ loaded \in [Thread -> Depth]
  /\ limit \in Limit \cup {WorkerLimit}
  /\ worker \in {"recv", "count", "load", "unmute", "check", "dispatch", "exited"}
  /\ pc \in [Thread -> Inside \cup {"idle", "join"}]
  /\ result \in [Thread -> {"none", "ok", "zero"}]
  /\ ran \in [Thread -> BOOLEAN]

IInv ==
  /\ Types /\ Pins /\ Mail /\ Runs
  /\ DepthExact /\ MutedHasMessage /\ FailedCallDidNotRun

----------------------------------------------------------------------------
(* Counting *)

LEMMA ReservedFinite ==
  IsFiniteSet(Reserved) /\ Cardinality(Reserved) \in Nat /\ Cardinality(Caller) \in Nat
<1>1. Reserved \in SUBSET Caller
  BY DEF Reserved
<1>2. IsFiniteSet(Reserved)
  BY <1>1, FS_Subset
<1>3. QED
  BY <1>2, FS_CardinalityType

LEMMA DepthIs ==
  DepthExact <=> depth = Cardinality(Reserved) + Len(mbox) + (IF worker = "count" THEN 1 ELSE 0)
  BY DEF DepthExact, Reserved, Counted

LEMMA ReservedMoves ==
  ASSUME Types, NEW t \in Thread, NEW l, Goto(t, l)
  PROVE  Cardinality(Reserved') =
           IF t \in Reserved /\ l \notin Counted THEN Cardinality(Reserved) - 1
           ELSE IF t \in Caller \ Reserved /\ l \in Counted THEN Cardinality(Reserved) + 1
           ELSE Cardinality(Reserved)
<1>p. DOMAIN pc = Thread /\ pc' = [pc EXCEPT ![t] = l] /\ Caller \subseteq Thread
  BY DEF Types, Goto, Thread
<1>1. CASE t \in Caller /\ l \in Counted
  <2>1. Reserved' = Reserved \cup {t}
    BY <1>p, <1>1 DEF Reserved
  <2>2. QED
    BY <1>1, <2>1, ReservedFinite, FS_AddElement
<1>2. CASE l \notin Counted
  <2>1. Reserved' = Reserved \ {t}
    BY <1>p, <1>2 DEF Reserved
  <2>2. QED
    BY <1>2, <2>1, ReservedFinite, FS_RemoveElement
<1>3. CASE t \notin Caller
  <2>1. Reserved' = Reserved /\ t \notin Reserved
    BY <1>p, <1>3 DEF Reserved
  <2>2. QED
    BY <1>3, <2>1
<1>4. QED
  BY <1>1, <1>2, <1>3

\* The messages on their way have different callers, so the depth is at most
\* the number of callers.
LEMMA DepthBound ==
  ASSUME Types, Mail, DepthExact
  PROVE  depth \in Depth
<1> DEFINE n == Len(mbox)
           Q == {mbox[i] : i \in 1 .. n}
           f == [i \in 1 .. n |-> mbox[i]]
           M == IF worker = "count" THEN {msg[1]} ELSE {}
<1>0. n \in Nat /\ Caller \subseteq Thread /\ \A i \in 1 .. n : mbox[i] \in Caller
  BY DEF Types, Thread
<1>1. IsFiniteSet(Q) /\ Cardinality(Q) \in Nat /\ Q \subseteq Caller
  <2>1. Q \in SUBSET Caller
    BY <1>0
  <2>2. QED
    BY <2>1, FS_Subset, FS_CardinalityType
<1>2. n <= Cardinality(Q)
  <2>1. f \in [1 .. n -> Q] /\ \A i, j \in 1 .. n : f[i] = f[j] => i = j
    BY DEF Mail
  <2>2. f \in Injection(1 .. n, Q)
    BY <2>1 DEF Injection, IsInjective
  <2>3. Cardinality(1 .. n) <= Cardinality(Q)
    BY <1>1, <2>2, FS_Injection
  <2>4. Cardinality(1 .. n) = IF 1 > n THEN 0 ELSE n - 1 + 1
    BY <1>0, FS_Interval
  <2>5. QED
    BY <1>0, <2>3, <2>4
<1>3. /\ IsFiniteSet(M) /\ M \subseteq Caller
      /\ Cardinality(M) = IF worker = "count" THEN 1 ELSE 0
  <2>1. CASE worker = "count"
    <3>1. msg[1] \in Caller
      BY <2>1 DEF Types, Mail
    <3>2. M = {msg[1]}
      BY <2>1
    <3>3. QED
      BY <2>1, <3>1, <3>2, FS_Singleton
  <2>2. CASE worker # "count"
    <3>1. M = {}
      BY <2>2
    <3>2. QED
      BY <2>2, <3>1, FS_EmptySet
  <2>3. QED
    BY <2>1, <2>2
<1>4. Q \cap M = {} /\ (Q \cup M) \cap Reserved = {}
  BY DEF Mail, Reserved, Counted
<1> HIDE DEF Q, M
<1>5. IsFiniteSet(Q \cup M) /\ Cardinality(Q \cup M) = Cardinality(Q) + Cardinality(M)
  BY <1>1, <1>3, <1>4, FS_Union, FS_EmptySet
<1>6. Cardinality((Q \cup M) \cup Reserved) = Cardinality(Q \cup M) + Cardinality(Reserved)
  <2>1. /\ Cardinality((Q \cup M) \cup Reserved) =
             Cardinality(Q \cup M) + Cardinality(Reserved) - Cardinality((Q \cup M) \cap Reserved)
        /\ Cardinality(Q \cup M) \in Nat
    BY <1>5, FS_Union, ReservedFinite, FS_CardinalityType
  <2>2. Cardinality((Q \cup M) \cap Reserved) = 0
    BY <1>4, FS_EmptySet
  <2>3. QED
    BY <2>1, <2>2, ReservedFinite
<1>7. (Q \cup M) \cup Reserved \in SUBSET Caller
  BY <1>1, <1>3 DEF Reserved
<1>8. Cardinality((Q \cup M) \cup Reserved) <= Cardinality(Caller)
  BY <1>7, FS_Subset
<1>9. QED
  BY <1>0, <1>1, <1>2, <1>3, <1>5, <1>6, <1>8, ReservedFinite, DepthIs DEF Types, Depth

LEMMA MessageTyped ==
  ASSUME Types, Len(msg) = 1
  PROVE  msg[1] \in Caller /\ msg[1] \in Thread
<1>1. msg \in Seq(Caller) /\ 1 \in 1 .. Len(msg)
  BY DEF Types
<1>2. QED
  BY <1>1 DEF Thread

LEMMA InvImplies == IInv => TypeOK /\ JoinFindsIdleWorker
<1> SUFFICES ASSUME IInv PROVE TypeOK /\ JoinFindsIdleWorker
  OBVIOUS
<1>1. TypeOK
  BY DepthBound DEF IInv, Types, TypeOK, Depth, Inside, Early, Counted
<1>2. ASSUME NEW t \in Thread, pc[t] = "join"
      PROVE  mbox = << >> /\ worker \in {"recv", "exited"}
  <2>1. pinned = {} /\ \A u \in Thread : pc[u] # "wait"
    BY <1>2 DEF IInv, Pins, Inside
  <2>2. Caller \subseteq Thread
    BY DEF Thread
  <2>3. \A i \in 1 .. Len(mbox) : FALSE
    BY <2>1, <2>2 DEF IInv, Mail, Types
  <2>4. Len(mbox) = 0
    BY <2>3 DEF IInv, Types
  <2>5. ~(worker \notin {"recv", "exited"})
    BY <2>1, <2>2 DEF IInv, Mail, Types
  <2>6. QED
    BY <2>4, <2>5 DEF IInv, Types
<1>3. QED
  BY <1>1, <1>2 DEF JoinFindsIdleWorker

LEMMA InvInit == Init => IInv
<1> SUFFICES ASSUME Init PROVE IInv
  OBVIOUS
<1>0. 0 \in Depth /\ << >> \in Seq(Caller) /\ Len(<< >>) = 0
  BY ReservedFinite DEF Depth
<1>1. Types
  <2>1. loaded \in [Thread -> Depth] /\ seen \in Depth /\ depth \in Nat
    BY <1>0 DEF Init
  <2>2. mbox \in Seq(Caller) /\ msg \in Seq(Caller) /\ Len(msg) <= 1
    BY <1>0 DEF Init
  <2>3. QED
    BY <2>1, <2>2 DEF Init, Types, Inside
<1>2. Pins /\ Runs /\ FailedCallDidNotRun /\ MutedHasMessage
  BY DEF Init, Pins, Runs, FailedCallDidNotRun, MutedHasMessage, Thread, Inside, Early, Counted
<1>3. Mail
  BY <1>0 DEF Init, Mail
<1>4. DepthExact
  <2>1. Reserved = {}
    BY DEF Init, Reserved, Counted, Thread
  <2>2. QED
    BY <1>0, <2>1, FS_EmptySet, DepthIs DEF Init
<1>5. QED
  BY <1>1, <1>2, <1>3, <1>4 DEF IInv

----------------------------------------------------------------------------
(* Calls *)

LEMMA MailKeeps ==
  ASSUME IInv, NEW t \in Thread, NEW l, Goto(t, l), pc[t] # "wait",
         UNCHANGED <<mbox, worker, msg>>
  PROVE  Mail'
<1>1. \A u \in Thread : pc[u] = "wait" => pc'[u] = "wait"
  BY DEF IInv, Types, Goto
<1>2. \A i \in 1 .. Len(mbox) : mbox[i] \in Thread
  BY DEF IInv, Types, Thread
<1>3. Len(msg) = 1 => msg[1] \in Thread
  BY MessageTyped DEF IInv
<1>4. QED
  BY <1>1, <1>2, <1>3 DEF IInv, Mail

LEMMA DepthKeeps ==
  ASSUME IInv, NEW t \in Thread, NEW l, Goto(t, l), l \in Counted <=> pc[t] \in Counted,
         UNCHANGED <<depth, mbox, worker>>
  PROVE  DepthExact'
<1>1. Cardinality(Reserved') = Cardinality(Reserved)
  BY ReservedMoves DEF IInv, Reserved
<1>2. DepthExact' <=> depth' = Cardinality(Reserved') + Len(mbox') + (IF worker' = "count" THEN 1 ELSE 0)
  BY DEF DepthExact, Reserved, Counted
<1>3. QED
  BY <1>1, <1>2, DepthIs DEF IInv

LEMMA InvNewCall ==
  ASSUME IInv, NEW t \in Thread, NewCall(t)
  PROVE  IInv'
<1>0. PICK l \in {"fault", "unpin", "kill"} : Goto(t, l) /\ (l = "fault" => Call(t))
  BY DEF NewCall, Call, Drop, Kill, SetMailboxDepth
<1>1. /\ pc[t] = "idle" /\ live /\ pinned' = pinned \cup {t}
      /\ UNCHANGED <<open, faulted, depth, muted, work, loaded>>
      /\ live' \in BOOLEAN /\ limit' \in Limit \cup {WorkerLimit}
  BY DEF NewCall, Call, Drop, Kill, SetMailboxDepth, CanPin, actorVars, life, pressure,
         work, IInv, Types
<1>2. \/ result' = [result EXCEPT ![t] = "none"] /\ ran' = [ran EXCEPT ![t] = FALSE] /\ t # Self
      \/ UNCHANGED <<result, ran>> /\ l # "fault"
  <2>1. CASE Call(t)
    BY <2>1 DEF Call
  <2>2. CASE ~Call(t)
    BY <1>0, <2>2 DEF NewCall, Drop, Kill, SetMailboxDepth
  <2>3. QED
    BY <2>1, <2>2
<1>3. Types'
  BY <1>0, <1>1, <1>2 DEF IInv, Types, Goto, work, Inside, Early
<1>4. Pins'
  BY <1>0, <1>1, <1>2 DEF IInv, Types, Pins, Goto, Inside, Early, Counted
<1>5. Mail' /\ DepthExact'
  BY <1>0, <1>1, MailKeeps, DepthKeeps DEF work, Counted
<1>6. Runs' /\ FailedCallDidNotRun'
  BY <1>0, <1>1, <1>2 DEF IInv, Types, Runs, FailedCallDidNotRun, Goto, work, Thread, Early, Counted
<1>7. MutedHasMessage'
  BY <1>1 DEF IInv, MutedHasMessage, work
<1>8. QED
  BY <1>3, <1>4, <1>5, <1>6, <1>7 DEF IInv

\* The steps of a call before it reserves its slot.
Approach(t) ==
  FaultCheck(t) \/ LoadPressure(t) \/ Writable(t) \/ Retry(t) \/ TimeToLive(t)

LEMMA InvApproach ==
  ASSUME IInv, NEW t \in Thread, Approach(t)
  PROVE  IInv'
<1>0. PICK l \in {"pressure", "writable", "reserve", "unpin"} : Goto(t, l)
  BY DEF Approach, FaultCheck, LoadPressure, Writable, Retry, TimeToLive, ReturnZero
<1>1. /\ pc[t] \in Early \ Counted /\ UNCHANGED <<actorVars, pinned, ran>>
      /\ result' \in {result, [result EXCEPT ![t] = "zero"]}
  BY DEF Approach, FaultCheck, LoadPressure, Writable, Retry, TimeToLive, ReturnZero,
         Early, Counted
<1>2. result' = result \/ l = "unpin"
  <2>1. result' = result \/ Goto(t, "unpin")
    BY DEF Approach, FaultCheck, LoadPressure, Writable, Retry, TimeToLive, ReturnZero
  <2>2. QED
    BY <1>0, <2>1 DEF Goto, IInv, Types
<1>3. loaded' \in [Thread -> Depth]
  <2>1. 0 \in Depth /\ depth \in Depth
    BY DepthBound, ReservedFinite DEF IInv, Depth
  <2>2. QED
    BY <2>1 DEF Approach, FaultCheck, LoadPressure, Writable, Retry, TimeToLive, IInv, Types
<1>4. t \in Caller /\ t \in pinned
  BY <1>1 DEF IInv, Pins, Thread, Early, Counted, Inside
<1>5. Types'
  BY <1>0, <1>1, <1>3 DEF IInv, Types, Goto, actorVars, life, pressure, work, Inside, Early
<1>6. Pins'
  BY <1>0, <1>1, <1>4 DEF IInv, Types, Pins, Goto, actorVars, life
<1>7. Mail' /\ DepthExact'
  BY <1>0, <1>1, MailKeeps, DepthKeeps DEF actorVars, pressure, work, Early, Counted
<1>8. Runs' /\ FailedCallDidNotRun'
  BY <1>0, <1>1, <1>2, <1>4 DEF IInv, Types, Runs, FailedCallDidNotRun, Goto, actorVars, work,
     Thread, Early, Counted
<1>9. MutedHasMessage'
  BY <1>1 DEF IInv, MutedHasMessage, actorVars, life, pressure, work
<1>10. QED
  BY <1>5, <1>6, <1>7, <1>8, <1>9 DEF IInv

LEMMA InvReserve ==
  ASSUME IInv, NEW t \in Thread, Reserve(t)
  PROVE  IInv'
<1>0. PICK l \in Counted : Goto(t, l)
  BY DEF Reserve, Counted
<1>1. /\ pc[t] = "reserve" /\ depth \in Nat /\ depth' = depth + 1
      /\ UNCHANGED <<life, work, pinned, muted, limit, result, ran, loaded>>
  BY DEF Reserve, IInv, Types
<1>2. t \in Caller /\ t \in pinned
  BY <1>1 DEF IInv, Pins, Thread, Early, Counted, Inside
<1>3. Types'
  BY <1>0, <1>1 DEF IInv, Types, Goto, life, work, Inside, Early
<1>4. Pins'
  BY <1>0, <1>1, <1>2 DEF IInv, Types, Pins, Goto, life, Counted
<1>5. Mail'
  BY <1>0, <1>1, MailKeeps DEF work
<1>6. DepthExact'
  <2>1. t \in Caller \ Reserved
    BY <1>1, <1>2 DEF Reserved, Counted
  <2>2. Cardinality(Reserved') = Cardinality(Reserved) + 1
    BY <1>0, <2>1, ReservedMoves DEF IInv
  <2>3. DepthExact' <=> depth' = Cardinality(Reserved') + Len(mbox') + (IF worker' = "count" THEN 1 ELSE 0)
    BY DEF DepthExact, Reserved, Counted
  <2>4. Len(mbox) \in Nat
    BY DEF IInv, Types
  <2>5. QED
    BY <1>1, <2>2, <2>3, <2>4, DepthIs, ReservedFinite DEF IInv, work
<1>7. Runs' /\ FailedCallDidNotRun'
  BY <1>0, <1>1, <1>2 DEF IInv, Types, Runs, FailedCallDidNotRun, Goto, work, Thread, Early, Counted
<1>8. MutedHasMessage'
  BY <1>1 DEF IInv, MutedHasMessage
<1>9. QED
  BY <1>3, <1>4, <1>5, <1>6, <1>7, <1>8 DEF IInv

\* A reserved slot is a positive depth.
LEMMA ReservedDepth ==
  ASSUME IInv, NEW t \in Reserved
  PROVE  depth > 0 /\ Cardinality(Reserved) > 0
<1>1. Cardinality(Reserved) # 0
  BY ReservedFinite, FS_EmptySet
<1>2. Len(mbox) \in Nat
  BY DEF IInv, Types
<1>3. QED
  BY <1>1, <1>2, ReservedFinite, DepthIs DEF IInv

LEMMA InvMute ==
  ASSUME IInv, NEW t \in Thread, Mute(t)
  PROVE  IInv'
<1>1. /\ pc[t] = "mute" /\ muted' = TRUE /\ Goto(t, "send")
      /\ UNCHANGED <<life, work, pinned, depth, limit, result, ran, loaded>>
  BY DEF Mute
<1>2. t \in Caller /\ t \in pinned
  BY <1>1 DEF IInv, Pins, Thread, Early, Counted, Inside
<1>3. Types'
  BY <1>1 DEF IInv, Types, Goto, life, work, Inside, Early, Counted
<1>4. Pins'
  BY <1>1, <1>2 DEF IInv, Types, Pins, Goto, life
<1>5. Mail' /\ DepthExact'
  BY <1>1, MailKeeps, DepthKeeps DEF work, Counted
<1>6. Runs' /\ FailedCallDidNotRun'
  BY <1>1, <1>2 DEF IInv, Types, Runs, FailedCallDidNotRun, Goto, work, Thread, Early, Counted
<1>7. MutedHasMessage'
  <2>1. t \in Reserved
    BY <1>1, <1>2 DEF Reserved, Counted
  <2>2. QED
    BY <1>1, <2>1, ReservedDepth DEF MutedHasMessage
<1>8. QED
  BY <1>3, <1>4, <1>5, <1>6, <1>7 DEF IInv

LEMMA InvUnpin ==
  ASSUME IInv, NEW t \in Thread, Unpin(t)
  PROVE  IInv'
<1>0. PICK l \in {"idle", "join"} :
        /\ Goto(t, l)
        /\ IF l = "join" THEN t # Self /\ open' = FALSE /\ ~live /\ pinned' = {}
           ELSE open' \in {open, FALSE}
  BY DEF Unpin
<1>1. /\ pc[t] = "unpin" /\ pinned' = pinned \ {t}
      /\ UNCHANGED <<pressure, work, live, faulted, result, ran, loaded>>
  BY DEF Unpin
<1>2. Types'
  BY <1>0, <1>1 DEF IInv, Types, Goto, pressure, work
<1>3. Pins'
  <2>1. t \in pinned /\ \A u \in Thread : pc[u] # "join"
    BY <1>1 DEF IInv, Pins, Inside
  <2>2. \A u \in Thread : pc'[u] = IF u = t THEN l ELSE pc[u]
    BY <1>0 DEF IInv, Types, Goto
  <2>3. \A u \in Thread : pc'[u] \in Inside => u \in pinned'
    BY <1>1, <2>2 DEF IInv, Pins, Inside, Early, Counted
  <2>4. \A u \in Thread : pc'[u] = "join" => ~live' /\ ~open' /\ pinned' = {}
    BY <1>0, <1>1, <2>1, <2>2
  <2>5. pc'[Self] \in {"idle", "unpin", "kill", "close"}
    BY <1>0, <2>2 DEF IInv, Pins, Thread
  <2>6. QED
    BY <2>3, <2>4, <2>5 DEF Pins
<1>4. Mail' /\ DepthExact'
  BY <1>0, <1>1, MailKeeps, DepthKeeps DEF pressure, work, Counted
<1>5. Runs' /\ FailedCallDidNotRun'
  BY <1>0, <1>1 DEF IInv, Types, Runs, FailedCallDidNotRun, Goto, work, Thread, Early, Counted
<1>6. MutedHasMessage'
  BY <1>0, <1>1 DEF IInv, MutedHasMessage, pressure, work
<1>7. QED
  BY <1>2, <1>3, <1>4, <1>5, <1>6 DEF IInv

LEMMA InvEnd ==
  ASSUME IInv, NEW t \in Thread, Joined(t) \/ MarkFaulted(t) \/ Close(t)
  PROVE  IInv'
<1>0. PICK l \in {"idle", "close", "unpin"} : Goto(t, l) /\ (l = "idle" <=> pc[t] = "join")
  BY DEF Joined, MarkFaulted, Close
<1>1. /\ pc[t] \in {"join", "kill", "close"}
      /\ UNCHANGED <<pressure, work, pinned, live, result, ran, loaded>>
      /\ open' \in {open, FALSE} /\ faulted' \in {faulted, TRUE}
  BY DEF Joined, MarkFaulted, Close, actorVars, life
<1>2. Types'
  BY <1>0, <1>1 DEF IInv, Types, Goto, pressure, work, Inside
<1>3. Pins'
  <2>1. \A u \in Thread : pc'[u] = IF u = t THEN l ELSE pc[u]
    BY <1>0 DEF IInv, Types, Goto
  <2>2. pc[t] # "join" => t \in pinned
    BY <1>1 DEF IInv, Pins, Inside
  <2>3. \A u \in Thread : pc'[u] \in Inside => u \in pinned'
    BY <1>0, <1>1, <2>1, <2>2 DEF IInv, Pins, Inside, Early, Counted
  <2>4. \A u \in Thread : pc'[u] = "join" => ~live' /\ ~open' /\ pinned' = {}
    <3>1. \A u \in Thread : pc'[u] = "join" => pc[u] = "join"
      BY <1>0, <2>1
    <3>2. ~open => ~open'
      BY <1>1
    <3>3. QED
      BY <1>1, <3>1, <3>2 DEF IInv, Pins
  <2>5. pc'[Self] \in {"idle", "unpin", "kill", "close"}
    BY <1>0, <2>1 DEF IInv, Pins, Thread
  <2>6. QED
    BY <2>3, <2>4, <2>5 DEF Pins
<1>4. Mail' /\ DepthExact'
  BY <1>0, <1>1, MailKeeps, DepthKeeps DEF pressure, work, Counted
<1>5. Runs' /\ FailedCallDidNotRun'
  BY <1>0, <1>1 DEF IInv, Types, Runs, FailedCallDidNotRun, Goto, work, Thread, Early, Counted
<1>6. MutedHasMessage'
  BY <1>0, <1>1 DEF IInv, MutedHasMessage, pressure, work
<1>7. QED
  BY <1>2, <1>3, <1>4, <1>5, <1>6 DEF IInv

LEMMA InvSend ==
  ASSUME IInv, NEW t \in Thread, Send(t)
  PROVE  IInv'
<1>1. /\ pc[t] = "send" /\ t \in Caller /\ t \in pinned
      /\ UNCHANGED <<life, pinned, muted, limit, worker, msg, seen, ran, loaded>>
  BY DEF Send, IInv, Pins, Thread, Inside, Early, Counted
<1>2. t \in Reserved
  BY <1>1 DEF Reserved, Counted
<1>3. depth > 0 /\ depth \in Nat /\ Len(mbox) \in Nat
  BY <1>2, ReservedDepth DEF IInv, Types
<1>4. DepthExact' <=> depth' = Cardinality(Reserved') + Len(mbox') + (IF worker' = "count" THEN 1 ELSE 0)
  BY DEF DepthExact, Reserved, Counted
<1>5. CASE open
  <2>1. mbox' = Append(mbox, t) /\ Goto(t, "wait") /\ UNCHANGED <<depth, result>>
    BY <1>5 DEF Send
  <2>2. /\ mbox' \in Seq(Caller) /\ Len(mbox') = Len(mbox) + 1
        /\ mbox'[Len(mbox) + 1] = t /\ \A i \in 1 .. Len(mbox) : mbox'[i] = mbox[i]
    BY <1>1, <2>1 DEF IInv, Types
  <2>3. Types'
    BY <1>1, <2>1, <2>2 DEF IInv, Types, Goto, life, Inside
  <2>4. Pins'
    BY <1>1, <2>1 DEF IInv, Types, Pins, Goto, life
  <2>5. \A i \in 1 .. Len(mbox) : mbox[i] \in Thread /\ mbox[i] # t
    BY <1>1 DEF IInv, Types, Mail, Thread
  <2>6. pc' = [pc EXCEPT ![t] = "wait"] /\ DOMAIN pc = Thread
    BY <2>1 DEF Goto, IInv, Types
  <2>7. Mail'
    <3>1. \A i \in 1 .. Len(mbox') : pc'[mbox'[i]] = "wait"
      BY <1>3, <2>2, <2>5, <2>6 DEF IInv, Mail
    <3>2. \A i, j \in 1 .. Len(mbox') : mbox'[i] = mbox'[j] => i = j
      BY <1>3, <2>2, <2>5 DEF IInv, Mail
    <3>3. worker' \in {"recv", "exited"} => msg' = << >>
      BY <1>1 DEF IInv, Mail
    <3>4. ASSUME worker' \notin {"recv", "exited"}
          PROVE  Len(msg') = 1 /\ pc'[msg'[1]] = "wait" /\ \A i \in 1 .. Len(mbox') : mbox'[i] # msg'[1]
      <4>1. Len(msg) = 1 /\ pc[msg[1]] = "wait" /\ msg[1] \in Thread
        BY <1>1, <3>4, MessageTyped DEF IInv, Mail
      <4>2. \A i \in 1 .. Len(mbox) : mbox[i] # msg[1]
        BY <1>1, <3>4 DEF IInv, Mail
      <4>3. QED
        BY <1>1, <1>3, <2>2, <2>6, <4>1, <4>2
    <3>5. QED
      BY <3>1, <3>2, <3>3, <3>4 DEF Mail
  <2>8. DepthExact'
    <3>1. Cardinality(Reserved') = Cardinality(Reserved) - 1
      BY <1>2, <2>1, ReservedMoves DEF IInv, Counted
    <3>2. QED
      BY <1>1, <1>3, <1>4, <2>1, <2>2, <3>1, DepthIs, ReservedFinite DEF IInv
  <2>9. Runs' /\ FailedCallDidNotRun'
    BY <1>1, <2>1 DEF IInv, Types, Runs, FailedCallDidNotRun, Goto, Thread, Early, Counted
  <2>10. MutedHasMessage'
    BY <1>1, <1>3, <2>1 DEF MutedHasMessage
  <2>11. QED
    BY <2>3, <2>4, <2>7, <2>8, <2>9, <2>10 DEF IInv
<1>6. CASE ~open
  <2>1. /\ depth' = depth - 1 /\ Goto(t, "unpin") /\ UNCHANGED mbox
        /\ result' = [result EXCEPT ![t] = "zero"]
    BY <1>3, <1>6 DEF Send, ReturnZero
  <2>2. Types'
    BY <1>1, <1>3, <2>1 DEF IInv, Types, Goto, life, Inside
  <2>3. Pins'
    BY <1>1, <2>1 DEF IInv, Types, Pins, Goto, life
  <2>4. Mail'
    BY <1>1, <2>1, MailKeeps
  <2>5. DepthExact'
    <3>1. Cardinality(Reserved') = Cardinality(Reserved) - 1
      BY <1>2, <2>1, ReservedMoves DEF IInv, Counted
    <3>2. QED
      BY <1>1, <1>3, <1>4, <2>1, <3>1, DepthIs, ReservedFinite DEF IInv
  <2>6. Runs' /\ FailedCallDidNotRun'
    BY <1>1, <2>1 DEF IInv, Types, Runs, FailedCallDidNotRun, Goto, Thread, Early, Counted
  <2>7. MutedHasMessage'
    BY <1>1, <1>6 DEF MutedHasMessage, life
  <2>8. QED
    BY <2>2, <2>3, <2>4, <2>5, <2>6, <2>7 DEF IInv
<1>7. QED
  BY <1>5, <1>6 DEF IInv, Types

----------------------------------------------------------------------------
(* The worker *)

LEMMA InvReceive ==
  ASSUME IInv, Receive
  PROVE  IInv'
<1> DEFINE c == Head(mbox)
<1>1. /\ worker = "recv" /\ mbox # << >> /\ msg' = << c >> /\ mbox' = Tail(mbox)
      /\ worker' = "count" /\ UNCHANGED <<life, pressure, call, pinned, seen>>
  BY DEF Receive
<1>2. /\ Len(mbox) \in Nat /\ Len(mbox) >= 1 /\ c = mbox[1] /\ c \in Caller
      /\ mbox' \in Seq(Caller) /\ Len(mbox') = Len(mbox) - 1
      /\ \A i \in 1 .. Len(mbox') : mbox'[i] = mbox[i + 1] /\ i + 1 \in 1 .. Len(mbox)
      /\ msg' \in Seq(Caller) /\ Len(msg') = 1 /\ msg'[1] = c
  BY <1>1 DEF IInv, Types
<1> HIDE DEF c
<1>3. Types'
  BY <1>1, <1>2 DEF IInv, Types, life, pressure, call
<1>4. Pins'
  BY <1>1 DEF IInv, Pins, life, call
<1>5. Mail'
  <2>1. 1 \in 1 .. Len(mbox) /\ pc[c] = "wait" /\ UNCHANGED pc
    BY <1>1, <1>2 DEF IInv, Mail, call
  <2>2. \A i \in 1 .. Len(mbox') : mbox'[i] # c /\ pc'[mbox'[i]] = "wait"
    BY <1>2, <2>1 DEF IInv, Mail
  <2>3. \A i, j \in 1 .. Len(mbox') : mbox'[i] = mbox'[j] => i = j
    <3>1. ASSUME NEW i \in 1 .. Len(mbox'), NEW j \in 1 .. Len(mbox'), mbox'[i] = mbox'[j]
          PROVE  i = j
      <4>1. mbox[i + 1] = mbox[j + 1] /\ i + 1 \in 1 .. Len(mbox) /\ j + 1 \in 1 .. Len(mbox)
        BY <1>2, <3>1
      <4>2. i + 1 = j + 1
        BY <4>1 DEF IInv, Mail
      <4>3. QED
        BY <1>2, <4>2
    <3>2. QED
      BY <3>1
  <2>4. QED
    BY <1>1, <1>2, <2>1, <2>2, <2>3 DEF Mail
<1>6. DepthExact'
  <2>1. DepthExact' <=> depth' = Cardinality(Reserved') + Len(mbox') + (IF worker' = "count" THEN 1 ELSE 0)
    BY DEF DepthExact, Reserved, Counted
  <2>2. Reserved' = Reserved /\ depth' = depth
    BY <1>1 DEF Reserved, call, pressure
  <2>3. QED
    BY <1>1, <1>2, <2>1, <2>2, DepthIs, ReservedFinite DEF IInv
<1>7. Runs' /\ FailedCallDidNotRun'
  BY <1>1 DEF IInv, Runs, FailedCallDidNotRun, call
<1>8. MutedHasMessage'
  BY <1>1 DEF IInv, MutedHasMessage, life, pressure
<1>9. QED
  BY <1>3, <1>4, <1>5, <1>6, <1>7, <1>8 DEF IInv

\* The steps between taking a message and dispatching it.
LEMMA InvDrain ==
  ASSUME IInv, CountDown \/ LoadDepth \/ Unmute
  PROVE  IInv'
<1>1. /\ UNCHANGED <<life, call, pinned, mbox, msg, limit>>
      /\ worker \in {"count", "load", "unmute"} /\ worker' \in {"load", "unmute", "check"}
      /\ worker = "count" => worker' = "load"
  BY DEF CountDown, LoadDepth, Unmute, pressure
<1>2. /\ depth \in Nat /\ depth' \in Nat /\ Len(mbox) \in Nat
      /\ depth' = IF worker = "count" THEN depth - 1 ELSE depth
  <2>1. worker = "count" => depth > 0
    BY DepthIs, ReservedFinite DEF IInv, Types
  <2>2. QED
    BY <2>1 DEF CountDown, LoadDepth, Unmute, pressure, IInv, Types
<1>3. Types'
  <2>1. seen' \in Depth /\ muted' \in BOOLEAN
    BY DepthBound DEF IInv, Types, CountDown, LoadDepth, Unmute, pressure
  <2>2. QED
    BY <1>1, <1>2, <2>1 DEF IInv, Types, life, call
<1>4. Pins'
  BY <1>1 DEF IInv, Pins, life, call
<1>5. Mail'
  BY <1>1 DEF IInv, Mail, call
<1>6. DepthExact'
  <2>1. DepthExact' <=> depth' = Cardinality(Reserved') + Len(mbox') + (IF worker' = "count" THEN 1 ELSE 0)
    BY DEF DepthExact, Reserved, Counted
  <2>2. Reserved' = Reserved /\ mbox' = mbox
    BY <1>1 DEF Reserved, call
  <2>3. QED
    BY <1>1, <1>2, <2>1, <2>2, DepthIs, ReservedFinite DEF IInv
<1>7. Runs' /\ FailedCallDidNotRun'
  BY <1>1 DEF IInv, Runs, FailedCallDidNotRun, call
<1>8. MutedHasMessage'
  <2>1. CASE CountDown
    BY <2>1 DEF CountDown, MutedHasMessage
  <2>2. CASE LoadDepth
    <3>1. WorkerLimit \div 2 >= 0
      OBVIOUS
    <3>2. depth = 0 => depth <= WorkerLimit \div 2
      BY <3>1
    <3>3. QED
      BY <1>2, <2>2, <3>2 DEF LoadDepth, MutedHasMessage, pressure
  <2>3. CASE Unmute
    BY <2>3 DEF Unmute, MutedHasMessage
  <2>4. QED
    BY <2>1, <2>2, <2>3
<1>9. QED
  BY <1>3, <1>4, <1>5, <1>6, <1>7, <1>8 DEF IInv

LEMMA InvDispatch ==
  ASSUME IInv, Dispatch
  PROVE  IInv'
<1>1. /\ worker = "check" /\ worker' = "dispatch" /\ ran' = [ran EXCEPT ![msg[1]] = TRUE]
      /\ UNCHANGED <<life, pressure, pinned, mbox, msg, seen, pc, result, loaded>>
  BY DEF Dispatch
<1>2. msg[1] \in Caller /\ pc[msg[1]] = "wait" /\ Caller \subseteq Thread
  BY <1>1 DEF IInv, Mail, Types, Thread
<1>3. Types'
  BY <1>1 DEF IInv, Types, life, pressure
<1>4. Pins' /\ Mail'
  BY <1>1 DEF IInv, Pins, Mail, life
<1>5. DepthExact'
  BY <1>1 DEF IInv, DepthExact, pressure
<1>6. Runs' /\ FailedCallDidNotRun'
  BY <1>1, <1>2 DEF IInv, Types, Runs, FailedCallDidNotRun, Early, Counted
<1>7. MutedHasMessage'
  BY <1>1 DEF IInv, MutedHasMessage, life, pressure
<1>8. QED
  BY <1>3, <1>4, <1>5, <1>6, <1>7 DEF IInv

LEMMA InvReply ==
  ASSUME IInv, Absorb \/ Answer
  PROVE  IInv'
<1> DEFINE c == msg[1]
<1>1. /\ worker \in {"check", "dispatch"} /\ msg' = << >> /\ worker' = "recv"
      /\ Goto(c, "unpin") /\ UNCHANGED <<life, pressure, pinned, mbox, seen, ran, loaded>>
  BY DEF Absorb, Answer, Reply, Goto
<1>2. \/ result' = [result EXCEPT ![c] = "ok"]
      \/ result' = [result EXCEPT ![c] = "zero"] /\ worker = "check"
  BY DEF Absorb, Answer, Reply
<1>3. /\ c \in Caller /\ pc[c] = "wait" /\ Caller \subseteq Thread
      /\ \A i \in 1 .. Len(mbox) : mbox[i] \in Thread /\ mbox[i] # c
  BY <1>1 DEF IInv, Mail, Types, Thread
<1>4. worker = "check" => ~ran[c]
  BY <1>3 DEF IInv, Runs
<1>5. \A u \in Caller : pc[u] = "wait" /\ u # c => ~ran[u]
  BY DEF IInv, Runs
<1> HIDE DEF c
<1>6. Types'
  <2>1. << >> \in Seq(Caller) /\ Len(<< >>) <= 1
    OBVIOUS
  <2>2. result' \in [Thread -> {"none", "ok", "zero"}]
    BY <1>2 DEF IInv, Types
  <2>3. QED
    BY <1>1, <2>1, <2>2 DEF IInv, Types, Goto, life, pressure, Inside
<1>7. Pins'
  BY <1>1, <1>3 DEF IInv, Types, Pins, Goto, life, Thread, Inside
<1>8. Mail'
  BY <1>1, <1>3 DEF IInv, Types, Mail, Goto
<1>9. DepthExact'
  <2>1. Cardinality(Reserved') = Cardinality(Reserved)
    BY <1>1, <1>3, ReservedMoves DEF IInv, Reserved, Counted
  <2>2. DepthExact' <=> depth' = Cardinality(Reserved') + Len(mbox') + (IF worker' = "count" THEN 1 ELSE 0)
    BY DEF DepthExact, Reserved, Counted
  <2>3. QED
    BY <1>1, <2>1, <2>2, DepthIs DEF IInv, pressure
<1>10. Runs' /\ FailedCallDidNotRun'
  BY <1>1, <1>2, <1>3, <1>4, <1>5
     DEF IInv, Types, Runs, FailedCallDidNotRun, Goto, Thread, Early, Counted
<1>11. MutedHasMessage'
  BY <1>1 DEF IInv, MutedHasMessage, life, pressure
<1>12. QED
  BY <1>6, <1>7, <1>8, <1>9, <1>10, <1>11 DEF IInv

LEMMA InvWorkerExit ==
  ASSUME IInv, WorkerExit
  PROVE  IInv'
<1>1. /\ worker = "recv" /\ worker' = "exited"
      /\ UNCHANGED <<life, pressure, call, pinned, mbox, msg, seen>>
  BY DEF WorkerExit
<1>2. Types' /\ Pins' /\ Mail'
  BY <1>1 DEF IInv, Types, Pins, Mail, life, pressure, call
<1>3. DepthExact' /\ MutedHasMessage'
  BY <1>1 DEF IInv, DepthExact, MutedHasMessage, life, pressure, call
<1>4. Runs' /\ FailedCallDidNotRun'
  BY <1>1 DEF IInv, Runs, FailedCallDidNotRun, call
<1>5. QED
  BY <1>2, <1>3, <1>4 DEF IInv

LEMMA InvStutter == IInv /\ UNCHANGED vars => IInv'
  BY DEF vars, actorVars, life, pressure, work, call, IInv, Types, Pins, Mail, Runs,
     DepthExact, MutedHasMessage, FailedCallDidNotRun

LEMMA InvNext == IInv /\ [Next]_vars => IInv'
<1> SUFFICES ASSUME IInv, [Next]_vars PROVE IInv'
  OBVIOUS
<1>1. CASE UNCHANGED vars
  BY <1>1, InvStutter
<1>2. ASSUME NEW t \in Thread, NewCall(t) PROVE IInv'
  BY <1>2, InvNewCall
<1>3. ASSUME NEW t \in Thread, Approach(t) PROVE IInv'
  BY <1>3, InvApproach
<1>4. ASSUME NEW t \in Thread, Reserve(t) PROVE IInv'
  BY <1>4, InvReserve
<1>5. ASSUME NEW t \in Thread, Mute(t) PROVE IInv'
  BY <1>5, InvMute
<1>6. ASSUME NEW t \in Thread, Send(t) PROVE IInv'
  BY <1>6, InvSend
<1>7. ASSUME NEW t \in Thread, Unpin(t) PROVE IInv'
  BY <1>7, InvUnpin
<1>8. ASSUME NEW t \in Thread, Joined(t) \/ MarkFaulted(t) \/ Close(t) PROVE IInv'
  BY <1>8, InvEnd
<1>9. CASE WorkerStep
  BY <1>9, InvReceive, InvDrain, InvDispatch, InvReply, InvWorkerExit DEF WorkerStep
<1>10. QED
  BY <1>1, <1>2, <1>3, <1>4, <1>5, <1>6, <1>7, <1>8, <1>9 DEF Next, CallStep, Approach

----------------------------------------------------------------------------
(* Theorems *)

\* The invariant holds in every behaviour of the actor.
THEOREM Invariance == Spec => []IInv
  BY InvInit, InvNext, PTL DEF Spec

\* Every variable of the mailbox has its type; the mailbox and its depth never
\* outgrow the number of callers.
THEOREM MailboxTypeCorrect == Spec => []TypeOK
  BY Invariance, InvImplies, PTL

\* Racing callers, failed sends and drains leak no slot of the mailbox.
THEOREM DepthSafety == Spec => []DepthExact
<1>1. IInv => DepthExact
  BY DEF IInv
<1>2. QED
  BY <1>1, Invariance, PTL

\* A muted actor that can still be called has a message on its way, whatever
\* limit was set meanwhile.
THEOREM MuteSafety == Spec => []MutedHasMessage
<1>1. IInv => MutedHasMessage
  BY DEF IInv
<1>2. QED
  BY <1>1, Invariance, PTL

\* The thread that destroys the actor joins an idle or finished worker.
THEOREM JoinSafety == Spec => []JoinFindsIdleWorker
  BY Invariance, InvImplies, PTL

\* A call that timed out, found the mailbox closed or was absorbed did not run.
THEOREM AbsorptionSafety == Spec => []FailedCallDidNotRun
<1>1. IInv => FailedCallDidNotRun
  BY DEF IInv
<1>2. QED
  BY <1>1, Invariance, PTL

----------------------------------------------------------------------------
(* II. Nobody waits for a worker that is gone *)

\* The mailbox closes once the actor cannot be found any more, and the worker
\* exits once it is closed and empty.
Ends ==
  /\ ~open => ~live
  /\ \A t \in Thread : pc[t] \in {"kill", "close"} => ~live
  /\ worker = "exited" => ~open /\ mbox = << >>

\* Who waits has a message in the mailbox or in the worker's hands.
Served ==
  \A t \in Caller : pc[t] = "wait" =>
    (\E i \in 1 .. Len(mbox) : mbox[i] = t) \/ (Len(msg) = 1 /\ msg[1] = t)

\* The method that the worker is in is that of the message at hand.
Running == worker = "dispatch" => ran[msg[1]]

ServedInv == Ends /\ Served /\ Running

LEMMA ServedInit == Init => ServedInv
  BY DEF Init, ServedInv, Ends, Served, Running, Thread

LEMMA RunningNext ==
  ASSUME IInv, ServedInv, Next
  PROVE  Running'
<1>1. ASSUME NEW t \in Thread, NewCall(t) PROVE Running'
  <2>1. UNCHANGED <<worker, msg>> /\ pc[t] = "idle" /\ ran' \in {ran, [ran EXCEPT ![t] = FALSE]}
    BY <1>1 DEF NewCall, Call, Drop, Kill, SetMailboxDepth, CanPin, actorVars, work
  <2>2. ASSUME worker = "dispatch" PROVE msg[1] # t /\ msg[1] \in Thread /\ ran[msg[1]]
    BY <2>1, <2>2, MessageTyped DEF IInv, Mail, ServedInv, Running
  <2>3. QED
    BY <2>1, <2>2 DEF IInv, Types, Running
<1>2. ASSUME NEW t \in Thread, CallStep(t) PROVE Running'
  <2>1. UNCHANGED <<worker, msg, ran>>
    BY <1>2 DEF CallStep, FaultCheck, LoadPressure, Writable, Retry, TimeToLive, Reserve, Mute,
       Send, Unpin, Joined, MarkFaulted, Close, actorVars, work
  <2>2. QED
    BY <2>1 DEF ServedInv, Running
<1>3. CASE Dispatch
  <2>1. msg[1] \in Thread /\ ran' = [ran EXCEPT ![msg[1]] = TRUE] /\ UNCHANGED msg
    BY <1>3, MessageTyped DEF Dispatch, IInv, Mail
  <2>2. QED
    BY <2>1 DEF IInv, Types, Running
<1>4. CASE Receive \/ CountDown \/ LoadDepth \/ Unmute \/ Absorb \/ Answer \/ WorkerExit
  BY <1>4 DEF Receive, CountDown, LoadDepth, Unmute, Absorb, Answer, Reply, WorkerExit, Running
<1>5. CASE UNCHANGED vars
  BY <1>5 DEF vars, actorVars, work, call, ServedInv, Running
<1>6. QED
  BY <1>1, <1>2, <1>3, <1>4, <1>5 DEF Next, WorkerStep

LEMMA EndsNext ==
  ASSUME IInv, ServedInv, Next
  PROVE  Ends'
<1>0. Caller \subseteq Thread /\ DOMAIN pc = Thread
  BY DEF Thread, IInv, Types
<1>1. ASSUME NEW t \in Thread, NewCall(t) PROVE Ends'
  BY <1>0, <1>1 DEF NewCall, Call, Drop, Kill, SetMailboxDepth, Goto, actorVars, life, pressure,
     work, ServedInv, Ends
<1>2. ASSUME NEW t \in Thread, Approach(t) \/ Reserve(t) \/ Mute(t) \/ Joined(t) PROVE Ends'
  BY <1>0, <1>2 DEF Approach, FaultCheck, LoadPressure, Writable, Retry, TimeToLive, Reserve,
     Mute, Joined, Goto, ReturnZero, actorVars, life, pressure, work, ServedInv, Ends
<1>3. ASSUME NEW t \in Thread, Send(t) PROVE Ends'
  BY <1>0, <1>3 DEF Send, Goto, ReturnZero, life, ServedInv, Ends
<1>4. ASSUME NEW t \in Thread, Unpin(t) PROVE Ends'
  BY <1>0, <1>4 DEF Unpin, Goto, work, ServedInv, Ends
<1>5. ASSUME NEW t \in Thread, MarkFaulted(t) \/ Close(t) PROVE Ends'
  BY <1>0, <1>5 DEF MarkFaulted, Close, Goto, work, ServedInv, Ends
<1>6. CASE Receive \/ CountDown \/ LoadDepth \/ Unmute \/ WorkerExit
  BY <1>6 DEF Receive, CountDown, LoadDepth, Unmute, WorkerExit, life, call, ServedInv, Ends
<1>7. CASE Dispatch
  BY <1>7 DEF Dispatch, life, ServedInv, Ends
<1>8. CASE Absorb \/ Answer
  BY <1>0, <1>8 DEF Absorb, Answer, Reply, life, ServedInv, Ends
<1>9. CASE UNCHANGED vars
  BY <1>9 DEF vars, actorVars, life, work, call, ServedInv, Ends
<1>10. QED
  BY <1>1, <1>2, <1>3, <1>4, <1>5, <1>6, <1>7, <1>8, <1>9
     DEF Next, CallStep, Approach, WorkerStep

LEMMA ServedNext ==
  ASSUME IInv, ServedInv, Next
  PROVE  Served'
<1>0. Caller \subseteq Thread /\ DOMAIN pc = Thread /\ Len(mbox) \in Nat
  BY DEF Thread, IInv, Types
<1>1. ASSUME \A u \in Caller : pc'[u] = "wait" => pc[u] = "wait", UNCHANGED <<mbox, msg>>
      PROVE  Served'
  BY <1>1 DEF ServedInv, Served
<1>2. ASSUME NEW t \in Thread, NewCall(t) PROVE Served'
  <2>1. (\A u \in Caller : pc'[u] = "wait" => pc[u] = "wait") /\ UNCHANGED <<mbox, msg>>
    BY <1>0, <1>2 DEF NewCall, Call, Drop, Kill, SetMailboxDepth, Goto, actorVars, work
  <2>2. QED
    BY <1>1, <2>1
<1>3. ASSUME NEW t \in Thread, Approach(t) \/ Reserve(t) \/ Mute(t) \/ Joined(t) PROVE Served'
  <2>1. (\A u \in Caller : pc'[u] = "wait" => pc[u] = "wait") /\ UNCHANGED <<mbox, msg>>
    BY <1>0, <1>3 DEF Approach, FaultCheck, LoadPressure, Writable, Retry, TimeToLive, Reserve,
       Mute, Joined, Goto, ReturnZero, actorVars, work
  <2>2. QED
    BY <1>1, <2>1
<1>4. ASSUME NEW t \in Thread, Unpin(t) \/ MarkFaulted(t) \/ Close(t) PROVE Served'
  <2>1. (\A u \in Caller : pc'[u] = "wait" => pc[u] = "wait") /\ UNCHANGED <<mbox, msg>>
    BY <1>0, <1>4 DEF Unpin, MarkFaulted, Close, Goto, work
  <2>2. QED
    BY <1>1, <2>1
<1>5. ASSUME NEW t \in Thread, Send(t) PROVE Served'
  <2>1. CASE ~open
    <3>1. (\A u \in Caller : pc'[u] = "wait" => pc[u] = "wait") /\ UNCHANGED <<mbox, msg>>
      BY <1>0, <1>5, <2>1 DEF Send, ReturnZero, Goto
    <3>2. QED
      BY <1>1, <3>1
  <2>2. CASE open
    <3>1. /\ mbox' = Append(mbox, t) /\ UNCHANGED msg /\ t \in Caller
          /\ \A u \in Caller : pc'[u] = "wait" => pc[u] = "wait" \/ u = t
      BY <1>0, <1>5, <2>2 DEF Send, Goto, IInv, Pins, Thread
    <3>2. /\ Len(mbox') = Len(mbox) + 1 /\ mbox'[Len(mbox) + 1] = t
          /\ \A i \in 1 .. Len(mbox) : mbox'[i] = mbox[i]
      BY <3>1 DEF IInv, Types
    <3>3. Len(mbox) + 1 \in 1 .. Len(mbox') /\ \A i \in 1 .. Len(mbox) : i \in 1 .. Len(mbox')
      BY <1>0, <3>2
    <3>4. QED
      BY <3>1, <3>2, <3>3 DEF ServedInv, Served
  <2>3. QED
    BY <2>1, <2>2
<1>6. CASE Receive
  <2>1. /\ mbox # << >> /\ msg' = << Head(mbox) >> /\ mbox' = Tail(mbox) /\ UNCHANGED pc
        /\ msg = << >>
    BY <1>6 DEF Receive, call, IInv, Mail
  <2>2. /\ Len(mbox) >= 1 /\ Head(mbox) = mbox[1] /\ Len(mbox') = Len(mbox) - 1
        /\ \A i \in 1 .. Len(mbox') : mbox'[i] = mbox[i + 1]
        /\ Len(msg') = 1 /\ msg'[1] = mbox[1]
    BY <2>1 DEF IInv, Types
  <2>3. ASSUME NEW i \in 1 .. Len(mbox), i # 1
        PROVE  i - 1 \in 1 .. Len(mbox') /\ mbox'[i - 1] = mbox[i]
    BY <1>0, <2>2, <2>3
  <2>4. ASSUME NEW u \in Caller, pc[u] = "wait"
        PROVE  \E i \in 1 .. Len(mbox) : mbox[i] = u
    BY <2>1, <2>4 DEF ServedInv, Served
  <2>5. ASSUME NEW u \in Caller, pc'[u] = "wait"
        PROVE  (\E i \in 1 .. Len(mbox') : mbox'[i] = u) \/ (Len(msg') = 1 /\ msg'[1] = u)
    <3>1. PICK i \in 1 .. Len(mbox) : mbox[i] = u
      BY <2>1, <2>4, <2>5
    <3>2. QED
      BY <2>2, <2>3, <3>1
  <2>6. QED
    BY <2>5 DEF Served
<1>7. CASE CountDown \/ LoadDepth \/ Unmute \/ WorkerExit \/ Dispatch \/ UNCHANGED vars
  BY <1>1, <1>7 DEF CountDown, LoadDepth, Unmute, WorkerExit, Dispatch, call, vars, actorVars, work
<1>8. CASE Absorb \/ Answer
  <2>1. PICK c \in Caller : c = msg[1] /\ Len(msg) = 1
    BY <1>8, MessageTyped DEF Absorb, Answer, IInv, Mail
  <2>2. pc' = [pc EXCEPT ![c] = "unpin"] /\ UNCHANGED mbox
    BY <1>8, <2>1 DEF Absorb, Answer, Reply
  <2>3. \A u \in Caller : pc'[u] = "wait" => pc[u] = "wait" /\ u # c
    BY <1>0, <2>2
  <2>4. QED
    BY <2>1, <2>2, <2>3 DEF ServedInv, Served
<1>9. QED
  BY <1>2, <1>3, <1>4, <1>5, <1>6, <1>7, <1>8 DEF Next, CallStep, Approach, WorkerStep

LEMMA ServedInvNext == IInv /\ ServedInv /\ [Next]_vars => ServedInv'
<1> SUFFICES ASSUME IInv, ServedInv, [Next]_vars PROVE ServedInv'
  OBVIOUS
<1>1. CASE UNCHANGED vars
  BY <1>1 DEF vars, actorVars, life, work, call, ServedInv, Ends, Served, Running
<1>2. QED
  BY <1>1, EndsNext, ServedNext, RunningNext DEF ServedInv

LEMMA ServedImplies == IInv /\ ServedInv => WaiterIsServed
<1> SUFFICES ASSUME IInv, ServedInv, NEW t \in Caller, pc[t] = "wait"
             PROVE  worker # "exited" /\ \E i \in DOMAIN (msg \o mbox) : (msg \o mbox)[i] = t
  BY DEF WaiterIsServed
<1>0. /\ msg \in Seq(Caller) /\ mbox \in Seq(Caller) /\ Caller \subseteq Thread
      /\ Len(msg) \in Nat /\ Len(mbox) \in Nat
  BY DEF IInv, Types, Thread
<1>1. /\ DOMAIN (msg \o mbox) = 1 .. Len(msg) + Len(mbox)
      /\ \A i \in 1 .. Len(msg) : (msg \o mbox)[i] = msg[i]
      /\ \A i \in 1 .. Len(mbox) : (msg \o mbox)[Len(msg) + i] = mbox[i]
  BY <1>0
<1>2. \E i \in DOMAIN (msg \o mbox) : (msg \o mbox)[i] = t
  <2>1. CASE Len(msg) = 1 /\ msg[1] = t
    BY <1>0, <1>1, <2>1
  <2>2. ASSUME NEW i \in 1 .. Len(mbox), mbox[i] = t
        PROVE  \E j \in DOMAIN (msg \o mbox) : (msg \o mbox)[j] = t
    <3>1. Len(msg) + i \in 1 .. Len(msg) + Len(mbox)
      BY <1>0
    <3>2. QED
      BY <1>1, <2>2, <3>1
  <2>3. QED
    BY <2>1, <2>2 DEF ServedInv, Served
<1>3. worker # "exited"
  <2>1. ASSUME worker = "exited" PROVE Len(msg) = 0 /\ Len(mbox) = 0
    BY <2>1 DEF IInv, Mail, ServedInv, Ends
  <2>2. QED
    BY <1>1, <1>2, <2>1
<1>4. QED
  BY <1>2, <1>3

\* A caller that waits for its reply without a time limit gets one from a worker
\* that is there, for any number of callers, whoever kills or drops the actor:
\* the worker exits after the last message, and no message comes after that.
THEOREM NoLostReply == Spec => []WaiterIsServed
  BY ServedInit, ServedInvNext, ServedImplies, Invariance, PTL DEF Spec

----------------------------------------------------------------------------
(* III. Refinement.  A step shows at the phase of one caller, at the line,  *)
(* or at one flag of the actor, and leaves the others alone.               *)

\* What a caller that a step does not concern looks like.
LEMMA SameLook ==
  ASSUME NEW u \in Caller, pc'[u] = pc[u], result'[u] = result[u], ran'[u] = ran[u]
  PROVE  PhaseOf(u)' = PhaseOf(u)
  BY DEF PhaseOf

LEMMA SamePhases ==
  ASSUME \A u \in Caller : PhaseOf(u)' = PhaseOf(u)
  PROVE  [u \in Caller |-> PhaseOf(u)]' = [u \in Caller |-> PhaseOf(u)]
  OBVIOUS

LEMMA PhaseMoves ==
  ASSUME NEW c \in Caller, NEW from, NEW to, PhaseOf(c) \in from, PhaseOf(c)' = to,
         \A u \in Caller \ {c} : PhaseOf(u)' = PhaseOf(u)
  PROVE  Ideal!Moves(c, from, to)
  BY DEF Ideal!Moves

\* A step of a thread that shows at no phase.
LEMMA HiddenMove ==
  ASSUME IInv, NEW t \in Thread, NEW l, Goto(t, l), UNCHANGED <<result, ran>>,
         t \in Caller => PhaseOf(t)' = PhaseOf(t)
  PROVE  [u \in Caller |-> PhaseOf(u)]' = [u \in Caller |-> PhaseOf(u)]
<1>1. \A u \in Caller : u # t => pc'[u] = pc[u]
  BY DEF Goto, IInv, Types, Thread
<1>2. \A u \in Caller : PhaseOf(u)' = PhaseOf(u)
  BY <1>1, SameLook
<1>3. QED
  BY <1>2, SamePhases

\* The look of a call before its message is sent.
LEMMA EarlyLook ==
  ASSUME IInv, NEW t \in Thread, pc[t] \in Early
  PROVE  t \in Caller /\ result[t] = "none" /\ PhaseOf(t) = "asked"
<1>1. t \in Caller /\ result[t] = "none"
  BY DEF IInv, Pins, Runs, Thread, Early, Counted
<1>2. QED
  BY <1>1 DEF PhaseOf, Early, Counted

LEMMA SameLine ==
  ASSUME UNCHANGED <<mbox, worker, msg>>
  PROVE  Line' = Line
  BY DEF Line

\* A call is refused.
LEMMA RefuseShows ==
  ASSUME IInv, NEW t \in Thread, pc[t] \in Early, ReturnZero(t),
         UNCHANGED <<live, faulted, mbox, worker, msg, ran>>
  PROVE  Ideal!Next
<1>1. t \in Caller /\ PhaseOf(t) = "asked"
  BY EarlyLook
<1>2. DOMAIN pc = Thread /\ DOMAIN result = Thread /\ Caller \subseteq Thread
  BY DEF IInv, Types, Thread
<1>3. PhaseOf(t)' = "zero"
  BY <1>1, <1>2 DEF ReturnZero, Goto, PhaseOf
<1>4. \A u \in Caller \ {t} : PhaseOf(u)' = PhaseOf(u)
  BY <1>1, <1>2, SameLook DEF ReturnZero, Goto
<1>5. Ideal!Moves(t, {"asked"}, "zero")
  BY <1>1, <1>3, <1>4, PhaseMoves
<1>6. Ideal!Refuse(t)
  BY <1>5, SameLine DEF Ideal!Refuse
<1>7. QED
  BY <1>1, <1>6 DEF Ideal!Next

LEMMA NewCallShows ==
  ASSUME IInv, NEW t \in Thread, NewCall(t)
  PROVE  Ideal!Next \/ UNCHANGED Ideal!vars
<1>0. /\ pc[t] = "idle" /\ live /\ UNCHANGED <<mbox, worker, msg, faulted>>
      /\ DOMAIN pc = Thread /\ DOMAIN result = Thread /\ DOMAIN ran = Thread /\ Caller \subseteq Thread
  BY DEF NewCall, Call, Drop, Kill, SetMailboxDepth, CanPin, actorVars, life, work, IInv, Types, Thread
<1>1. Line' = Line /\ (worker # "exited")' = (worker # "exited")
  BY <1>0, SameLine
<1>2. CASE Call(t)
  <2>1. t \in Caller /\ UNCHANGED live
    BY <1>2 DEF Call, Thread, actorVars, life
  <2>2. PhaseOf(t) \in {"new", "ok", "zero"} /\ PhaseOf(t)' = "asked"
    BY <1>0, <1>2, <2>1 DEF Call, Goto, PhaseOf, IInv, Types
  <2>3. \A u \in Caller \ {t} : PhaseOf(u)' = PhaseOf(u)
    BY <1>0, <1>2, SameLook DEF Call, Goto
  <2>4. Ideal!Moves(t, {"new", "ok", "zero"}, "asked")
    BY <2>1, <2>2, <2>3, PhaseMoves
  <2>5. Ideal!Ask(t)
    BY <1>0, <1>1, <2>1, <2>4 DEF Ideal!Ask
  <2>6. QED
    BY <2>1, <2>5 DEF Ideal!Next
<1>3. ASSUME NEW l \in {"unpin", "kill"}, Goto(t, l), UNCHANGED <<result, ran>>, live' \in {live, FALSE}
      PROVE  Ideal!Next \/ UNCHANGED Ideal!vars
  <2>1. t \in Caller => PhaseOf(t)' = PhaseOf(t)
    BY <1>0, <1>3 DEF Goto, PhaseOf
  <2>2. [u \in Caller |-> PhaseOf(u)]' = [u \in Caller |-> PhaseOf(u)]
    BY <1>3, <2>1, HiddenMove
  <2>3. CASE live' = live
    BY <1>0, <1>1, <2>2, <2>3 DEF Ideal!vars
  <2>4. CASE live' = FALSE
    <3>1. Ideal!Unlink
      BY <1>0, <1>1, <2>2, <2>4 DEF Ideal!Unlink
    <3>2. QED
      BY <3>1 DEF Ideal!Next
  <2>5. QED
    BY <1>3, <2>3, <2>4
<1>4. QED
  BY <1>2, <1>3 DEF NewCall, Drop, Kill, SetMailboxDepth, life

LEMMA ApproachShows ==
  ASSUME IInv, NEW t \in Thread, Approach(t) \/ Reserve(t) \/ Mute(t)
  PROVE  Ideal!Next \/ UNCHANGED Ideal!vars
<1>1. pc[t] \in Early /\ UNCHANGED <<live, faulted, mbox, worker, msg, ran>>
  BY DEF Approach, FaultCheck, LoadPressure, Writable, Retry, TimeToLive, Reserve, Mute,
     Early, Counted, actorVars, life, work
<1>2. CASE ReturnZero(t)
  BY <1>1, <1>2, RefuseShows
<1>3. ASSUME NEW l \in Early, Goto(t, l), UNCHANGED result
      PROVE  UNCHANGED Ideal!vars
  <2>1. t \in Caller /\ result[t] = "none" /\ PhaseOf(t) = "asked"
    BY <1>1, EarlyLook
  <2>2. pc'[t] = l
    BY <1>3 DEF Goto, IInv, Types
  <2>3. PhaseOf(t)' = "asked"
    BY <1>3, <2>1, <2>2 DEF PhaseOf, Early, Counted
  <2>4. [u \in Caller |-> PhaseOf(u)]' = [u \in Caller |-> PhaseOf(u)]
    BY <1>1, <1>3, <2>1, <2>3, HiddenMove
  <2>5. QED
    BY <1>1, <2>4, SameLine DEF Ideal!vars
<1>4. ReturnZero(t) \/ \E l \in Early : Goto(t, l) /\ UNCHANGED result
  BY DEF Approach, FaultCheck, LoadPressure, Writable, Retry, TimeToLive, Reserve, Mute,
     Early, Counted
<1>5. QED
  BY <1>2, <1>3, <1>4

LEMMA SendShows ==
  ASSUME IInv, ServedInv, NEW t \in Thread, Send(t)
  PROVE  Ideal!Next
<1>1. pc[t] \in Early /\ UNCHANGED <<live, faulted, worker, msg, ran>>
  BY DEF Send, Early, Counted, life
<1>2. CASE ~open
  BY <1>1, <1>2, RefuseShows DEF Send
<1>3. CASE open
  <2>1. mbox' = Append(mbox, t) /\ Goto(t, "wait") /\ UNCHANGED result
    BY <1>3 DEF Send
  <2>2. t \in Caller /\ result[t] = "none" /\ PhaseOf(t) = "asked"
    BY <1>1, EarlyLook
  <2>3. pc'[t] = "wait" /\ ~ran[t] /\ \A u \in Caller \ {t} : pc'[u] = pc[u]
    BY <1>1, <2>1, <2>2 DEF Goto, IInv, Types, Runs, Thread
  <2>4. PhaseOf(t)' = "queued"
    BY <1>1, <2>1, <2>2, <2>3 DEF PhaseOf
  <2>5. \A u \in Caller \ {t} : PhaseOf(u)' = PhaseOf(u)
    BY <1>1, <2>1, <2>3, SameLook
  <2>6. Ideal!Moves(t, {"asked"}, "queued")
    BY <2>2, <2>4, <2>5, PhaseMoves
  <2>7. Line' = Append(Line, t)
    <3>1. \A s \in Seq(Caller), m \in Seq(Caller) : s \o Append(m, t) = Append(s \o m, t)
      BY <2>2
    <3>2. << >> \in Seq(Caller) /\ msg \in Seq(Caller) /\ mbox \in Seq(Caller)
      BY DEF IInv, Types
    <3>3. QED
      BY <1>1, <2>1, <3>1, <3>2 DEF Line
  <2>8. worker # "exited"
    BY <1>3 DEF ServedInv, Ends
  <2>9. Ideal!Accept(t)
    BY <1>1, <2>6, <2>7, <2>8 DEF Ideal!Accept
  <2>10. QED
    BY <2>2, <2>9 DEF Ideal!Next
<1>4. QED
  BY <1>2, <1>3

LEMMA EndShows ==
  ASSUME IInv, ServedInv, NEW t \in Thread, Unpin(t) \/ Joined(t) \/ MarkFaulted(t) \/ Close(t)
  PROVE  Ideal!Next \/ UNCHANGED Ideal!vars
<1>1. PICK l \in {"idle", "join", "close", "unpin"} : Goto(t, l)
  BY DEF Unpin, Joined, MarkFaulted, Close
<1>2. /\ pc[t] \in {"unpin", "join", "kill", "close"}
      /\ UNCHANGED <<live, mbox, worker, msg, result, ran>>
  BY DEF Unpin, Joined, MarkFaulted, Close, actorVars, life, work
<1>3. pc'[t] = l
  BY <1>1 DEF Goto, IInv, Types
<1>4. t \in Caller => PhaseOf(t)' = PhaseOf(t)
  BY <1>2, <1>3 DEF PhaseOf
<1>5. /\ [u \in Caller |-> PhaseOf(u)]' = [u \in Caller |-> PhaseOf(u)]
      /\ Line' = Line
  BY <1>1, <1>2, <1>4, HiddenMove, SameLine
<1>6. CASE MarkFaulted(t)
  <2>1. ~live /\ faulted' = TRUE
    BY <1>6 DEF MarkFaulted, ServedInv, Ends
  <2>2. Ideal!Die
    BY <1>2, <1>5, <2>1 DEF Ideal!Die
  <2>3. QED
    BY <2>2 DEF Ideal!Next
<1>7. CASE Unpin(t) \/ Joined(t) \/ Close(t)
  <2>1. UNCHANGED faulted
    BY <1>7 DEF Unpin, Joined, Close, actorVars, life
  <2>2. QED
    BY <1>2, <1>5, <2>1 DEF Ideal!vars
<1>8. QED
  BY <1>6, <1>7

----------------------------------------------------------------------------
(* The worker *)

LEMMA DrainShows ==
  ASSUME IInv, Receive \/ CountDown \/ LoadDepth \/ Unmute
  PROVE  UNCHANGED Ideal!vars
<1>1. UNCHANGED <<pc, result, ran, live, faulted>> /\ worker # "exited" /\ worker' # "exited"
  BY DEF Receive, CountDown, LoadDepth, Unmute, call, life
<1>2. [u \in Caller |-> PhaseOf(u)]' = [u \in Caller |-> PhaseOf(u)]
  BY <1>1, SameLook, SamePhases
<1>3. Line' = Line
  <2>1. CASE Receive
    <3>1. msg = << >> /\ mbox # << >> /\ msg' = << Head(mbox) >> /\ mbox' = Tail(mbox)
          /\ worker # "dispatch" /\ worker' # "dispatch" /\ mbox \in Seq(Caller)
      BY <2>1 DEF Receive, IInv, Mail, Types
    <3>2. << Head(mbox) >> \o Tail(mbox) = mbox /\ << >> \o mbox = mbox
      BY <3>1
    <3>3. QED
      BY <3>1, <3>2 DEF Line
  <2>2. CASE CountDown \/ LoadDepth \/ Unmute
    BY <2>2 DEF CountDown, LoadDepth, Unmute, Line
  <2>3. QED
    BY <2>1, <2>2
<1>4. QED
  BY <1>1, <1>2, <1>3 DEF Ideal!vars

\* The worker is in no method, so no call runs.
LEMMA NobodyRuns ==
  ASSUME IInv, worker # "dispatch"
  PROVE  Ideal!Nobody
<1>1. \A u \in Caller : PhaseOf(u) # "running"
  BY DEF IInv, Types, Runs, PhaseOf, Thread
<1>2. QED
  BY <1>1 DEF Ideal!Nobody

LEMMA ServeShows ==
  ASSUME IInv, Absorb \/ Dispatch
  PROVE  Ideal!Next
<1>0. worker = "check" /\ UNCHANGED <<live, faulted, mbox>> /\ worker' \in {"recv", "dispatch"}
  BY DEF Absorb, Dispatch, Reply, life
<1>1. PICK c \in Caller : c = msg[1] /\ Len(msg) = 1 /\ pc[c] = "wait"
  BY <1>0, MessageTyped DEF IInv, Mail
<1>2. /\ result[c] = "none" /\ ~ran[c] /\ c \in Thread /\ Caller \subseteq Thread
      /\ DOMAIN pc = Thread /\ DOMAIN result = Thread /\ DOMAIN ran = Thread
  BY <1>0, <1>1 DEF IInv, Runs, Types, Thread
<1>3. PhaseOf(c) = "queued"
  BY <1>1, <1>2 DEF PhaseOf
<1>4. msg \in Seq(Caller) /\ mbox \in Seq(Caller)
  BY DEF IInv, Types
<1>5. Line # << >> /\ Head(Line) = c /\ Tail(Line) = mbox
  <2>1. msg = << c >>
    BY <1>1, <1>4
  <2>2. << c >> \o mbox # << >> /\ Head(<< c >> \o mbox) = c /\ Tail(<< c >> \o mbox) = mbox
    BY <1>4
  <2>3. QED
    BY <1>0, <2>1, <2>2 DEF Line
<1>6. Line' = mbox
  <2>1. << >> \o mbox = mbox
    BY <1>4
  <2>2. CASE Absorb
    BY <1>0, <2>1, <2>2 DEF Absorb, Reply, Line
  <2>3. CASE Dispatch
    BY <1>0, <2>1, <2>3 DEF Dispatch, Line
  <2>4. QED
    BY <2>2, <2>3
<1>7. Ideal!Moves(c, {"queued"}, IF faulted THEN "zero" ELSE "running")
  <2>1. \A u \in Caller \ {c} : pc'[u] = pc[u] /\ result'[u] = result[u] /\ ran'[u] = ran[u]
    BY <1>1, <1>2 DEF Absorb, Dispatch, Reply
  <2>2. \A u \in Caller \ {c} : PhaseOf(u)' = PhaseOf(u)
    BY <2>1, SameLook
  <2>3. CASE Absorb
    <3>1. faulted /\ result'[c] = "zero" /\ pc'[c] = "unpin"
      BY <1>1, <1>2, <2>3 DEF Absorb, Reply
    <3>2. PhaseOf(c)' = "zero"
      BY <3>1 DEF PhaseOf
    <3>3. QED
      BY <1>3, <2>2, <3>1, <3>2, PhaseMoves
  <2>4. CASE Dispatch
    <3>1. ~faulted /\ result'[c] = "none" /\ pc'[c] = "wait" /\ ran'[c] = TRUE
      BY <1>1, <1>2, <2>4 DEF Dispatch
    <3>2. PhaseOf(c)' = "running"
      BY <3>1 DEF PhaseOf
    <3>3. QED
      BY <1>3, <2>2, <3>1, <3>2, PhaseMoves
  <2>5. QED
    BY <2>3, <2>4
<1>8. Ideal!Nobody
  BY <1>0, NobodyRuns
<1>9. Ideal!Serve(c)
  BY <1>0, <1>5, <1>6, <1>7, <1>8 DEF Ideal!Serve
<1>10. QED
  BY <1>9 DEF Ideal!Next

LEMMA AnswerShows ==
  ASSUME IInv, ServedInv, Answer
  PROVE  Ideal!Next
<1>0. worker = "dispatch" /\ worker' = "recv" /\ msg' = << >> /\ UNCHANGED <<live, faulted, mbox, ran>>
  BY DEF Answer, Reply, life
<1>1. PICK c \in Caller : c = msg[1] /\ pc[c] = "wait" /\ ran[c]
  BY <1>0, MessageTyped DEF IInv, Mail, ServedInv, Running
<1>2. /\ result[c] = "none" /\ Caller \subseteq Thread
      /\ DOMAIN pc = Thread /\ DOMAIN result = Thread
  BY <1>1 DEF IInv, Runs, Types, Thread
<1>3. PhaseOf(c) = "running"
  BY <1>1, <1>2 DEF PhaseOf
<1>4. PhaseOf(c)' = "ok"
  BY <1>1, <1>2 DEF Answer, Reply, PhaseOf
<1>5. \A u \in Caller \ {c} : pc'[u] = pc[u] /\ result'[u] = result[u] /\ ran'[u] = ran[u]
  BY <1>0, <1>1, <1>2 DEF Answer, Reply
<1>6. Ideal!Moves(c, {"running"}, "ok")
  BY <1>3, <1>4, <1>5, SameLook, PhaseMoves
<1>7. Line' = Line
  BY <1>0 DEF Line
<1>8. Ideal!Answer(c)
  BY <1>0, <1>6, <1>7 DEF Ideal!Answer
<1>9. QED
  BY <1>8 DEF Ideal!Next

LEMMA ExitShows ==
  ASSUME IInv, ServedInv, WorkerExit
  PROVE  Ideal!Next
<1>1. /\ worker = "recv" /\ worker' = "exited" /\ mbox = << >> /\ msg = << >> /\ ~live
      /\ UNCHANGED <<pc, result, ran, live, faulted, mbox, msg>>
  BY DEF WorkerExit, IInv, Mail, ServedInv, Ends, life, call
<1>2. [u \in Caller |-> PhaseOf(u)]' = [u \in Caller |-> PhaseOf(u)]
  BY <1>1, SameLook, SamePhases
<1>3. Line = << >> /\ Line' = Line
  <2>1. << >> \o << >> = << >>
    OBVIOUS
  <2>2. QED
    BY <1>1, <2>1 DEF Line
<1>4. Ideal!Nobody
  BY <1>1, NobodyRuns
<1>5. Ideal!End
  BY <1>1, <1>2, <1>3, <1>4 DEF Ideal!End
<1>6. QED
  BY <1>5 DEF Ideal!Next

LEMMA StepShows ==
  ASSUME IInv, ServedInv, [Next]_vars
  PROVE  [Ideal!Next]_(Ideal!vars)
<1>1. CASE UNCHANGED vars
  <2>1. UNCHANGED <<pc, result, ran, live, faulted, mbox, worker, msg>>
    BY <1>1 DEF vars, actorVars, life, work, call
  <2>2. [u \in Caller |-> PhaseOf(u)]' = [u \in Caller |-> PhaseOf(u)]
    BY <2>1, SameLook, SamePhases
  <2>3. QED
    BY <2>1, <2>2, SameLine DEF Ideal!vars
<1>2. ASSUME NEW t \in Thread, NewCall(t) \/ CallStep(t)
      PROVE  [Ideal!Next]_(Ideal!vars)
  BY <1>2, NewCallShows, ApproachShows, SendShows, EndShows DEF CallStep, Approach
<1>3. CASE WorkerStep
  BY <1>3, DrainShows, ServeShows, AnswerShows, ExitShows DEF WorkerStep
<1>4. QED
  BY <1>1, <1>2, <1>3 DEF Next

LEMMA InitShows == Init => Ideal!Init
<1> SUFFICES ASSUME Init PROVE Ideal!Init
  OBVIOUS
<1>1. \A u \in Caller : PhaseOf(u) = "new"
  BY DEF Init, PhaseOf, Thread
<1>2. Line = << >>
  <2>1. << >> \o << >> = << >>
    OBVIOUS
  <2>2. QED
    BY <2>1 DEF Init, Line
<1>3. QED
  BY <1>1, <1>2 DEF Init, Ideal!Init

\* The mailbox implements the abstract actor, for any number of callers and any
\* limits: slots, mute, pins and the worker's loop amount to one line that is
\* served in order, one call at a time, and a call that failed never runs.
THEOREM ActorRefinement == Spec => ImplementsActorCall
<1>1. IInv /\ ServedInv /\ [Next]_vars => [Ideal!Next]_(Ideal!vars)
  BY StepShows
<1>2. QED
  BY <1>1, InitShows, ServedInit, ServedInvNext, Invariance, PTL
     DEF Spec, ImplementsActorCall, Ideal!Spec
=============================================================================
