--------------------------- MODULE ChannelProofs ---------------------------
(***************************************************************************)
(* The receiver of an endpoint has one owner, keeps its messages while the *)
(* endpoint is in the table, and goes with the last call after that; for   *)
(* any number of endpoints and threads.                                    *)
(***************************************************************************)
EXTENDS Channel, FiniteSetTheorems, TLAPS

USE ChannelAssumption

Holding == {"block", "poll", "check", "putback"}

Label == {"idle", "send", "take", "trytake", "clear"} \cup Holding

\* TypeOK but for the queues of receivers that are gone.
Types ==
  /\ table \subseteq Endpoint /\ slot \subseteq Endpoint
  /\ queue \in [Endpoint -> Seq(Message)]
  /\ pc \in [Thread -> Label]
  /\ ep \in [Thread -> Endpoint]
  /\ val \in [Thread -> Message \cup {NoMessage}]
  /\ \A t \in Thread : pc[t] = "send" => val[t] \in Message

\* OneReceiver without cardinalities.
Exclusive ==
  /\ \A t, u \in Thread :
       pc[t] \in Holding /\ pc[u] \in Holding /\ ep[t] = ep[u] => t = u
  /\ \A t \in Thread : pc[t] \in Holding => ep[t] \notin slot

\* A message waits only for a receiver that exists.
Queued ==
  \A e \in Endpoint : queue[e] # << >> =>
    e \in slot \/ \E t \in Thread : ep[t] = e /\ pc[t] \in Holding

IInv == Types /\ Exclusive /\ Queued

LEMMA TakenIs ==
  ASSUME NEW e
  PROVE  Taken(e) = {t \in Thread : ep[t] = e /\ pc[t] \in Holding}
  BY DEF Taken, At, Holding

\* The invariant says what the two properties say.
LEMMA InvImplies == IInv => TypeOK /\ OneReceiver
<1> SUFFICES ASSUME IInv PROVE TypeOK /\ OneReceiver
  OBVIOUS
<1>1. TypeOK
  BY TakenIs DEF IInv, Types, Queued, TypeOK, Receives, Label, Holding
<1>2. ASSUME NEW e \in Endpoint
      PROVE  Cardinality(Taken(e)) <= 1 /\ (e \in slot => Taken(e) = {})
  <2>1. e \in slot => Taken(e) = {}
    BY TakenIs DEF IInv, Exclusive
  <2>2. CASE Taken(e) = {}
    BY <2>1, <2>2, FS_EmptySet
  <2>3. CASE Taken(e) # {}
    <3>1. PICK t : t \in Taken(e)
      BY <2>3
    <3>2. Taken(e) = {t}
      BY <3>1, TakenIs DEF IInv, Exclusive
    <3>3. Cardinality(Taken(e)) = 1
      BY <3>2, FS_Singleton
    <3>4. QED
      BY <2>1, <3>3
  <2>4. QED
    BY <2>2, <2>3
<1>3. QED
  BY <1>1, <1>2 DEF OneReceiver

LEMMA InvInit == Init => IInv
  BY DEF Init, IInv, Types, Exclusive, Queued, Label, Holding

\* What the end of a call leaves: a slot without the endpoints that went, and
\* no queue of a receiver that went.
LEMMA EndKeeps ==
  ASSUME IInv, NEW t \in Thread, NEW slotted, End(t, ep[t], slotted),
         slotted \in {slot, slot \cup {ep[t]}, slot \ {ep[t]}},
         slotted = slot \cup {ep[t]} => pc[t] \in Holding,
         UNCHANGED <<table, ep, val>>
  PROVE  IInv'
<1> DEFINE e == ep[t]
<1>t. /\ e \in Endpoint /\ pc' = [pc EXCEPT ![t] = "idle"]
      /\ slot' \subseteq slotted /\ slotted \ {e} \subseteq slot'
      /\ slotted \ {e} = slot \ {e}
  BY DEF IInv, Types, End, Goto
<1>q. \/ queue' = queue /\ (e \in slot' \/ Taken(e) \ {t} # {})
      \/ queue' = [queue EXCEPT ![e] = << >>]
  BY DEF End
<1>1. Types'
  <2>1. << >> \in Seq(Message)
    OBVIOUS
  <2>2. queue' \in [Endpoint -> Seq(Message)]
    BY <1>t, <1>q, <2>1 DEF IInv, Types
  <2>3. QED
    BY <1>t, <2>2 DEF IInv, Types, Label
<1>2. Exclusive'
  <2>1. \A u \in Thread : pc'[u] \in Holding => u # t /\ pc'[u] = pc[u]
    BY <1>t DEF IInv, Types, Holding
  <2>2. ASSUME NEW u \in Thread, pc'[u] \in Holding
        PROVE  ep[u] \notin slot'
    BY <1>t, <2>1, <2>2 DEF IInv, Exclusive
  <2>3. QED
    BY <2>1, <2>2 DEF IInv, Exclusive
<1>3. Queued'
  <2> SUFFICES ASSUME NEW d \in Endpoint, queue'[d] # << >>
               PROVE  d \in slot' \/ \E u \in Thread : ep[u] = d /\ pc'[u] \in Holding
    BY DEF Queued
  <2>1. CASE d = e
    <3>1. e \in slot' \/ Taken(e) \ {t} # {}
      BY <1>q, <1>t, <2>1 DEF IInv, Types
    <3>2. ASSUME NEW u, u \in Taken(e) \ {t}
          PROVE  u \in Thread /\ ep[u] = d /\ pc'[u] \in Holding
      BY <1>t, <2>1, <3>2, TakenIs DEF IInv, Types
    <3>3. QED
      BY <2>1, <3>1, <3>2
  <2>2. CASE d # e
    <3>1. queue[d] # << >>
      BY <1>q, <2>2 DEF IInv, Types
    <3>2. CASE d \in slot
      BY <1>t, <2>2, <3>2
    <3>3. CASE \E u \in Thread : ep[u] = d /\ pc[u] \in Holding
      BY <1>t, <2>2, <3>3 DEF IInv, Types
    <3>4. QED
      BY <3>1, <3>2, <3>3 DEF IInv, Queued
  <2>3. QED
    BY <2>1, <2>2
<1>4. QED
  BY <1>1, <1>2, <1>3 DEF IInv

\* A call starts.
LEMMA BeginKeeps ==
  ASSUME IInv, NEW t \in Thread, NEW e \in Endpoint, NEW m \in Message, Begin(t, e, m)
  PROVE  IInv'
<1>1. /\ pc[t] = "idle" /\ ep' = [ep EXCEPT ![t] = e]
      /\ \E l \in {"send", "take", "trytake", "clear"} :
           pc' = [pc EXCEPT ![t] = l] /\ (l = "send" => val' = [val EXCEPT ![t] = m])
      /\ val' = val \/ val' = [val EXCEPT ![t] = m]
      /\ table' \subseteq table /\ slot' = slot /\ queue' = queue
  BY DEF Begin, BeginSend, BeginRecv, BeginTryRecv, BeginDrop, Start, Goto
<1>2. \A u \in Thread : /\ pc'[u] \in Holding <=> pc[u] \in Holding
                        /\ pc[u] \in Holding => ep'[u] = ep[u]
  BY <1>1 DEF IInv, Types, Holding
<1>3. Types'
  BY <1>1 DEF IInv, Types, Label
<1>4. Exclusive' /\ Queued'
  BY <1>1, <1>2 DEF IInv, Exclusive, Queued
<1>5. QED
  BY <1>3, <1>4 DEF IInv

\* The thread neither takes nor gives back a receiver.
LEMMA SendKeeps ==
  ASSUME IInv, NEW t \in Thread, Send(t)
  PROVE  IInv'
<1> DEFINE e == Peer[ep[t]]
<1>1. /\ e \in Endpoint /\ pc[t] = "send" /\ pc' = [pc EXCEPT ![t] = "idle"]
      /\ val[t] \in Message
      /\ UNCHANGED <<table, slot, ep, val>>
      /\ \/ queue' = queue
         \/ Receives(e) /\ queue' = [queue EXCEPT ![e] = Append(@, val[t])]
  BY DEF Send, Goto, IInv, Types
<1>2. \A u \in Thread : pc'[u] \in Holding <=> pc[u] \in Holding
  BY <1>1 DEF IInv, Types, Holding
<1>3. Types'
  <2>1. queue[e] \in Seq(Message)
    BY <1>1 DEF IInv, Types
  <2>2. Append(queue[e], val[t]) \in Seq(Message)
    BY <1>1, <2>1
  <2>3. queue' \in [Endpoint -> Seq(Message)]
    BY <1>1, <2>2 DEF IInv, Types
  <2>4. QED
    BY <1>1, <2>3 DEF IInv, Types, Label
<1>4. Exclusive'
  BY <1>1, <1>2 DEF IInv, Exclusive
<1>5. Queued'
  BY <1>1, <1>2, TakenIs DEF IInv, Types, Queued, Receives
<1>6. QED
  BY <1>3, <1>4, <1>5 DEF IInv

LEMMA TakeKeeps ==
  ASSUME IInv, NEW t \in Thread, Take(t)
  PROVE  IInv'
<1>1. /\ ep[t] \in slot /\ slot' = slot \ {ep[t]}
      /\ \E l \in {"block", "poll"} : pc' = [pc EXCEPT ![t] = l]
      /\ UNCHANGED <<table, queue, ep, val>>
  BY DEF Take, Goto
<1>2. Types'
  BY <1>1 DEF IInv, Types, Label, Holding
<1>3. \A u \in Thread : pc'[u] \in Holding <=> u = t \/ pc[u] \in Holding
  BY <1>1 DEF IInv, Types, Holding
<1>4. Exclusive'
  BY <1>1, <1>3 DEF IInv, Exclusive
<1>5. Queued'
  BY <1>1, <1>3 DEF IInv, Queued
<1>6. QED
  BY <1>2, <1>4, <1>5 DEF IInv

\* The thread keeps the receiver it has.
LEMMA ReceiveKeeps ==
  ASSUME IInv, NEW t \in Thread, Receive(t) \/ ReceiveNothing(t)
  PROVE  IInv'
<1>1. /\ pc[t] \in {"block", "poll"} /\ pc' = [pc EXCEPT ![t] = "check"]
      /\ UNCHANGED <<table, slot, ep>>
      /\ \A d \in Endpoint : d # ep[t] => queue'[d] = queue[d]
  BY DEF Receive, ReceiveNothing, Goto, IInv, Types
<1>2. queue' \in [Endpoint -> Seq(Message)] /\ val' \in [Thread -> Message \cup {NoMessage}]
      /\ \A u \in Thread : u # t => val'[u] = val[u]
  <2>1. CASE Receive(t)
    <3>1. queue[ep[t]] \in Seq(Message) /\ queue[ep[t]] # << >>
      BY <2>1 DEF Receive, IInv, Types
    <3>2. Head(queue[ep[t]]) \in Message /\ Tail(queue[ep[t]]) \in Seq(Message)
      BY <3>1
    <3>3. QED
      BY <2>1, <3>2 DEF Receive, IInv, Types
  <2>2. CASE ReceiveNothing(t)
    BY <2>2 DEF ReceiveNothing, IInv, Types
  <2>3. QED
    BY <2>1, <2>2
<1>3. Types'
  BY <1>1, <1>2 DEF IInv, Types, Label, Holding
<1>4. \A u \in Thread : pc'[u] \in Holding <=> pc[u] \in Holding
  BY <1>1 DEF IInv, Types, Holding
<1>5. pc'[t] \in Holding
  BY <1>1 DEF IInv, Types, Holding
<1>6. Exclusive'
  BY <1>1, <1>4 DEF IInv, Exclusive
<1>7. Queued'
  BY <1>1, <1>4, <1>5 DEF IInv, Queued
<1>8. QED
  BY <1>3, <1>6, <1>7 DEF IInv

LEMMA StepKeeps ==
  ASSUME IInv, NEW t \in Thread, Step(t)
  PROVE  IInv'
<1>1. CASE Send(t)
  BY <1>1, SendKeeps
<1>2. CASE Take(t)
  BY <1>2, TakeKeeps
<1>3. CASE TakeNothing(t)
  BY <1>3, EndKeeps DEF TakeNothing, IInv, Types
<1>4. CASE Receive(t) \/ ReceiveNothing(t)
  BY <1>4, ReceiveKeeps
<1>5. CASE Check(t)
  <2>1. CASE ep[t] \in table
    <3>1. pc[t] = "check" /\ pc' = [pc EXCEPT ![t] = "putback"] /\ UNCHANGED <<table, slot, queue, ep, val>>
      BY <1>5, <2>1 DEF Check, Goto
    <3>2. \A u \in Thread : pc'[u] \in Holding <=> pc[u] \in Holding
      BY <3>1 DEF IInv, Types, Holding
    <3>3. Types'
      BY <3>1 DEF IInv, Types, Label, Holding
    <3>4. QED
      BY <3>1, <3>2, <3>3 DEF IInv, Exclusive, Queued
  <2>2. CASE ep[t] \notin table
    BY <1>5, <2>2, EndKeeps DEF Check, Holding
  <2>3. QED
    BY <2>1, <2>2
<1>6. CASE PutBack(t)
  BY <1>6, EndKeeps DEF PutBack, Holding
<1>7. CASE Clear(t)
  <2>1. slot \ {ep[t]} # slot \cup {ep[t]}
    OBVIOUS
  <2>2. QED
    BY <1>7, <2>1, EndKeeps DEF Clear
<1>8. QED
  BY <1>1, <1>2, <1>3, <1>4, <1>5, <1>6, <1>7 DEF Step

\* The inductive invariant of the channels: types, one owner per receiver, and
\* no message for a receiver that is gone.
THEOREM Invariance == Spec => []IInv
<1>1. Init => IInv
  BY InvInit
<1>2. IInv /\ [Next]_vars => IInv'
  <2> SUFFICES ASSUME IInv, [Next]_vars PROVE IInv'
    OBVIOUS
  <2>1. ASSUME NEW t \in Thread, Step(t) PROVE IInv'
    BY <2>1, StepKeeps
  <2>2. ASSUME NEW t \in Thread, NEW e \in Endpoint, NEW m \in Message, Begin(t, e, m)
        PROVE  IInv'
    BY <2>2, BeginKeeps
  <2>3. CASE UNCHANGED vars
    BY <2>3 DEF vars, IInv, Types, Exclusive, Queued
  <2>4. QED
    BY <2>1, <2>2, <2>3 DEF Next
<1>3. QED
  BY <1>1, <1>2, PTL DEF Spec

\* Every variable keeps its type, and messages wait only for receivers that
\* exist: mimi_channel_drop and the end of a late recv leave no queue behind.
THEOREM ChannelTypeCorrect == Spec => []TypeOK
  BY Invariance, InvImplies, PTL

\* The receiver of an endpoint is in its slot or with one thread, whatever
\* recv, try_recv, drop and the late put-back do at once.
THEOREM ReceiverSafety == Spec => []OneReceiver
  BY Invariance, InvImplies, PTL

----------------------------------------------------------------------------
(* II. The life of a receiver *)

\* Where a thread holds the Arc of a slot.
InCall == Holding \cup {"take", "trytake", "clear"}

HasReceiver(e) == e \in slot \/ \E t \in Thread : ep[t] = e /\ pc[t] \in Holding

\* The receiver is there while the endpoint is, and a drop clears its slot only
\* after it was taken off the table.
Live ==
  /\ \A e \in table : HasReceiver(e)
  /\ \A t \in Thread : pc[t] = "clear" => ep[t] \notin table

\* A receiver in the slot of a dropped endpoint has a call that ends later.
Arcs ==
  \A e \in Endpoint \ table :
    e \in slot => \E t \in Thread : ep[t] = e /\ pc[t] \in InCall

LifeInv == Live /\ Arcs

LEMMA LifeInit == Init => LifeInv
  BY DEF Init, LifeInv, Live, Arcs, HasReceiver

LEMMA SlottedIs ==
  ASSUME NEW e
  PROVE  Slotted(e) = {t \in Thread : ep[t] = e /\ pc[t] \in InCall}
  BY DEF Slotted, Taken, At, InCall, Holding

\* The end of a call: it gives back the receiver of an endpoint in the table,
\* clears a slot only of a dropped one, and leaves a receiver in the slot of a
\* dropped one only to a call that is still under way.
LEMMA EndLife ==
  ASSUME IInv, LifeInv, NEW t \in Thread, NEW slotted, End(t, ep[t], slotted),
         pc[t] \in InCall,
         slotted \in {slot, slot \cup {ep[t]}, slot \ {ep[t]}},
         ep[t] \in table => slotted = IF pc[t] \in Holding THEN slot \cup {ep[t]} ELSE slot,
         UNCHANGED <<table, ep, val>>
  PROVE  LifeInv' /\ \A e \in table : queue'[e] = queue[e]
<1>0. PICK e \in Endpoint : e = ep[t]
  BY DEF IInv, Types
<1>1. /\ pc' = [pc EXCEPT ![t] = "idle"] /\ DOMAIN pc = Thread /\ DOMAIN queue = Endpoint
      /\ slotted \ {e} = slot \ {e}
  BY <1>0 DEF IInv, Types, End, Goto
<1>2. /\ slot' \ {e} = slot \ {e}
      /\ e \in table => slot' = slotted
      /\ e \in slot' /\ e \notin table => Slotted(e) # {t}
  BY <1>0, <1>1 DEF End
<1>3. \A u \in Thread \ {t} : pc'[u] = pc[u]
  BY <1>1
<1>4. ~(pc'[t] \in Holding) /\ pc'[t] # "clear"
  BY <1>1 DEF Holding
<1>5. \A d \in table : HasReceiver(d)'
  <2> SUFFICES ASSUME NEW d \in table
               PROVE  d \in slot' \/ \E u \in Thread : ep[u] = d /\ pc'[u] \in Holding
    BY DEF HasReceiver
  <2>1. d \in slot \/ \E u \in Thread : ep[u] = d /\ pc[u] \in Holding
    BY DEF LifeInv, Live, HasReceiver
  <2>2. CASE d = e /\ pc[t] \in Holding
    BY <1>0, <1>2, <2>2
  <2>3. CASE d = e /\ pc[t] \notin Holding
    BY <1>0, <1>2, <1>3, <2>1, <2>3
  <2>4. CASE d # e
    BY <1>0, <1>2, <1>3, <2>1, <2>4
  <2>5. QED
    BY <2>2, <2>3, <2>4
<1>6. Live'
  BY <1>3, <1>4, <1>5 DEF Live, LifeInv
<1>7. Arcs'
  <2> SUFFICES ASSUME NEW d \in Endpoint \ table, d \in slot'
               PROVE  \E u \in Thread : ep[u] = d /\ pc'[u] \in InCall
    BY DEF Arcs
  <2>1. CASE d = e
    <3>1. Slotted(e) # {t} /\ t \in Slotted(e)
      BY <1>0, <1>2, <2>1, SlottedIs
    <3>2. PICK u \in Slotted(e) : u # t
      BY <3>1
    <3>3. QED
      BY <1>3, <2>1, <3>2, SlottedIs
  <2>2. CASE d # e
    <3>1. d \in slot
      BY <1>2, <2>2
    <3>2. PICK u \in Thread : ep[u] = d /\ pc[u] \in InCall
      BY <3>1 DEF LifeInv, Arcs
    <3>3. QED
      BY <1>0, <1>3, <2>2, <3>2
  <2>3. QED
    BY <2>1, <2>2
<1>8. ASSUME NEW d \in table PROVE queue'[d] = queue[d]
  <2>1. CASE d = e
    <3>1. e \in slot' \/ \E u \in Thread \ {t} : ep[u] = e /\ pc[u] \in Holding
      BY <1>3, <1>4, <1>5, <2>1 DEF HasReceiver
    <3>2. e \in slot' \/ Taken(e) \ {t} # {}
      BY <3>1, TakenIs
    <3>3. QED
      BY <1>0, <3>2 DEF End
  <2>2. CASE d # e
    BY <1>0, <1>1, <2>2 DEF End, IInv, Types
  <2>3. QED
    BY <2>1, <2>2
<1>9. QED
  BY <1>6, <1>7, <1>8 DEF LifeInv

Kept(e) ==
  \/ queue'[e] = queue[e]
  \/ queue[e] # << >> /\ queue'[e] = Tail(queue[e])
  \/ \E m \in Message : queue'[e] = Append(queue[e], m)

LEMMA BeginLife ==
  ASSUME IInv, LifeInv, NEW t \in Thread, NEW e \in Endpoint, NEW m \in Message, Begin(t, e, m)
  PROVE  LifeInv' /\ \A d \in table : Kept(d)
<1>1. PICK l \in {"send", "take", "trytake", "clear"} :
        /\ pc[t] = "idle" /\ pc' = [pc EXCEPT ![t] = l] /\ ep' = [ep EXCEPT ![t] = e]
        /\ slot' = slot /\ queue' = queue
        /\ table' = IF l = "clear" THEN table \ {e} ELSE table
  BY DEF Begin, BeginSend, BeginRecv, BeginTryRecv, BeginDrop, Start, Goto
<1>2. \A u \in Thread : u # t => pc'[u] = pc[u] /\ ep'[u] = ep[u]
  BY <1>1 DEF IInv, Types
<1>3. pc'[t] = l /\ ep'[t] = e /\ pc[t] \notin InCall /\ pc[t] \notin Holding
  BY <1>1 DEF IInv, Types, InCall, Holding
<1>4. Live'
  <2>1. \A d \in table' : HasReceiver(d)'
    BY <1>1, <1>2, <1>3 DEF LifeInv, Live, HasReceiver
  <2>2. \A u \in Thread : pc'[u] = "clear" => ep'[u] \notin table'
    BY <1>1, <1>2, <1>3 DEF LifeInv, Live
  <2>3. QED
    BY <2>1, <2>2 DEF Live
<1>5. Arcs'
  <2> SUFFICES ASSUME NEW d \in Endpoint \ table', d \in slot'
               PROVE  \E u \in Thread : ep'[u] = d /\ pc'[u] \in InCall
    BY DEF Arcs
  <2>1. CASE d \in table
    BY <1>1, <1>3, <2>1 DEF InCall
  <2>2. CASE d \notin table
    <3>1. PICK u \in Thread : ep[u] = d /\ pc[u] \in InCall
      BY <1>1, <2>2 DEF LifeInv, Arcs
    <3>2. QED
      BY <1>2, <1>3, <3>1
  <2>3. QED
    BY <2>1, <2>2
<1>6. QED
  BY <1>1, <1>4, <1>5 DEF LifeInv, Kept

\* A step that leaves the receivers and the calls where they are.
LEMMA SameLife ==
  ASSUME LifeInv, UNCHANGED <<table, slot, ep>>,
         \A u \in Thread : /\ pc'[u] \in Holding <=> pc[u] \in Holding
                           /\ pc'[u] \in InCall <=> pc[u] \in InCall
                           /\ pc'[u] = "clear" => pc[u] = "clear"
  PROVE  LifeInv'
<1>1. Live'
  BY DEF LifeInv, Live, HasReceiver
<1>2. Arcs'
  BY DEF LifeInv, Arcs
<1>3. QED
  BY <1>1, <1>2 DEF LifeInv

LEMMA StepLife ==
  ASSUME IInv, LifeInv, NEW t \in Thread, Step(t)
  PROVE  LifeInv' /\ \A d \in table : Kept(d)
<1>0. /\ DOMAIN pc = Thread /\ DOMAIN queue = Endpoint /\ table \subseteq Endpoint
      /\ ep[t] \in Endpoint /\ Peer[ep[t]] \in Endpoint
  BY DEF IInv, Types
<1>1. CASE Send(t)
  <2>1. /\ pc[t] = "send" /\ pc' = [pc EXCEPT ![t] = "idle"] /\ UNCHANGED <<table, slot, ep>>
        /\ val[t] \in Message
        /\ \/ queue' = queue
           \/ queue' = [queue EXCEPT ![Peer[ep[t]]] = Append(@, val[t])]
    BY <1>1 DEF Send, Goto, IInv, Types
  <2>2. LifeInv'
    BY <1>0, <2>1, SameLife DEF InCall, Holding
  <2>3. \A d \in table : Kept(d)
    BY <1>0, <2>1 DEF Kept
  <2>4. QED
    BY <2>2, <2>3
<1>2. CASE Take(t)
  <2>1. PICK l \in {"block", "poll"} :
          /\ pc[t] \in {"take", "trytake"} /\ pc' = [pc EXCEPT ![t] = l]
          /\ slot' = slot \ {ep[t]} /\ UNCHANGED <<table, queue, ep, val>>
    BY <1>2 DEF Take, Goto
  <2>2. pc'[t] \in Holding /\ \A u \in Thread : u # t => pc'[u] = pc[u]
    BY <1>0, <2>1 DEF Holding
  <2>3. Live'
    <3>1. \A d \in table' : HasReceiver(d)'
      BY <2>1, <2>2 DEF LifeInv, Live, HasReceiver
    <3>2. QED
      BY <1>0, <2>1, <3>1 DEF LifeInv, Live
  <2>4. Arcs'
    BY <2>1, <2>2 DEF LifeInv, Arcs, InCall
  <2>5. QED
    BY <2>1, <2>3, <2>4 DEF LifeInv, Kept
<1>3. CASE Receive(t) \/ ReceiveNothing(t)
  <2>1. /\ pc[t] \in {"block", "poll"} /\ pc' = [pc EXCEPT ![t] = "check"]
        /\ UNCHANGED <<table, slot, ep>>
        /\ \/ queue' = queue
           \/ queue[ep[t]] # << >> /\ queue' = [queue EXCEPT ![ep[t]] = Tail(@)]
    BY <1>3 DEF Receive, ReceiveNothing, Goto
  <2>2. LifeInv'
    BY <1>0, <2>1, SameLife DEF InCall, Holding
  <2>3. \A d \in table : Kept(d)
    BY <1>0, <2>1 DEF Kept
  <2>4. QED
    BY <2>2, <2>3
<1>4. CASE Check(t) /\ ep[t] \in table
  <2>1. pc[t] = "check" /\ pc' = [pc EXCEPT ![t] = "putback"] /\ UNCHANGED <<table, slot, queue, ep>>
    BY <1>4 DEF Check, Goto
  <2>2. LifeInv'
    BY <1>0, <2>1, SameLife DEF InCall, Holding
  <2>3. QED
    BY <2>1, <2>2 DEF Kept
<1>5. ASSUME NEW slotted, End(t, ep[t], slotted), pc[t] \in InCall,
             slotted \in {slot, slot \cup {ep[t]}, slot \ {ep[t]}},
             ep[t] \in table => slotted = IF pc[t] \in Holding THEN slot \cup {ep[t]} ELSE slot,
             UNCHANGED <<table, ep, val>>
      PROVE  LifeInv' /\ \A d \in table : Kept(d)
  BY <1>5, EndLife DEF Kept
<1>6. CASE TakeNothing(t)
  BY <1>5, <1>6 DEF TakeNothing, InCall, Holding
<1>7. CASE Check(t) /\ ep[t] \notin table
  BY <1>5, <1>7 DEF Check, InCall, Holding
<1>8. CASE PutBack(t)
  BY <1>5, <1>8 DEF PutBack, InCall, Holding
<1>9. CASE Clear(t)
  BY <1>5, <1>9 DEF Clear, InCall, LifeInv, Live
<1>10. QED
  BY <1>1, <1>2, <1>3, <1>4, <1>6, <1>7, <1>8, <1>9 DEF Step

LEMMA LifeNext ==
  ASSUME IInv, LifeInv, [Next]_vars
  PROVE  LifeInv' /\ [\A d \in table : Kept(d)]_vars
<1>1. ASSUME NEW t \in Thread, Step(t) PROVE LifeInv' /\ \A d \in table : Kept(d)
  BY <1>1, StepLife
<1>2. ASSUME NEW t \in Thread, NEW e \in Endpoint, NEW m \in Message, Begin(t, e, m)
      PROVE  LifeInv' /\ \A d \in table : Kept(d)
  BY <1>2, BeginLife
<1>3. CASE UNCHANGED vars
  BY <1>3 DEF vars, LifeInv, Live, Arcs, HasReceiver
<1>4. QED
  BY <1>1, <1>2, <1>3 DEF Next

LEMMA LifeImplies == IInv /\ LifeInv => LiveReceives /\ DroppedIsReclaimed
<1> SUFFICES ASSUME IInv, LifeInv PROVE LiveReceives /\ DroppedIsReclaimed
  OBVIOUS
<1>1. LiveReceives
  BY TakenIs DEF LifeInv, Live, HasReceiver, LiveReceives, Receives, IInv, Types
<1>2. ASSUME NEW e \in Endpoint \ table, e \in slot \/ queue[e] # << >>
      PROVE  Slotted(e) # {}
  <2>1. \E t \in Thread : ep[t] = e /\ pc[t] \in InCall
    BY <1>2 DEF LifeInv, Arcs, IInv, Queued, InCall
  <2>2. QED
    BY <2>1, SlottedIs
<1>3. QED
  BY <1>1, <1>2 DEF DroppedIsReclaimed

\* An endpoint in the table has its receiver, whoever has it out of its slot: no
\* message to a live endpoint is lost, for any number of threads.
THEOREM LiveSafety == Spec => []LiveReceives
<1>1. IInv /\ LifeInv /\ [Next]_vars => LifeInv'
  BY LifeNext
<1>2. QED
  BY <1>1, LifeInit, LifeImplies, Invariance, PTL DEF Spec

\* What waits at a live endpoint is only received, oldest first, or added to,
\* whatever calls on it end, fail or race.
THEOREM MailSafety == Spec => MailIsKept
<1>1. IInv /\ LifeInv /\ [Next]_vars => LifeInv' /\ [\A d \in table : Kept(d)]_vars
  BY LifeNext
<1>2. [\A d \in table : Kept(d)]_vars <=>
        [\A e \in table :
           \/ queue'[e] = queue[e]
           \/ queue[e] # << >> /\ queue'[e] = Tail(queue[e])
           \/ \E m \in Message : queue'[e] = Append(queue[e], m)]_vars
  BY DEF Kept
<1>3. QED
  BY <1>1, <1>2, LifeInit, Invariance, PTL DEF Spec, MailIsKept

\* No receiver and no message of a dropped endpoint outlives the last call on it,
\* although a late recv may put the receiver back after the drop.
THEOREM ReclaimSafety == Spec => []DroppedIsReclaimed
<1>1. IInv /\ LifeInv /\ [Next]_vars => LifeInv'
  BY LifeNext
<1>2. QED
  BY <1>1, LifeInit, LifeImplies, Invariance, PTL DEF Spec
=============================================================================
