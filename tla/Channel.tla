------------------------------ MODULE Channel ------------------------------
(***************************************************************************)
(* The channels and session endpoints of runtime/concurrency.rs.  An       *)
(* endpoint is an entry of CONCURRENCY_HANDLES: a sender, and a slot that  *)
(* holds the receiver unless a receiving thread has taken it out.  Sends   *)
(* on e arrive at Peer[e]: a plain channel is its own peer, the two        *)
(* endpoints of mimi_session_pair are each other's.                        *)
(*                                                                         *)
(* A call looks its endpoint up under the table's lock and goes on without *)
(* it, so that every call is a sequence of steps that others interleave    *)
(* with.                                                                   *)
(***************************************************************************)
EXTENDS Naturals, Sequences, FiniteSets

CONSTANTS
  Endpoint, Thread,
  Message,    \* what is sent
  NoMessage,  \* what recv returns when there is nothing to receive
  Peer,       \* where the messages sent on an endpoint arrive
  MaxQueue    \* bound: messages waiting at an endpoint

ASSUME ChannelAssumption ==
  /\ Peer \in [Endpoint -> Endpoint]
  /\ \A e \in Endpoint : Peer[Peer[e]] = e
  /\ MaxQueue \in Nat
  /\ NoMessage \notin Message

VARIABLES
  table,      \* endpoints in CONCURRENCY_HANDLES
  slot,       \* endpoints whose receiver is in its slot
  queue,      \* the messages waiting at an endpoint's receiver
  pc, ep,     \* the next step of the call a thread is in, and its endpoint
  val         \* the message that a thread sends, or has received

vars == <<table, slot, queue, pc, ep, val>>

\* mimi_channel_new, mimi_session_pair.
Init ==
  /\ table = Endpoint
  /\ slot = Endpoint
  /\ queue = [e \in Endpoint |-> << >>]
  /\ pc = [t \in Thread |-> "idle"]
  /\ ep \in [Thread -> Endpoint]
  /\ val = [t \in Thread |-> NoMessage]

At(e, labels) == {t \in Thread : ep[t] = e /\ pc[t] \in labels}

\* Threads that have taken the receiver of e.
Taken(e) == At(e, {"block", "poll", "check", "putback"})

\* e has a receiver, in its slot or taken.
Receives(e) == e \in slot \/ Taken(e) # {}

\* Threads that hold the Arc of e's slot.
Slotted(e) == Taken(e) \cup At(e, {"take", "trytake", "clear"})

\* Senders whose messages arrive at e: the table's, and clones in use.
Connected(e) == Peer[e] \in table \/ At(Peer[e], {"send"}) # {}

Goto(t, l) == pc' = [pc EXCEPT ![t] = l]

\* The call of t on e ends; what nobody refers to any more is destroyed: the
\* slot with its Arc, and waiting messages with their receiver.
End(t, e, slotted) ==
  /\ Goto(t, "idle")
  /\ slot' = IF e \in table \/ Slotted(e) # {t} THEN slotted ELSE slotted \ {e}
  /\ queue' = IF e \in slot' \/ Taken(e) \ {t} # {} THEN queue
              ELSE [queue EXCEPT ![e] = << >>]

----------------------------------------------------------------------------
(* A call finds its endpoint in the table.  One that does not, returns. *)

Start(t, e, l) ==
  /\ pc[t] = "idle"
  /\ e \in table
  /\ Goto(t, l)
  /\ ep' = [ep EXCEPT ![t] = e]
  /\ UNCHANGED <<slot, queue>>

BeginSend(t, e, m) ==
  Start(t, e, "send") /\ val' = [val EXCEPT ![t] = m] /\ UNCHANGED table
BeginRecv(t, e) == Start(t, e, "take") /\ UNCHANGED <<table, val>>
BeginTryRecv(t, e) == Start(t, e, "trytake") /\ UNCHANGED <<table, val>>

BeginDrop(t, e) == Start(t, e, "clear") /\ table' = table \ {e} /\ UNCHANGED val

----------------------------------------------------------------------------
(* mimi_channel_send *)

\* The message is queued, or lost with a log line if its receiver is gone.
Send(t) ==
  /\ pc[t] = "send"
  /\ LET e == Peer[ep[t]]
     IN  IF Receives(e)
           THEN Len(queue[e]) < MaxQueue /\ queue' = [queue EXCEPT ![e] = Append(@, val[t])]
           ELSE UNCHANGED queue
  /\ Goto(t, "idle")
  /\ UNCHANGED <<table, slot, ep, val>>

----------------------------------------------------------------------------
(* mimi_channel_recv and mimi_channel_try_recv *)

\* Mutant: the receiver is shared instead of taken.
TakeShared(t) ==
  /\ pc[t] \in {"take", "trytake"}
  /\ ep[t] \in slot
  /\ Goto(t, IF pc[t] = "take" THEN "block" ELSE "poll")
  /\ UNCHANGED <<table, slot, queue, ep, val>>

Take(t) ==
  /\ pc[t] \in {"take", "trytake"}
  /\ ep[t] \in slot
  /\ slot' = slot \ {ep[t]}
  /\ Goto(t, IF pc[t] = "take" THEN "block" ELSE "poll")
  /\ UNCHANGED <<table, queue, ep, val>>

\* Another thread has the receiver, or the endpoint was dropped.
TakeNothing(t) ==
  /\ pc[t] \in {"take", "trytake"}
  /\ ep[t] \notin slot
  /\ End(t, ep[t], slot)
  /\ UNCHANGED <<table, ep, val>>

Receive(t) ==
  /\ pc[t] \in {"block", "poll"}
  /\ queue[ep[t]] # << >>
  /\ queue' = [queue EXCEPT ![ep[t]] = Tail(@)]
  /\ val' = [val EXCEPT ![t] = Head(queue[ep[t]])]
  /\ Goto(t, "check")
  /\ UNCHANGED <<table, slot, ep>>

\* Mutant: recv holds a clone of the sender while it blocks.
ReceiveNothingConnected(t) ==
  /\ pc[t] = "poll"
  /\ queue[ep[t]] = << >>
  /\ Goto(t, "check")
  /\ val' = [val EXCEPT ![t] = NoMessage]
  /\ UNCHANGED <<table, slot, queue, ep>>

\* recv returns once there is no sender left; try_recv at once.
ReceiveNothing(t) ==
  /\ pc[t] \in {"block", "poll"}
  /\ queue[ep[t]] = << >>
  /\ pc[t] = "poll" \/ ~Connected(ep[t])
  /\ Goto(t, "check")
  /\ val' = [val EXCEPT ![t] = NoMessage]
  /\ UNCHANGED <<table, slot, queue, ep>>

\* still_alive, under the table's lock.
Check(t) ==
  /\ pc[t] = "check"
  /\ IF ep[t] \in table
       THEN Goto(t, "putback") /\ UNCHANGED <<slot, queue>>
       ELSE End(t, ep[t], slot)
  /\ UNCHANGED <<table, ep, val>>

PutBack(t) ==
  /\ pc[t] = "putback"
  /\ End(t, ep[t], slot \cup {ep[t]})
  /\ UNCHANGED <<table, ep, val>>

----------------------------------------------------------------------------
\* The rest of mimi_channel_drop: the receiver, if it is in its slot.
Clear(t) ==
  /\ pc[t] = "clear"
  /\ End(t, ep[t], slot \ {ep[t]})
  /\ UNCHANGED <<table, ep, val>>

Step(t) ==
  \/ Send(t) \/ Take(t) \/ TakeNothing(t) \/ Receive(t) \/ ReceiveNothing(t)
  \/ Check(t) \/ PutBack(t) \/ Clear(t)

Begin(t, e, m) == BeginSend(t, e, m) \/ BeginRecv(t, e) \/ BeginTryRecv(t, e) \/ BeginDrop(t, e)

Next ==
  \E t \in Thread : Step(t) \/ \E e \in Endpoint, m \in Message : Begin(t, e, m)

\* Threads run.
Spec == Init /\ [][Next]_vars /\ \A t \in Thread : WF_vars(Step(t))

----------------------------------------------------------------------------
(* Properties *)

\* Every variable has its type; messages wait only for a receiver that exists.
TypeOK ==
  /\ table \subseteq Endpoint /\ slot \subseteq Endpoint
  /\ queue \in [Endpoint -> Seq(Message)]
  /\ pc \in [Thread -> {"idle", "send", "take", "trytake", "block", "poll", "check",
                        "putback", "clear"}]
  /\ ep \in [Thread -> Endpoint]
  /\ val \in [Thread -> Message \cup {NoMessage}]
  /\ \A e \in Endpoint : queue[e] # << >> => Receives(e)

\* An mpsc receiver has one owner: the slot or one thread, never two, also when
\* recv, try_recv and drop race for the put-back.
OneReceiver ==
  \A e \in Endpoint :
    Cardinality(Taken(e)) <= 1 /\ (e \in slot => Taken(e) = {})

\* An endpoint that is in the table has its receiver, also while a recv or a
\* put-back is under way: a message sent to it is not lost.
LiveReceives == \A e \in table : Receives(e)

\* What waits at an endpoint in the table leaves it by a recv, oldest first:
\* neither a call that finds the receiver taken nor the end of another one
\* throws the receiver away with its messages.
MailIsKept ==
  [][\A e \in table :
       \/ queue'[e] = queue[e]
       \/ queue[e] # << >> /\ queue'[e] = Tail(queue[e])
       \/ \E m \in Message : queue'[e] = Append(queue[e], m)]_vars

\* A receiver that is in its slot after the drop, put back late, goes with the
\* last call that holds the slot; so do the messages that wait for it.  Nothing
\* of a dropped endpoint stays behind.
DroppedIsReclaimed ==
  \A e \in Endpoint \ table :
    e \in slot \/ queue[e] # << >> => Slotted(e) # {}

\* Does not hold for the endpoints of a session.  The comment in
\* mimi_channel_drop: "the tx drop unblocks any pending recv".
DropUnblocks ==
  \A t \in Thread : pc[t] = "block" /\ ep[t] \notin table ~> pc[t] # "block"

\* What ends a blocked recv: the drop of the endpoint that sends to it, which
\* for a plain channel is the channel itself, for a session the other side.
PeerDropUnblocks ==
  \A t \in Thread : pc[t] = "block" /\ Peer[ep[t]] \notin table ~> pc[t] # "block"

\* Does not hold.  The comment in mimi_channel_drop: the "still_alive check
\* prevents putting the receiver back into a dropped channel", after the drop
\* has ended too.
NoPutBackAfterDrop ==
  \A e \in Endpoint : e \in slot => e \in table \/ At(e, {"clear"}) # {}
=============================================================================
