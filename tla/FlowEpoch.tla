----------------------------- MODULE FlowEpoch -----------------------------
(***************************************************************************)
(* The table of packed Flow values (runtime/epoch.rs).  A Flow that leaves *)
(* its turn is packed into a slot; its handle is the slot's index and the  *)
(* low bits of its TransitionEpoch.  recover bumps the epoch, drop frees   *)
(* the slot.  Every entry point holds the table's lock from end to end, so *)
(* each is one step; the ones that only read are Valid.                    *)
(***************************************************************************)
EXTENDS Naturals, Sequences, SequencesExt

CONSTANTS
  Payload,    \* payload tokens
  MaxSlots,   \* bound: the table grows to this many slots
  MaxEpoch,   \* bound: a flow is bumped up to this epoch
  Tags        \* 2^32 in the code: a handle keeps the epoch modulo Tags > MaxEpoch

VARIABLES
  slots,      \* Table::slots from index 1 on; index 0 is reserved
  free,       \* Table::free, a stack
  dropped     \* history: handles that were dropped

vars == <<slots, free, dropped>>

Init == slots = << >> /\ free = << >> /\ dropped = {}

EPOCH_INITIAL == 1

\* pack: the handle of slot i.
Handle(i) == [index |-> i, tag |-> slots[i].epoch % Tags]

\* lookup, lookup_mut: the slot is live and has the handle's tag.
Valid(h) ==
  /\ h.index \in DOMAIN slots
  /\ slots[h.index].live
  /\ slots[h.index].epoch % Tags = h.tag

ValidHandles == {Handle(i) : i \in {j \in DOMAIN slots : slots[j].live}}

\* Handles of dropped flows that a caller may still hold.
StaleHandles == {h \in dropped : ~Valid(h)}

----------------------------------------------------------------------------
Packed(p) == [epoch |-> EPOCH_INITIAL, payload |-> p, live |-> TRUE]

\* mimi_flow_pack: a freed slot, or a new one.
Pack(p) ==
  \/ /\ free # << >>
     /\ slots' = [slots EXCEPT ![Last(free)] = Packed(p)]
     /\ free' = Front(free)
     /\ UNCHANGED dropped
  \/ /\ free = << >>
     /\ Len(slots) < MaxSlots
     /\ slots' = Append(slots, Packed(p))
     /\ UNCHANGED <<free, dropped>>

\* mimi_flow_bump_epoch.
BumpEpoch(h) ==
  /\ Valid(h)
  /\ slots[h.index].epoch < MaxEpoch
  /\ slots' = [slots EXCEPT ![h.index].epoch = @ + 1]
  /\ UNCHANGED <<free, dropped>>

\* mimi_flow_drop.
Drop(h) ==
  /\ Valid(h)
  /\ slots' = [slots EXCEPT ![h.index] =
                 [epoch |-> slots[h.index].epoch + 1, payload |-> 0, live |-> FALSE]]
  /\ free' = Append(free, h.index)
  /\ dropped' = dropped \cup {h}

\* bump and drop of a stale handle return an error and change nothing.
Refused(h) == ~Valid(h) /\ UNCHANGED vars

Next ==
  \/ \E p \in Payload : Pack(p)
  \/ \E h \in ValidHandles \cup StaleHandles : BumpEpoch(h) \/ Drop(h) \/ Refused(h)

Spec == Init /\ [][Next]_vars

----------------------------------------------------------------------------
(* Properties *)

\* mimi_flow_drop's comment: "Subsequent use of the handle is EPOCH_ERR_STALE".
\* A slot that is packed again starts at the initial epoch, as before.
DroppedStaysStale == \A h \in dropped : ~Valid(h)
=============================================================================
