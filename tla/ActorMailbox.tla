---------------------------- MODULE ActorMailbox ----------------------------
(***************************************************************************)
(* One actor of the native runtime (runtime/actor.rs): its mailbox, the    *)
(* worker thread that serves it, backpressure (depth, high-water limit,    *)
(* mute), fault absorption, and its end by drop or SystemKill.             *)
(*                                                                         *)
(* Threads reach the actor through the LIVE_ACTORS registry, which hands   *)
(* out Arc pins; the last holder of the Arc runs Drop for MimiActorRepr,   *)
(* which closes the mailbox and joins the worker.  Self is the worker      *)
(* thread itself when the method it runs kills or drops its own actor.     *)
(* The message is its caller: what it carries does not matter here.        *)
(***************************************************************************)
EXTENDS Integers, Sequences, FiniteSets

CONSTANTS
  Caller,       \* threads that call, kill, drop or configure the actor
  Self,         \* the worker thread as a client of its own actor
  Limit,        \* the values given to mimi_actor_set_mailbox_depth
  WorkerLimit   \* the default limit the worker was started with: 2048

ASSUME MailboxAssumption ==
  /\ IsFiniteSet(Caller) /\ Self \notin Caller
  /\ Limit \subseteq Nat \ {0}
  /\ WorkerLimit \in Nat \ {0}

Thread == Caller \cup {Self}

VARIABLES
  live,     \* the handle is in LIVE_ACTORS
  pinned,   \* threads that hold an Arc of the actor
  open,     \* mailbox_tx is Some
  mbox,     \* messages in the channel
  faulted, depth, muted,
  limit,    \* mailbox_depth_limit
  worker,   \* where the worker is in its loop
  msg,      \* the message it took from the mailbox, if any
  seen,     \* the depth it loaded
  loaded,   \* the depth a caller loaded in the backpressure loop
  pc,       \* the next step of the call a thread is in
  result,   \* "none", "ok" or "zero": how a thread's last call returned
  ran       \* history: the method of the thread's last call was dispatched

life == <<live, open, faulted>>
pressure == <<depth, muted, limit>>
work == <<mbox, worker, msg, seen>>
call == <<pc, result, ran, loaded>>
actorVars == <<life, pressure, work>>
vars == <<actorVars, pinned, call>>

\* After mimi_actor_spawn.
Init ==
  /\ live = TRUE
  /\ pinned = {}
  /\ open = TRUE
  /\ mbox = << >>
  /\ faulted = FALSE
  /\ depth = 0
  /\ muted = FALSE
  /\ limit = WorkerLimit
  /\ worker = "recv"
  /\ msg = << >>
  /\ seen = 0
  /\ loaded = [t \in Thread |-> 0]
  /\ pc = [t \in Thread |-> "idle"]
  /\ result = [t \in Thread |-> "none"]
  /\ ran = [t \in Thread |-> FALSE]

Goto(t, l) == pc' = [pc EXCEPT ![t] = l]

\* The call is over with result 0; the pin is dropped next.
ReturnZero(t) ==
  /\ Goto(t, "unpin")
  /\ result' = [result EXCEPT ![t] = "zero"]

\* actor_pin_handle: threads pin while the handle is registered; the worker is
\* a thread of its own only inside a method.
CanPin(t) == pc[t] = "idle" /\ live /\ (t = Self => worker = "dispatch")

----------------------------------------------------------------------------
(* mimi_actor_call *)

Call(t) ==
  /\ CanPin(t)
  /\ t # Self
  /\ pinned' = pinned \cup {t}
  /\ Goto(t, "fault")
  /\ result' = [result EXCEPT ![t] = "none"]
  /\ ran' = [ran EXCEPT ![t] = FALSE]
  /\ UNCHANGED <<actorVars, loaded>>

FaultCheck(t) ==
  /\ pc[t] = "fault"
  /\ IF faulted THEN ReturnZero(t) ELSE Goto(t, "pressure") /\ UNCHANGED result
  /\ UNCHANGED <<actorVars, pinned, ran, loaded>>

\* The backpressure loop loads the depth, then the mute flag and the limit.
LoadPressure(t) ==
  /\ pc[t] = "pressure"
  /\ loaded' = [loaded EXCEPT ![t] = depth]
  /\ Goto(t, "writable")
  /\ UNCHANGED <<actorVars, pinned, result, ran>>

Blocked(t) == muted \/ loaded[t] >= limit

\* The mailbox is writable, ...
Writable(t) ==
  /\ pc[t] = "writable"
  /\ ~Blocked(t)
  /\ loaded' = [loaded EXCEPT ![t] = 0]
  /\ Goto(t, "reserve")
  /\ UNCHANGED <<actorVars, pinned, result, ran>>

\* ... or the caller sleeps and looks again, ...
Retry(t) ==
  /\ pc[t] = "writable"
  /\ Blocked(t)
  /\ loaded' = [loaded EXCEPT ![t] = 0]
  /\ Goto(t, "pressure")
  /\ UNCHANGED <<actorVars, pinned, result, ran>>

\* Mutant: the loop has no time limit.
NoTimeToLive(t) ==
  /\ pc[t] = "writable"
  /\ loaded[t] < 0
  /\ UNCHANGED vars

\* ... until 50 ms have passed.
TimeToLive(t) ==
  /\ pc[t] = "writable"
  /\ Blocked(t)
  /\ loaded' = [loaded EXCEPT ![t] = 0]
  /\ ReturnZero(t)
  /\ UNCHANGED <<actorVars, pinned, ran>>

\* depth.fetch_add, and the comparison with the limit.
Reserve(t) ==
  /\ pc[t] = "reserve"
  /\ depth' = depth + 1
  /\ Goto(t, IF depth + 1 > limit THEN "mute" ELSE "send")
  /\ UNCHANGED <<life, work, pinned, muted, limit, result, ran, loaded>>

Mute(t) ==
  /\ pc[t] = "mute"
  /\ muted' = TRUE
  /\ Goto(t, "send")
  /\ UNCHANGED <<life, work, pinned, depth, limit, result, ran, loaded>>

\* Mutant: a message that finds the mailbox closed keeps its depth slot.
SendLeaksDepth(t) ==
  /\ pc[t] = "send"
  /\ IF open
       THEN /\ mbox' = Append(mbox, t)
            /\ Goto(t, "wait")
            /\ UNCHANGED result
       ELSE /\ ReturnZero(t)
            /\ UNCHANGED mbox
  /\ UNCHANGED <<life, pressure, pinned, worker, msg, seen, ran, loaded>>

\* The message goes to the mailbox, or the sender is gone and the slot is
\* given back.  A sender cloned before it was taken delivers all the same.
Send(t) ==
  /\ pc[t] = "send"
  /\ IF open
       THEN /\ mbox' = Append(mbox, t)
            /\ Goto(t, "wait")
            /\ UNCHANGED <<depth, result>>
       ELSE /\ depth' = IF depth > 0 THEN depth - 1 ELSE 0
            /\ ReturnZero(t)
            /\ UNCHANGED mbox
  /\ UNCHANGED <<life, pinned, muted, limit, worker, msg, seen, ran, loaded>>

\* Mutant: the pin is dropped as soon as the message is queued.
UnpinWhileWaiting(t) ==
  /\ pc[t] \in {"unpin", "wait"}
  /\ t \in pinned
  /\ pinned' = pinned \ {t}
  /\ IF live \/ pinned' # {}
       THEN Goto(t, IF pc[t] = "wait" THEN "wait" ELSE "idle") /\ UNCHANGED open
       ELSE open' = FALSE /\ Goto(t, "join")
  /\ UNCHANGED <<pressure, work, live, faulted, result, ran, loaded>>

\* A thread drops its Arc.  The last one runs Drop for MimiActorRepr: it takes
\* the sender and joins the worker, unless it is the worker.
Unpin(t) ==
  /\ pc[t] = "unpin"
  /\ pinned' = pinned \ {t}
  /\ IF live \/ pinned' # {}
       THEN Goto(t, "idle") /\ UNCHANGED open
       ELSE open' = FALSE /\ Goto(t, IF t = Self THEN "idle" ELSE "join")
  /\ UNCHANGED <<pressure, work, live, faulted, result, ran, loaded>>

Joined(t) ==
  /\ pc[t] = "join"
  /\ worker = "exited"
  /\ Goto(t, "idle")
  /\ UNCHANGED <<actorVars, pinned, result, ran, loaded>>

----------------------------------------------------------------------------
(* Lifecycle and configuration *)

\* mimi_actor_drop and mimi_actor_drop_all take the registry's Arc.
Drop(t) ==
  /\ CanPin(t)
  /\ live' = FALSE
  /\ pinned' = pinned \cup {t}
  /\ Goto(t, "unpin")
  /\ UNCHANGED <<pressure, work, open, faulted, result, ran, loaded>>

\* mimi_actor_system_kill and mimi_actor_fault: first the topology is cut, ...
Kill(t) ==
  /\ CanPin(t)
  /\ live' = FALSE
  /\ pinned' = pinned \cup {t}
  /\ Goto(t, "kill")
  /\ UNCHANGED <<pressure, work, open, faulted, result, ran, loaded>>

\* ... then the actor is marked and its sender taken.
MarkFaulted(t) ==
  /\ pc[t] = "kill"
  /\ faulted' = TRUE
  /\ Goto(t, "close")
  /\ UNCHANGED <<pressure, work, pinned, live, open, result, ran, loaded>>

Close(t) ==
  /\ pc[t] = "close"
  /\ open' = FALSE
  /\ Goto(t, "unpin")
  /\ UNCHANGED <<pressure, work, pinned, live, faulted, result, ran, loaded>>

\* mimi_actor_set_mailbox_depth.
SetMailboxDepth(t, n) ==
  /\ CanPin(t)
  /\ pinned' = pinned \cup {t}
  /\ limit' = n
  /\ Goto(t, "unpin")
  /\ UNCHANGED <<life, work, depth, muted, result, ran, loaded>>

----------------------------------------------------------------------------
(* The worker thread *)

Receive ==
  /\ worker = "recv"
  /\ mbox # << >>
  /\ msg' = << Head(mbox) >>
  /\ mbox' = Tail(mbox)
  /\ worker' = "count"
  /\ UNCHANGED <<life, pressure, call, pinned, seen>>

\* depth.fetch_update with saturating_sub.
CountDown ==
  /\ worker = "count"
  /\ depth' = IF depth > 0 THEN depth - 1 ELSE 0
  /\ worker' = "load"
  /\ UNCHANGED <<life, call, pinned, muted, limit, mbox, msg, seen>>

\* Mutant: the comparison is strict, and with half of the limit in force.
LoadDepthBelowHalf ==
  /\ worker = "load"
  /\ seen' = depth
  /\ worker' = IF depth < limit \div 2 THEN "unmute" ELSE "check"
  /\ UNCHANGED <<life, pressure, call, pinned, mbox, msg>>

\* The depth is loaded and compared with half of the default limit.
LoadDepth ==
  /\ worker = "load"
  /\ seen' = depth
  /\ worker' = IF depth <= WorkerLimit \div 2 THEN "unmute" ELSE "check"
  /\ UNCHANGED <<life, pressure, call, pinned, mbox, msg>>

Unmute ==
  /\ worker = "unmute"
  /\ muted' = FALSE
  /\ worker' = "check"
  /\ UNCHANGED <<life, call, pinned, depth, limit, mbox, msg, seen>>

\* The caller of the message at hand gets result r and the loop goes on.
Reply(r) ==
  /\ pc' = [pc EXCEPT ![msg[1]] = "unpin"]
  /\ result' = [result EXCEPT ![msg[1]] = r]
  /\ msg' = << >>
  /\ worker' = "recv"

\* A faulted actor answers without dispatching.
Absorb ==
  /\ worker = "check"
  /\ faulted
  /\ Reply("zero")
  /\ UNCHANGED <<life, pressure, pinned, mbox, seen, ran, loaded>>

Dispatch ==
  /\ worker = "check"
  /\ ~faulted
  /\ worker' = "dispatch"
  /\ ran' = [ran EXCEPT ![msg[1]] = TRUE]
  /\ UNCHANGED <<life, pressure, pinned, mbox, msg, seen, pc, result, loaded>>

\* Mutant: the actor was killed while the method ran, so its answer is dropped.
AnswerUnlessFaulted ==
  /\ worker = "dispatch"
  /\ pc[Self] = "idle"
  /\ Reply(IF faulted THEN "zero" ELSE "ok")
  /\ UNCHANGED <<life, pressure, pinned, mbox, seen, ran, loaded>>

\* The method returned.
Answer ==
  /\ worker = "dispatch"
  /\ pc[Self] = "idle"
  /\ Reply("ok")
  /\ UNCHANGED <<life, pressure, pinned, mbox, seen, ran, loaded>>

\* recv fails: every sender is gone and the channel is empty.
WorkerExit ==
  /\ worker = "recv"
  /\ mbox = << >>
  /\ ~open
  /\ worker' = "exited"
  /\ UNCHANGED <<life, pressure, call, pinned, mbox, msg, seen>>

----------------------------------------------------------------------------
\* A step of the call a thread is in.
CallStep(t) ==
  \/ FaultCheck(t) \/ LoadPressure(t) \/ Writable(t) \/ Retry(t) \/ TimeToLive(t)
  \/ Reserve(t) \/ Mute(t) \/ Send(t) \/ Unpin(t) \/ Joined(t)
  \/ MarkFaulted(t) \/ Close(t)

WorkerStep ==
  \/ Receive \/ CountDown \/ LoadDepth \/ Unmute
  \/ Absorb \/ Dispatch \/ Answer \/ WorkerExit

NewCall(t) ==
  \/ Call(t) \/ Drop(t) \/ Kill(t)
  \/ \E n \in Limit : SetMailboxDepth(t, n)

Over == worker = "exited" /\ \A t \in Thread : pc[t] = "idle"

Next ==
  \/ \E t \in Thread : NewCall(t) \/ CallStep(t)
  \/ WorkerStep
  \/ Over /\ UNCHANGED vars

Spec == Init /\ [][Next]_vars

\* Threads run; 50 ms pass, so the backpressure loop ends; a method returns,
\* however often it looks up its own actor meanwhile.
FairSpec ==
  /\ Spec
  /\ \A t \in Thread : WF_vars(CallStep(t)) /\ SF_vars(TimeToLive(t))
  /\ WF_vars(WorkerStep)
  /\ SF_vars(Answer)

----------------------------------------------------------------------------
(* What callers see of the actor *)

\* The last call of a thread: on its way, in the mailbox or the worker's hands,
\* running, or returned.
PhaseOf(t) ==
  CASE result[t] # "none" -> result[t]
    [] pc[t] = "wait" -> IF ran[t] THEN "running" ELSE "queued"
    [] pc[t] \in {"fault", "pressure", "writable", "reserve", "mute", "send"} -> "asked"
    [] OTHER -> "new"

\* The calls that wait to be dispatched, in the order of the mailbox.
Line == (IF worker = "dispatch" THEN << >> ELSE msg) \o mbox

Ideal == INSTANCE ActorCall WITH
  phase <- [t \in Caller |-> PhaseOf(t)], line <- Line,
  reachable <- live, dead <- faulted, up <- worker # "exited"

----------------------------------------------------------------------------
(* Properties *)

\* Every variable has its type; the mailbox never outgrows its callers.
TypeOK ==
  /\ live \in BOOLEAN /\ open \in BOOLEAN /\ faulted \in BOOLEAN /\ muted \in BOOLEAN
  /\ pinned \subseteq Thread
  /\ mbox \in Seq(Caller) /\ msg \in Seq(Caller) /\ Len(msg) <= 1
  /\ depth \in 0 .. Cardinality(Caller)
  /\ seen \in 0 .. Cardinality(Caller)
  /\ loaded \in [Thread -> 0 .. Cardinality(Caller)]
  /\ limit \in Limit \cup {WorkerLimit}
  /\ worker \in {"recv", "count", "load", "unmute", "check", "dispatch", "exited"}
  /\ pc \in [Thread -> {"idle", "fault", "pressure", "writable", "reserve", "mute",
                        "send", "wait", "unpin", "join", "kill", "close"}]
  /\ result \in [Thread -> {"none", "ok", "zero"}]
  /\ ran \in [Thread -> BOOLEAN]

\* The depth counts the messages on their way: reserved, queued, or taken by
\* the worker and not yet counted down.  Racing callers, failed sends and
\* drains leak no slot, which would block every later caller.
DepthExact ==
  depth = Cardinality({t \in Caller : pc[t] \in {"mute", "send"}}) + Len(mbox)
        + (IF worker = "count" THEN 1 ELSE 0)

\* An actor that can still be called is not muted for good: somebody's message
\* is on its way to the worker, which unmutes when it has drained.
MutedHasMessage ==
  (muted /\ open) => depth > 0 \/ worker \in {"load", "unmute"}

\* Whoever destroys the actor joins a worker that is idle or gone: killing and
\* dropping actors from methods of other actors cannot wait in a circle.
JoinFindsIdleWorker ==
  \A t \in Thread :
    pc[t] = "join" => mbox = << >> /\ worker \in {"recv", "exited"}

\* A call that returned 0 did not run its method, at any later time either, so
\* it may be repeated: not after a timeout, a closed mailbox or a fault.  (A
\* method with an empty result returns "ok" here, 0 in the code.)
FailedCallDidNotRun ==
  \A t \in Caller : result[t] = "zero" => ~ran[t]

\* No reply is lost: the message of a caller that waits without a time limit is
\* in the mailbox or in the worker's hands, and the worker has not exited.  A
\* kill takes the sender while other threads are about to send: each of them
\* finds it gone, or its message is there before the channel ends.
WaiterIsServed ==
  \A t \in Caller : pc[t] = "wait" =>
    worker # "exited" /\ \E i \in DOMAIN (msg \o mbox) : (msg \o mbox)[i] = t

\* The mailbox, its backpressure and its worker give callers what ActorCall
\* promises: an accepted call runs once, alone and in its turn, or, if the actor
\* was killed, never; a call that returned 0 did not run and never will; a drop
\* leaves what was accepted to be served.
ImplementsActorCall == Ideal!Spec

\* Every call returns, whatever is killed or dropped meanwhile.
CallsReturn == \A t \in Thread : pc[t] # "idle" ~> pc[t] = "idle"

\* Does not hold, as the worker knows the limit it was started with only.  Its
\* comment: "Hysteresis unmute at <= 50% depth" (of the limit that
\* mimi_actor_set_mailbox_depth sets).
UnmutesAtHalf == [][muted /\ ~muted' => seen <= limit \div 2]_vars
=============================================================================
