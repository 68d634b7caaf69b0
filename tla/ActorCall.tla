------------------------------ MODULE ActorCall ------------------------------
(***************************************************************************)
(* What the callers of an actor may rely on, whatever mailbox, worker,     *)
(* backpressure and pins are behind it.  A call is accepted or refused;    *)
(* accepted calls run one at a time and in the order they were accepted; a *)
(* call that got no answer did not run and never will.  An actor that has  *)
(* become unreachable still serves what it accepted, unless it was killed, *)
(* and only then ends.                                                     *)
(***************************************************************************)
EXTENDS Sequences

CONSTANT Caller

VARIABLES
  phase,      \* of a caller's last call: "new" if there is none, "asked",
              \* "queued", "running", "ok", or "zero" if it did not run
  line,       \* the accepted calls, in order
  reachable,  \* the actor can be found
  dead,       \* the actor was killed
  up          \* somebody serves the line

vars == <<phase, line, reachable, dead, up>>

Init ==
  /\ phase = [t \in Caller |-> "new"]
  /\ line = << >>
  /\ reachable = TRUE
  /\ dead = FALSE
  /\ up = TRUE

Moves(t, from, to) ==
  phase[t] \in from /\ phase' = [phase EXCEPT ![t] = to]

Nobody == \A t \in Caller : phase[t] # "running"

Ask(t) ==
  /\ reachable
  /\ Moves(t, {"new", "ok", "zero"}, "asked")
  /\ UNCHANGED <<line, reachable, dead, up>>

Refuse(t) ==
  /\ Moves(t, {"asked"}, "zero")
  /\ UNCHANGED <<line, reachable, dead, up>>

Accept(t) ==
  /\ up
  /\ Moves(t, {"asked"}, "queued")
  /\ line' = Append(line, t)
  /\ UNCHANGED <<reachable, dead, up>>

\* The first of the line is served: it runs, or, by a dead actor, is sent away.
Serve(t) ==
  /\ up /\ Nobody
  /\ line # << >> /\ t = Head(line)
  /\ Moves(t, {"queued"}, IF dead THEN "zero" ELSE "running")
  /\ line' = Tail(line)
  /\ UNCHANGED <<reachable, dead, up>>

Answer(t) ==
  /\ up
  /\ Moves(t, {"running"}, "ok")
  /\ UNCHANGED <<line, reachable, dead, up>>

Unlink ==
  /\ reachable /\ reachable' = FALSE
  /\ UNCHANGED <<phase, line, dead, up>>

Die ==
  /\ ~reachable /\ dead' = TRUE
  /\ UNCHANGED <<phase, line, reachable, up>>

\* Nothing is left to serve, and nobody can ask any more.
End ==
  /\ ~reachable /\ line = << >> /\ Nobody
  /\ up /\ up' = FALSE
  /\ UNCHANGED <<phase, line, reachable, dead>>

Next ==
  \/ \E t \in Caller : Ask(t) \/ Refuse(t) \/ Accept(t) \/ Serve(t) \/ Answer(t)
  \/ Unlink \/ Die \/ End

Spec == Init /\ [][Next]_vars
=============================================================================
