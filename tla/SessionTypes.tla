---------------------------- MODULE SessionTypes ----------------------------
(***************************************************************************)
(* The session types of session.rs: their dual, the resolution of names,   *)
(* and the step that one call takes along a protocol.  A type is !t.c,     *)
(* ?t.c, end, a name, or the dual of a type; env is the declarations       *)
(* `session Name = ...` of the program.                                    *)
(***************************************************************************)
EXTENDS Naturals, Sequences, TLC

Snd(t, c) == [k |-> "send", t |-> t, c |-> c]
Rcv(t, c) == [k |-> "recv", t |-> t, c |-> c]
Ended == [k |-> "end"]
Name(n) == [k |-> "name", n |-> n]
Dual(s) == [k |-> "dual", s |-> s]

\* No type: an unknown name, or a name that stands for itself.
None == [k |-> "none"]

\* Mutant: only the first action is turned round.
DualOfFirst(s) ==
  CASE s.k = "send" -> Rcv(s.t, s.c)
    [] s.k = "recv" -> Snd(s.t, s.c)
    [] s.k = "end" -> s
    [] s.k = "name" -> Dual(s)
    [] s.k = "dual" -> s.s

RECURSIVE dual(_)
dual(s) ==
  CASE s.k = "send" -> Rcv(s.t, dual(s.c))
    [] s.k = "recv" -> Snd(s.t, dual(s.c))
    [] s.k = "end" -> s
    [] s.k = "name" -> Dual(s)
    [] s.k = "dual" -> IF s.s.k = "dual" THEN dual(s.s.s) ELSE s.s

\* visiting: the names that are being expanded.
RECURSIVE resolve_inner(_, _, _)
resolve_inner(s, env, visiting) ==
  CASE s.k \in {"send", "recv"} ->
         LET c == resolve_inner(s.c, env, visiting)
         IN  IF c = None THEN None ELSE [s EXCEPT !.c = c]
    [] s.k = "end" -> s
    [] s.k = "name" ->
         IF s.n \in visiting \/ s.n \notin DOMAIN env THEN None
         ELSE resolve_inner(env[s.n], env, visiting \cup {s.n})
    [] s.k = "dual" ->
         LET r == resolve_inner(s.s, env, visiting)
         IN  IF r = None THEN None ELSE dual(r)

resolve(s, env) == resolve_inner(s, env, {})

\* The declared type of name x, as it stands where it does not resolve.
Declared(x, env) ==
  LET r == resolve(env[x], env) IN IF r = None THEN env[x] ELSE r

\* What an endpoint of type SessionChan<x>, or SessionChan<dual x>, has to do.
residual_from_chan_type(x, dualised, env) ==
  IF x \notin DOMAIN env THEN None
  ELSE IF dualised THEN dual(Declared(x, env)) ELSE Declared(x, env)

\* What is left of protocol s after a call of op, and the type of its message.
\* None where the protocol does not allow the call.
apply_action(s, op) ==
  LET r == IF s.k = "dual" THEN dual(s.s) ELSE s
  IN  CASE op = "close" /\ r.k = "end" -> [next |-> r, t |-> None]
        [] op \in {"send", "recv"} /\ r.k = op -> [next |-> r.c, t |-> r.t]
        [] OTHER -> None
=============================================================================
