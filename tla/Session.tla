------------------------------ MODULE Session ------------------------------
(***************************************************************************)
(* What the type checker promises about sessions, on the channels it       *)
(* promises it about.  A program is either untyped: its threads call the   *)
(* channel operations in any order; or it is two functions, one with a     *)
(* parameter of type SessionChan<X>, one of type SessionChan<dual X>, that *)
(* run on the two ends of one session_pair.                                *)
(*                                                                         *)
(* The typed functions are written statement by statement, lo and then hi, *)
(* each statement past the check of core/check_stmt.rs and                 *)
(* core/infer/call/simple.rs: what does not pass is not written.  A        *)
(* function that passes the checks of its end too is accepted, and when    *)
(* both are, they run.                                                     *)
(***************************************************************************)
EXTENDS Channel, SessionTypes, LinearFlow

CONSTANTS
  Envs,         \* the session declarations of the programs; all declare X
  X,
  Lo, Hi,       \* the threads of the two functions
  EndOf,        \* the endpoint of each
  Var,          \* the variables of a function: Param, and what lets bind
  MaxBody,      \* bound: statements of a function
  MaxArm,       \* bound: statements of an arm
  MaxControl    \* bound: control statements of the function of a thread

VARIABLES
  phase,        \* "untyped", "lo" or "hi" is written, "run"
  env,          \* the declarations
  chk,          \* what the checker knows of the function it is in
  body,         \* the functions; when they run, what is left of them
  strayed       \* the ways in which the run has left what the checker followed

svars == <<phase, env, chk, body, strayed>>
allvars == <<vars, svars>>

Writer == IF phase = "lo" THEN Lo ELSE Hi

----------------------------------------------------------------------------
(* The checker.  chk.res is session_residuals, what the endpoint that a   *)
(* variable holds still has to do; chk.consumed is consumed_session_vars. *)

\* A function of side p starts: the residual of its parameter's type.
Enter(p, e) ==
  [res |-> Param :> residual_from_chan_type(X, p = "hi", e),
   consumed |-> {}, bound |-> {Param}, visible |-> {Param}]

\* No function is being checked.
Idle == [res |-> << >>, consumed |-> {}, bound |-> {}, visible |-> {}]

\* What an endpoint of the function's type starts with.
Fresh == residual_from_chan_type(X, phase = "hi", env)

\* residual_of_preinferred_expr; None is an error.
ResidualOf(c, v) ==
  IF v \in DOMAIN c.res THEN c.res[v]
  ELSE IF v \in c.consumed THEN None
  ELSE Fresh

is_numeric_coercion(declared, t) == declared = "i64" /\ t = "i32"

Fits(t, declared) == t = declared \/ is_numeric_coercion(declared, t)

Calls(c) ==
  [op : {"send", "recv"}, v : c.visible, t : Message] \cup [op : {"close"}, v : c.visible]

\* Mutant: an integer of any width is taken.
AllowedAnyWidth(c, a) ==
  LET r == ResidualOf(c, a.v) IN r # None /\ apply_action(r, a.op) # None

\* check_session_send, check_session_recv, check_session_close: the call is
\* allowed by the residual, a message sent has the protocol's type, and what is
\* received is given it.
Allowed(c, a) ==
  LET r == ResidualOf(c, a.v)
      step == apply_action(r, a.op)
  IN  /\ r # None
      /\ step # None
      /\ a.op = "send" => Fits(a.t, step.t)
      /\ a.op = "recv" => a.t = step.t

AfterCall(c, a) ==
  [c EXCEPT !.res = (a.v :> apply_action(ResidualOf(c, a.v), a.op).next) @@ @]

Lets(c) == [op : {"let"}, v : c.visible, w : Var \ c.bound]

\* let w = v: a binding of a declared type starts its protocol, and takes over
\* that of v, if v has one.  SessionChan<dual X> does not name a declared type.
AfterLet(c, a) ==
  LET seeded == IF phase = "hi" THEN c.res ELSE (a.w :> Fresh) @@ c.res
      moved == a.v \in DOMAIN seeded
  IN  [c EXCEPT
        !.bound = @ \cup {a.w}, !.visible = @ \cup {a.w},
        !.consumed = IF moved THEN @ \cup {a.v} ELSE @,
        !.res = IF moved
                  THEN (a.w :> seeded[a.v]) @@ [u \in DOMAIN seeded \ {a.v} |-> seeded[u]]
                  ELSE seeded]

\* The statements that pass the check, each with what the checker then knows.
Checked(c) ==
  {[act |-> a, chk |-> AfterCall(c, a)] : a \in {b \in Calls(c) : Allowed(c, b)}}
  \cup {[act |-> a, chk |-> AfterLet(c, a)] : a \in Lets(c)}

\* The blocks of at most n statements that pass.
RECURSIVE Blocks(_, _)
Blocks(c, n) ==
  {[acts |-> << >>, chk |-> c]} \cup
  IF n = 0 THEN {}
  ELSE UNION {{[acts |-> <<s.act>> \o b.acts, chk |-> b.chk] : b \in Blocks(s.chk, n - 1)} :
              s \in Checked(c)}

\* A block's names go out of sight at its end, and its residuals stay.
Leave(c, outer) == [c EXCEPT !.visible = outer.visible]

\* Mutant: the branches of an if need not agree.
MergesUnchecked(then, else) == TRUE

\* The two branches of an if agree on every endpoint.
Merges(then, else) == then.res = else.res

\* What follows an arm that may not run, or a loop, starts where the arm did.
Restore(c, pre) == [Leave(c, pre) EXCEPT !.res = pre.res]

----------------------------------------------------------------------------
(* Writing a function *)

Controlled(t) == Cardinality({i \in DOMAIN body[t] : IsControl(body[t][i])})

\* Nothing follows an if that the body ends with.
Writes(s, c) ==
  /\ phase \in {"lo", "hi"}
  /\ Len(body[Writer]) < MaxBody
  /\ \A i \in DOMAIN body[Writer] : body[Writer][i].op # "tail"
  /\ body' = [body EXCEPT ![Writer] = Append(@, s)]
  /\ chk' = c
  /\ UNCHANGED <<phase, env, strayed, vars>>

CheckCall == \E s \in Checked(chk) : Writes(s.act, s.chk)

\* An if with an else that something follows, be it a statement that has nothing
\* to do with the endpoint, which a body here leaves out: both arms start where the
\* if does, and have to agree.
CheckIf ==
  /\ Controlled(Writer) < MaxControl[Writer]
  /\ \E then \in Blocks(chk, MaxArm) :
       \E else \in Blocks([then.chk EXCEPT !.res = chk.res, !.visible = chk.visible], MaxArm) :
         \E x, y \in {"fall", "ret"} :
           /\ Merges(then.chk, else.chk)
           /\ Writes([op |-> "if", arms |-> <<Arm(then.acts, x), Arm(else.acts, y)>>],
                     Leave(else.chk, chk))

\* An if with an else that the body ends with, checked as an expression by
\* check_if_branch_types: the else arm starts where the then arm left the residuals,
\* and nothing is compared.
CheckTailIf ==
  /\ Controlled(Writer) < MaxControl[Writer]
  /\ \E then \in Blocks(chk, MaxArm) :
       \E else \in Blocks(Leave(then.chk, chk), MaxArm) :
         \E x, y \in {"fall", "ret"} :
           Writes([op |-> "tail", arms |-> <<Arm(then.acts, x), Arm(else.acts, y)>>],
                  Leave(else.chk, chk))

\* An if without an else, or a loop.
CheckArm(op, exits) ==
  /\ Controlled(Writer) < MaxControl[Writer]
  /\ \E b \in Blocks(chk, MaxArm), x \in exits :
       Writes([op |-> op, arms |-> <<Arm(b.acts, x)>>], Restore(b.chk, chk))

CheckOpt == CheckArm("opt", {"fall", "ret"})
CheckWhile == CheckArm("while", {"fall", "ret", "brk", "cont"})

\* The end of a function: every residual is end (E0425), and the analysis of
\* its graph finds no error.
Accept ==
  /\ phase \in {"lo", "hi"}
  /\ \A v \in DOMAIN chk.res : chk.res[v] = Ended
  /\ LinearErrors(body[Writer]) = {}
  /\ IF phase = "lo" THEN phase' = "hi" /\ chk' = Enter("hi", env) /\ UNCHANGED env
     ELSE phase' = "run" /\ chk' = Idle /\ env' = << >>
  /\ UNCHANGED <<body, strayed, vars>>

----------------------------------------------------------------------------
(* Running: session_send, session_recv and session_close are the channel's *)
(* send, recv and drop.                                                    *)

Pop(t) == body' = [body EXCEPT ![t] = Tail(@)]

\* A call whose endpoint is not in the table returns at once.
Call(t) ==
  /\ phase = "run" /\ pc[t] = "idle" /\ body[t] # << >>
  /\ LET s == Head(body[t])
         e == EndOf[t]
     IN  \/ s.op = "let" /\ Pop(t) /\ UNCHANGED vars
         \/ s.op \in {"send", "recv", "close"} /\ e \notin table /\ Pop(t) /\ UNCHANGED vars
         \/ s.op = "send" /\ BeginSend(t, e, s.t) /\ UNCHANGED body
         \/ s.op = "recv" /\ BeginRecv(t, e) /\ UNCHANGED body
         \/ s.op = "close" /\ BeginDrop(t, e) /\ UNCHANGED body
  /\ UNCHANGED <<phase, env, chk, strayed>>

CallStep(t) ==
  /\ phase = "run"
  /\ Step(t)
  /\ IF pc'[t] = "idle" THEN Pop(t) ELSE UNCHANGED body
  /\ UNCHANGED <<phase, env, chk, strayed>>

Skippable(s) == s.op \in {"opt", "while"}

HasCall(acts, ops) == \E i \in DOMAIN acts : acts[i].op \in ops

\* Arm j of s is not what the checker went on from: its calls are forgotten after
\* it, or it was checked as what follows the other arm.
Strays(s, j) ==
  {w \in {"skipped", "tail"} :
     \/ /\ w = "skipped" /\ Skippable(s) /\ s.arms[j].exit # "ret"
        /\ HasCall(s.arms[j].acts, {"send", "recv", "close"})
     \/ /\ w = "tail" /\ s.op = "tail" /\ j = 2
        /\ HasCall(s.arms[1].acts, {"send", "recv"})}

\* An arm of the control statement that t is at, and what runs after it: the
\* loop again, or what follows the statement.
Branch(t) ==
  /\ phase = "run" /\ pc[t] = "idle" /\ body[t] # << >>
  /\ LET s == Head(body[t])
         rest(arm) ==
           CASE arm.exit = "ret" -> << >>
             [] arm.exit = "brk" \/ (arm.exit = "fall" /\ s.op # "while") -> Tail(body[t])
             [] OTHER -> body[t]
     IN  /\ IsControl(s)
         /\ \/ \E j \in DOMAIN s.arms :
                 /\ body' = [body EXCEPT ![t] = s.arms[j].acts \o rest(s.arms[j])]
                 /\ strayed' = strayed \cup Strays(s, j)
            \/ Skippable(s) /\ Pop(t) /\ UNCHANGED strayed
  /\ UNCHANGED <<phase, env, chk, vars>>

Run(t) == Call(t) \/ CallStep(t) \/ Branch(t)

----------------------------------------------------------------------------
SessionInit ==
  /\ Init
  /\ ep = [t \in Thread |-> EndOf[t]]
  /\ phase \in {"untyped", "lo"}
  /\ IF phase = "lo" THEN env \in Envs /\ chk = Enter("lo", env)
     ELSE env = << >> /\ chk = Idle
  /\ body = [t \in Thread |-> << >>]
  /\ strayed = {}

\* An untyped channel carries i64.
UntypedBegin(t) ==
  phase = "untyped" /\ (\E e \in Endpoint : Begin(t, e, "i64")) /\ UNCHANGED svars
UntypedStep(t) == phase = "untyped" /\ Step(t) /\ UNCHANGED svars

SessionNext ==
  \/ CheckCall \/ CheckIf \/ CheckTailIf \/ CheckOpt \/ CheckWhile \/ Accept
  \/ \E t \in Thread : Run(t) \/ UntypedBegin(t) \/ UntypedStep(t)

\* Threads run.
SessionSpec ==
  /\ SessionInit /\ [][SessionNext]_allvars
  /\ \A t \in Thread : WF_allvars(Run(t)) /\ WF_allvars(UntypedStep(t))

----------------------------------------------------------------------------
(* Properties *)

\* Every message that has been received is one that its function waits for.
Expected ==
  \A t \in Thread : pc[t] \in {"check", "putback"} =>
    val[t] # NoMessage /\ Fits(val[t], Head(body[t]).t)

\* What a thread receives is what its function was told it would be: the two
\* functions were checked apart, against X and against dual X, and no step of
\* either knows where the other is.  It holds of the runs that stay on what the
\* checker followed; the last two definitions are about the others.
Fidelity == phase = "run" /\ strayed = {} => Expected

\* No message is sent to an end that has closed, and none is left at an end that
\* closes: mimi_channel_send would drop the one with a log line, and
\* mimi_channel_drop the other silently.
NothingLost ==
  phase = "run" /\ strayed = {} =>
    \A t \in Thread :
      /\ pc[t] = "send" => Receives(Peer[ep[t]])
      /\ pc[t] = "clear" => queue[ep[t]] = << >>

\* Two functions that the checker accepts finish their session: neither waits
\* for ever in recv for a message that the other does not send.
SessionEnds ==
  phase = "run" ~> strayed # {} \/ \A t \in Thread : EndOf[t] \notin table

\* An endpoint is closed on every path, and not used after that: the analysis of
\* the graph has to see to it, since the residual of a closed endpoint is end,
\* like that of one that is still to be closed.
ClosedOnce ==
  phase = "run" =>
    \A t \in Thread : pc[t] = "idle" =>
      IF body[t] = << >> THEN EndOf[t] \notin table
      ELSE Head(body[t]).op \in {"send", "recv", "close"} => EndOf[t] \in table

\* The worklist reaches every return that the graph reaches, loops included: a
\* block that is taken off it before it is ready has to come back.
ReturnsAreReached ==
  phase \in {"lo", "hi"} => "unreached" \notin LinearErrors(body[Writer])

\* Does not hold.  docs/language-spec.md: "Any Session program that cannot prove
\* residual completeness must be rejected".  if c { session_send(a, 1) } and the
\* same send after it are accepted, and send twice.
FidelityOnEveryPath == phase = "run" => Expected

\* Does not hold either, for the same sentence and "branch merge preserve residual".
\* At the end of a body, if c { session_send(a, 1); session_close(a) } else {
\* session_close(a) } is accepted against !i64.end, and the else path sends nothing.
FidelityOfTailIf == phase = "run" /\ strayed \subseteq {"tail"} => Expected
=============================================================================
