----------------------------- MODULE LinearFlow -----------------------------
(***************************************************************************)
(* The check that a linear parameter is consumed exactly once on every     *)
(* path of a function: the control-flow graph of core/cfg and the worklist *)
(* analysis of core/cfg/dataflow.rs, for the one resource that a session   *)
(* endpoint is.                                                            *)
(*                                                                         *)
(* A function body is a sequence of statements.  A statement is a call on  *)
(* variable v ([op |-> "send" or "recv", v, t], [op |-> "close", v]), an   *)
(* alias [op |-> "let", v, w] that moves v to w, or control flow           *)
(* [op |-> "if", "tail", "opt" or "while", arms]: two arms, two arms at    *)
(* the end of the body, one arm that may be skipped, a loop.  An arm is    *)
(* straight-line: [acts, exit], where exit is how it ends, "fall", "ret",  *)
(* "brk" or "cont".  Conditions are not evaluated, neither here nor in the *)
(* code.                                                                   *)
(***************************************************************************)
EXTENDS Naturals, Sequences, FiniteSets, SequencesExt

Param == "a"     \* the parameter that holds the endpoint

IsControl(s) == s.op \in {"if", "tail", "opt", "while"}

Arm(acts, exit) == [acts |-> acts, exit |-> exit]

----------------------------------------------------------------------------
(* resolved_lower.rs: the graph.  Block <<k>> holds what stands between   *)
(* control statement k and the next, <<k, j>> arm j of statement k, and   *)
(* <<k, 0>> the header of a loop.                                         *)

\* Where the control statements of the body are, between its two ends.
Controls(body) ==
  LET at == {i \in DOMAIN body : IsControl(body[i])}
  IN  <<0>> \o SetToSortSeq(at, <) \o <<Len(body) + 1>>

Control(body, k) == body[Controls(body)[k + 1]]

NControls(body) == Len(Controls(body)) - 2

\* An if without an else has an empty one.
ArmsOf(c) == IF c.op = "opt" THEN Append(c.arms, Arm(<< >>, "fall")) ELSE c.arms

\* The calls and aliases of a block.
ActsOf(body, b) ==
  IF Len(b) = 1 THEN LET p == Controls(body) IN SubSeq(body, p[b[1] + 1] + 1, p[b[1] + 2] - 1)
  ELSE IF b[2] = 0 THEN << >>
  ELSE ArmsOf(Control(body, b[1]))[b[2]].acts

Edge(from, to, kind) == [from |-> from, to |-> to, kind |-> kind]

\* lower_if
IfEdges(c, k) ==
  UNION {{Edge(<<k - 1>>, <<k, j>>, "Branch")} \cup
         (IF ArmsOf(c)[j].exit = "fall" THEN {Edge(<<k, j>>, <<k>>, "Fallthrough")} ELSE {}) :
         j \in 1..2}

\* lower_conditional_loop, and the break and continue of lower_stmt.
LoopEdges(c, k) ==
  {Edge(<<k - 1>>, <<k, 0>>, "Fallthrough"), Edge(<<k, 0>>, <<k, 1>>, "LoopBody"),
   Edge(<<k, 0>>, <<k>>, "LoopExit")} \cup
  CASE c.arms[1].exit = "fall" -> {Edge(<<k, 1>>, <<k, 0>>, "Backedge")}
    [] c.arms[1].exit = "cont" -> {Edge(<<k, 1>>, <<k, 0>>, "Continue")}
    [] c.arms[1].exit = "brk" -> {Edge(<<k, 1>>, <<k>>, "Break")}
    [] c.arms[1].exit = "ret" -> {}

Edges(body) ==
  UNION {LET c == Control(body, k)
         IN  IF c.op = "while" THEN LoopEdges(c, k) ELSE IfEdges(c, k) :
         k \in 1..NControls(body)}

RECURSIVE Reach(_, _)
Reach(bs, edges) ==
  LET more == {e.to : e \in {d \in edges : d.from \in bs}} \ bs
  IN  IF more = {} THEN bs ELSE Reach(bs \cup more, edges)

\* The graph of a body, and the blocks that return: the one that the body ends
\* in, implicitly, and the arms that say so.
Lower(body) ==
  LET edges == Edges(body)
      n == NControls(body)
  IN  [edges |-> edges,
       reachable |-> Reach({<<0>>}, edges),
       returns |-> {<<n>>} \cup
                   UNION {{<<k, j>> : j \in {i \in DOMAIN ArmsOf(Control(body, k)) :
                                             ArmsOf(Control(body, k))[i].exit = "ret"}} :
                          k \in 1..n},
       acts |-> [b \in Reach({<<0>>}, edges) |-> ActsOf(body, b)]]

Into(cfg, b) == {e \in cfg.edges : e.to = b /\ e.from \in cfg.reachable}
From(cfg, b) == {e \in cfg.edges : e.from = b}
LoopCarried == {"Backedge", "Continue"}

----------------------------------------------------------------------------
(* dataflow.rs.  A fact is what is known of the resource: its             *)
(* availability, and the variable that owns it.                           *)

NoOwner == "none"
Fact(av, own) == [av |-> av, own |-> own]
NoFact == Fact("absent", NoOwner)

\* introduce_parameters
Introduced == Fact("Available", Param)

\* validate_action_owner: an available resource is used through its owner.
StaleName(act, f) == f.av = "Available" /\ f.own # NoOwner /\ f.own # act.v

\* transfer: let is a Move, close a Drop; send and recv, TransferSession, pass.
transfer(act, st) ==
  LET bad == IF StaleName(act, st.fact) \/ st.fact.av \notin {"Available", "absent"}
               THEN {"E0304"} ELSE {}
  IN  CASE act.op = "let" -> [fact |-> Fact("Available", act.w), errors |-> st.errors \cup bad]
        [] act.op = "close" ->
             [fact |-> Fact("Consumed", NoOwner), errors |-> st.errors \cup bad]
        [] OTHER -> st

RECURSIVE TransferAll(_, _)
TransferAll(acts, st) ==
  IF acts = << >> THEN st ELSE TransferAll(Tail(acts), transfer(Head(acts), st))

\* The facts of two predecessors, in either order.
JoinFacts(f, g) ==
  IF f = g \/ g = NoFact THEN f
  ELSE IF f = NoFact THEN g
  ELSE Fact("MaybeConsumed", IF f.own = g.own THEN f.own ELSE NoOwner)

\* Mutant: what differs on two paths is not an error, and one path decides.
join_predecessors_lenient(facts) ==
  [fact |-> IF facts = {} THEN NoFact ELSE CHOOSE f \in facts : TRUE, errors |-> {}]

\* facts: of the predecessors that have one so far, at most two.
join_predecessors(facts) ==
  [fact |-> FoldSet(JoinFacts, NoFact, facts),
   errors |-> IF Cardinality(facts \ {NoFact}) > 1 THEN {"E0304"} ELSE {}]

\* Mutant: a loop header waits for the end of its own body.
predecessors_ready_all(cfg, b, out) ==
  \A e \in Into(cfg, b) : e.from \in DOMAIN out

\* All predecessors have a state, except those that are reached through b.
predecessors_ready(cfg, b, out) ==
  \A e \in Into(cfg, b) : e.kind \notin LoopCarried => e.from \in DOMAIN out

\* The worklist: out maps the blocks that have been reached to their facts.
RECURSIVE analyze(_, _, _, _)
analyze(cfg, worklist, out, errors) ==
  IF worklist = << >> THEN [out |-> out, errors |-> errors]
  ELSE
    LET b == Head(worklist)
        at == IF b = <<0>> THEN [fact |-> Introduced, errors |-> {}]
              ELSE join_predecessors({out[e.from] : e \in {d \in Into(cfg, b) : d.from \in DOMAIN out}})
        res == TransferAll(cfg.acts[b], at)
        found == errors \cup res.errors
        next == {e.to : e \in From(cfg, b)} \ ToSet(Tail(worklist))
    IN  IF b # <<0>> /\ ~predecessors_ready(cfg, b, out)
          THEN analyze(cfg, Tail(worklist), out, errors)
        ELSE IF b \in DOMAIN out /\ out[b] = res.fact
          THEN analyze(cfg, Tail(worklist), out, found)
        ELSE analyze(cfg, Tail(worklist) \o SetToSeq(next), (b :> res.fact) @@ out, found)

\* A block that leaves only for the next iteration of its loop.
DivergingSink(cfg, b) ==
  From(cfg, b) # {} /\ \A e \in From(cfg, b) : e.kind \in LoopCarried

validate_return_resources(cfg, out) ==
  UNION {IF b \notin DOMAIN out THEN {"unreached"}
         ELSE IF out[b].av \in {"Available", "MaybeConsumed"} THEN {"E0256"} ELSE {} :
         b \in {c \in cfg.reachable : c \in cfg.returns \/ DivergingSink(cfg, c)}}

\* The errors of the analysis, as a set of codes.
LinearErrors(body) ==
  LET cfg == Lower(body)
      end == analyze(cfg, <<<<0>>>>, << >>, {})
  IN  end.errors \cup validate_return_resources(cfg, end.out)
=============================================================================
