----------------------------- MODULE MCSession -----------------------------
(* Instances of Session for TLC. *)
EXTENDS Session

CONSTANTS A, B, C

\* mimi_channel_new gives one endpoint, mimi_session_pair gives two.
ChannelAndSession == (A :> A) @@ (B :> C) @@ (C :> B)

PairEnds == (Lo :> B) @@ (Hi :> C)

\* The function on the lo end may branch.
LoBranches == (Lo :> 1) @@ (Hi :> 0)

Endings == {Ended, Name("X"), Name("Y"), Dual(Name("Y"))}
Preceded(S) == {Snd("i64", s) : s \in S} \cup {Rcv("i32", s) : s \in S}

\* session X = at most two actions and end, Y, dual Y, or X itself;
\* session Y = !i64 . end.
SmallEnvs ==
  {("X" :> x) @@ ("Y" :> Snd("i64", Ended)) :
     x \in Endings \cup Preceded(Endings) \cup Preceded(Preceded({Ended}))}
=============================================================================
