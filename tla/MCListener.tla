----------------------------- MODULE MCListener -----------------------------
(* Listener on small instances: this agent and one other in one workspace. *)
EXTENDS Listener, TLC

CONSTANTS w1, me, peer, s1, s2

Team == {<<w1, me>>, <<w1, peer>>}
MyKey == <<w1, me>>
Nobody == {}

\* Which thread does a sweep makes no difference to what it may do.
Threads == Permutations(Sweeper)

Always == {None}
AtOne == {1}
Lost == {FALSE}
KeptOn == {TRUE}
EitherWay == {TRUE, FALSE}

\* At most one of each mishap named.
Once(mishaps) == [m \in Mishap |-> IF m \in mishaps THEN 1 ELSE 0]

Anything == Once(Mishap)
FaultyClear == Once({"fault", "clear"})
Crashing == Once({"crash"})
=============================================================================
