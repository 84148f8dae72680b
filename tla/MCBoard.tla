------------------------------ MODULE MCBoard ------------------------------
(* Board on small instances.  Each .cfg picks from the sets defined here.  *)
EXTENDS Board, TLC

CONSTANTS w1, w2, n1, n2, t1

Everybody == Agent
OneTeam == {<<w1, n1>>, <<w1, n2>>}
Nobody == {}

\* Nothing tells the workspaces apart, or the names.
Swaps == Permutations({w1, w2}) \union Permutations({n1, n2})

Always == {None}
ByOne == {None, 1}
AtOne == {1}
Backfilled == {TRUE}
Never == {FALSE}

\* Who is told of a deadline.  The stamps on rows guard none of the actions that
\* touch these variables, so a run that only asks about them need not tell
\* states apart by the stamps.
Deadlines == <<now, agents, subscription, log, rows, noted>>
=============================================================================
