------------------------------- MODULE Wakeup -------------------------------
(***************************************************************************)
(* What makes a listener sweep: the notification loop of run               *)
(* (listener/listen.py) over PostgreSQL's LISTEN and NOTIFY, and the       *)
(* periodic timer.  What a sweep does is in Listener; here it only finds   *)
(* what is in the inbox.                                                   *)
(*                                                                         *)
(* A connection hears of a commit if it listened to the channel by then.   *)
(* The direct and the broadcast channel of the agent never change and      *)
(* count as one.  A message is known by its place in the order of commits. *)
(***************************************************************************)
EXTENDS Naturals, Sequences

CONSTANTS
    Topic,     \* the topics the agent may subscribe to
    MaxPosts,  \* bound: messages posted
    MaxChanges, \* bound: changes of topology
    MaxFailures \* bound: broken connections, failed queries, crashes

ASSUME WakeupAssumption ==
    /\ {MaxPosts, MaxChanges, MaxFailures} \subseteq Nat
    /\ {"own", "topology"} \intersect Topic = {}

Own == "own"
Topology == "topology"
Channel == Topic \union {Own, Topology}

VARIABLES
    topics,   \* the agent's subscriptions
    via,      \* the channel each message for the agent was posted on
    swept,    \* the messages some sweep has found
    conn,     \* the LISTEN connection: "none", "open" or "dead"
    queue,    \* the notifications it has received
    listened, \* the channels it listens to
    wanted,   \* the channels still to LISTEN to
    steady,   \* the first sweep of the connection is over
    pc,       \* where run is
    unheard,  \* history: messages no notification and no first sweep is for
    overlooked, \* history: a change since the channels were read, not heard of
    changes, failures \* so far

loopVars == <<conn, queue, listened, wanted, steady, pc>>
histories == <<unheard, overlooked>>
wakeupVars == <<topics, via, swept, loopVars, histories, changes, failures>>

Ids == 1..Len(via)

\* A sweep is certain to come without another notification.
SweepAhead ==
    \/ pc \in {"connect", "sweep"}
    \/ pc \in {"read", "listen"} /\ ~steady
    \/ conn = "dead"

Hears(c) == conn = "open" /\ c \in listened

\* pg_notify, at the commit.
Notify(c) == queue' = IF Hears(c) THEN Append(queue, c) ELSE queue

----------------------------------------------------------------------------
(* The board *)

\* A message to the agent, to everybody, or on a topic of the agent's.
Post(c) ==
    /\ c = Own \/ c \in topics
    /\ Len(via) < MaxPosts
    /\ via' = Append(via, c)
    /\ Notify(c)
    /\ unheard' = IF Hears(c) \/ SweepAhead THEN unheard
                                            ELSE unheard \union {Len(via) + 1}
    /\ UNCHANGED <<topics, swept, conn, listened, wanted, steady, pc,
                   overlooked, changes, failures>>

TopologyChanges ==
    /\ changes < MaxChanges /\ changes' = changes + 1
    /\ Notify(Topology)

\* With backfill the history comes with it: rows, but no NOTIFY for them.
Subscribe(t, backfill) ==
    /\ t \notin topics /\ topics' = topics \union {t}
    /\ TopologyChanges
    /\ Len(via) + backfill <= MaxPosts
    /\ via' = IF backfill = 1 THEN Append(via, t) ELSE via
    /\ unheard' = IF backfill = 1 /\ ~SweepAhead
                    THEN unheard \union {Len(via) + 1} ELSE unheard
    /\ overlooked' = (overlooked \/ ~Hears(Topology))
    /\ UNCHANGED <<swept, conn, listened, wanted, steady, pc, failures>>

Unsubscribe(t) ==
    /\ t \in topics /\ topics' = topics \ {t}
    /\ TopologyChanges
    /\ UNCHANGED <<via, swept, conn, listened, wanted, steady, pc,
                   histories, failures>>

\* Somebody else's subscription, a new agent, a new topic.
OthersChange ==
    /\ TopologyChanges
    /\ UNCHANGED <<topics, via, swept, conn, listened, wanted, steady, pc,
                   histories, failures>>

----------------------------------------------------------------------------
(* run *)

\* A new connection, which listens to nothing yet.
Connect ==
    /\ pc = "connect"
    /\ conn' = "open" /\ queue' = <<>> /\ listened' = {} /\ wanted' = {}
    /\ steady' = FALSE /\ pc' = "read"
    /\ UNCHANGED <<topics, via, swept, histories, changes, failures>>

\* ensure_listening: the channels first, by another connection ...
ReadChannels ==
    /\ pc = "read"
    /\ wanted' = ({Own, Topology} \union topics) \ listened
    /\ overlooked' = FALSE
    /\ pc' = "listen"
    /\ UNCHANGED <<topics, via, swept, conn, queue, listened, steady, unheard,
                   changes, failures>>

\* ... then LISTEN to each, in no order of its own.
Listen(c) ==
    /\ pc = "listen" /\ conn = "open" /\ c \in wanted
    /\ listened' = listened \union {c} /\ wanted' = wanted \ {c}
    /\ UNCHANGED <<topics, via, swept, conn, queue, steady, pc, histories,
                   changes, failures>>

\* Mutant of Listening: no sweep after the reconnect.
ListeningOnly ==
    /\ pc = "listen" /\ wanted = {}
    /\ pc' = "wait" /\ steady' = TRUE
    /\ UNCHANGED <<topics, via, swept, conn, queue, listened, wanted, histories,
                   changes, failures>>

\* All done: sweep if the connection is new, else wait on.
Listening ==
    /\ pc = "listen" /\ wanted = {}
    /\ pc' = IF steady THEN "wait" ELSE "sweep"
    /\ UNCHANGED <<topics, via, swept, conn, queue, listened, wanted, steady,
                   histories, changes, failures>>

\* A sweep finds all there is, whatever made it start.
SweepNow ==
    /\ pc = "sweep"
    /\ swept' = Ids
    /\ pc' = "wait" /\ steady' = TRUE
    /\ UNCHANGED <<topics, via, conn, queue, listened, wanted, histories,
                   changes, failures>>

\* Mutant of Take: a topology notification is one like any other.
TakeAlike ==
    /\ pc = "wait" /\ queue # <<>>
    /\ queue' = Tail(queue)
    /\ pc' = "sweep"
    /\ UNCHANGED <<topics, via, swept, conn, listened, wanted, steady,
                   histories, changes, failures>>

\* The next notification: new channels, and nothing else, or a sweep.
Take ==
    /\ pc = "wait" /\ queue # <<>>
    /\ queue' = Tail(queue)
    /\ pc' = IF Head(queue) = Topology THEN "read" ELSE "sweep"
    /\ UNCHANGED <<topics, via, swept, conn, listened, wanted, steady,
                   histories, changes, failures>>

----------------------------------------------------------------------------
(* Failures *)

Fails == failures < MaxFailures /\ failures' = failures + 1

\* The server or the tunnel drops the connection ...
Breaks ==
    /\ conn = "open" /\ Fails
    /\ conn' = "dead"
    /\ UNCHANGED <<topics, via, swept, queue, listened, wanted, steady, pc,
                   histories, changes>>

\* Mutant of Reconnects: what the old connection heard is kept.
ReconnectsWithQueue ==
    /\ pc' = "connect" /\ conn' = "none"
    /\ listened' = {} /\ wanted' = {} /\ steady' = FALSE
    /\ UNCHANGED <<topics, via, swept, queue, histories, changes>>

Reconnects ==
    /\ pc' = "connect" /\ conn' = "none" /\ queue' = <<>>
    /\ listened' = {} /\ wanted' = {} /\ steady' = FALSE
    /\ UNCHANGED <<topics, via, swept, histories, changes>>

\* ... which the loop notices when it uses it, with the queue empty or not.
NoticeBroken ==
    /\ conn = "dead" /\ pc \in {"listen", "wait"}
    /\ Reconnects /\ UNCHANGED failures

\* A query of ensure_listening or of the sweep fails, by way of the pool.
PoolFails == pc \in {"read", "sweep"} /\ Fails /\ Reconnects

\* The process dies and is started again.
Dies == Fails /\ Reconnects

----------------------------------------------------------------------------
\* _periodic_sweep.
TimerSweep ==
    /\ swept' = Ids
    /\ UNCHANGED <<topics, via, loopVars, histories, changes, failures>>

WakeupInit ==
    /\ topics = {} /\ via = <<>> /\ swept = {}
    /\ conn = "none" /\ queue = <<>> /\ listened = {} /\ wanted = {}
    /\ steady = FALSE /\ pc = "connect"
    /\ unheard = {} /\ overlooked = FALSE
    /\ changes = 0 /\ failures = 0

Loop ==
    \/ Connect \/ ReadChannels
    \/ \E c \in Channel : Listen(c)
    \/ Listening \/ SweepNow \/ Take \/ NoticeBroken

WakeupNext ==
    \/ \E c \in Channel : Post(c)
    \/ \E t \in Topic :
         (\E backfill \in {0, 1} : Subscribe(t, backfill)) \/ Unsubscribe(t)
    \/ OthersChange
    \/ Loop
    \/ Breaks \/ PoolFails \/ Dies
    \/ TimerSweep

WakeupSpec == WakeupInit /\ [][WakeupNext]_wakeupVars

\* The loop goes on, and tries to reconnect for ever.
WakeupFairSpec == WakeupSpec /\ WF_wakeupVars(Loop)

----------------------------------------------------------------------------
\* The shape of the state: notifications come from channels listened to.
WakeupTypeOK ==
    /\ topics \subseteq Topic
    /\ via \in Seq(Topic \union {Own}) /\ Len(via) <= MaxPosts
    /\ swept \subseteq Ids /\ unheard \subseteq Ids
    /\ conn \in {"none", "open", "dead"}
    /\ queue \in Seq(listened)
    /\ listened \subseteq Channel /\ wanted \subseteq Channel
    /\ steady \in BOOLEAN /\ overlooked \in BOOLEAN
    /\ pc \in {"connect", "read", "listen", "sweep", "wait"}
    /\ changes \in Nat /\ failures \in Nat

\* "LISTEN first, then sweep: anything posted in between is caught by one or
\* the other, never neither" (listen.py:212): what no sweep has found yet has
\* a sweep ahead of it or a notification in the queue, unless its channel was
\* not listened to when it came, long after the connection was made.
NeverNeither ==
    \A m \in Ids \ swept :
        m \in unheard \/ SweepAhead \/ \E k \in 1..Len(queue) : queue[k] # Topology

Heard(c) == \E k \in 1..Len(queue) : queue[k] = c

\* With no change of topology left to hear of, the loop listens to every
\* topic of the agent, unless one came between reading the channels and the
\* first LISTEN: that one stays unheard until the next change or reconnect.
FollowsTopics ==
    pc = "wait" /\ conn = "open" /\ ~Heard(Topology) /\ ~overlooked
        => topics \subseteq listened

\* What was posted on a channel listened to, or before the first sweep, is
\* swept without the timer's help.
SweptOnNotice == \A m \in 1..MaxPosts : m \in Ids \ unheard ~> m \in swept
=============================================================================
