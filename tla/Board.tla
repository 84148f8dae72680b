------------------------------- MODULE Board -------------------------------
(***************************************************************************)
(* The durable message board: the tables and triggers of                   *)
(* orchestration/schema/*.sql and the operations on them of                *)
(* orchestration/board_core/messages.py and registry.py.  Every action is  *)
(* one committed transaction.                                              *)
(*                                                                         *)
(* An agent is the pair of its workspace and its name, as agent_key builds *)
(* it.  A message id is its place in the log (BIGSERIAL).  A delivery row  *)
(* is a pair <<message id, agent>>; the two time stamps a row carries are  *)
(* the sets handed (delivered_at) and acked (acked_at).                    *)
(***************************************************************************)
EXTENDS Integers, Sequences, FiniteSets

CONSTANTS
    Workspace, Name, Topic, Thread, \* what the database holds as text
    None,                           \* SQL NULL, Python None
    DefaultDepth,                   \* messages.DEFAULT_DEPTH
    ExpiresIn, ReplyWithin,         \* the deadlines senders choose from
    Backfills,                      \* the values subscribe's backfill is given
    Registered, Subscribed,         \* agents and subscriptions at the start
    MaxMessages, MaxTime            \* bounds of the instance

Agent == Workspace \X Name

ASSUME ConstantsAssumption ==
    /\ DefaultDepth \in Nat /\ MaxMessages \in Nat /\ MaxTime \in Nat
    /\ ExpiresIn \subseteq Nat \union {None}
    /\ ReplyWithin \subseteq Nat \union {None}
    /\ Backfills \subseteq BOOLEAN
    /\ Registered \subseteq Agent
    /\ Subscribed \subseteq Registered \X Topic
    /\ None \notin Nat \union Agent \union Topic \union Name \union Thread

VARIABLES
    now,          \* the database's clock
    agents,       \* board.agent
    subscription, \* board.subscription
    log,          \* board.message
    rows,         \* board.message_delivery
    handed,       \* the rows with delivered_at set
    acked,        \* the rows with acked_at set
    noted         \* the messages with reply_timeout_noted_at set

boardVars == <<now, agents, subscription, log, rows, handed, acked, noted>>

WorkspaceOf(a) == a[1]
Ids == 1..Len(log)
MsgType == {"DOMAIN", "REPLY"}
Time == Nat \union {None}

Message ==
    [ sender : Agent, workspace : Workspace, recipient : Agent \union {None},
      topic : Topic \union {None}, broadcast : BOOLEAN, type : MsgType,
      parent : Nat \union {None}, depth : Nat, thread : Thread \union {None},
      expires_at : Time, reply_by : Time ]

\* What a caller of post_message chooses; recipient is a name, not a key.
Request ==
    [ recipient : Name \union {None}, topic : Topic \union {None},
      broadcast : BOOLEAN, type : MsgType, parent : Ids \union {None},
      thread : Thread \union {None},
      expires_in : ExpiresIn, reply_within : ReplyWithin ]

----------------------------------------------------------------------------
(* Reading the board *)

Live(i) == log[i].expires_at = None \/ log[i].expires_at > now

Pending == {d \in rows \ acked : Live(d[1])}

Undelivered(a) == {i \in Ids : <<i, a>> \in Pending \ handed}

IsReplyTo(r, i) == log[r].parent = i /\ log[r].type = "REPLY"

\* Mutant of Overdue: takes any follow-up for an answer.
OverdueUnlessFollowedUp(a) ==
    {i \in Ids :
        /\ log[i].sender = a
        /\ log[i].reply_by # None /\ log[i].reply_by <= now
        /\ i \notin noted
        /\ ~ \E r \in Ids : log[r].parent = i}

Overdue(a) ==
    {i \in Ids :
        /\ log[i].sender = a
        /\ log[i].reply_by # None /\ log[i].reply_by <= now
        /\ i \notin noted
        /\ ~ \E r \in Ids : IsReplyTo(r, i)}

Unacked(a) == {d \in handed \ acked : d[2] = a}

----------------------------------------------------------------------------
(* INSERT INTO board.message: the table's CHECKs, then its two triggers *)

OneRoute(recipient, topic, broadcast) ==
    \/ recipient # None /\ topic = None /\ ~broadcast
    \/ recipient = None /\ topic # None /\ ~broadcast
    \/ recipient = None /\ topic = None /\ broadcast

ChecksPass(m) ==
    /\ m.sender \in agents
    /\ OneRoute(m.recipient, m.topic, m.broadcast)
    /\ m.type = "REPLY" => m.parent # None

\* BEFORE INSERT: the workspace is the sender's, whatever the caller wrote,
\* and the recipient and the message replied to must be in it.
Scoped(m) == [m EXCEPT !.workspace = WorkspaceOf(m.sender)]

InScope(m) ==
    /\ m.recipient # None =>
         m.recipient \in agents /\ WorkspaceOf(m.recipient) = m.workspace
    /\ m.parent # None =>
         m.parent \in Ids /\ log[m.parent].workspace = m.workspace

\* Mutants of Fanout: the broadcast of schema/001_init.sql:146, from before
\* workspaces; and a budget that lets one hop too many through.
FanoutUnscoped(m) ==
    IF m.depth <= 0 THEN {}
    ELSE IF m.broadcast THEN {a \in agents : a # m.sender}
    ELSE IF m.topic # None
    THEN {a \in agents : /\ <<a, m.topic>> \in subscription
                         /\ WorkspaceOf(a) = m.workspace
                         /\ a # m.sender}
    ELSE {m.recipient}

FanoutOneHopMore(m) ==
    IF m.broadcast
    THEN {a \in agents : WorkspaceOf(a) = m.workspace /\ a # m.sender}
    ELSE IF m.topic # None
    THEN {a \in agents : /\ <<a, m.topic>> \in subscription
                         /\ WorkspaceOf(a) = m.workspace
                         /\ a # m.sender}
    ELSE {m.recipient}

\* AFTER INSERT: whom the message gets a delivery row for.
Fanout(m) ==
    IF m.depth <= 0 THEN {}
    ELSE IF m.broadcast
    THEN {a \in agents : WorkspaceOf(a) = m.workspace /\ a # m.sender}
    ELSE IF m.topic # None
    THEN {a \in agents : /\ <<a, m.topic>> \in subscription
                         /\ WorkspaceOf(a) = m.workspace
                         /\ a # m.sender}
    ELSE {m.recipient}

Insert(caller) ==
    LET m == Scoped(caller) IN
    /\ Len(log) < MaxMessages
    /\ ChecksPass(m) /\ InScope(m)
    /\ log' = Append(log, m)
    /\ rows' = rows \union ({Len(log) + 1} \X Fanout(m))
    /\ UNCHANGED <<now, agents, subscription, handed, acked, noted>>

----------------------------------------------------------------------------
(* messages.py *)

After(seconds) == IF seconds = None THEN None ELSE now + seconds

\* One hop fewer than the message replied to, never below zero.
DepthUnder(parent) ==
    IF parent = None THEN DefaultDepth
    ELSE IF log[parent].depth > 0 THEN log[parent].depth - 1 ELSE 0

ThreadUnder(parent, thread) ==
    IF parent = None \/ thread # None THEN thread ELSE log[parent].thread

PostMessage(a, q) ==
    LET recipient == <<WorkspaceOf(a), q.recipient>> IN
    /\ a \in agents
    /\ OneRoute(q.recipient, q.topic, q.broadcast)
    /\ q.type = "REPLY" => q.parent # None
    /\ q.recipient # None => recipient \in agents
    /\ q.parent # None => log[q.parent].workspace = WorkspaceOf(a)
    /\ Insert([ sender |-> a, workspace |-> None,
                recipient |-> IF q.recipient = None THEN None ELSE recipient,
                topic |-> q.topic, broadcast |-> q.broadcast, type |-> q.type,
                parent |-> q.parent, depth |-> DepthUnder(q.parent),
                thread |-> ThreadUnder(q.parent, q.thread),
                expires_at |-> After(q.expires_in),
                reply_by |-> After(q.reply_within) ])

\* Mutant of AckMessage: acks whether or not there is a row.
AckAnyway(a, i) ==
    /\ a \in agents
    /\ acked' = acked \union {<<i, a>>}
    /\ UNCHANGED <<now, agents, subscription, log, rows, handed, noted>>

AckMessage(a, i) ==
    /\ <<i, a>> \in rows \ acked
    /\ acked' = acked \union {<<i, a>>}
    /\ UNCHANGED <<now, agents, subscription, log, rows, handed, noted>>

MarkDelivered(a, i) ==
    /\ <<i, a>> \in rows \ handed
    /\ handed' = handed \union {<<i, a>>}
    /\ UNCHANGED <<now, agents, subscription, log, rows, acked, noted>>

\* Mutant of RequeueUnacked: the statement without its WHERE on the recipient.
RequeueOfAll(a) ==
    /\ handed' = handed \intersect acked
    /\ UNCHANGED <<now, agents, subscription, log, rows, acked, noted>>

RequeueUnacked(a) ==
    /\ handed' = handed \ Unacked(a)
    /\ UNCHANGED <<now, agents, subscription, log, rows, acked, noted>>

ClaimOverdueRequests(a) ==
    /\ noted' = noted \union Overdue(a)
    /\ UNCHANGED <<now, agents, subscription, log, rows, handed, acked>>

----------------------------------------------------------------------------
(* registry.py *)

\* Mutant of History: forgets that senders do not get their own posts.
HistoryWithOwn(a, t) ==
    {i \in Ids : log[i].topic = t /\ log[i].workspace = WorkspaceOf(a)}

\* The history of topic t that subscribe(backfill=True) gives agent a.
History(a, t) ==
    {i \in Ids : /\ log[i].topic = t
                 /\ log[i].sender # a
                 /\ log[i].workspace = WorkspaceOf(a)}

\* Mutant of Subscribe: ON CONFLICT resets the row instead of doing nothing.
SubscribeAfresh(a, t, backfill) ==
    LET again == IF backfill THEN History(a, t) \X {a} ELSE {} IN
    /\ a \in agents
    /\ subscription' = subscription \union {<<a, t>>}
    /\ rows' = rows \union again
    /\ handed' = handed \ again /\ acked' = acked \ again
    /\ UNCHANGED <<now, agents, log, noted>>

Subscribe(a, t, backfill) ==
    /\ a \in agents
    /\ subscription' = subscription \union {<<a, t>>}
    /\ rows' = IF backfill THEN rows \union (History(a, t) \X {a}) ELSE rows
    /\ UNCHANGED <<now, agents, log, handed, acked, noted>>

\* Mutant of Unsubscribe: drops what the topic has left in the inbox.
UnsubscribeAndDrop(a, t) ==
    LET gone == {d \in rows : d[2] = a /\ log[d[1]].topic = t} IN
    /\ a \in agents
    /\ subscription' = subscription \ {<<a, t>>}
    /\ rows' = rows \ gone
    /\ handed' = handed \ gone /\ acked' = acked \ gone
    /\ UNCHANGED <<now, agents, log, noted>>

Unsubscribe(a, t) ==
    /\ a \in agents
    /\ subscription' = subscription \ {<<a, t>>}
    /\ UNCHANGED <<now, agents, log, rows, handed, acked, noted>>

\* Create or refresh an agent; its subscriptions become exactly topics.
UpsertAgent(a, topics) ==
    /\ agents' = agents \union {a}
    /\ subscription' = {s \in subscription : s[1] # a} \union ({a} \X topics)
    /\ UNCHANGED <<now, log, rows, handed, acked, noted>>

\* Someone's hand-written INSERT: any row the columns' types and references
\* allow.  The workspace it names is overwritten by the trigger.
RawInsert ==
    /\ Len(log) < MaxMessages
    /\ \E m \in [ sender : agents, workspace : {None},
                  recipient : agents \union {None},
                  topic : Topic \union {None}, broadcast : BOOLEAN,
                  type : MsgType, parent : Ids \union {None},
                  depth : 0..DefaultDepth, thread : {None},
                  expires_at : {None}, reply_by : {None} ] : Insert(m)

Tick ==
    /\ now < MaxTime
    /\ now' = now + 1
    /\ UNCHANGED <<agents, subscription, log, rows, handed, acked, noted>>

----------------------------------------------------------------------------
Init ==
    /\ now = 0
    /\ agents = Registered /\ subscription = Subscribed
    /\ log = <<>>
    /\ rows = {} /\ handed = {} /\ acked = {} /\ noted = {}

Next ==
    \/ \E a \in Agent :
         \/ \E q \in Request : PostMessage(a, q)
         \/ \E i \in Ids : AckMessage(a, i) \/ MarkDelivered(a, i)
         \/ RequeueUnacked(a)
         \/ ClaimOverdueRequests(a)
         \/ \E t \in Topic :
              \/ \E backfill \in Backfills : Subscribe(a, t, backfill)
              \/ Unsubscribe(a, t)
         \/ \E topics \in SUBSET Topic : UpsertAgent(a, topics)
    \/ Tick

Spec == Init /\ [][Next]_boardVars

\* The same board with hand-written INSERTs into board.message besides.
SpecSQL == Init /\ [][Next \/ RawInsert]_boardVars

----------------------------------------------------------------------------
\* The shape of the state: rows only of messages in the log and registered
\* agents, stamps only on rows, a reply only to an earlier message.
TypeOK ==
    /\ now \in 0..MaxTime
    /\ agents \subseteq Agent
    /\ subscription \subseteq agents \X Topic
    /\ log \in Seq(Message) /\ Len(log) <= MaxMessages
    /\ rows \subseteq Ids \X agents
    /\ handed \subseteq rows /\ acked \subseteq rows
    /\ noted \subseteq Ids
    /\ \A i \in Ids : log[i].parent # None => log[i].parent \in 1..(i - 1)

\* Workspaces never see each other: whoever has a delivery row for a message
\* is in its sender's workspace, and so is whoever wrote the message it
\* replies to, however the message got into the table
\* (schema/004_workspaces.sql, "No caller can cross").
WorkspaceIsolation ==
    /\ \A d \in rows :
         WorkspaceOf(d[2]) = WorkspaceOf(log[d[1]].sender)
    /\ \A i \in Ids :
         log[i].parent # None =>
            WorkspaceOf(log[log[i].parent].sender) = WorkspaceOf(log[i].sender)

\* Nothing but an ack or the message's own expiry ends a delivery: no
\* requeue, unsubscribe, upsert or hand-over takes a pending message out of
\* an inbox (messages.py, "Only an ack consumes a message").
OnlyAckConsumes ==
    [][\A d \in Pending : d \in Pending' \/ d \in acked' \/ ~Live(d[1])']_boardVars

\* What is finished stays finished: an acked or expired delivery never comes
\* back, not by a requeue and not by subscribing again with backfill.
NeverRevived ==
    [][\A d \in rows \ Pending : d \notin Pending']_boardVars

\* The deliveries are a mailbox: those pending wait until they are handed over,
\* the others are closed (003_persistent_agents.sql:64, messages.py:216-253).
Box == INSTANCE Mailbox WITH
    waiting <- Pending \ handed,
    given <- Pending \intersect handed,
    closed <- rows \ Pending

ImplementsMailbox == Box!MailboxSpec

\* How many replies deep a message is in its chain.
Hops[i \in Ids] == IF log[i].parent = None THEN 0 ELSE 1 + Hops[log[i].parent]

\* A chain of replies wakes agents at most DefaultDepth times: nobody is given
\* a message deeper than that (the hop budget of fanout_message,
\* schema/001_init.sql:133), unless it asks for the history of a topic.
HopBudget ==
    [][\A d \in rows' \ rows :
          \/ Hops'[d[1]] < DefaultDepth
          \/ d[1] \in Ids /\ log[d[1]].topic # None]_boardVars

\* Nobody but the addressee of a direct message is woken by one of its own.
\* The sender of a topic post or a broadcast does not get it, by fan-out or
\* by a later backfill.
NoEcho ==
    \A d \in rows : log[d[1]].sender = d[2] => log[d[1]].recipient = d[2]

\* A request whose deadline has passed without a reply to anyone but its
\* sender ...
Due(i) ==
    /\ log[i].reply_by # None /\ log[i].reply_by <= now
    /\ \A r \in Ids : IsReplyTo(r, i) => log[r].recipient = log[i].sender

\* ... has a reply in its sender's inbox, or was claimed by its sender's
\* listener, which is to tell of it, or will be by its next claim.
AnsweredInInbox(i) ==
    \E r \in Ids : IsReplyTo(r, i) /\ <<r, log[i].sender>> \in rows

ClaimedOrToBeClaimed(i) == i \in noted \union Overdue(log[i].sender)

\* Whoever asks with a deadline gets an answer or is told that none arrived
\* (README.md:391, "If none arrives, the sender is told once"): as far as the
\* board has a say in it, which is the claim.
AnsweredOrTold ==
    \A i \in Ids : Due(i) => AnsweredInInbox(i) \/ ClaimedOrToBeClaimed(i)
=============================================================================
