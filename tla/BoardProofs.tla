---------------------------- MODULE BoardProofs ----------------------------
(* What holds of the board for every choice of its constants: the shape of *)
(* its state, the separation of workspaces, even against hand-written SQL, *)
(* that only an ack or the message's own expiry ends a delivery, that      *)
(* nobody gets what it said itself, and that who asks within the hop       *)
(* budget is answered or told.                                             *)
EXTENDS Board, TLAPS, WellFoundedInduction

\* Every step of either specification, by operation.
Operation ==
    \/ \E a \in Agent, q \in Request : PostMessage(a, q)
    \/ \E a \in Agent, i \in Ids : AckMessage(a, i)
    \/ \E a \in Agent, i \in Ids : MarkDelivered(a, i)
    \/ \E a \in Agent : RequeueUnacked(a)
    \/ \E a \in Agent : ClaimOverdueRequests(a)
    \/ \E a \in Agent, t \in Topic, b \in Backfills : Subscribe(a, t, b)
    \/ \E a \in Agent, t \in Topic : Unsubscribe(a, t)
    \/ \E a \in Agent, topics \in SUBSET Topic : UpsertAgent(a, topics)
    \/ RawInsert
    \/ Tick

\* Next and RawInsert are the operations, and nothing else.
LEMMA StepIsOperation == Next \/ RawInsert <=> Operation
  BY DEF Next, Operation

\* The key an agent has begins with its workspace.
LEMMA AgentHasWorkspace ==
    ASSUME NEW a \in Agent PROVE WorkspaceOf(a) \in Workspace
  BY DEF Agent, WorkspaceOf

\* The workspace column is the sender's workspace.
Stamped(m) == m.workspace = WorkspaceOf(m.sender)

\* What a caller inserts is a Message, stamped, once it has been scoped.
LEMMA PostIsPosted ==
    ASSUME TypeOK, NEW a \in Agent, NEW q \in Request, PostMessage(a, q)
    PROVE  \E m : /\ Scoped(m) \in Message /\ Stamped(Scoped(m)) /\ Insert(m)
                 /\ Scoped(m).parent = q.parent
                 /\ Scoped(m).depth = DepthUnder(q.parent)
  <1> DEFINE recipient == <<WorkspaceOf(a), q.recipient>>
             m == [ sender |-> a, workspace |-> None,
                recipient |-> IF q.recipient = None THEN None ELSE recipient,
                topic |-> q.topic, broadcast |-> q.broadcast, type |-> q.type,
                parent |-> q.parent, depth |-> DepthUnder(q.parent),
                thread |-> ThreadUnder(q.parent, q.thread),
                expires_at |-> After(q.expires_in),
                reply_by |-> After(q.reply_within) ]
  <1>1. Insert(m)
    BY DEF PostMessage
  <1>2. IF q.recipient = None THEN TRUE ELSE recipient \in Agent
    BY DEF PostMessage, TypeOK
  <1>3. q.parent = None \/ log[q.parent] \in Message
    BY DEF TypeOK, Request, Ids
  <1>4. DepthUnder(q.parent) \in Nat
    BY <1>3, ConstantsAssumption DEF DepthUnder, Message
  <1>5. ThreadUnder(q.parent, q.thread) \in Thread \union {None}
    BY <1>3 DEF ThreadUnder, Message, Request
  <1>a. q.expires_in \in Nat \union {None} /\ q.reply_within \in Nat \union {None}
    BY ConstantsAssumption DEF Request
  <1>6. After(q.expires_in) \in Time /\ After(q.reply_within) \in Time
    BY <1>a DEF After, Time, TypeOK
  <1>7. q.parent \in Nat \union {None}
    BY DEF Request, Ids, TypeOK
  <1>8. Scoped(m) = [m EXCEPT !.workspace = WorkspaceOf(a)]
    BY DEF Scoped
  <1>9. Scoped(m) \in Message
    BY <1>2, <1>4, <1>5, <1>6, <1>7, <1>8, AgentHasWorkspace DEF Message, Request
  <1>10. Stamped(Scoped(m))
    BY <1>8 DEF Stamped
  <1>11. Scoped(m).parent = q.parent /\ Scoped(m).depth = DepthUnder(q.parent)
    BY <1>8
  <1> QED
    BY <1>1, <1>9, <1>10, <1>11

LEMMA PostIsMessage ==
    ASSUME TypeOK, NEW a \in Agent, NEW q \in Request, PostMessage(a, q)
    PROVE  \E m : Scoped(m) \in Message /\ Stamped(Scoped(m)) /\ Insert(m)
  BY PostIsPosted

LEMMA RawIsMessage ==
    ASSUME TypeOK, RawInsert
    PROVE  \E m : Scoped(m) \in Message /\ Stamped(Scoped(m)) /\ Insert(m)
  <1>1. PICK m \in [ sender : agents, workspace : {None},
                     recipient : agents \union {None},
                     topic : Topic \union {None}, broadcast : BOOLEAN,
                     type : MsgType, parent : Ids \union {None},
                     depth : 0..DefaultDepth, thread : {None},
                     expires_at : {None}, reply_by : {None} ] : Insert(m)
    BY DEF RawInsert
  <1>2. Ids \subseteq Nat /\ 0..DefaultDepth \subseteq Nat
    BY ConstantsAssumption DEF Ids, TypeOK
  <1>3. Scoped(m) = [m EXCEPT !.workspace = WorkspaceOf(m.sender)]
    BY DEF Scoped
  <1>4. Scoped(m) \in Message
    BY <1>2, <1>3, AgentHasWorkspace DEF Message, Time, TypeOK
  <1>5. Stamped(Scoped(m))
    BY <1>3 DEF Stamped
  <1> QED
    BY <1>1, <1>4, <1>5

\* Every INSERT, whoever makes it, adds one message to the end of the log and
\* touches no message or row that was there.
LEMMA InsertAppends ==
    ASSUME TypeOK, NEW m, Scoped(m) \in Message, Insert(m)
    PROVE  /\ log' \in Seq(Message)
           /\ Len(log') = Len(log) + 1 /\ Len(log') <= MaxMessages
           /\ Ids' = Ids \union {Len(log) + 1}
           /\ \A i \in Ids : log'[i] = log[i]
           /\ log'[Len(log) + 1] = Scoped(m)
           /\ rows' = rows \union ({Len(log) + 1} \X Fanout(Scoped(m)))
           /\ ChecksPass(Scoped(m)) /\ InScope(Scoped(m))
           /\ UNCHANGED <<now, agents, subscription, handed, acked, noted>>
  <1> DEFINE s == Scoped(m)
  <1>1. /\ Len(log) < MaxMessages
        /\ ChecksPass(s) /\ InScope(s)
        /\ log' = Append(log, s)
        /\ rows' = rows \union ({Len(log) + 1} \X Fanout(s))
        /\ UNCHANGED <<now, agents, subscription, handed, acked, noted>>
    BY DEF Insert
  <1>2. log \in Seq(Message) /\ s \in Message /\ Len(log) \in Nat
    BY DEF TypeOK
  <1> HIDE DEF s
  <1>3. /\ log' \in Seq(Message) /\ Len(log') = Len(log) + 1
        /\ \A i \in 1..Len(log) : log'[i] = log[i]
        /\ log'[Len(log) + 1] = s
    BY <1>1, <1>2
  <1>4. Ids' = Ids \union {Len(log) + 1}
    BY <1>2, <1>3 DEF Ids
  <1>5. Len(log') <= MaxMessages
    BY <1>1, <1>2, <1>3, ConstantsAssumption
  <1> QED
    BY <1>1, <1>3, <1>4, <1>5 DEF s, Ids

\* Fan-out reaches registered agents only.
LEMMA FanoutReachesAgents ==
    ASSUME NEW m \in Message, ChecksPass(m), InScope(m)
    PROVE  Fanout(m) \subseteq agents
  BY DEF Fanout, ChecksPass, InScope, OneRoute, Message

----------------------------------------------------------------------------
(* The shape of the state *)

LEMMA InsertKeepsType ==
    ASSUME TypeOK, NEW m, Scoped(m) \in Message, Insert(m)
    PROVE  TypeOK'
  <1> USE InsertAppends
  <1>1. /\ now' \in 0..MaxTime /\ agents' \subseteq Agent
        /\ subscription' \subseteq agents' \X Topic
        /\ log' \in Seq(Message) /\ Len(log') <= MaxMessages
    BY DEF TypeOK
  <1>2. rows' \subseteq Ids' \X agents'
    BY FanoutReachesAgents DEF TypeOK
  <1>3. handed' \subseteq rows' /\ acked' \subseteq rows' /\ noted' \subseteq Ids'
    BY DEF TypeOK
  <1>4. \A i \in Ids' : log'[i].parent # None => log'[i].parent \in 1..(i - 1)
    <2>1. \A i \in Ids : log'[i].parent # None => log'[i].parent \in 1..(i - 1)
      BY DEF TypeOK
    <2>2. Scoped(m).parent # None => Scoped(m).parent \in 1..Len(log)
      BY DEF InScope, Ids
    <2>3. Len(log) \in Nat
      BY DEF TypeOK
    <2> QED
      BY <2>1, <2>2, <2>3
  <1> QED
    BY <1>1, <1>2, <1>3, <1>4 DEF TypeOK

LEMMA InitType == Init => TypeOK
  BY ConstantsAssumption DEF Init, TypeOK, Ids

LEMMA StepKeepsType == TypeOK /\ [Next \/ RawInsert]_boardVars => TypeOK'
  <1> SUFFICES ASSUME TypeOK, [Next \/ RawInsert]_boardVars PROVE TypeOK'
    OBVIOUS
  <1>1. ASSUME NEW a \in Agent, NEW q \in Request, PostMessage(a, q)
        PROVE  TypeOK'
    BY <1>1, PostIsMessage, InsertKeepsType
  <1>2. ASSUME NEW a \in Agent, NEW i \in Ids, AckMessage(a, i) PROVE TypeOK'
    BY <1>2 DEF AckMessage, TypeOK, Ids
  <1>3. ASSUME NEW a \in Agent, NEW i \in Ids, MarkDelivered(a, i) PROVE TypeOK'
    BY <1>3 DEF MarkDelivered, TypeOK, Ids
  <1>4. ASSUME NEW a \in Agent, RequeueUnacked(a) PROVE TypeOK'
    BY <1>4 DEF RequeueUnacked, TypeOK, Ids
  <1>5. ASSUME NEW a \in Agent, ClaimOverdueRequests(a) PROVE TypeOK'
    BY <1>5 DEF ClaimOverdueRequests, Overdue, TypeOK, Ids
  <1>6. ASSUME NEW a \in Agent, NEW t \in Topic, NEW b \in Backfills,
               Subscribe(a, t, b)
        PROVE  TypeOK'
    BY <1>6 DEF Subscribe, History, TypeOK, Ids
  <1>7. ASSUME NEW a \in Agent, NEW t \in Topic, Unsubscribe(a, t) PROVE TypeOK'
    BY <1>7 DEF Unsubscribe, TypeOK, Ids
  <1>8. ASSUME NEW a \in Agent, NEW topics \in SUBSET Topic,
               UpsertAgent(a, topics)
        PROVE  TypeOK'
    BY <1>8 DEF UpsertAgent, TypeOK, Ids
  <1>9. CASE RawInsert
    BY <1>9, RawIsMessage, InsertKeepsType
  <1>10. CASE Tick
    BY <1>10, ConstantsAssumption DEF Tick, TypeOK, Ids
  <1>11. CASE UNCHANGED boardVars
    BY <1>11 DEF boardVars, TypeOK, Ids
  <1> QED
    BY <1>1, <1>2, <1>3, <1>4, <1>5, <1>6, <1>7, <1>8, <1>9, <1>10, <1>11,
       StepIsOperation DEF Operation

\* The state keeps its shape under every operation and hand-written INSERTs.
THEOREM BoardTypeCorrect == SpecSQL => []TypeOK
  BY InitType, StepKeepsType, PTL DEF SpecSQL

\* The specification without hand-written INSERTs allows fewer behaviours.
LEMMA SpecIsSpecSQL == Spec => SpecSQL
  <1>1. [Next]_boardVars => [Next \/ RawInsert]_boardVars
    OBVIOUS
  <1> QED
    BY <1>1, PTL DEF Spec, SpecSQL

----------------------------------------------------------------------------
(* Workspaces never see each other *)

\* WorkspaceIsolation is not inductive alone: backfill and the checks on
\* in_reply_to compare the workspace column, so that column has to be right.
IsolationInv == WorkspaceIsolation /\ \A i \in Ids : Stamped(log[i])

LEMMA InitIsolation == Init => IsolationInv
  BY DEF Init, IsolationInv, WorkspaceIsolation, Ids

LEMMA InsertKeepsIsolation ==
    ASSUME TypeOK, IsolationInv,
           NEW m, Scoped(m) \in Message, Stamped(Scoped(m)), Insert(m)
    PROVE  IsolationInv'
  <1> USE InsertAppends
  <1> DEFINE s == Scoped(m)  new == Len(log) + 1
  <1>1. \A i \in Ids' : Stamped(log'[i])
    BY DEF IsolationInv
  <1>2. \A a \in Fanout(s) : WorkspaceOf(a) = WorkspaceOf(s.sender)
    BY DEF Fanout, ChecksPass, InScope, OneRoute, Message, Stamped
  <1>3. \A d \in rows' : WorkspaceOf(d[2]) = WorkspaceOf(log'[d[1]].sender)
    <2>1. ASSUME NEW d \in rows
          PROVE  WorkspaceOf(d[2]) = WorkspaceOf(log'[d[1]].sender)
      BY DEF IsolationInv, WorkspaceIsolation, TypeOK
    <2>2. ASSUME NEW a \in Fanout(s)
          PROVE  WorkspaceOf(a) = WorkspaceOf(log'[new].sender)
      BY <1>2
    <2> QED
      BY <2>1, <2>2
  <1>4. \A i \in Ids' : log'[i].parent # None =>
          WorkspaceOf(log'[log'[i].parent].sender) = WorkspaceOf(log'[i].sender)
    <2>1. ASSUME NEW i \in Ids, log[i].parent # None
          PROVE  WorkspaceOf(log'[log'[i].parent].sender)
                    = WorkspaceOf(log'[i].sender)
      <3>1. log[i].parent \in Ids
        BY <2>1 DEF TypeOK, Ids
      <3> QED
        BY <2>1, <3>1 DEF IsolationInv, WorkspaceIsolation
    <2>2. ASSUME s.parent # None
          PROVE  WorkspaceOf(log'[s.parent].sender) = WorkspaceOf(s.sender)
      BY <2>2 DEF InScope, IsolationInv, Stamped
    <2> QED
      BY <2>1, <2>2
  <1> QED
    BY <1>1, <1>3, <1>4 DEF IsolationInv, WorkspaceIsolation

LEMMA StepKeepsIsolation ==
    TypeOK /\ IsolationInv /\ [Next \/ RawInsert]_boardVars => IsolationInv'
  <1> SUFFICES ASSUME TypeOK, IsolationInv, [Next \/ RawInsert]_boardVars
               PROVE  IsolationInv'
    OBVIOUS
  <1> USE DEF IsolationInv, WorkspaceIsolation
  <1>1. ASSUME NEW a \in Agent, NEW q \in Request, PostMessage(a, q)
        PROVE  IsolationInv'
    BY <1>1, PostIsMessage, InsertKeepsIsolation
  <1>2. ASSUME NEW a \in Agent, NEW t \in Topic, NEW b \in Backfills,
               Subscribe(a, t, b)
        PROVE  IsolationInv'
    <2>1. \A d \in History(a, t) \X {a} :
             WorkspaceOf(d[2]) = WorkspaceOf(log[d[1]].sender)
      BY DEF History, Stamped
    <2> QED
      BY <1>2, <2>1 DEF Subscribe, Ids
  <1>3. CASE RawInsert
    BY <1>3, RawIsMessage, InsertKeepsIsolation
  <1>4. CASE UNCHANGED <<log, rows>>
    BY <1>4 DEF Ids
  <1> QED
    BY <1>1, <1>2, <1>3, <1>4, StepIsOperation
    DEF Operation, AckMessage, MarkDelivered, RequeueUnacked,
        ClaimOverdueRequests, Unsubscribe, UpsertAgent, Tick, boardVars

\* A message, its recipients and the message it answers are of one workspace,
\* whoever wrote it and however (schema/004_workspaces.sql).
THEOREM WorkspacesIsolated == SpecSQL => []WorkspaceIsolation
  <1>1. IsolationInv => WorkspaceIsolation
    BY DEF IsolationInv
  <1> QED
    BY <1>1, InitType, StepKeepsType, InitIsolation, StepKeepsIsolation, PTL
    DEF SpecSQL

----------------------------------------------------------------------------
(* Only an ack or the message's own expiry ends a delivery *)

\* No operation changes a message once it is in the log or takes a row or an
\* ack back, and the clock does not run backwards.
Grows ==
    /\ Ids \subseteq Ids' /\ \A i \in Ids : log'[i] = log[i]
    /\ rows \subseteq rows' /\ acked \subseteq acked'
    /\ now' \in Nat /\ now <= now'

LEMMA BoardGrows == TypeOK /\ [Next \/ RawInsert]_boardVars => Grows
  <1> SUFFICES ASSUME TypeOK, [Next \/ RawInsert]_boardVars PROVE Grows
    OBVIOUS
  <1>0. now \in Nat
    BY DEF TypeOK
  <1>1. ASSUME NEW m, Scoped(m) \in Message, Insert(m) PROVE Grows
    BY <1>0, <1>1, InsertAppends DEF Grows
  <1>2. ASSUME NEW a \in Agent, NEW q \in Request, PostMessage(a, q) PROVE Grows
    BY <1>1, <1>2, PostIsMessage
  <1>3. CASE RawInsert
    BY <1>1, <1>3, RawIsMessage
  <1>4. CASE Tick
    BY <1>0, <1>4 DEF Grows, Tick, Ids
  <1>5. ASSUME NEW a \in Agent, NEW i \in Ids, AckMessage(a, i) PROVE Grows
    BY <1>0, <1>5 DEF Grows, AckMessage, Ids
  <1>6. ASSUME NEW a \in Agent, NEW t \in Topic, NEW b \in Backfills,
               Subscribe(a, t, b)
        PROVE  Grows
    BY <1>0, <1>6 DEF Grows, Subscribe, Ids
  <1>7. CASE UNCHANGED <<now, log, rows, acked>>
    BY <1>0, <1>7 DEF Grows, Ids
  <1>8. ASSUME NEW a \in Agent, NEW i \in Ids, MarkDelivered(a, i) PROVE Grows
    BY <1>7, <1>8 DEF MarkDelivered
  <1>9. ASSUME NEW a \in Agent, RequeueUnacked(a) \/ ClaimOverdueRequests(a)
        PROVE  Grows
    BY <1>7, <1>9 DEF RequeueUnacked, ClaimOverdueRequests
  <1>10. ASSUME NEW a \in Agent, NEW t \in Topic, Unsubscribe(a, t) PROVE Grows
    BY <1>7, <1>10 DEF Unsubscribe
  <1>11. ASSUME NEW a \in Agent, NEW topics \in SUBSET Topic,
                UpsertAgent(a, topics)
         PROVE  Grows
    BY <1>7, <1>11 DEF UpsertAgent
  <1>12. CASE UNCHANGED boardVars
    BY <1>7, <1>12 DEF boardVars
  <1> QED
    BY <1>2, <1>3, <1>4, <1>5, <1>6, <1>8, <1>9, <1>10, <1>11, <1>12,
       StepIsOperation DEF Operation

\* An inbox loses a message to an ack or to time, to nothing else.
THEOREM OnlyAcksConsume == SpecSQL => OnlyAckConsumes
  <1> DEFINE Kept == \A d \in Pending :
                       d \in Pending' \/ d \in acked' \/ ~Live(d[1])'
  <1>1. TypeOK /\ [Next \/ RawInsert]_boardVars => [Kept]_boardVars
    <2> SUFFICES ASSUME TypeOK, [Next \/ RawInsert]_boardVars,
                        NEW d \in Pending, d \notin acked', Live(d[1])'
                 PROVE  d \in Pending'
      OBVIOUS
    <2> QED
      BY BoardGrows DEF Grows, Pending
  <1> HIDE DEF Kept
  <1>2. SpecSQL => [][Kept]_boardVars
    BY <1>1, InitType, StepKeepsType, PTL DEF SpecSQL
  <1> QED
    BY <1>2 DEF Kept, OnlyAckConsumes

\* What has been acked or has expired never comes back into an inbox.
THEOREM FinishedStaysFinished == SpecSQL => NeverRevived
  <1> DEFINE Over == \A d \in rows \ Pending : d \notin Pending'
  <1>1. TypeOK /\ [Next \/ RawInsert]_boardVars => [Over]_boardVars
    <2> SUFFICES ASSUME TypeOK, [Next \/ RawInsert]_boardVars,
                        NEW d \in rows, d \notin Pending
                 PROVE  d \notin Pending'
      OBVIOUS
    <2>1. d[1] \in Ids /\ log'[d[1]] = log[d[1]] /\ log[d[1]] \in Message
      BY BoardGrows DEF Grows, TypeOK, Ids
    <2>2. now \in Nat /\ now' \in Nat /\ now <= now' /\ acked \subseteq acked'
      BY BoardGrows DEF Grows, TypeOK
    <2>3. log[d[1]].expires_at \in Nat \union {None}
      BY <2>1 DEF Message, Time
    <2>4. Live(d[1])' => Live(d[1])
      BY <2>1, <2>2, <2>3 DEF Live
    <2> QED
      BY <2>2, <2>4 DEF Pending
  <1> HIDE DEF Over
  <1>2. SpecSQL => [][Over]_boardVars
    BY <1>1, InitType, StepKeepsType, PTL DEF SpecSQL
  <1> QED
    BY <1>2 DEF Over, NeverRevived
----------------------------------------------------------------------------
(* Nobody is woken by its own post *)

\* Fan-out leaves the sender out, but where it is the addressee.
LEMMA FanoutSkipsSender ==
    ASSUME NEW m \in Message, ChecksPass(m), m.sender \in Fanout(m)
    PROVE  m.recipient = m.sender
  BY DEF Fanout, ChecksPass, OneRoute, Message

LEMMA InsertKeepsNoEcho ==
    ASSUME TypeOK, NoEcho, NEW m, Scoped(m) \in Message, Insert(m)
    PROVE  NoEcho'
  <1> DEFINE s == Scoped(m)  new == Len(log) + 1
  <1>1. /\ rows' = rows \union ({new} \X Fanout(s)) /\ log'[new] = s
        /\ \A i \in Ids : log'[i] = log[i]
        /\ ChecksPass(s)
    BY InsertAppends
  <1>2. ASSUME NEW d \in rows, log'[d[1]].sender = d[2]
        PROVE  log'[d[1]].recipient = d[2]
    BY <1>1, <1>2 DEF NoEcho, TypeOK
  <1>3. ASSUME NEW a \in Fanout(s), s.sender = a PROVE s.recipient = a
    BY <1>1, <1>3, FanoutSkipsSender
  <1> HIDE DEF s
  <1> QED
    BY <1>1, <1>2, <1>3 DEF NoEcho

LEMMA StepKeepsNoEcho ==
    TypeOK /\ NoEcho /\ [Next \/ RawInsert]_boardVars => NoEcho'
  <1> SUFFICES ASSUME TypeOK, NoEcho, [Next \/ RawInsert]_boardVars PROVE NoEcho'
    OBVIOUS
  <1>1. ASSUME NEW a \in Agent, NEW q \in Request, PostMessage(a, q) PROVE NoEcho'
    BY <1>1, PostIsMessage, InsertKeepsNoEcho
  <1>2. ASSUME NEW a \in Agent, NEW t \in Topic, NEW b \in Backfills,
               Subscribe(a, t, b)
        PROVE  NoEcho'
    <2>1. \A d \in History(a, t) \X {a} : log[d[1]].sender # d[2]
      BY DEF History
    <2> QED
      BY <1>2, <2>1 DEF Subscribe, NoEcho
  <1>3. CASE RawInsert
    BY <1>3, RawIsMessage, InsertKeepsNoEcho
  <1>4. CASE UNCHANGED <<log, rows>>
    BY <1>4 DEF NoEcho
  <1> QED
    BY <1>1, <1>2, <1>3, <1>4, StepIsOperation
    DEF Operation, AckMessage, MarkDelivered, RequeueUnacked,
        ClaimOverdueRequests, Unsubscribe, UpsertAgent, Tick, boardVars

\* Whoever writes, and however often it subscribes with backfill: its own
\* post wakes it only when it is addressed to it (fanout_message, subscribe).
THEOREM NobodyEchoed == SpecSQL => []NoEcho
  <1>1. Init => NoEcho
    BY DEF Init, NoEcho
  <1> QED
    BY <1>1, InitType, StepKeepsType, StepKeepsNoEcho, PTL DEF SpecSQL

----------------------------------------------------------------------------
(* Who asks with a deadline is answered or told *)

\* A reply has one hop less than what it answers, and a direct message with a
\* hop left is in its recipient's inbox.
RepliesCount ==
    \A i \in Ids : log[i].parent # None =>
        log[i].depth = IF log[log[i].parent].depth > 0
                         THEN log[log[i].parent].depth - 1 ELSE 0

DirectArrives ==
    \A i \in Ids : log[i].recipient # None /\ log[i].depth > 0 =>
        <<i, log[i].recipient>> \in rows

LEMMA PostKeepsRoutes ==
    ASSUME TypeOK, RepliesCount, DirectArrives,
           NEW a \in Agent, NEW q \in Request, PostMessage(a, q)
    PROVE  RepliesCount' /\ DirectArrives'
  <1>1. PICK m : /\ Scoped(m) \in Message /\ Insert(m)
                 /\ Scoped(m).parent = q.parent
                 /\ Scoped(m).depth = DepthUnder(q.parent)
    BY PostIsPosted
  <1> DEFINE s == Scoped(m)  new == Len(log) + 1
  <1>2. /\ rows' = rows \union ({new} \X Fanout(s)) /\ log'[new] = s
        /\ \A i \in Ids : log'[i] = log[i]
        /\ Ids' = Ids \union {new}
        /\ ChecksPass(s) /\ InScope(s) /\ s \in Message
    BY <1>1, InsertAppends
  <1>3. \A i \in Ids : log[i].parent # None => log[i].parent \in Ids
    BY DEF TypeOK, Ids
  <1>4. s.parent # None => s.parent \in Ids
    BY <1>2 DEF InScope
  <1>5. s.depth = IF s.parent = None THEN DefaultDepth
                  ELSE IF log[s.parent].depth > 0 THEN log[s.parent].depth - 1 ELSE 0
    BY <1>1 DEF DepthUnder
  <1>6. s.recipient # None /\ s.depth > 0 => Fanout(s) = {s.recipient}
    BY <1>2 DEF Fanout, ChecksPass, OneRoute, Message
  <1> HIDE DEF s
  <1>7. RepliesCount'
    BY <1>2, <1>3, <1>4, <1>5 DEF RepliesCount
  <1>8. DirectArrives'
    BY <1>2, <1>6 DEF DirectArrives
  <1> QED
    BY <1>7, <1>8

LEMMA StepKeepsRoutes ==
    TypeOK /\ RepliesCount /\ DirectArrives /\ [Next]_boardVars
        => RepliesCount' /\ DirectArrives'
  <1> SUFFICES ASSUME TypeOK, RepliesCount, DirectArrives, [Next]_boardVars
               PROVE  RepliesCount' /\ DirectArrives'
    OBVIOUS
  <1>1. ASSUME NEW a \in Agent, NEW q \in Request, PostMessage(a, q)
        PROVE  RepliesCount' /\ DirectArrives'
    BY <1>1, PostKeepsRoutes
  <1>2. CASE UNCHANGED log /\ rows \subseteq rows'
    BY <1>2 DEF RepliesCount, DirectArrives, Ids
  <1> QED
    BY <1>1, <1>2
    DEF Next, AckMessage, MarkDelivered, RequeueUnacked, Subscribe,
        ClaimOverdueRequests, Unsubscribe, UpsertAgent, Tick, boardVars

\* What the board does for a request with hops left (AnsweredOrTold): a reply
\* in its sender's inbox, or a claim.
AnsweredOrClaimedInBudget ==
    \A i \in Ids : Due(i) /\ log[i].depth > 1 =>
        AnsweredInInbox(i) \/ ClaimedOrToBeClaimed(i)

LEMMA RoutesAnswer == TypeOK /\ RepliesCount /\ DirectArrives => AnsweredOrClaimedInBudget
  <1> SUFFICES ASSUME TypeOK, RepliesCount, DirectArrives,
                      NEW i \in Ids, Due(i), log[i].depth > 1,
                      ~ClaimedOrToBeClaimed(i)
               PROVE  AnsweredInInbox(i)
    BY DEF AnsweredOrClaimedInBudget
  <1>1. log[i] \in Message
    BY DEF TypeOK, Ids
  <1>2. PICK r \in Ids : IsReplyTo(r, i)
    BY DEF ClaimedOrToBeClaimed, Overdue, Due
  <1>3. log[r].recipient = log[i].sender /\ log[r].recipient # None
    BY <1>1, <1>2, ConstantsAssumption DEF Due, Message
  <1>4. log[r].depth > 0
    <2>1. log[r].parent = i /\ i # None
      BY <1>2, ConstantsAssumption DEF IsReplyTo, Ids, TypeOK
    <2> QED
      BY <1>1, <2>1 DEF RepliesCount, Message
  <1> QED
    BY <1>2, <1>3, <1>4 DEF DirectArrives, AnsweredInInbox

LEMMA RequestsClaimed == Spec => []AnsweredOrClaimedInBudget
  <1>1. Init => RepliesCount /\ DirectArrives
    BY DEF Init, RepliesCount, DirectArrives, Ids
  <1>2. [Next]_boardVars => [Next \/ RawInsert]_boardVars
    OBVIOUS
  <1> QED
    BY <1>1, <1>2, InitType, StepKeepsType, StepKeepsRoutes, RoutesAnswer, PTL
    DEF Spec

----------------------------------------------------------------------------
(* The hop budget.  Hops is a recursive function over the log; that there is *)
(* one follows from the order of the log, as a reply is later than what it   *)
(* answers.                                                                  *)

\* A set of numbers that is not empty has a first one.
LEMMA FirstOf ==
    ASSUME NEW S \in SUBSET Nat, S # {}
    PROVE  \E n \in S : \A m \in S : n <= m
  <1>1. PICK n \in S : \A m \in S : <<m, n>> \notin OpToRel(<, Nat)
    BY NatLessThanWellFounded, WFMin, Zenon
  <1>2. \A m \in S : ~(m < n)
    BY <1>1, Zenon DEF OpToRel
  <1>3. n \in Nat /\ \A m \in S : m \in Nat
    BY <1>1, Zenon
  <1>4. \A m \in S : n <= m
    BY <1>2, <1>3
  <1> QED
    BY <1>1, <1>4, Zenon

\* One level of Hops, for the first n messages.
HopsOver(n, h) ==
    [i \in 1..n |-> IF log[i].parent = None THEN 0 ELSE 1 + h[log[i].parent]]

LEMMA HopsExist ==
    ASSUME TypeOK, NEW n \in 0..Len(log)
    PROVE  \E h : h = HopsOver(n, h)
  <1> DEFINE Lacking == {k \in 0..Len(log) : ~ \E h : h = HopsOver(k, h)}
  <1>1. Len(log) \in Nat /\ Lacking \in SUBSET Nat
    BY DEF TypeOK
  <1>2. SUFFICES ASSUME Lacking # {} PROVE FALSE
    BY <1>2
  <1>3. PICK k \in Lacking : \A m \in Lacking : k <= m
    BY <1>1, <1>2, FirstOf
  <1>4. k # 0
    <2>1. [i \in 1..0 |-> 0] = HopsOver(0, [i \in 1..0 |-> 0])
      BY DEF HopsOver
    <2> QED
      BY <2>1
  <1>5. k - 1 \in 0..Len(log) /\ k - 1 \notin Lacking /\ k \in 1..Len(log)
    BY <1>1, <1>3, <1>4
  <1>6. PICK g : g = HopsOver(k - 1, g)
    BY <1>5
  <1> DEFINE h == HopsOver(k, g)
  <1>7. \A i \in 1..(k - 1) : h[i] = g[i]
    BY <1>1, <1>5, <1>6 DEF HopsOver
  <1>8. \A i \in 1..k : log[i].parent # None => log[i].parent \in 1..(k - 1)
    BY <1>1, <1>5 DEF TypeOK, Ids
  <1>9. h = HopsOver(k, h)
    BY <1>7, <1>8 DEF HopsOver
  <1> QED
    BY <1>3, <1>9

LEMMA HopsDefined ==
    ASSUME TypeOK
    PROVE  \A i \in Ids :
             Hops[i] = IF log[i].parent = None THEN 0 ELSE 1 + Hops[log[i].parent]
  <1>1. Len(log) \in 0..Len(log)
    BY DEF TypeOK
  <1>2. \E h : h = HopsOver(Len(log), h)
    BY <1>1, HopsExist
  <1>3. Hops = CHOOSE h : h = HopsOver(Len(log), h)
    BY DEF Hops, HopsOver, Ids
  <1>4. Hops = HopsOver(Len(log), Hops)
    BY <1>2, <1>3
  <1> QED
    BY <1>4 DEF HopsOver, Ids

\* A message that starts a chain has the whole budget.
RootsFull == \A i \in Ids : log[i].parent = None => log[i].depth = DefaultDepth

\* The depth column is what the chain of replies has left of the budget.
DepthByHops ==
    \A i \in Ids :
        /\ Hops[i] \in Nat
        /\ log[i].depth = IF Hops[i] < DefaultDepth THEN DefaultDepth - Hops[i] ELSE 0

LEMMA HopsCount == TypeOK /\ RepliesCount /\ RootsFull => DepthByHops
  <1> SUFFICES ASSUME TypeOK, RepliesCount, RootsFull PROVE DepthByHops
    OBVIOUS
  <1> DEFINE Good(i) ==
               /\ Hops[i] \in Nat
               /\ log[i].depth = IF Hops[i] < DefaultDepth
                                   THEN DefaultDepth - Hops[i] ELSE 0
             Bad == {i \in Ids : ~Good(i)}
  <1>1. Bad \in SUBSET Nat
    BY DEF Ids, TypeOK
  <1>2. SUFFICES ASSUME Bad # {} PROVE FALSE
    BY <1>2 DEF DepthByHops
  <1>3. PICK i \in Bad : \A m \in Bad : i <= m
    BY <1>1, <1>2, FirstOf
  <1>4. Hops[i] = IF log[i].parent = None THEN 0 ELSE 1 + Hops[log[i].parent]
    BY <1>3, HopsDefined
  <1>5. CASE log[i].parent = None
    BY <1>3, <1>4, <1>5, ConstantsAssumption DEF RootsFull
  <1>6. CASE log[i].parent # None
    <2> DEFINE p == log[i].parent
    <2>1. p \in Ids /\ p < i /\ i \in Nat /\ p \in Nat
      BY <1>3, <1>6 DEF TypeOK, Ids
    <2>2. Good(p)
      BY <1>3, <2>1
    <2>3. Hops[i] = 1 + Hops[p]
      BY <1>4, <1>6
    <2>4. log[i].depth = IF log[p].depth > 0 THEN log[p].depth - 1 ELSE 0
      BY <1>3, <1>6 DEF RepliesCount
    <2> HIDE DEF p
    <2>5. Good(i)
      BY <2>2, <2>3, <2>4, ConstantsAssumption
    <2> QED
      BY <1>3, <2>5
  <1> QED
    BY <1>5, <1>6

LEMMA HopsCountNext == (TypeOK /\ RepliesCount /\ RootsFull)' => DepthByHops'
  BY HopsCount, PTL

LEMMA StepKeepsRoots == TypeOK /\ RootsFull /\ [Next]_boardVars => RootsFull'
  <1> SUFFICES ASSUME TypeOK, RootsFull, [Next]_boardVars PROVE RootsFull'
    OBVIOUS
  <1>1. ASSUME NEW a \in Agent, NEW q \in Request, PostMessage(a, q)
        PROVE  RootsFull'
    <2>1. PICK m : /\ Scoped(m) \in Message /\ Insert(m)
                   /\ Scoped(m).parent = q.parent
                   /\ Scoped(m).depth = DepthUnder(q.parent)
      BY <1>1, PostIsPosted
    <2>2. /\ log'[Len(log) + 1] = Scoped(m)
          /\ \A i \in Ids : log'[i] = log[i]
          /\ Ids' = Ids \union {Len(log) + 1}
      BY <2>1, InsertAppends
    <2> QED
      BY <2>1, <2>2 DEF RootsFull, DepthUnder
  <1>2. CASE UNCHANGED log
    BY <1>2 DEF RootsFull, Ids
  <1> QED
    BY <1>1, <1>2
    DEF Next, AckMessage, MarkDelivered, RequeueUnacked, Subscribe,
        ClaimOverdueRequests, Unsubscribe, UpsertAgent, Tick, boardVars

\* A new row is of a message with a hop left, or of a topic's history.
LEMMA NewRowsInBudget ==
    ASSUME TypeOK, DepthByHops', [Next]_boardVars, NEW d \in rows' \ rows
    PROVE  \/ Hops'[d[1]] < DefaultDepth
           \/ d[1] \in Ids /\ log[d[1]].topic # None
  <1>1. ASSUME NEW a \in Agent, NEW q \in Request, PostMessage(a, q)
        PROVE  Hops'[d[1]] < DefaultDepth
    <2>1. PICK m : Scoped(m) \in Message /\ Insert(m)
      BY <1>1, PostIsPosted
    <2> DEFINE s == Scoped(m)  new == Len(log) + 1
    <2>2. /\ rows' = rows \union ({new} \X Fanout(s)) /\ log'[new] = s
          /\ Ids' = Ids \union {new}
      BY <2>1, InsertAppends
    <2>3. d[1] = new /\ Fanout(s) # {}
      BY <2>2
    <2>4. ~(s.depth <= 0)
      BY <2>3 DEF Fanout
    <2>5. /\ Hops'[new] \in Nat
          /\ s.depth = IF Hops'[new] < DefaultDepth
                         THEN DefaultDepth - Hops'[new] ELSE 0
      BY <2>2 DEF DepthByHops
    <2> HIDE DEF s, new
    <2> QED
      BY <2>3, <2>4, <2>5
  <1>2. ASSUME NEW a \in Agent, NEW t \in Topic, NEW b \in Backfills,
               Subscribe(a, t, b)
        PROVE  d[1] \in Ids /\ log[d[1]].topic # None
    BY <1>2, ConstantsAssumption DEF Subscribe, History
  <1>3. rows' # rows
    OBVIOUS
  <1> QED
    BY <1>1, <1>2, <1>3
    DEF Next, AckMessage, MarkDelivered, RequeueUnacked,
        ClaimOverdueRequests, Unsubscribe, UpsertAgent, Tick, boardVars

\* However long the chain of replies, fan-out and direct messages stop at the
\* budget; only asking for a topic's history reaches past it
\* (fanout_message, registry.subscribe).
THEOREM HopsBudgeted == Spec => HopBudget
  <1> DEFINE InBudget == \A d \in rows' \ rows :
                           \/ Hops'[d[1]] < DefaultDepth
                           \/ d[1] \in Ids /\ log[d[1]].topic # None
  <1>1. TypeOK /\ DepthByHops' /\ [Next]_boardVars => [InBudget]_boardVars
    BY NewRowsInBudget
  <1>2. Init => RepliesCount /\ DirectArrives /\ RootsFull
    BY DEF Init, RepliesCount, DirectArrives, RootsFull, Ids
  <1>3. [Next]_boardVars => [Next \/ RawInsert]_boardVars
    OBVIOUS
  <1> HIDE DEF InBudget
  <1>4. Spec => [][InBudget]_boardVars
    BY <1>1, <1>2, <1>3, InitType, StepKeepsType, StepKeepsRoutes,
       StepKeepsRoots, HopsCountNext, PTL DEF Spec
  <1> QED
    BY <1>4 DEF InBudget, HopBudget

----------------------------------------------------------------------------
(* The board implements the mailbox *)

\* A step that changes no message, row or stamp of a message in the log.
LEMMA SameMailbox ==
    ASSUME UNCHANGED <<now, log, rows, handed, acked>>
    PROVE  UNCHANGED Box!mailboxVars
  BY DEF Box!mailboxVars, Pending, Live

\* New rows are new deliveries; what was pending stays so, and what was not.
LEMMA RowsArrive ==
    ASSUME TypeOK, rows \subseteq rows', UNCHANGED <<now, handed, acked>>,
           \A i \in Ids : log'[i] = log[i]
    PROVE  Box!Arrive
  <1>1. \A d \in rows : d \in Pending' <=> d \in Pending
    BY DEF Pending, Live, TypeOK
  <1>2. handed \subseteq rows /\ Pending \subseteq rows /\ Pending' \subseteq rows'
    BY DEF TypeOK, Pending
  <1> QED
    BY <1>1, <1>2 DEF Box!Arrive

LEMMA InsertArrives ==
    ASSUME TypeOK, NEW m, Scoped(m) \in Message, Insert(m)
    PROVE  Box!MailboxNext
  BY InsertAppends, RowsArrive DEF Box!MailboxNext

LEMMA StepIsMailboxStep ==
    TypeOK /\ [Next \/ RawInsert]_boardVars => [Box!MailboxNext]_Box!mailboxVars
  <1> SUFFICES ASSUME TypeOK, [Next \/ RawInsert]_boardVars
               PROVE  Box!MailboxNext \/ UNCHANGED Box!mailboxVars
    OBVIOUS
  <1>0. /\ handed \subseteq rows /\ acked \subseteq rows /\ Pending \subseteq rows
        /\ Pending \intersect acked = {}
    BY DEF TypeOK, Pending
  <1>1. ASSUME NEW a \in Agent, NEW q \in Request, PostMessage(a, q)
        PROVE  Box!MailboxNext
    BY <1>1, PostIsMessage, InsertArrives
  <1>2. CASE RawInsert
    BY <1>2, RawIsMessage, InsertArrives
  <1>3. ASSUME NEW a \in Agent, NEW t \in Topic, NEW b \in Backfills,
               Subscribe(a, t, b)
        PROVE  Box!MailboxNext
    <2>1. Box!Arrive
      BY <1>3, RowsArrive DEF Subscribe
    <2> QED
      BY <2>1 DEF Box!MailboxNext
  \* An ack closes a delivery, unless it has run out of time already.
  <1>4. ASSUME NEW a \in Agent, NEW i \in Ids, AckMessage(a, i)
        PROVE  Box!MailboxNext \/ UNCHANGED Box!mailboxVars
    <2> DEFINE d == <<i, a>>
    <2>1. /\ d \in rows /\ Pending' = Pending \ {d}
          /\ UNCHANGED <<rows, handed>>
      BY <1>4 DEF AckMessage, Pending, Live
    <2> HIDE DEF d
    <2>2. CASE d \in Pending
      <3>1. Box!Close({d})
        BY <1>0, <2>1, <2>2 DEF Box!Close
      <3> QED
        BY <2>2, <3>1 DEF Box!MailboxNext
    <2>3. CASE d \notin Pending
      BY <2>1, <2>3 DEF Box!mailboxVars
    <2> QED
      BY <2>2, <2>3
  \* A mark gives a delivery that waits.
  <1>5. ASSUME NEW a \in Agent, NEW i \in Ids, MarkDelivered(a, i)
        PROVE  Box!MailboxNext \/ UNCHANGED Box!mailboxVars
    <2> DEFINE d == <<i, a>>
    <2>1. /\ d \notin handed /\ handed' = handed \union {d}
          /\ Pending' = Pending /\ UNCHANGED rows
      BY <1>5 DEF MarkDelivered, Pending, Live
    <2> HIDE DEF d
    <2>2. CASE d \in Pending
      <3>1. Box!Give(d)
        BY <2>1, <2>2 DEF Box!Give
      <3> QED
        BY <2>1, <2>2, <3>1 DEF Box!MailboxNext
    <2>3. CASE d \notin Pending
      <3>1. Pending' \ handed' = Pending \ handed
        BY <2>1, <2>3
      <3>2. Pending' \intersect handed' = Pending \intersect handed
        BY <2>1, <2>3
      <3> QED
        BY <2>1, <3>1, <3>2 DEF Box!mailboxVars
    <2> QED
      BY <2>2, <2>3
  \* A requeue takes back what one agent was given.
  <1>6. ASSUME NEW a \in Agent, RequeueUnacked(a)
        PROVE  Box!MailboxNext \/ UNCHANGED Box!mailboxVars
    <2>1. /\ handed' = handed \ Unacked(a)
          /\ Pending' = Pending /\ UNCHANGED rows
      BY <1>6 DEF RequeueUnacked, Pending, Live
    <2>2. \A d \in Pending \intersect handed : d \in Unacked(a) <=> d[2] = a
      BY <1>0 DEF Unacked
    <2>3. CASE \E d \in Pending \intersect handed : d[2] = a
      <3>1. PICK d \in Pending \intersect handed : d[2] = a
        BY <2>3
      <3>2. Box!TakeBack(d[2])
        BY <2>1, <2>2, <3>1 DEF Box!TakeBack, Unacked
      <3> QED
        BY <3>1, <3>2 DEF Box!MailboxNext
    <2>4. CASE ~ \E d \in Pending \intersect handed : d[2] = a
      <3>1. Pending' \ handed' = Pending \ handed
        BY <2>1, <2>2, <2>4
      <3>2. Pending' \intersect handed' = Pending \intersect handed
        BY <2>1, <2>2, <2>4
      <3> QED
        BY <2>1, <3>1, <3>2 DEF Box!mailboxVars
    <2> QED
      BY <2>3, <2>4
  \* Time ends messages, for everybody at once.
  <1>7. CASE Tick
    <2>1. /\ now \in Nat /\ now' = now + 1 /\ UNCHANGED <<log, rows, handed, acked>>
      BY <1>7 DEF Tick, TypeOK
    <2>2. \A d \in rows : log[d[1]].expires_at \in Nat \union {None}
      <3>1. \A d \in rows : log[d[1]] \in Message
        BY DEF TypeOK, Ids
      <3> QED
        BY <3>1 DEF Message, Time
    <2>3. Pending' \subseteq Pending
      BY <2>1, <2>2 DEF Pending, Live
    <2>4. \A d, e \in Pending : d[1] = e[1] /\ d \notin Pending' => e \notin Pending'
      BY <2>1 DEF Pending, Live
    <2>5. Box!Expire
      BY <1>0, <2>1, <2>3, <2>4 DEF Box!Expire, Box!Close
    <2> QED
      BY <2>5 DEF Box!MailboxNext
  <1>8. ASSUME NEW a \in Agent, ClaimOverdueRequests(a)
        PROVE  UNCHANGED Box!mailboxVars
    BY <1>8, SameMailbox DEF ClaimOverdueRequests
  <1>9. ASSUME NEW a \in Agent, NEW t \in Topic, Unsubscribe(a, t)
        PROVE  UNCHANGED Box!mailboxVars
    BY <1>9, SameMailbox DEF Unsubscribe
  <1>10. ASSUME NEW a \in Agent, NEW topics \in SUBSET Topic,
                UpsertAgent(a, topics)
         PROVE  UNCHANGED Box!mailboxVars
    BY <1>10, SameMailbox DEF UpsertAgent
  <1>11. CASE UNCHANGED boardVars
    BY <1>11, SameMailbox DEF boardVars
  <1> QED
    BY <1>1, <1>2, <1>3, <1>4, <1>5, <1>6, <1>7, <1>8, <1>9, <1>10, <1>11,
       StepIsOperation DEF Operation

\* Whatever is posted, acked, marked, requeued and subscribed to, in any
\* order and with SQL by hand besides, a delivery comes once, waits or is with
\* its agent, and ends once (messages.py, registry.py).
THEOREM BoardImplementsMailbox == SpecSQL => ImplementsMailbox
  <1>1. Init => Box!MailboxInit
    BY DEF Init, Box!MailboxInit, Pending
  <1> QED
    BY <1>1, InitType, StepKeepsType, StepIsMailboxStep, PTL
    DEF SpecSQL, ImplementsMailbox, Box!MailboxSpec

=============================================================================
