------------------------------ MODULE BoardView ------------------------------
(***************************************************************************)
(* The board view (watch/board.py): a person's live feed of the messages   *)
(* posted and of what becomes of them, read by polling.  It follows the    *)
(* messages by id and the events by the database's clock; both are fixed   *)
(* when a transaction begins and seen when it commits.                     *)
(*                                                                         *)
(* A message id comes from a sequence, which a rollback does not wind      *)
(* back.  now() is the start of the transaction that asks.  Each message   *)
(* has one recipient.                                                      *)
(***************************************************************************)
EXTENDS Naturals, Sequences, FiniteSets

CONSTANTS
    History,   \* --history: how many messages are shown first
    MaxPosts,  \* bound: ids given out
    MaxStamps, \* bound: transactions that stamp a row
    MaxTime,   \* bound: readings of the clock
    MaxLosses  \* bound: connections lost

ASSUME ViewAssumption == {History, MaxPosts, MaxStamps, MaxTime, MaxLosses} \subseteq Nat

\* delivered_at, acked_at and reply_timeout_noted_at.
EventKind == {"delivered", "acked", "reply_timeout"}
Event == [kind : EventKind, id : 1..MaxPosts, at : 1..MaxTime]

VARIABLES
    now,        \* the database's clock, at its last reading
    lastId,     \* the last id given out
    posting,    \* the ids of posts that have not committed
    stamping,   \* the events of transactions that have not committed
    messages,   \* board.message
    events,     \* the stamps on message_delivery and message
    pc,         \* where watch is
    last_id, seen_until, until, \* its cursors
    history,    \* how many messages a connection shows first
    shown,      \* the messages printed, in order
    told,       \* the events printed, in order
    overtaken,  \* history: messages that committed after one with a higher id
    slow,       \* history: events in whose transaction the view read the clock
    gap,        \* history: messages that nobody followed, or not for long enough
    away,       \* history: events, likewise
    stamped, losses \* so far

boardSide == <<lastId, posting, stamping, messages, events>>
cursors == <<last_id, seen_until, until, history>>
printed == <<shown, told>>
histories == <<overtaken, slow, gap, away>>
viewVars == <<now, boardSide, pc, cursors, printed, histories, stamped, losses>>

Following == pc \in {"messages", "clock", "events"}

ReadClock == now < MaxTime /\ now' = now + 1

----------------------------------------------------------------------------
(* The board *)

BeginPost ==
    /\ lastId < MaxPosts
    /\ lastId' = lastId + 1
    /\ posting' = posting \union {lastId'}
    /\ UNCHANGED <<now, stamping, messages, events, pc, cursors, printed,
                   histories, stamped, losses>>

CommitPost(m) ==
    /\ m \in posting
    /\ posting' = posting \ {m}
    /\ messages' = messages \union {m}
    /\ overtaken' = IF \E n \in messages : n > m THEN overtaken \union {m} ELSE overtaken
    /\ gap' = IF Following THEN gap ELSE gap \union {m}
    /\ UNCHANGED <<now, lastId, stamping, events, pc, cursors, printed, slow, away,
                   stamped, losses>>

\* A transaction that will stamp a row, or find it stamped.  A hand-over
\* begins with the query for the message and lasts while it is typed.
BeginStamp(kind, m) ==
    /\ stamped < MaxStamps /\ stamped' = stamped + 1
    /\ m \in messages
    /\ ReadClock
    /\ stamping' = stamping \union {[kind |-> kind, id |-> m, at |-> now']}
    /\ UNCHANGED <<lastId, posting, messages, events, pc, cursors, printed,
                   histories, losses>>

IsStamped(e) == \E f \in events : f.kind = e.kind /\ f.id = e.id

CommitStamp(e) ==
    /\ e \in stamping
    /\ stamping' = stamping \ {e}
    /\ IF IsStamped(e) THEN UNCHANGED <<events, away>>
       ELSE /\ events' = events \union {e}
            /\ away' = IF Following THEN away ELSE away \union {e}
    /\ UNCHANGED <<now, lastId, posting, messages, pc, cursors, printed,
                   overtaken, slow, gap, stamped, losses>>

Rollback ==
    /\ \/ \E m \in posting : posting' = posting \ {m} /\ UNCHANGED stamping
       \/ \E e \in stamping : stamping' = stamping \ {e} /\ UNCHANGED posting
    /\ UNCHANGED <<now, lastId, messages, events, pc, cursors, printed,
                   histories, stamped, losses>>

\* requeue_unacked takes back the stamps of what is not acked.
RequeueUnacked ==
    /\ events' = {e \in events : e.kind = "delivered" =>
                      \E f \in events : f.id = e.id /\ f.kind = "acked"}
    /\ UNCHANGED <<now, lastId, posting, stamping, messages, pc, cursors, printed,
                   histories, stamped, losses>>

----------------------------------------------------------------------------
(* watch *)

\* The rows of a set, ORDER BY the column that before compares.
InOrder(S, before(_, _)) ==
    {s \in [1..Cardinality(S) -> S] :
        /\ \A j, k \in DOMAIN s : j < k => before(s[j], s[k])
        /\ S = {s[k] : k \in DOMAIN s}}

Lower(m, n) == m < n
Earlier(e, f) == e.at < f.at

\* The last row printed moves the cursor.
LastOf(s, cursor) == IF s = <<>> THEN cursor ELSE s[Len(s)]

Newest(k, ids) == {m \in ids : Cardinality({n \in ids : n > m}) < k}

\* Whatever the view's reading of the clock falls into.
NoteSlow == slow' = slow \union stamping

Start ==
    /\ pc = "start"
    /\ ReadClock
    /\ seen_until' = now' /\ NoteSlow
    /\ pc' = "history"
    /\ UNCHANGED <<boardSide, last_id, until, history, printed, overtaken, gap, away,
                   stamped, losses>>

\* fetch_messages with its limit.
ShowHistory ==
    /\ pc = "history"
    /\ \E s \in InOrder(Newest(history, messages), Lower) :
         /\ shown' = shown \o s /\ last_id' = LastOf(s, 0)
         /\ pc' = IF s = <<>> THEN "newest" ELSE "messages"
    /\ UNCHANGED <<now, boardSide, seen_until, until, history, told, histories,
                   stamped, losses>>

\* Nothing to show: start after whatever exists by now.
SkipToNewest ==
    /\ pc = "newest"
    /\ last_id' \in messages \union {0} /\ \A m \in messages : m <= last_id'
    /\ pc' = "messages"
    /\ UNCHANGED <<now, boardSide, seen_until, until, history, printed, histories,
                   stamped, losses>>

\* fetch_messages without a limit.
Fresh == {m \in messages : m > last_id}

\* Mutant of ShowMessages: only as many as history are fetched.
ShowNewestMessages ==
    /\ pc = "messages"
    /\ \E s \in InOrder(Newest(History, Fresh), Lower) :
         shown' = shown \o s /\ last_id' = LastOf(s, last_id)
    /\ pc' = "clock"
    /\ UNCHANGED <<now, boardSide, seen_until, until, history, told, histories,
                   stamped, losses>>

ShowMessages ==
    /\ pc = "messages"
    /\ \E s \in InOrder(Fresh, Lower) :
         shown' = shown \o s /\ last_id' = LastOf(s, last_id)
    /\ pc' = "clock"
    /\ UNCHANGED <<now, boardSide, seen_until, until, history, told, histories,
                   stamped, losses>>

AskTime ==
    /\ pc = "clock"
    /\ ReadClock
    /\ until' = now' /\ NoteSlow
    /\ pc' = "events"
    /\ UNCHANGED <<boardSide, last_id, seen_until, history, printed, overtaken, gap, away,
                   stamped, losses>>

\* Mutant of Fetched: whatever has been stamped since.
FetchedSince == {e \in events : e.at > seen_until}

\* fetch_events: those stamped in (since, until] ...
Fetched == {e \in events : e.at > seen_until /\ e.at <= until}

\* Mutant of ShowEvents: the next window begins when this one was printed.
ShowEventsUntilNow ==
    /\ pc = "events"
    /\ \E s \in InOrder(Fetched, Earlier) : told' = told \o s
    /\ seen_until' = now
    /\ pc' = "messages"
    /\ UNCHANGED <<now, boardSide, last_id, until, history, shown, histories,
                   stamped, losses>>

\* ... in the order of their stamps.
ShowEvents ==
    /\ pc = "events"
    /\ \E s \in InOrder(Fetched, Earlier) : told' = told \o s
    /\ seen_until' = until
    /\ pc' = "messages"
    /\ UNCHANGED <<now, boardSide, last_id, until, history, shown, histories,
                   stamped, losses>>

\* Every statement may fail; after RETRY_SECONDS the view connects again.
LoseConnection ==
    /\ pc # "lost"
    /\ losses < MaxLosses /\ losses' = losses + 1
    /\ pc' = "lost"
    /\ gap' = gap \union Fresh
    /\ away' = away \union {e \in events : e.at > seen_until}
    /\ UNCHANGED <<now, boardSide, cursors, printed, overtaken, slow, stamped>>

\* Mutant of Reconnect: with the history once more.
ReconnectAfresh ==
    /\ pc = "lost"
    /\ pc' = "start"
    /\ UNCHANGED <<now, boardSide, cursors, printed, histories, stamped, losses>>

Reconnect ==
    /\ pc = "lost"
    /\ pc' = "start" /\ history' = 0
    /\ UNCHANGED <<now, boardSide, last_id, seen_until, until, printed, histories,
                   stamped, losses>>

----------------------------------------------------------------------------
ViewInit ==
    /\ now = 0 /\ lastId = 0
    /\ posting = {} /\ stamping = {} /\ messages = {} /\ events = {}
    /\ pc = "start"
    /\ last_id = 0 /\ seen_until = 0 /\ until = 0 /\ history = History
    /\ shown = <<>> /\ told = <<>>
    /\ overtaken = {} /\ slow = {} /\ gap = {} /\ away = {}
    /\ stamped = 0 /\ losses = 0

ViewNext ==
    \/ BeginPost \/ \E m \in posting : CommitPost(m)
    \/ \E kind \in EventKind, m \in messages : BeginStamp(kind, m)
    \/ \E e \in stamping : CommitStamp(e)
    \/ Rollback \/ RequeueUnacked
    \/ Start \/ ShowHistory \/ SkipToNewest
    \/ ShowMessages \/ AskTime \/ ShowEvents
    \/ LoseConnection \/ Reconnect

ViewSpec == ViewInit /\ [][ViewNext]_viewVars

----------------------------------------------------------------------------
\* The shape of the state: what is printed is behind the cursors, and the
\* cursors never ahead of the board.
ViewTypeOK ==
    /\ now \in 0..MaxTime /\ lastId \in 0..MaxPosts
    /\ posting \subseteq 1..lastId /\ messages \subseteq 1..lastId
    /\ posting \intersect messages = {}
    /\ stamping \subseteq Event /\ events \subseteq Event
    /\ pc \in {"start", "history", "newest", "messages", "clock", "events", "lost"}
    /\ last_id \in 0..lastId /\ seen_until \in 0..now /\ until \in 0..now
    /\ history \in {0, History}
    /\ shown \in Seq(1..lastId) /\ told \in Seq(Event)
    /\ Following => \A k \in 1..Len(shown) : shown[k] <= last_id
    /\ \A k \in 1..Len(told) : told[k].at <= seen_until
    /\ overtaken \subseteq messages /\ slow \subseteq Event
    /\ gap \subseteq messages /\ away \subseteq Event

\* No message is printed twice or after a later one, across lost connections
\* too (watch/board.py:235, "what came before the gap is already on screen").
PrintedOnceInOrder == \A j, k \in 1..Len(shown) : j < k => shown[j] < shown[k]

\* No event is printed twice (watch/board.py:185, "can't skip or repeat one").
EventsOnce == \A j, k \in 1..Len(told) : told[j] = told[k] => j = k

\* A message that committed in the order of the ids while the view followed
\* is on the screen once the view has got past its id.
NoMessageSkipped ==
    \A m \in messages \ (overtaken \union gap) :
        m <= last_id => \E k \in 1..Len(shown) : shown[k] = m

\* What the view has got past it has printed.
Printed(e) == e.at <= seen_until => \E k \in 1..Len(told) : told[k] = e

\* An event stamped and committed between two readings of the clock is on
\* the screen after the second.
NoEventSkipped == \A e \in events \ (slow \union away) : Printed(e)

\* The view shows "when each recipient is handed it and finishes it"
\* (watch/board.py:3), so long as it follows the board.
EveryEventShown == \A e \in events \ away : Printed(e)
=============================================================================
