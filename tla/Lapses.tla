------------------------------- MODULE Lapses -------------------------------
(***************************************************************************)
(* What the listener promises whatever happens around it.  Each promise    *)
(* has its weak points, at which something is lost that the code does not  *)
(* notice; lapses holds those that were hit and have not been made good.   *)
(* All else, any crash, failure, /clear, restart or interrupt at any other *)
(* moment, must be made good.                                              *)
(***************************************************************************)
EXTENDS Listener

VARIABLE lapses    \* history: the weak points hit and not made good

Lapse == {"requeue", "erase", "mark", "resent", "notes", "claim", "flag",
          "prompt"}

\* A requeue is due, and does not come: the marker of a /clear is gone and the
\* sweep ends (listen.py:118), the listener ends before its first requeue
\* (listen.py:106), or a restart is cut short after it removed a marker or
\* replaced the session (up.py:467, up.py:693).
RequeueLost ==
    /\ ~(process' = "starting" /\ ~kept')
    /\ \/ \E t \in Sweeper : pc[t] = "requeue" /\ pc'[t] = "waiting"
       \/ process = "starting" /\ ~kept /\ process' = "down"
       \/ restart \in {"unmarked", "pane"} /\ restart' = "no"

\* The next requeue makes good what it would have.
RequeueDone ==
    \/ \E t \in Sweeper : pc[t] = "requeue" /\ pc'[t] = "claim"
    \/ process = "starting" /\ ~kept /\ process' = "up"

\* The text is erased from the box before Enter, and marked all the same
\* (tmux.py:232).  The next requeue brings it back.
TextErased ==
    /\ \E t \in Sweeper : pc[t] = "enter" /\ picked[t] \in pasted
    /\ pasted' = {} /\ UNCHANGED <<context, restart>>

\* What the board goes by is so: all that the session has is marked or
\* finished, or its thread is about to mark it, and nobody is about to type
\* what it has.
MarksRight ==
    /\ \A i \in (context \union pasted) \ {Note} :
         \/ <<i, Me>> \in handed \union acked
         \/ \E t \in Sweeper : pc[t] \in {"enter", "mark"} /\ picked[t] = i
    /\ \A t \in Sweeper :
         pc[t] \in {"hand", "paste"} /\ picked[t] # Note
         => picked[t] \notin context \union pasted

\* A message is in the box or sent, and is not marked (tmux.py:233,
\* listen.py:140).
MarkLost ==
    \E t \in Sweeper :
        pc[t] \in {"enter", "mark"} /\ picked[t] # Note /\ pc'[t] = "waiting"

\* A requeue takes back what the session still has: it lived on beside a new
\* listener, or got it after the /clear (listen.py:106).
Resent == \E d \in handed \ handed' : d[1] \in context \union pasted

\* A note is forgotten with the process, or popped and not typed
\* (listen.py:143).
NoteLost ==
    /\ Len(notes') < Len(notes)
    /\ \/ process' # "up"
       \/ \E t \in Sweeper : pc[t] = "paste" /\ pc'[t] = "waiting"

\* Notes are kept of a claim that was rolled back (listen.py:123).
ClaimLost ==
    /\ Len(notes') > Len(notes)
    /\ \E t \in Sweeper : pc[t] = "claim" /\ pc'[t] = "waiting"

Typing(t) == pc[t] \in {"paste", "enter"}

\* What the listener goes by is so: the flag says that the session is idle
\* and that nothing is being typed, and who has looked and not yet typed has a
\* session that is idle still.
PictureRight ==
    /\ idle_flag => turn = "idle" /\ \A t \in Sweeper : ~Typing(t)
    /\ \A t \in Sweeper :
         Typing(t) \/ pc[t] \in {"peek", "stuck", "held", "query", "hand"}
         => turn = "idle"

\* A SessionStart hook (session/up.py:488) or the idle watch (tmux.py:191) sets
\* the flag when a prompt has been sent already, or the listener is typing one.
FlagLate ==
    /\ \/ "flag" \in hooks /\ hooks' = hooks \ {"flag"}
       \/ watch /\ ~watch' /\ idle_flag'
    /\ turn # "idle" \/ \E t \in Sweeper : Typing(t)

\* Somebody else sends a prompt (listen.py:126).
PromptSent == turn = "idle" /\ turn' = "submitted" /\ UNCHANGED pc

Hit(l) ==
    CASE l = "requeue" -> RequeueLost
      [] l = "erase" -> TextErased
      [] l = "mark" -> MarkLost
      [] l = "resent" -> Resent
      [] l = "notes" -> NoteLost
      [] l = "claim" -> ClaimLost
      [] l = "flag" -> FlagLate
      [] l = "prompt" -> PromptSent

\* A lost mark lasts until the session forgets the message or it is marked
\* after all, as when it is typed again; a flag set late or a prompt of
\* somebody else's until its own hook has dropped the flag and no sweep goes on
\* from a look before it.
MadeGood(l) ==
    \/ l \in {"requeue", "erase"} /\ RequeueDone
    \/ l \in {"mark", "resent"} /\ MarksRight'
    \/ l \in {"flag", "prompt"} /\ PictureRight'

Recorded ==
    lapses' = {l \in Lapse : (Hit(l) \/ l \in lapses) /\ ~MadeGood(l)}

lapseVars == <<vars, lapses>>

LapsesSpec ==
    /\ ListenerInit /\ lapses = {}
    /\ [][ListenerNext /\ Recorded]_lapseVars

NoneOf(ls) == lapses \intersect ls = {}

----------------------------------------------------------------------------
\* No /clear, restart, crash, database or tmux failure leaves a message that
\* the board counts as handed over and no session knows of, for longer than
\* until the next requeue, whether or not ORCH_SESSION_KEPT is set: but where a
\* requeue that was due did not come, a restart cut short included, or the text
\* was erased before Enter.
NoStranded == NoneOf({"requeue", "erase"}) => HandedBack

\* The paste, or the Enter.
Types ==
    \E t \in Sweeper :
        \/ pc[t] = "paste" /\ pc'[t] = "enter"
        \/ pc[t] = "enter" /\ pc'[t] \in {"mark", "loop"}

\* Nothing is typed into a session that has a prompt to work on
\* (session/tmux.py:5, "never type while the agent is mid-turn"): not by a
\* second sweep, nor after an interrupt, a crash, a /clear or a restart; but
\* where a hook or the idle watch set the flag late, or somebody else's prompt
\* came between the look and the typing (listen.py:126), or ahead of its own
\* hook.
NeverTypesMidTurn ==
    [][Types /\ NoneOf({"flag", "prompt"}) => turn = "idle"]_lapseVars

\* Nothing that is in the conversation, or in the box still, is typed again,
\* by whichever thread, of this listener or of the one that took over from it;
\* but while the session has a message whose mark was lost, by a refused Enter
\* or a kill in the settle pause as well, or that a requeue took back.
NoRepeat ==
    [][\A t \in Sweeper :
         /\ pc[t] = "paste" /\ pc'[t] = "enter" /\ picked[t] # Note
         /\ NoneOf({"mark", "resent"})
         => picked[t] \notin context \union pasted]_lapseVars

\* The note of every timeout that was claimed is typed or kept.
NoteKept == NoneOf({"notes"}) => Told

\* Nobody is told, or about to be told, of the same timeout twice.
ToldOnce ==
    NoneOf({"claim"}) =>
        \A j, k \in 1..Len(notes \o told) :
            (notes \o told)[j] = (notes \o told)[k] => j = k

\* Every request of Me whose deadline has passed without an answer (Due), and
\* whose replies have a hop left, has a reply in its inbox, or its note was
\* typed, is waiting to be, or is what the next claim finds: from the fan-out
\* of the reply to the sender's own session (README.md:391, "If none arrives,
\* the sender is told once"), through crashes, restarts and failures, unless a
\* note was lost.
AnsweredOrToldInBudget ==
    NoneOf({"notes"}) =>
        \A i \in Ids : log[i].sender = Me /\ Due(i) /\ log[i].depth > 1 =>
            AnsweredInInbox(i) \/ HasNote(i) \/ i \in Overdue(Me)
=============================================================================
