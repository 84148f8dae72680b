------------------------------ MODULE Listener ------------------------------
(***************************************************************************)
(* The listener of agent Me (listener/listen.py) between the board and the *)
(* agent's session.  Sweeps are started by the notification loop, the      *)
(* periodic timer and the idle watch; each runs on a worker thread of its  *)
(* own, under the sweep lock.  A sweep is cut at every point where it      *)
(* commits, looks at the session or types, so that the board, the session, *)
(* the human, a database failure or the end of the process can come in     *)
(* between.                                                                *)
(***************************************************************************)
EXTENDS Board, Session

CONSTANTS
    Me,        \* the agent this listener serves
    Sweeper,   \* the threads sweeps run on
    Keeps,     \* the ORCH_SESSION_KEPT settings it may be restarted with
    Budget,    \* how often each mishap happens
    Kinds      \* how many different kinds of mishap meet

Mishap == {"fault", "tmux", "crash", "restart", "cut", "clear", "draft",
           "erase", "interrupt", "watch"}

ASSUME ListenerAssumption ==
    /\ Me \in Registered
    /\ None \notin Sweeper
    /\ Keeps \subseteq BOOLEAN
    /\ Budget \in [Mishap -> Nat] /\ Kinds \in Nat

VARIABLES
    process,     \* "down", "starting" (start_session not committed) or "up"
    kept,        \* ORCH_SESSION_KEPT of the running process
    watch,       \* the idle watch saw a still screen and will touch the flag
    lock,        \* the thread holding _sweep_lock
    pc,          \* where each thread is in sweep
    picked,      \* the message each thread took from the work list, or Note
    notes,       \* _timeout_notes
    restart,     \* how far `oratorio restart` of this agent is
    told,        \* history: the requests whose note was pasted, in order
    spent        \* the mishaps so far

processVars == <<process, kept, watch, lock, pc, picked, notes>>
listenerVars == <<processVars, restart, told, spent>>
vars == <<boardVars, sessionVars, listenerVars>>

Spend(mishap) ==
    /\ spent[mishap] < Budget[mishap]
    /\ Cardinality({k \in Mishap \ {mishap} : spent[k] > 0}) < Kinds
    /\ spent' = [spent EXCEPT ![mishap] = @ + 1]

----------------------------------------------------------------------------
(* The process *)

\* A listener process that has not swept yet.
Fresh ==
    /\ watch' = FALSE /\ lock' = None
    /\ pc' = [t \in Sweeper |-> "waiting"]
    /\ picked' = [t \in Sweeper |-> None]
    /\ notes' = <<>>

\* The process dies, with everything it held in memory.
Crash ==
    /\ process # "down"
    /\ process' = "down"
    /\ Fresh /\ Spend("crash")
    /\ UNCHANGED <<boardVars, sessionVars, kept, restart, told>>

Launch ==
    /\ process = "down" /\ restart = "no"
    /\ process' = "starting"
    /\ kept' \in Keeps
    /\ UNCHANGED <<boardVars, sessionVars, watch, lock, pc, picked, notes,
                   restart, told, spent>>

\* Mutant of StartSession: only announces the agent.
StartSessionOnly ==
    /\ process = "starting"
    /\ process' = "up"
    /\ UNCHANGED <<boardVars, sessionVars, kept, watch, lock, pc, picked, notes,
                   restart, told, spent>>

\* A failure of the database here is retried until it works.
StartSession ==
    /\ process = "starting"
    /\ process' = "up"
    /\ IF kept THEN UNCHANGED boardVars ELSE RequeueUnacked(Me)
    /\ UNCHANGED <<sessionVars, kept, watch, lock, pc, picked, notes,
                   restart, told, spent>>

----------------------------------------------------------------------------
(* sweep *)

Goto(t, there) == pc' = [pc EXCEPT ![t] = there]

\* The end of a sweep, by return or by exception.
Leave(t) == Goto(t, "waiting") /\ lock' = None

\* Mutant of BeginSweep: no lock.
BeginSweepUnlocked(t) ==
    /\ process = "up" /\ pc[t] = "waiting"
    /\ lock' = t
    /\ cleared_marker' = FALSE
    /\ Goto(t, IF cleared_marker THEN "requeue" ELSE "claim")
    /\ UNCHANGED <<boardVars, turn, idle_flag, hooks, draft, pasted, context,
                   process, kept, watch, picked, notes, restart, told, spent>>

\* Take the lock and ask was_cleared, which removes the marker.
BeginSweep(t) ==
    /\ process = "up" /\ pc[t] = "waiting" /\ lock = None
    /\ lock' = t
    /\ cleared_marker' = FALSE
    /\ Goto(t, IF cleared_marker THEN "requeue" ELSE "claim")
    /\ UNCHANGED <<boardVars, turn, idle_flag, hooks, draft, pasted, context,
                   process, kept, watch, picked, notes, restart, told, spent>>

\* Mutant of Requeue: the commit is left out.
RequeueUncommitted(t) ==
    /\ pc[t] = "requeue"
    /\ Goto(t, "claim")
    /\ UNCHANGED <<boardVars, sessionVars, process, kept, watch, lock, picked,
                   notes, restart, told, spent>>

Requeue(t) ==
    /\ pc[t] = "requeue"
    /\ RequeueUnacked(Me)
    /\ Goto(t, "claim")
    /\ UNCHANGED <<sessionVars, process, kept, watch, lock, picked, notes,
                   restart, told, spent>>

\* claim_overdue_requests returns the requests in no order of its own.
Orders(S) == {s \in [1..Cardinality(S) -> S] : {s[k] : k \in DOMAIN s} = S}

\* Mutant of Claim: the requests are not stamped.
ClaimUnstamped(t) ==
    /\ pc[t] = "claim"
    /\ \E s \in Orders(Overdue(Me)) : notes' = notes \o s
    /\ Goto(t, "loop")
    /\ UNCHANGED <<boardVars, sessionVars, process, kept, watch, lock, picked,
                   restart, told, spent>>

Claim(t) ==
    /\ pc[t] = "claim"
    /\ ClaimOverdueRequests(Me)
    /\ \E s \in Orders(Overdue(Me)) : notes' = notes \o s
    /\ Goto(t, "loop")
    /\ UNCHANGED <<sessionVars, process, kept, watch, lock, picked,
                   restart, told, spent>>

\* while self.session.ready(): is the flag there ...
Look(t) ==
    /\ pc[t] = "loop"
    /\ IF idle_flag THEN Goto(t, "peek") /\ UNCHANGED lock ELSE Leave(t)
    /\ UNCHANGED <<boardVars, sessionVars, process, kept, watch, picked, notes,
                   restart, told, spent>>

\* ... and the input box empty?
Peek(t) ==
    /\ pc[t] = "peek"
    /\ IF BoxEmpty THEN Goto(t, "query") /\ UNCHANGED lock ELSE Leave(t)
    /\ UNCHANGED <<boardVars, sessionVars, process, kept, watch, picked, notes,
                   restart, told, spent>>

\* A screen that cannot be captured counts as one with an empty box.
PeekBlind(t) ==
    /\ pc[t] = "peek"
    /\ Spend("tmux")
    /\ Goto(t, "query")
    /\ UNCHANGED <<boardVars, sessionVars, process, kept, watch, lock, picked,
                   notes, restart, told>>

\* The flag went missing for good: the look at the screen ...
LookAtScreen(t) ==
    /\ pc[t] = "loop" /\ LooksStuck
    /\ Goto(t, IF BoxEmpty THEN "stuck" ELSE "held")
    /\ UNCHANGED <<boardVars, sessionVars, process, kept, watch, lock, picked,
                   notes, restart, told, spent>>

\* ... and the flag put back, to type or, if there was text in the box, not.
Unstick(t) ==
    /\ pc[t] \in {"stuck", "held"}
    /\ TouchFlag
    /\ IF pc[t] = "stuck" THEN Goto(t, "query") /\ UNCHANGED lock ELSE Leave(t)
    /\ UNCHANGED <<boardVars, process, kept, watch, picked, notes, restart, told,
                   spent>>

\* The idle watch asks ready() as well, but not under the lock (wants_sweep):
\* between its look and its touch a sweep may type.  What it asks first, whether
\* something was left waiting, it has from the last sweep.
WatchLooks ==
    /\ process = "up" /\ ~cleared_marker /\ Spend("watch")
    /\ LooksStuck /\ \A t \in Sweeper : pc[t] \notin {"paste", "enter"}
    /\ watch' = TRUE
    /\ UNCHANGED <<boardVars, sessionVars, process, kept, lock, pc, picked,
                   notes, restart, told>>

WatchTouches ==
    /\ watch /\ watch' = FALSE
    /\ TouchFlag
    /\ UNCHANGED <<boardVars, process, kept, lock, pc, picked, notes, restart,
                   told, spent>>

\* The oldest message not handed over, else a note, else done.
Query(t) ==
    /\ pc[t] = "query"
    /\ \/ \E i \in Undelivered(Me) :
            /\ \A j \in Undelivered(Me) : i <= j
            /\ picked' = [picked EXCEPT ![t] = i]
            /\ Goto(t, "hand") /\ UNCHANGED lock
       \/ /\ Undelivered(Me) = {} /\ notes # <<>>
          /\ picked' = [picked EXCEPT ![t] = Note]
          /\ Goto(t, "hand") /\ UNCHANGED lock
       \/ /\ Undelivered(Me) = {} /\ notes = <<>>
          /\ Leave(t)
          /\ UNCHANGED picked
    /\ UNCHANGED <<boardVars, sessionVars, process, kept, watch, notes,
                   restart, told, spent>>

----------------------------------------------------------------------------
(* hand.  The note it types has been popped when it is called, which no one *)
(* sees before the paste.                                                   *)

Hand(t) ==
    /\ pc[t] = "hand"
    /\ DropFlag
    /\ Goto(t, "paste")
    /\ UNCHANGED <<boardVars, process, kept, watch, lock, picked, notes,
                   restart, told, spent>>

\* Mutant of PasteText: one note typed, all of them forgotten.
PasteTextForAll(t) ==
    /\ pc[t] = "paste"
    /\ Paste(picked[t])
    /\ IF picked[t] = Note
       THEN notes' = <<>> /\ told' = Append(told, Head(notes))
       ELSE UNCHANGED <<notes, told>>
    /\ Goto(t, "enter")
    /\ UNCHANGED <<boardVars, process, kept, watch, lock, picked, restart,
                   spent>>

PasteText(t) ==
    /\ pc[t] = "paste"
    /\ Paste(picked[t])
    /\ IF picked[t] = Note
       THEN notes' = Tail(notes) /\ told' = Append(told, Head(notes))
       ELSE UNCHANGED <<notes, told>>
    /\ Goto(t, "enter")
    /\ UNCHANGED <<boardVars, process, kept, watch, lock, picked, restart,
                   spent>>

\* After the settle pause.
Enter(t) ==
    /\ pc[t] = "enter"
    /\ PressEnter
    /\ IF picked[t] = Note
       THEN Goto(t, "loop") /\ picked' = [picked EXCEPT ![t] = None]
       ELSE Goto(t, "mark") /\ UNCHANGED picked
    /\ UNCHANGED <<boardVars, process, kept, watch, lock, notes, restart, told,
                   spent>>

\* mark_delivered, which finds the row marked or not.
Mark(t) ==
    /\ pc[t] = "mark"
    /\ \/ MarkDelivered(Me, picked[t])
       \/ <<picked[t], Me>> \in handed /\ UNCHANGED boardVars
    /\ picked' = [picked EXCEPT ![t] = None]
    /\ Goto(t, "loop")
    /\ UNCHANGED <<sessionVars, process, kept, watch, lock, notes,
                   restart, told, spent>>

----------------------------------------------------------------------------
(* sweep, when something in it raises *)

\* The database is gone before the next commit: rolled back, sweep over.
DatabaseFails(t) ==
    /\ pc[t] \in {"requeue", "claim", "query", "mark"}
    /\ Spend("fault")
    /\ picked' = [picked EXCEPT ![t] = None]
    /\ Leave(t)
    /\ UNCHANGED <<boardVars, sessionVars, process, kept, watch, notes,
                   restart, told>>

\* The claim's rows were read but its commit fails.
ClaimRolledBack(t) ==
    /\ pc[t] = "claim"
    /\ Spend("fault")
    /\ \E s \in Orders(Overdue(Me)) : notes' = notes \o s
    /\ Leave(t)
    /\ UNCHANGED <<boardVars, sessionVars, process, kept, watch, picked,
                   restart, told>>

\* tmux refuses the paste, and nothing was typed, or the Enter, and the text
\* stays in the box.  The timers log it and go on; in the notification loop
\* nothing catches it and the process ends, a Crash at that point.
TmuxFails(t) ==
    /\ pc[t] \in {"paste", "enter"}
    /\ Spend("tmux")
    /\ notes' = IF pc[t] = "paste" /\ picked[t] = Note THEN Tail(notes)
                                                        ELSE notes
    /\ picked' = [picked EXCEPT ![t] = None]
    /\ Leave(t)
    /\ UNCHANGED <<boardVars, sessionVars, process, kept, watch, restart, told>>

----------------------------------------------------------------------------
(* oratorio restart: the files, then the session's pane, then the          *)
(* listener's, which until then goes on with the new session.              *)

\* Removes the marker of a /clear nobody has noticed yet, if there is one.
RestartFiles ==
    /\ restart = "no" /\ Spend("restart")
    /\ restart' = IF cleared_marker THEN "unmarked" ELSE "files"
    /\ idle_flag' = FALSE /\ cleared_marker' = FALSE
    /\ UNCHANGED <<boardVars, turn, hooks, draft, pasted, context, processVars,
                   told>>

RestartPane ==
    /\ restart \in {"files", "unmarked"}
    /\ restart' = "pane"
    /\ Respawn
    /\ UNCHANGED <<boardVars, processVars, told, spent>>

RestartListener ==
    /\ restart = "pane"
    /\ restart' = "no"
    /\ process' = "starting" /\ kept' = FALSE /\ Fresh
    /\ UNCHANGED <<boardVars, sessionVars, told, spent>>

\* Ctrl-C, or tmux refusing one of the commands: the rest is not done.
RestartCut ==
    /\ restart # "no" /\ Spend("cut")
    /\ restart' = "no"
    /\ UNCHANGED <<boardVars, sessionVars, processVars, told>>

----------------------------------------------------------------------------
(* The rest of the world *)

\* Other agents write to this one, or to each other.
OthersPost ==
    /\ \E a \in Agent \ {Me} : \E q \in Request :
         q.recipient \notin {None, a[2]} /\ PostMessage(a, q)
    /\ UNCHANGED <<sessionVars, listenerVars>>

\* In a turn the agent writes to others and acks what it has finished.
AgentPosts ==
    /\ turn = "working"
    /\ \E q \in Request :
         q.recipient \notin {None, Me[2]} /\ PostMessage(Me, q)
    /\ UNCHANGED <<sessionVars, listenerVars>>

AgentAcks ==
    /\ turn = "working"
    /\ \E i \in Ids : AckMessage(Me, i)
    /\ UNCHANGED <<sessionVars, listenerVars>>

TimePasses == Tick /\ UNCHANGED <<sessionVars, listenerVars>>

SessionSteps ==
    /\ TakePrompt \/ EndTurn \/ RunHook
    /\ UNCHANGED <<boardVars, listenerVars>>

\* The human sends or erases what is in the box, the listener's text with it.
HumanSends == Submit /\ UNCHANGED <<boardVars, listenerVars>>

HumanErases ==
    /\ Erase
    /\ IF pasted = {} THEN UNCHANGED spent ELSE Spend("erase")
    /\ UNCHANGED <<boardVars, processVars, restart, told>>

HumanActs ==
    /\ \/ Type /\ Spend("draft")
       \/ Clear /\ Spend("clear")
       \/ Interrupt /\ Spend("interrupt")
    /\ UNCHANGED <<boardVars, processVars, restart, told>>

----------------------------------------------------------------------------
Sweep(t) ==
    \/ BeginSweep(t) \/ Requeue(t) \/ Claim(t)
    \/ Look(t) \/ Peek(t) \/ Unstick(t) \/ Query(t)
    \/ Hand(t) \/ PasteText(t) \/ Enter(t) \/ Mark(t)

ListenerInit ==
    /\ Init /\ SessionInit
    /\ process = "starting" /\ kept = FALSE /\ watch = FALSE
    /\ lock = None
    /\ pc = [t \in Sweeper |-> "waiting"]
    /\ picked = [t \in Sweeper |-> None]
    /\ notes = <<>>
    /\ restart = "no"
    /\ told = <<>>
    /\ spent = [mishap \in Mishap |-> 0]

ListenerNext ==
    \/ \E t \in Sweeper :
         Sweep(t) \/ LookAtScreen(t) \/ PeekBlind(t)
           \/ DatabaseFails(t) \/ ClaimRolledBack(t) \/ TmuxFails(t)
    \/ WatchLooks \/ WatchTouches
    \/ Crash \/ Launch \/ StartSession
    \/ RestartFiles \/ RestartPane \/ RestartListener \/ RestartCut
    \/ OthersPost \/ AgentPosts \/ AgentAcks \/ TimePasses
    \/ SessionSteps \/ HumanSends \/ HumanErases \/ HumanActs

ListenerSpec == ListenerInit /\ [][ListenerNext]_vars

----------------------------------------------------------------------------
\* The listener's own variables; and whoever is about to type, or to mark what
\* it typed, has a message for it, or a note that is still to be had.
ListenerTypeOK ==
    /\ TypeOK /\ SessionTypeOK
    /\ process \in {"down", "starting", "up"} /\ kept \in BOOLEAN
    /\ watch \in BOOLEAN
    /\ lock \in Sweeper \union {None}
    /\ pc \in [Sweeper -> {"waiting", "requeue", "claim", "loop", "peek",
                           "stuck", "held", "query", "hand", "paste", "enter",
                           "mark"}]
    /\ picked \in [Sweeper -> Nat \union {None}]
    /\ notes \in Seq(Ids) /\ told \in Seq(Ids)
    /\ \A t \in Sweeper :
         /\ pc[t] \in {"hand", "paste", "enter"}
               => picked[t] \in Ids \union {Note}
         /\ pc[t] \in {"hand", "paste"} /\ picked[t] = Note => notes # <<>>
         /\ pc[t] = "mark" => picked[t] \in Ids
    /\ restart \in {"no", "files", "unmarked", "pane"}
    /\ spent \in [Mishap -> Nat]

\* A message the agent was handed and has not finished.
Open(i) == <<i, Me>> \in handed \ acked /\ Live(i)

\* Something is still due to put it back on the work list: the marker of a
\* /clear, the hook that is about to set it, a sweep about to requeue, a
\* listener that starts, or, once it has taken a marker or the session away, a
\* restart about to start one.
ToBeRequeued ==
    \/ cleared_marker \/ "marker" \in hooks
    \/ \E t \in Sweeper : pc[t] = "requeue"
    \/ process = "starting" /\ ~kept
    \/ restart \in {"unmarked", "pane"}

\* Every open message is in front of the agent or on its way back to it
\* (README.md:434, "After a /clear, the listener notices and hands back every
\* message the agent had not finished").
HandedBack == \A i \in Ids : Open(i) => i \in context \/ ToBeRequeued

\* The note of request i was put in the input box, or is kept for it.
HasNote(i) == \E k \in 1..Len(notes \o told) : (notes \o told)[k] = i

\* The note of every timeout that was claimed was put in the input box, or is
\* kept
\* (README.md:391, "If none arrives, the sender is told once").
Told ==
    \A i \in noted : log[i].sender = Me => HasNote(i)

----------------------------------------------------------------------------
(* Liveness.  A sweep goes on once begun and a new one begins within        *)
(* HEARTBEAT_SECONDS; the session takes up prompts and ends its turns; the  *)
(* hooks run; a restart goes on or is cut short; the human sends or erases  *)
(* what is in the box; a screen standing still is noticed at some sweep.    *)
Fairness ==
    /\ \A t \in Sweeper :
         /\ WF_vars(Sweep(t))
         /\ SF_vars(LookAtScreen(t))
    /\ WF_vars(StartSession) /\ WF_vars(Launch)
    /\ WF_vars(RestartPane \/ RestartListener \/ RestartCut)
    /\ WF_vars(TakePrompt /\ UNCHANGED <<boardVars, listenerVars>>)
    /\ WF_vars(EndTurn /\ UNCHANGED <<boardVars, listenerVars>>)
    /\ WF_vars(RunHook /\ UNCHANGED <<boardVars, listenerVars>>)
    /\ WF_vars(HumanSends \/ HumanErases)

FairSpec == ListenerSpec /\ Fairness

\* Left to nobody (HandedBack) by a database failure, by a restart that was cut
\* short, or by whoever erased it from the box before Enter.
Stranded(i) ==
    /\ \E m \in {"fault", "cut", "erase"} : spent[m] > 0
    /\ Open(i) /\ i \notin context /\ ~ToBeRequeued

Reaches(i) ==
    i \in context \/ Stranded(i) \/ (i \in Ids => <<i, Me>> \notin Pending)

\* Whatever is on the agent's work list gets into its conversation, unless
\* it is acked or expires first (README.md:370, "Nothing is lost"), through any
\* crash, restart, /clear, draft, interrupt or failure, but for what a database
\* failure, a restart cut short or an erased text strands.
EverythingHandedIn == \A i \in 1..MaxMessages : []<>Reaches(i)
=============================================================================
