------------------------------ MODULE Session ------------------------------
(***************************************************************************)
(* One agent's terminal session, as the rest of the system sees it: the    *)
(* two files its Claude Code hooks keep (session/up.py), what is in its    *)
(* input box and its conversation, and the operations TmuxSession          *)
(* (session/tmux.py) does on it.                                           *)
(*                                                                         *)
(* A prompt is submitted, taken up (its UserPromptSubmit hook runs and the *)
(* turn begins), and the turn ends with the Stop hook, or without it when  *)
(* interrupted.  SessionStart hooks run some time after the conversation   *)
(* was wiped, in any order; the session takes up no prompt before they     *)
(* have run.                                                               *)
(***************************************************************************)
EXTENDS Integers

VARIABLES
    turn,           \* "idle", "submitted" or "working"
    idle_flag,      \* <agent>.idle exists
    cleared_marker, \* <agent>.idle.cleared exists
    hooks,          \* the SessionStart hooks still to run, by what they touch
    draft,          \* the human's text is in the input box
    pasted,         \* the board's texts in the input box
    context         \* the board messages in the conversation

sessionVars == <<turn, idle_flag, cleared_marker, hooks, draft, pasted, context>>

\* What the listener types: a message, by its id, or the note of a timeout.
Note == 0

SessionTypeOK ==
    /\ turn \in {"idle", "submitted", "working"}
    /\ idle_flag \in BOOLEAN /\ cleared_marker \in BOOLEAN
    /\ hooks \subseteq {"flag", "marker"}
    /\ draft \in BOOLEAN
    /\ pasted \subseteq Nat /\ context \subseteq Nat \ {Note}

\* A fresh session, its SessionStart hook not yet run.
SessionInit ==
    /\ turn = "idle" /\ hooks = {"flag"}
    /\ idle_flag = FALSE /\ cleared_marker = FALSE
    /\ draft = FALSE /\ pasted = {} /\ context = {}

----------------------------------------------------------------------------
(* The session and its hooks *)

TakePrompt ==
    /\ turn = "submitted" /\ hooks = {}
    /\ turn' = "working"
    /\ idle_flag' = FALSE
    /\ UNCHANGED <<cleared_marker, hooks, draft, pasted, context>>

EndTurn ==
    /\ turn = "working"
    /\ turn' = "idle"
    /\ idle_flag' = TRUE
    /\ UNCHANGED <<cleared_marker, hooks, draft, pasted, context>>

\* Esc, or a failed request: no Stop hook.
Interrupt ==
    /\ turn = "working"
    /\ turn' = "idle"
    /\ UNCHANGED <<idle_flag, cleared_marker, hooks, draft, pasted, context>>

RunHook ==
    \E h \in hooks :
        /\ hooks' = hooks \ {h}
        /\ idle_flag' = (idle_flag \/ h = "flag")
        /\ cleared_marker' = (cleared_marker \/ h = "marker")
        /\ UNCHANGED <<turn, draft, pasted, context>>

\* respawn-pane -k: the process is replaced.
Respawn ==
    /\ turn' = "idle" /\ hooks' = {"flag"}
    /\ draft' = FALSE /\ pasted' = {} /\ context' = {}
    /\ UNCHANGED <<idle_flag, cleared_marker>>

----------------------------------------------------------------------------
(* The input box *)

BoxEmpty == ~draft /\ pasted = {}

\* Enter sends whatever is in the box.  Sent into a running turn it becomes
\* part of the conversation too.
PressEnter ==
    /\ turn' = IF turn = "idle" /\ ~BoxEmpty THEN "submitted" ELSE turn
    /\ draft' = FALSE /\ pasted' = {}
    /\ context' = context \union (pasted \ {Note})
    /\ UNCHANGED <<idle_flag, cleared_marker, hooks>>

----------------------------------------------------------------------------
(* The human in front of it *)

Type ==
    /\ ~draft
    /\ draft' = TRUE
    /\ UNCHANGED <<turn, idle_flag, cleared_marker, hooks, pasted, context>>

Submit == ~BoxEmpty /\ PressEnter

Erase ==
    /\ ~BoxEmpty
    /\ draft' = FALSE /\ pasted' = {}
    /\ UNCHANGED <<turn, idle_flag, cleared_marker, hooks, context>>

\* Typed into the box, so the listener's text must have left it.
Clear ==
    /\ turn = "idle" /\ hooks = {} /\ pasted = {}
    /\ context' = {} /\ draft' = FALSE
    /\ hooks' = {"flag", "marker"}
    /\ UNCHANGED <<turn, idle_flag, cleared_marker, pasted>>

----------------------------------------------------------------------------
(* TmuxSession.  ready() looks at the flag and then at the screen; hand()   *)
(* drops the flag, pastes, lets the paste settle and presses Enter.         *)

\* What _stuck_but_idle waits to see: the flag is missing and the screen
\* stands still, idle-looking.
LooksStuck == ~idle_flag /\ turn = "idle" /\ hooks = {}

\* It puts the flag back, whatever the session has turned to since the look.
TouchFlag ==
    /\ idle_flag' = TRUE
    /\ UNCHANGED <<turn, cleared_marker, hooks, draft, pasted, context>>

\* Mutant of DropFlag: left to the session's own hook.
KeepFlag == UNCHANGED sessionVars

DropFlag ==
    /\ idle_flag' = FALSE
    /\ UNCHANGED <<turn, cleared_marker, hooks, draft, pasted, context>>

Paste(item) ==
    /\ pasted' = pasted \union {item}
    /\ UNCHANGED <<turn, idle_flag, cleared_marker, hooks, draft, context>>
=============================================================================
