------------------------------ MODULE Launcher ------------------------------
(***************************************************************************)
(* The oratorio command (session/up.py) on one workspace, typed in one     *)
(* terminal: up, add, restart, remove and down, cut at every commit, file  *)
(* and tmux call, beside the sessions and listeners they start.  A command *)
(* may be cut short anywhere: Ctrl-C, a tmux that has no room, a database  *)
(* that is away.                                                           *)
(*                                                                         *)
(* The agents are those of one role marked multiple: experiment-1 up to    *)
(* experiment-N.  A pane is known by its id only; tmux gives ids out in    *)
(* order and starts again when its server does.                            *)
(***************************************************************************)
EXTENDS Naturals, FiniteSets, FiniteSetsExt

CONSTANTS
    MaxAgents,   \* bound: the numbers an agent may have
    MaxPanes,    \* bound: the panes a tmux server opens
    MaxTokens,   \* bound: the tokens given out
    MaxCommands, \* bound: the commands typed
    MaxMishaps   \* bound: commands cut short, sessions and listeners that end

ASSUME LauncherAssumption ==
    {MaxAgents, MaxPanes, MaxTokens, MaxCommands, MaxMishaps} \subseteq Nat

Agent == 1..MaxAgents
Pane == 1..MaxPanes
None == 0 \* no token, no pane

VARIABLES
    hash,   \* the token of each agent in board.agent
    conf,   \* the token in each <agent>.mcp.json
    env,    \* each <agent>.env: its token, session pane and listener pane
    pane,   \* what runs in each pane
    views,  \* the board and plan views are open
    cmd,    \* the command that runs
    issued, opened, \* the last token and the last pane id given out
    half,   \* history: agents whose start was cut short after the commit
    widowed, \* history: agents whose session ended by itself
    typed, mishaps  \* commands and mishaps so far

launcherVars == <<hash, conf, env, pane, views, cmd, issued, opened,
                  half, widowed, typed, mishaps>>
files == <<conf, env>>
counters == <<half, widowed, typed, mishaps>>

----------------------------------------------------------------------------
(* Panes and records *)

Closed == [kind |-> "none", agent |-> None, state |-> "starting",
           token |-> None, serves |-> None, busy |-> FALSE]

\* What is started reads its file at once, and asks the board later.
Opened(kind, a) ==
    [Closed EXCEPT !.kind = kind, !.agent = a,
                   !.token = IF kind = "session" THEN conf[a] ELSE env[a].token,
                   !.serves = IF kind = "session" THEN None ELSE env[a].session]

IsLive(p) == p # None /\ pane[p].kind # "none"
Live(kind, a) == {p \in Pane : pane[p].kind = kind /\ pane[p].agent = a}

session_exists == views \/ \E p \in Pane : IsLive(p)

NoRecord == [token |-> None, session |-> None, listener |-> None]

\* The agents whose recorded pane is alive.
running_agents == {a \in Agent : IsLive(env[a].session)}

\* A restart replaces what was; for the other commands nothing was.
Idle == [does |-> "none", pc |-> "none", todo |-> {}, force |-> FALSE,
         whole |-> FALSE, was |-> [a \in Agent |-> NoRecord], begun |-> {},
         token |-> None, session |-> None, listener |-> None]

Ready(does) == cmd.pc = "none" /\ typed < MaxCommands /\ typed' = typed + 1

\* Agents are started in the order of their numbers.
Current == Min(cmd.todo)

\* Mutant of Was: the panes of the last one named are replaced.
WasOfLast == cmd.was[Max(cmd.todo)]

\* The panes that are replaced or closed for it.
Was == cmd.was[Current]

----------------------------------------------------------------------------
(* The commands *)

\* The records of an earlier run are removed, then the agents started.  With
\* no session left the tmux server may have ended as well.
cmd_up(wanted) ==
    /\ Ready("up") /\ ~session_exists
    /\ env' = [a \in Agent |-> NoRecord] /\ conf' = [a \in Agent |-> None]
    /\ cmd' = [Idle EXCEPT !.does = "up", !.pc = "sync", !.todo = wanted]
    /\ opened' \in {opened, None}
    /\ half' = {} /\ widowed' = {}
    /\ UNCHANGED <<hash, pane, views, issued, mishaps>>

\* By number, or by role: then the lowest number that does not run.
resolve_agent(taken) ==
    (Agent \ taken) \intersect {n \in Agent : \A m \in 1..(n - 1) : m \in taken}

cmd_add(named) ==
    /\ Ready("add") /\ session_exists
    /\ \E a \in (IF named = None THEN resolve_agent(running_agents)
                                 ELSE {named} \ running_agents) :
           cmd' = [Idle EXCEPT !.does = "add", !.pc = "sync", !.todo = {a}]
    /\ UNCHANGED <<hash, conf, env, pane, views, issued, opened, half, widowed, mishaps>>

\* A session that has only just started may look busy; here it never does.
is_idle(a) == ~pane[env[a].session].busy

\* The agent that is named, or all that run.
Names(named) == IF named = None THEN running_agents ELSE {named}

Restarting(named, asked, force) ==
    /\ Ready("restart")
    /\ Names(named) # {} /\ Names(named) \subseteq running_agents
    /\ force \/ \A a \in asked : is_idle(a)
    /\ cmd' = [Idle EXCEPT !.does = "restart", !.pc = "sync", !.todo = Names(named),
                           !.force = force, !.whole = (named = None), !.was = env]
    /\ UNCHANGED <<hash, conf, env, pane, views, issued, opened, half, widowed, mishaps>>

\* Mutant of cmd_restart: only the first agent is asked.
RestartAskingOne(named, force) ==
    Restarting(named, {a \in Names(named) : a = Min(Names(named))}, force)

\* All are asked first, and then replaced one after the other.
cmd_restart(named, force) == Restarting(named, Names(named), force)

cmd_remove(a) ==
    /\ Ready("remove") /\ a \in running_agents
    /\ cmd' = [Idle EXCEPT !.does = "remove", !.pc = "stop-listener",
                           !.todo = {a}, !.was = env]
    /\ UNCHANGED <<hash, conf, env, pane, views, issued, opened, half, widowed, mishaps>>

cmd_down ==
    /\ Ready("down")
    /\ pane' = [p \in Pane |-> Closed] /\ views' = FALSE
    /\ cmd' = [Idle EXCEPT !.does = "down", !.pc = "forget", !.todo = Agent]
    /\ UNCHANGED <<hash, conf, env, issued, opened, half, widowed, mishaps>>

----------------------------------------------------------------------------
(* start_agent, for the agent whose turn it is *)

\* Mutant of sync_agent: the upsert alone, which leaves a token as it is.
SyncByUpsert ==
    /\ cmd.pc = "sync" /\ issued < MaxTokens
    /\ issued' = issued + 1
    /\ hash' = [hash EXCEPT ![Current] = IF @ = None THEN issued' ELSE @]
    /\ cmd' = [cmd EXCEPT !.pc = "files", !.token = issued']
    /\ UNCHANGED <<files, pane, views, opened, counters>>

\* A fresh token, committed before anything is started with it.
sync_agent ==
    /\ cmd.pc = "sync" /\ issued < MaxTokens
    /\ issued' = issued + 1
    /\ hash' = [hash EXCEPT ![Current] = issued']
    /\ cmd' = [cmd EXCEPT !.pc = "files", !.token = issued']
    /\ UNCHANGED <<files, pane, views, opened, counters>>

agent_command ==
    /\ cmd.pc = "files"
    /\ conf' = [conf EXCEPT ![Current] = cmd.token]
    /\ cmd' = [cmd EXCEPT !.pc = "session"]
    /\ UNCHANGED <<hash, env, pane, views, issued, opened, counters>>

\* respawn-pane into the old pane, or a pane of its own.
Open(kind, old, next) ==
    LET p == IF old # None THEN old ELSE opened + 1 IN
    /\ p \in Pane
    /\ opened' = IF old # None THEN opened ELSE p
    /\ pane' = [pane EXCEPT ![p] = Opened(kind, Current)]
    /\ cmd' = [cmd EXCEPT !.pc = next, ![kind] = p]
    /\ UNCHANGED <<hash, files, views, issued, counters>>

\* Mutant of OpenSession: a restart opens a pane of its own.
OpenSessionAnew == cmd.pc = "session" /\ Open("session", None, "record")

OpenSession ==
    /\ cmd.pc = "session"
    /\ Was.session # None => IsLive(Was.session)
    /\ Open("session", Was.session, "record")

WriteRecord ==
    /\ cmd.pc = "record"
    /\ env' = [env EXCEPT ![Current] =
                   [token |-> cmd.token, session |-> cmd.session, listener |-> None]]
    /\ cmd' = [cmd EXCEPT !.pc = "listener"]
    /\ UNCHANGED <<hash, conf, pane, views, issued, opened, counters>>

\* Mutant of OpenListener: the old listener is left where it is.
OpenListenerAnew == cmd.pc = "listener" /\ Open("listener", None, "note")

OpenListener ==
    /\ cmd.pc = "listener"
    /\ Open("listener", IF IsLive(Was.listener) THEN Was.listener ELSE None, "note")

\* After the last agent, up and a restart with no agent named open the views.
NextAgent ==
    LET rest == cmd.todo \ {Current} IN
    /\ cmd' = IF rest = {} THEN Idle ELSE [cmd EXCEPT !.todo = rest, !.pc = "sync"]
    /\ views' = (views \/ (rest = {} /\ (cmd.does = "up" \/ cmd.whole)))

\* Mutant of NoteListener: the session's pane is noted as the listener's.
NoteSession ==
    /\ cmd.pc = "note" /\ NextAgent
    /\ env' = [env EXCEPT ![Current].listener = cmd.session]
    /\ UNCHANGED <<hash, conf, pane, issued, opened, counters>>

NoteListener ==
    /\ cmd.pc = "note" /\ NextAgent
    /\ env' = [env EXCEPT ![Current].listener = cmd.listener]
    /\ UNCHANGED <<hash, conf, pane, issued, opened, counters>>

----------------------------------------------------------------------------
(* remove and down, step by step *)

Close(p) == pane' = IF IsLive(p) THEN [pane EXCEPT ![p] = Closed] ELSE pane

\* Mutant of StopListener: only the session is stopped.
KeepListener ==
    /\ cmd.pc = "stop-listener"
    /\ cmd' = [cmd EXCEPT !.pc = "stop-session"]
    /\ UNCHANGED <<hash, files, pane, views, issued, opened, counters>>

StopListener ==
    /\ cmd.pc = "stop-listener"
    /\ Close(Was.listener)
    /\ cmd' = [cmd EXCEPT !.pc = "stop-session"]
    /\ UNCHANGED <<hash, files, views, issued, opened, counters>>

StopSession ==
    /\ cmd.pc = "stop-session"
    /\ Close(Was.session)
    /\ cmd' = [cmd EXCEPT !.pc = "forget"]
    /\ UNCHANGED <<hash, files, views, issued, opened, counters>>

forget_agent ==
    /\ cmd.pc = "forget"
    /\ env' = [a \in Agent |-> IF a \in cmd.todo THEN NoRecord ELSE env[a]]
    /\ conf' = [a \in Agent |-> IF a \in cmd.todo THEN None ELSE conf[a]]
    /\ cmd' = Idle
    /\ UNCHANGED <<hash, pane, views, issued, opened, counters>>

----------------------------------------------------------------------------
(* What the panes do by themselves *)

\* The session's MCP server resolves its token once, at startup.
SessionConnects(p) ==
    LET a == pane[p].agent IN
    /\ pane[p].kind = "session" /\ pane[p].state = "starting"
    /\ pane' = [pane EXCEPT ![p].state =
                   IF pane[p].token = hash[a] THEN "accepted" ELSE "refused"]
    /\ UNCHANGED <<hash, files, views, cmd, issued, opened, counters>>

\* So does a listener, which ends when it is refused.
ListenerConnects(p) ==
    LET a == pane[p].agent IN
    /\ pane[p].kind = "listener" /\ pane[p].state = "starting"
    /\ pane' = [pane EXCEPT ![p] =
                   IF pane[p].token = hash[a] THEN [@ EXCEPT !.state = "accepted"]
                                              ELSE Closed]
    /\ UNCHANGED <<hash, files, views, cmd, issued, opened, counters>>

BeginTurn(p) ==
    /\ pane[p].kind = "session" /\ ~pane[p].busy
    /\ pane' = [pane EXCEPT ![p].busy = TRUE]
    /\ cmd' = [cmd EXCEPT !.begun = IF cmd.does = "restart" THEN @ \union {p} ELSE @]
    /\ UNCHANGED <<hash, files, views, issued, opened, counters>>

EndTurn(p) ==
    /\ pane[p].busy
    /\ pane' = [pane EXCEPT ![p].busy = FALSE]
    /\ UNCHANGED <<hash, files, views, cmd, issued, opened, counters>>

Mishap == mishaps < MaxMishaps /\ mishaps' = mishaps + 1

\* A session is quit, a listener dies: the pane closes.
PaneEnds(p) ==
    /\ IsLive(p) /\ Mishap
    /\ Close(p)
    /\ widowed' = IF pane[p].kind = "session" THEN widowed \union {pane[p].agent} ELSE widowed
    /\ UNCHANGED <<hash, files, views, cmd, issued, opened, half, typed>>

\* What is left of a command that is cut short.
CutShort ==
    /\ cmd' = Idle
    /\ half' = IF cmd.pc \in {"files", "session", "record", "listener", "note"}
                 THEN half \union {Current} ELSE half
    /\ UNCHANGED <<hash, files, pane, views, issued, opened, widowed, typed>>

Interrupted == cmd.pc # "none" /\ Mishap /\ CutShort

\* respawn-pane of a pane that has closed since.
RespawnFails ==
    /\ cmd.pc = "session" /\ Was.session # None /\ ~IsLive(Was.session)
    /\ CutShort /\ UNCHANGED mishaps

----------------------------------------------------------------------------
LauncherInit ==
    /\ hash = [a \in Agent |-> None] /\ conf = [a \in Agent |-> None]
    /\ env = [a \in Agent |-> NoRecord] /\ pane = [p \in Pane |-> Closed]
    /\ views = FALSE /\ cmd = Idle
    /\ issued = 0 /\ opened = 0
    /\ half = {} /\ widowed = {} /\ typed = 0 /\ mishaps = 0

\* What is typed: up with the first few, a restart of one or of all.
Typed ==
    \/ \E n \in Agent : cmd_up(1..n)
    \/ \E named \in {None} \union Agent : cmd_add(named)
    \/ \E named \in {None} \union Agent, force \in BOOLEAN :
           cmd_restart(named, force)
    \/ \E a \in Agent : cmd_remove(a)
    \/ cmd_down

CommandStep ==
    \/ sync_agent \/ agent_command \/ OpenSession \/ WriteRecord
    \/ OpenListener \/ NoteListener
    \/ StopListener \/ StopSession \/ forget_agent
    \/ RespawnFails

LauncherNext ==
    \/ Typed \/ CommandStep \/ Interrupted
    \/ \E p \in Pane : \/ SessionConnects(p) \/ ListenerConnects(p)
                       \/ BeginTurn(p) \/ EndTurn(p) \/ PaneEnds(p)

LauncherSpec == LauncherInit /\ [][LauncherNext]_launcherVars

----------------------------------------------------------------------------
PaneState == [kind : {"none", "session", "listener"}, agent : Agent \union {None},
              state : {"starting", "accepted", "refused"},
              token : 0..MaxTokens, serves : Pane \union {None}, busy : BOOLEAN]

\* A record names panes that were opened; what lives in the one it calls the
\* listener's is that agent's listener.
LauncherTypeOK ==
    /\ hash \in [Agent -> 0..issued] /\ conf \in [Agent -> 0..issued]
    /\ pane \in [Pane -> PaneState]
    /\ env \in [Agent -> [token : 0..issued, session : Pane \union {None},
                          listener : Pane \union {None}]]
    /\ \A a \in Agent : LET l == env[a].listener IN
          IsLive(l) => pane[l].kind = "listener" /\ pane[l].agent = a
    /\ issued \in 0..MaxTokens /\ opened \in 0..MaxPanes
    /\ half \subseteq Agent /\ widowed \subseteq Agent
    /\ views \in BOOLEAN /\ cmd.todo \subseteq Agent

AtRest == cmd.pc = "none"

\* However agents are started, quit, restarted, removed and added again, none
\* runs twice, unless its start was cut short.
OneSession == \A a \in Agent \ half : Cardinality(Live("session", a)) <= 1

\* And never do two listeners type into one session (README.md:362, "A
\* listener runs beside each agent session"), unless its start was cut short.
OneVoice ==
    \A a \in Agent \ half : \A s \in Live("session", a) :
        Cardinality({p \in Live("listener", a) : pane[p].serves = s}) <= 1

\* Between commands the record names all that runs for an agent, so that
\* restart and remove can find it, unless its start was cut short or its
\* session had ended by itself.
Stoppable ==
    AtRest => \A a \in Agent \ (half \union widowed) :
        /\ Live("session", a) \subseteq {env[a].session}
        /\ Live("listener", a) \subseteq {env[a].listener}

\* Between commands an agent that runs has the board's present token in both
\* its files, and its session was not turned away, unless its start was cut
\* short.
StartedWorks ==
    AtRest => \A a \in running_agents \ half :
        /\ conf[a] = hash[a] /\ env[a].token = hash[a]
        /\ \A p \in Live("session", a) : pane[p].state # "refused"

\* A restart without --force cuts no turn that ran when it was typed
\* (README.md:139, "It refuses if an agent is busy"); it may cut one that
\* began since.
OnlyNewTurnsCut ==
    cmd.does = "restart" /\ ~cmd.force =>
        \A a \in cmd.todo : LET s == cmd.was[a].session IN
            cmd.pc # "none" /\ IsLive(s) /\ pane[s].busy => s \in cmd.begun

\* A step of a command replaces or closes no pane of any other agent, though
\* panes are known by ids from records that may be old, and tmux gives ids out
\* again (README.md:139-140, "Starts that agent afresh", "Closes that agent").
SparesOthers ==
    [][CommandStep => \A p \in Pane :
          IsLive(p) /\ pane'[p] # pane[p] => pane[p].agent = Current]_launcherVars
=============================================================================
