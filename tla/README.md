# A verification project for oratorio

Oratorio runs teams of AI agents in tmux and lets them talk over a durable
message board in PostgreSQL. This directory holds TLA+ models of the parts of
it where order, failure and concurrency decide whether it works, the TLC runs
that check them on small instances, and TLAPS proofs of what matters most.

All source paths are under `orchestration/` unless they say otherwise.
`PROJECT.json` maps every definition to the lines it models.

## 1. Inventory

| Component | Source | State | Operations |
|---|---|---|---|
| Board database | `schema/001`–`004` | agents, subscriptions, messages, delivery rows with two time stamps | CHECKs, `scope_message` and `fanout_message` triggers, `pending_delivery`, NOTIFY |
| Messages | `board_core/messages.py` | the tables | post, ack, read, undelivered, mark, requeue, claim overdue |
| Registry | `board_core/registry.py` | the tables | subscribe, unsubscribe, upsert, tokens, presence |
| Authentication, role sync | `board_core/auth.py`, `roles/sync_roles.py` | token hashes | resolve a token, issue, rotate |
| MCP servers | `mcp/` | the caller's identity, resolved once | the tools, each one transaction |
| Listener | `listener/listen.py`, `channels.py` | a lock, the timeout notes, the last thread; LISTEN connection | start, sweep, heartbeat, idle watch, notification loop with its reconnects |
| Session in tmux | `session/tmux.py`, hooks of `session/up.py:484` | two flag files, input box, conversation | ready, was_cleared, hand |
| Launcher | `session/up.py` | record files, token, panes | up, add, restart, remove, down; tiles, views, save |
| Tunnel keeper | `ops/scripts/board_tunnel.sh` | lock directory with a pid file, the ssh process | keep; up, down, status |
| Board view | `watch/board.py` | two cursors: an id, a time | poll, print, reconnect |
| Plan view | `watch/plan.py` | none | format a file |
| Pool, configuration | `board_core/db.py`, unit files | a library's pool | connect |

How they interact. An agent calls an MCP tool; the tool is one transaction on
the board; triggers make the delivery rows and NOTIFY the recipients' channels.
The recipient's listener LISTENs to the channels of its agent, which change with
its subscriptions, and sweeps on a notification, on a reconnect and by a timer:
it sees whether the session was cleared (a file), requeues what was open, claims
overdue requests of its agent, and while the session is idle hands over one
message at a time by typing it into the tmux pane and then marks it. The agent
acks. The session's hooks tell the
listener through files whether a turn runs. The launcher writes the records,
issues the tokens and starts sessions and listeners, which read the records and
resolve their tokens once. All of this goes through an ssh tunnel that one of
several keepers holds open. People watch the board through a view that polls.

What is hard here: sweeps start from three loops and run on threads; between a
sweep's commits, looks and keystrokes the human, the session, another command
or a failure may come in; the clear marker and the notes are consumed outside
the transaction they belong to; the launcher's commands can be cut short at
every step; the keepers' lock is several file operations; notifications are
lost with their connection, and the channels to listen to are read before they
are listened to; ids and stamps are fixed when a transaction begins and seen
when it commits. There are no timeouts on the agents themselves, and messages
are not lost, duplicated or reordered by any transport: they are rows.

What makes each component correct:

* board: nothing crosses workspaces; a delivery ends by ack or expiry only and
  never comes back; a chain of replies is finite in its wake-ups; who asks with
  a deadline is answered or told;
* listener and session: nothing handed over is forgotten, nothing is typed
  twice or into a turn, every message gets in, every timeout is told once;
* wake-up: what is posted while the listener is connected is swept without
  waiting for the timer, and the listener follows its agent's topics;
* launcher: one session and one listener per agent, both known to the record
  and with a token that works; no turn is cut by a restart that was to spare it;
* tunnel: one keeper works, another takes over, the tunnel comes up again;
* board view: nothing is shown twice or out of order, and nothing that commits
  in order is left out.

## 2. Plan

In order of importance, with what is done:

1. `Board`, the abstract `Mailbox` it implements, and `BoardProofs` — done.
2. `Session`, `Listener` (which composes Session with Board), `Lapses` (what it
   promises), `ListenerProofs` (no message is stranded; it implements the board)
   and `SweepProofs` (what is typed, when, and how often) — done.
3. `Wakeup` and `WakeupProofs` — done.
4. `TunnelKeeper` and `TunnelProofs` — done.
5. `Launcher` and `LauncherProofs` — done for one terminal.
6. `BoardView` and `BoardViewProofs` — done.

Left, in order:

7. `Launcher` with two terminals, the state file two `add` commands both write,
   and `sync_roles --rotate` beside running agents.
8. A board whose transactions overlap, for subscribe with backfill beside a post
   on the topic (`Board` has one committed transaction per action).
9. `Roster`: pure functions of `up.py` (`grid`, `tile_order`, `resolve_agent`,
   `model_for`) against reference definitions.

## 3. The modules and the code

**Board** — one action is one committed transaction. `log` is `board.message`
(an id is a place in it), `rows` the delivery rows, `handed` and `acked` the
rows with `delivered_at` and `acked_at` set, `noted` the messages with
`reply_timeout_noted_at` set. `PostMessage` is `messages.post_message` with the
INSERT, its CHECKs and both triggers (`Scoped`/`InScope`, `Fanout`); a call that
raises changes nothing and is no step. `RawInsert` is an INSERT somebody writes
by hand, which the triggers are there to survive (`SpecSQL`). An agent is the
pair of workspace and name that `agent_key` makes one string of. All agents are
active: no code clears `active`. Message text, thread titles and formatting are
left out.

**Mailbox** — the abstract specification of the board's deliveries: each comes
once, waits, is given, may be taken back to wait again together with all else
its agent was given, and ends once, by itself or with the other deliveries of
its message. `Board` implements it (`ImplementsMailbox`) with `waiting`, `given`
and `closed` read off `rows`, `handed`, `acked` and the clock: the columns and
the view `pending_delivery` of `003_persistent_agents.sql:46-69`.

**Session** — what the rest of the system can see of a Claude Code session: the
two flag files, the hooks still to run, the turn, what is in the input box (the
human's text, `draft`, and the board's, `pasted`) and which messages are in the
conversation. `ready()` and `hand()` are not steps but operators, one for every
look and write in them: `BoxEmpty` and `LooksStuck` are the looks at the screen,
`TouchFlag` and `DropFlag` the writes of the flag, `Paste` and `PressEnter` the
typing. What is pasted stays in the box until somebody presses Enter, who may be
the human, or erases it. SessionStart hooks run some time after a start or
`/clear`, before a prompt is taken up.

**Listener** — extends Board and Session. `process` is the listener's process
(`systemd` or the user starts it again), `pc[t]` where each thread is in
`sweep`, `lock` is `_sweep_lock`, `notes` is `_timeout_notes`. A sweep is cut
before every commit, look and keystroke:

| Code | Steps |
|---|---|
| lock, `was_cleared`, the two commits | `BeginSweep`, `Requeue`, `Claim` |
| `ready()` with the flag in place | `Look` (the flag), `Peek` (the box; `PeekBlind` when the screen cannot be captured) |
| `_stuck_but_idle` | `LookAtScreen`, then `Unstick` puts the flag back |
| `undelivered`, or a note | `Query` |
| `hand()` | `Hand` (drops the flag), `PasteText`, the settle pause, `Enter` |
| `mark_delivered` and its commit | `Mark` |

`WatchLooks` and `WatchTouches` are the same `_stuck_but_idle` asked by the idle
watch (`wants_sweep`), which holds no lock: a sweep may do anything between
the two. Whether the watch asks at all depends on the backlog flag, which it
has from the last sweep; the model leaves that open and lets it ask whenever the
screen stands still, at most `Budget["watch"]` times.

Failures: `DatabaseFails` (at any of the commits), `ClaimRolledBack` (rows read,
commit failed), `TmuxFails` (the paste or the Enter refused; the two timers log
any exception and go on), `Crash`, at any step, the settle pause included. In the
notification loop nothing catches what tmux raises: that is a `Crash` at the
same point. `RestartFiles`, `RestartPane` and `RestartListener` are the steps of
`oratorio restart` on this agent, beside the old listener, and `RestartCut`
ends it after any of them. The other agents post; so does this one, to others,
in its turns. `spent` counts the mishaps, each at most `Budget` times and no more
than `Kinds` kinds of them; `told` is a history of notes typed.

**Lapses** — extends Listener by what it promises, and a history, `lapses`, of
the weak points that were hit and not yet made good:

| Lapse | Hit when | Made good when |
|---|---|---|
| `requeue` | a requeue that was due does not come: the sweep or the process ends after the marker was removed, or a restart is cut short | the next requeue commits |
| `erase` | the listener's text is erased from the box before its Enter, and marked all the same | the next requeue commits |
| `mark` | a message is in the box or sent, and its mark does not come: Enter refused, process killed in the settle pause or later, database failure | all that the session has is marked, or about to be (`MarksRight`) |
| `resent` | a requeue takes back what a living conversation still has | the same |
| `notes` | a note is forgotten with its process, or popped before a refused paste | never |
| `claim` | the commit of a claim fails after its rows were read | never |
| `flag` | the start-up hook, or the idle watch, sets the flag when a prompt is on its way or being typed | flag, turn and every look agree again (`PictureRight`) |
| `prompt` | somebody else sends a prompt | the same: its own hook has dropped the flag, and no sweep goes on from a look before it |

Each property excepts its own lapses, only while they last: it holds through any
crash, failure, `/clear`, restart, draft or interrupt at any other moment, and
again afterwards. Left without one of its lapses, each fails.

**Wakeup** — what makes a listener sweep. `Post`, `Subscribe`, `Unsubscribe` and
`OthersChange` are commits of the board with their NOTIFY
(`004_workspaces.sql:80-94`); a backfill brings rows without one. The loop of
`run` is `Connect`, `ReadChannels` (by another connection), `Listen` to each
channel, `Listening`, `SweepNow`, `Take` the next notification, `NoticeBroken`.
`Breaks`, `PoolFails` and `Dies` are its failures, `TimerSweep` is
`_periodic_sweep`. A sweep is one look here, and what it finds stays found after
`Dies`: that a message found is handed over is Listener's part. `unheard` and
`overlooked` are histories: a message nobody was listening for, a change of
topology nobody heard of. A notification that arrives while LISTEN executes is
kept in the queue, as psycopg does since 3.2.4 (the requirements say `>=3.2.0`).

**TunnelKeeper** — `board_tunnel.sh keep` by several processes: `take_lock` cut
at every file operation, the read of the pid and the `kill -0` of what was read
included (`rm -rf` is two), `check` with its timeout, the reopening, the EXIT
trap, death with and without it. A pid is a keeper's own for ever: that
`kill -0` may take another process with a dead keeper's number for it, and wait
for that one to end, is left out. `raced` is a history: a keeper was about to
change the lock while another one was looking at it. `InOrder` says what
keepers at the lock take for granted of it; `OrderLasts`, that it stays true
unless two race again. The one-shot commands `up`, `down` and `status` are not
modelled.

**Launcher** — the commands on one workspace from one terminal, cut at every
commit, file and tmux call (`sync_agent`, `agent_command`, `OpenSession`,
`WriteRecord`, `OpenListener`, `NoteListener`; `StopListener`, `StopSession`,
`forget_agent`), with sessions and listeners that resolve their token when they
get round to it, sessions that are quit and listeners that die. Agents are
those of one role marked `multiple`, so `resolve_agent` has something to choose.
Any command may be cut short anywhere (`Interrupted`): Ctrl-C, a tmux without
room, a database away are the same to what is left behind. Pane ids start again
when the tmux server has ended. Runners, models, tiles, windows and labels are
left out; so is `down`'s removal of the directory. The views are opened after
the last agent of `up`, or of a restart of everything (`whole`); a view
restarted by itself is left out. What a session works on while its listener
has an old token, after a restart was cut short, is asked here
(`StartedWorks`), and in Listener only as far as messages go.

**BoardView** — the view of `watch/board.py` beside the transactions it reads.
It follows messages by id (`last_id`) and events by the database's clock
(`seen_until`, `until`). `BeginPost` takes an id, `BeginStamp` the time,
`CommitPost` and `CommitStamp` make them visible, `Rollback` never does,
`RequeueUnacked` takes stamps back. The view: `Start`, `ShowHistory`,
`SkipToNewest`, then `ShowMessages`, `AskTime`, `ShowEvents` in turn, with
`LoseConnection` anywhere and `Reconnect`. Histories say why something may be
missing: `overtaken` (committed after a higher id), `slow` (the view read the
clock while its transaction ran), `gap` and `away` (nobody followed the board).
A message has one recipient. What is printed of it is left out.

Only the MC modules name model values. No module has a RECURSIVE operator;
`Hops` is a recursive function.

## 4. The runs

| Run | Shows | Bounds and why they are enough |
|---|---|---|
| MCBoard | `TypeOK`, `NoEcho`, `WorkspaceIsolation`, `OnlyAckConsumes`, `NeverRevived`, `ImplementsMailbox`, under every operation and hand-written INSERT (`SpecSQL`) | two workspaces with a namesake in each, one topic, two messages, one tick: a recipient, a topic, a broadcast and a parent can each be foreign; every order of post, mark, requeue, ack, expiry and backfill on one row and beside another |
| MCLapses | `ListenerTypeOK`, `NoStranded`, `NoteKept`, `ToldOnce`, `AnsweredOrToldInBudget`, `NeverTypesMidTurn`, `NoRepeat` | two sweep threads, two messages, every request with a deadline of one tick, any two kinds of mishap (`Kinds`) of the ten, once each, `ORCH_SESSION_KEPT` set or not |
| MCListenerLive | `EverythingHandedIn`, `HopBudget` | as MCLapses, without `ORCH_SESSION_KEPT`, and hop budget 1, so that the second message may be past it and must wake nobody; one sweep thread, as the lock admits one at a time and a thread that waits for it changes nothing (MCLapses has two). `EverythingHandedIn` excepts what a database failure (MCListenerFault), a restart cut short or an erased text strands; without one of the exceptions it fails |
| MCWakeup | `WakeupTypeOK`, `NeverNeither`, `FollowsTopics`, `SweptOnNotice` | two topics, two messages, three changes of topology (subscribe, unsubscribe and one more), two failures: one while the loop recovers from the other |
| MCTunnelKeeper | `TunnelTypeOK`, `OneWorksUnlessRaced`, `OrderLasts`, `SettlesOnOne`, `SomeoneWorks`, `ComesUp` | two keepers, the tunnel breaks twice, either by going away or by hanging |
| MCLauncher | `LauncherTypeOK`, `OneSession`, `OneVoice`, `Stoppable`, `StartedWorks`, `OnlyNewTurnsCut`, `SparesOthers` | two agents, three commands, two mishaps: an interrupted command, its repetition and one more; six panes, four tokens: one for every start |
| MCBoardView | `ViewTypeOK`, `PrintedOnceInOrder`, `EventsOnce`, `NoMessageSkipped`, `NoEventSkipped` | two posts and two stamps that may overlap each other and the polls, six readings of the clock (two stamps, two polls, two starts), one lost connection, a history of one message so that one is left out |
| MCBoardAnswers | violates `AnsweredOrTold` | hop budget 2, three messages: a chain one longer than the budget |
| MCListenerFault | violates `HandedBack` | one `/clear`, one database failure |
| MCListenerNotesCrash | violates `Told` | one crash |
| MCBoardViewEvents | violates `EveryEventShown` | no connection lost |
| MCTunnelRace | violates `OnlyOneWorks` | two keepers, no loss |

The five runs that find a violation are disagreements between the code and
what the repository says of it (section 7).

Deadlock is checked in MCWakeup (the timer may always sweep, and so the loop may
wait) and MCBoardAnswers. The others say `CHECK_DEADLOCK FALSE`, as the system
may stop: commands are all typed, every keeper is gone, nobody has anything left
to say within the bounds, or the clock of the view has run out.

Symmetry: `Swaps` exchanges the two workspaces and the two names, `Threads` the
sweep threads; no property names one of them, and both are used in runs without
liveness only. The view `Deadlines` leaves out the stamps on rows, which neither
`AnsweredOrTold` nor the guards of the steps that matter to it read.

Several properties name a history variable: those of Lapses their lapses,
`OneWorksUnlessRaced` a race, the ones of Launcher except agents in `half`, and
those of Wakeup and BoardView what was missed and why. A run's behaviours
include those where the exception applies; without it the property is false, in
most cases for a reason listed under `hazards`. Some are wider than the code
makes necessary: the lapse `prompt` is hit by every prompt of a human, although
most are harmless, and lasts until the session's hook has run for it; `half` lasts
until the next `up`; `notes` and `claim` last for ever. `HandedBack` and `Told`, which MCListenerFault and
MCListenerNotesCrash refute, are `NoStranded` and `NoteKept` without their
exceptions.

## 5. Fairness

* `Sweep(t)` is weakly fair: a sweep once begun goes on, and the timer of
  `HEARTBEAT_SECONDS` begins a new one. NOTIFY only makes it sooner.
* `Loop` is weakly fair in Wakeup: the notification loop goes on, and reconnects
  as often as it must (`run` tries again after `RECONNECT_DELAY_SECONDS`). Nothing
  is assumed of the timer there, so that `SweptOnNotice` shows what
  notifications do without it.
* `LookAtScreen` is strongly fair: a screen that stands still while the flag is
  missing is noticed at one of the sweeps that look.
* `StartSession` and `Launch` are weakly fair: the start is retried until the
  database answers, and the unit file says `Restart=` (in tmux: a person).
* `RestartPane \/ RestartListener \/ RestartCut` is weakly fair: a restart once
  begun goes on or is cut short, and does not stand still for ever. It need
  not finish.
* The session takes up prompts, ends turns and runs its hooks; what is in the
  input box is sent or erased by the human, a text the listener could not send
  included. Without that nothing more would be typed, by design.
* A keeper's steps are weakly fair; reopening is strongly fair (ssh to a server
  that answers does not fail for ever). And time and again no keeper is between
  two steps of the lock: each sleeps `CHECK_SECONDS`, ten seconds, between tries
  that take milliseconds. Without it two keepers in lockstep could take a half
  made lock from each other for ever.
* Nothing is assumed of the humans who type commands; Launcher has safety
  properties only, and so has BoardView.

## 6. The proofs

`BoardProofs` (for any workspaces, names, topics, deadlines and bounds):

* `BoardTypeCorrect` — `TypeOK` under `SpecSQL`, one step per action. It is what
  makes `log[i]` mean something in every other proof.
* `WorkspacesIsolated` — inductive together with `TypeOK` and the fact that a
  message's `workspace` is its sender's, which the trigger establishes whoever
  wrote the row.
* `OnlyAcksConsume`, `FinishedStaysFinished` — the two action properties, from
  the type invariant: the clock only goes forward, the log only grows, `acked`
  only grows.
* `NobodyEchoed` — `NoEcho`: an author is never among the rows of its own
  message, through fan-out and backfill.
* Lemmas for `AskersHear` below: a reply that arrived is in the log with the
  request as its parent, so it counts as the answer (`RepliesCount`); a direct
  reply within the budget arrives (`DirectArrives`); a due request without an
  answer was claimed or is what the next claim finds (`RequestsClaimed`).
* `HopsBudgeted` — `Spec => HopBudget`. `Hops` counts the replies above a
  message and is a recursive function, of which the prover knows nothing until
  it is shown to exist; and that `depth` is what `Hops` has left of the budget
  (`DepthByHops`, from `RepliesCount` and `RootsFull`) is a fact about chains of
  any length. There is no induction theorem to cite for either (it would take an
  operator as a parameter), so both argue by the smallest counterexample
  (`FirstOf`), from the well-founded order of the natural numbers.
* `BoardImplementsMailbox` — `SpecSQL => ImplementsMailbox`, one step per
  operation. From `TypeOK`, for without it a row may be of no message.

`ListenerProofs` (for any number of sweep threads, any `Budget`, any `Keeps`):

* `ListenerImplementsBoard` — `ListenerSpec => Spec`: every step of listener,
  session, human and restart is a step of the board or leaves it alone, so the
  theorems about Board carry over.
* `NothingStranded` — `LapsesSpec => []NoStranded`. `NoStranded` is not
  inductive. Between typing a message and marking it, a thread remembers the
  message while the board does not; a `/clear` there wipes it from the
  conversation and the mark comes later. So the invariant `HandoverInv` says
  three things: a thread in a sweep holds the lock and its process is up
  (`OneSweep`); a thread about to press Enter has its message in the box, one
  about to mark has it in the conversation, or a requeue is on its way
  (`TypedIsKnown`); and the same of every row handed over (`HandedIsKnown`) — the
  last two unless a requeue was lost or the text erased, and again from the next
  requeue on, which is why `lapses` may shrink. `OneSweep` is needed because a
  requeue settles the other messages only: were a second thread between typing
  and marking while the first requeues, its mark would come after the requeue
  that was to hand the message back. That is the reason for `_sweep_lock`.

`SweepProofs` (the same constants), with an invariant for each question:

* `ListenerTypeCorrect`, `NothingRepeated`, `NothingTypedMidTurn`,
  `NobodyToldTwice`, `NotesAreKept`, `AskersHear`.
* `SweepInv` says that one thread sweeps and that what it is about to type it
  has. For `NothingTypedMidTurn`, `QuietInv` says that `PictureRight` holds unless
  the flag was set late or somebody else sent a prompt: the idle flag means an
  idle turn with nobody typing, and whoever has looked and not yet pressed Enter
  has an idle session; without it nothing relates the flag a thread saw to the
  turn it types into. The lapses end when
  `PictureRight` is true again, so a step out of a lapse has nothing to prove but
  that.
* For `NothingRepeated`, `RememberInv` says that `MarksRight` holds unless a mark
  was lost or a requeue took something back: whatever is in the conversation or
  the box is marked or about to be, so the query does not return it.
* `NotesInv` follows a timeout from its claim into `notes` and into `told`:
  claimed once, in one place at a time. `AskersHear` (`AnsweredOrToldInBudget`)
  joins the two halves: `NotesAreKept` from the stamp of the claim to the note in
  the input box, and `RequestsClaimed`, which holds of the listener's board by
  `ListenerImplementsBoard`, from the deadline to the stamp. Told means that the
  note was put into the input box: from there it is the human's as much as the
  listener's, and a `/clear` does not bring it back.
* What is added to `lapses` depends on the step alone, so each lemma is about a
  step of Listener that is not one of the lapses, and the theorem puts the
  history back.

`WakeupProofs` (for any topics and bounds): `WakeupTypeCorrect`, `NeitherNever`
and `TopicsFollowed`. `NeverNeither` is
inductive with the type invariant; `FollowsTopics`, which speaks of the loop at
rest, needs `TopicsInv` for the way there: a topic subscribed to is listened to,
or wanted, or its notification is in the queue, or the loop is about to read
the channels.

`TunnelProofs` (for any number of keepers, any `MaxLosses`):

* `TunnelTypeCorrect` — `TunnelTypeOK`, which also says that a pid file lies in
  a lock directory.
* `OneWorks` — `TunnelSpec => []OneWorksUnlessRaced`. That one keeper works is
  not inductive: nothing in it says why a second one does not come by the lock.
  `LockInv` adds that a keeper whose pid is in the file was started (`Named`)
  and, as long as `raced` is false, `InOrder`: a worker is the keeper named in
  the pid file, a keeper about to remove the file finds a dead owner's pid or
  its own in it, one about to write finds none, and nobody else is at the lock
  meanwhile (`NoRace`). `MCTunnelRace` shows what happens without the last.
* `OrderIsKept` — `OrderLasts`, from the same lemma about a step (`OrderStep`):
  a lock in order stays so through any step that is not into a race. It says
  of the time after a race what `OneWorks` says of the time before the first.

`LauncherProofs` (for any number of agents, panes, tokens, commands and mishaps):

* `LauncherTypeCorrect`, `OneSessionEach`, `OneVoiceEach`, `AllIsStoppable`,
  `WhatStartsWorks` from one inductive invariant, `LauncherInv`. None of them is
  inductive: `Stoppable` is about the panes and the records, while `restart` and
  `add` know the agents by the picture they took when they began (`was`). So the
  invariant says what holds at each step of a command, one part for a start from
  nothing (`StartsAfresh`), a restart (`Replaces`), a removal (`Removes`), `down`
  (`TakesDown`) and the writing of a record (`Writes`): which pane is an
  agent's session and which its listener while a command is half way
  (`SessionOf`, `ListenerOf`), that there is no other (`OnlySession`, `OnlyVoice`,
  `NoneLeft`), and where the token is out of date (`Tokens`). Steps that only
  take panes away or leave them as they are (`Fades`) are treated together.
* `OldTurnsAreSpared` — `OnlyNewTurnsCut`: a restart that was to spare turns has
  no session on its list that was in one when it looked. By the same invariant
  and what a step does to a restart's picture (`SparesTurns`).
* `OthersAreSpared` — `SparesOthers`: by `References`, every recorded pane was
  opened by this tmux server and runs what it was recorded for or nothing, and a
  new pane has an id that no living pane has.

`BoardViewProofs` (for any history and bounds): `ViewTypeCorrect`,
`MessagesPrintedOnce`, `EventsPrintedOnce`, `MessagesNotSkipped`,
`EventsNotSkipped`. `ViewInv` says that what has been printed lies behind the
cursors, which only move forward; `MessagesInv` and `EventsInv` that what lies
behind them has been printed, or is in one of the histories, between the steps
of a poll too. `StampsInv` is the same of what has not committed: a stamp still ahead of the
cursor, unless the view read the clock meanwhile (`slow`).

The assumptions are those named in the modules (`ConstantsAssumption`,
`ListenerAssumption`, `KeeperAssumption`, `WakeupAssumption`, `ViewAssumption`,
`LauncherAssumption`): the bounds are natural numbers, `None` and `NoPid` are not
values, and no topic has the name of one of the agent's own channels.

Only model-checked: liveness (`EverythingHandedIn`, `SettlesOnOne`,
`SomeoneWorks`, `ComesUp`, `SweptOnNotice`), which is out of the prover's reach
under fairness. Every invariant and action property that a
passing run checks is a theorem.

## 7. Where the code and its documentation disagree

* **A reply nobody gets silences the timeout** (MCBoardAnswers). Deep in a
  chain a reply is stored and delivered to nobody; `claim_overdue_requests`
  takes it for the answer, and the sender is told nothing.
* **A database failure can lose a `/clear`** (MCListenerFault). The marker file
  is removed before the requeue commits.
* **A listener that dies forgets claimed timeouts** (MCListenerNotesCrash). The
  claim is committed when the note exists in memory only.
* **Two tunnel keepers can work at once** (MCTunnelRace), when they start, or
  find a dead keeper's lock, together. `SettlesOnOne` shows that it does not
  last: at its next round each reads the pid again.
* **The view misses slow hand-overs** (MCBoardViewEvents). An event is stamped
  with the start of its transaction, which lasts while the message is typed; a
  poll that reads the clock meanwhile moves its cursor past the stamp.

Met while modelling and recorded as hazards: a failed commit of the claim tells
the sender twice (`listen.py:123`); a note is popped before `hand` returns
(`listen.py:143`); a human's prompt between the idle check and the typing
(`listen.py:126`); a text pasted whose Enter is refused (`tmux.py:232`); the idle
watch's look outside the lock (`listen.py:157`); a restart cut short beside the
running listener (`up.py:693`); backfill
hands out messages past the hop budget (`registry.py:132`); a start cut short
between the panes and the record (`up.py:743`); a listener left behind by a
session that was quit (`up.py:575`); a message subscribed to just now that waits
for the timer (`listen.py:221`); a message with a lower id that commits late, or
is posted while the view has lost its connection, which the view never shows
(`watch/board.py:201` and `:235`). The repository's README contradicts itself
on `/clear` (line 381: the listener cannot tell; line 434: it notices); the code
does what line 434 says.

## 8. Not modelled

* Codex sessions, the parsing of screens (`idle_screen`, `has_typed_text`) and
  the text typed (`format_item`, hints, nudges): the model has their outcome.
* Presence (`heartbeat`, `register`): nothing but people reads it.
* The HTTP MCP server, the database pool, the read-only tools and lists.
* Tiles, windows, `open`, `save`, `status`, models and runners of the launcher:
  they keep no state the properties are about.
* Commands typed at the same time in two terminals, with the state file;
  `sync_roles` by hand and `--rotate`.
* Transactions of the board that overlap: `Board` takes each for one step, and
  `BoardView` has overlap in posts and stamps only.
* The one-shot commands of the tunnel script.
* The plan view, which formats a file and keeps no state.
