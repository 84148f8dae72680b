--------------------------- MODULE ListenerProofs ---------------------------
(* The listener and the session run on the board as Board describes it, and *)
(* while no requeue is lost no message is ever stranded: handed over as far *)
(* as the board knows, and in front of nobody.                              *)
EXTENDS Lapses, BoardProofs

LEMMA MeIsAgent == Me \in Agent
  BY ListenerAssumption, ConstantsAssumption

----------------------------------------------------------------------------
(* The listener implements the board *)

LEMMA SweepIsBoardStep ==
    ASSUME TypeOK, NEW t \in Sweeper,
           \/ Sweep(t) \/ LookAtScreen(t) \/ PeekBlind(t)
           \/ DatabaseFails(t) \/ ClaimRolledBack(t) \/ TmuxFails(t)
    PROVE  [Next]_boardVars
  <1> USE MeIsAgent
  <1>1. CASE Requeue(t)
    BY <1>1 DEF Requeue, Next
  <1>2. CASE Claim(t)
    BY <1>2 DEF Claim, Next
  <1>3. CASE Mark(t)
    <2>1. CASE MarkDelivered(Me, picked[t])
      <3>1. picked[t] \in Ids
        BY <2>1 DEF MarkDelivered, TypeOK
      <3> QED
        BY <2>1, <3>1 DEF Next
    <2>2. CASE UNCHANGED boardVars
      BY <2>2
    <2> QED
      BY <1>3, <2>1, <2>2 DEF Mark
  <1>4. CASE UNCHANGED boardVars
    BY <1>4
  <1> QED
    BY <1>1, <1>2, <1>3, <1>4
    DEF Sweep, BeginSweep, Look, Peek, PeekBlind, LookAtScreen, Unstick, Query,
        Hand, PasteText, Enter, DatabaseFails, ClaimRolledBack, TmuxFails

LEMMA StepIsBoardStep ==
    TypeOK /\ [ListenerNext]_vars => [Next]_boardVars
  <1> SUFFICES ASSUME TypeOK, [ListenerNext]_vars PROVE [Next]_boardVars
    OBVIOUS
  <1> USE MeIsAgent
  <1>1. CASE UNCHANGED boardVars
    BY <1>1
  <1>2. CASE StartSession
    BY <1>2, <1>1 DEF StartSession, Next
  <1>3. CASE OthersPost
    BY <1>3 DEF OthersPost, Next
  <1>4. CASE AgentPosts
    BY <1>4 DEF AgentPosts, Next
  <1>5. CASE AgentAcks
    BY <1>5 DEF AgentAcks, Next
  <1>6. CASE TimePasses
    BY <1>6 DEF TimePasses, Next
  <1> QED
    BY <1>1, <1>2, <1>3, <1>4, <1>5, <1>6, SweepIsBoardStep
    DEF ListenerNext, Crash, Launch, RestartFiles, RestartPane,
        RestartListener, RestartCut, SessionSteps, HumanSends, HumanErases,
        HumanActs, WatchLooks, WatchTouches, vars

LEMMA BoardTypeStep == TypeOK /\ [ListenerNext]_vars => TypeOK'
  BY StepIsBoardStep, StepKeepsType

\* With everything a listener, a session and a human do around it, the board
\* sees nothing but its own operations.
THEOREM ListenerImplementsBoard == ListenerSpec => Spec
  <1>1. ListenerInit => Init
    BY DEF ListenerInit
  <1> QED
    BY <1>1, InitType, StepIsBoardStep, BoardTypeStep, PTL
    DEF ListenerSpec, Spec

----------------------------------------------------------------------------
(* The history of lapses *)

\* Recording what is lost changes nothing of what happens.
LEMMA LapsesAside == LapsesSpec => ListenerSpec
  <1>1. [ListenerNext /\ Recorded]_lapseVars => [ListenerNext]_vars
    BY DEF lapseVars
  <1> QED
    BY <1>1, PTL DEF LapsesSpec, ListenerSpec

\* A weak point that is not on record has not been hit, or it has been made
\* good since.
LEMMA OnRecord ==
    ASSUME Recorded, NEW l \in Lapse, l \notin lapses'
    PROVE  MadeGood(l) \/ (~Hit(l) /\ l \notin lapses)
  BY DEF Recorded

LEMMA LapseOnRecord ==
    ASSUME Recorded
    PROVE  /\ "requeue" \notin lapses' =>
                RequeueDone \/ (~RequeueLost /\ "requeue" \notin lapses)
           /\ "erase" \notin lapses' =>
                RequeueDone \/ (~TextErased /\ "erase" \notin lapses)
           /\ "mark" \notin lapses' =>
                MarksRight' \/ (~MarkLost /\ "mark" \notin lapses)
           /\ "resent" \notin lapses' =>
                MarksRight' \/ (~Resent /\ "resent" \notin lapses)
           /\ "notes" \notin lapses' => ~NoteLost /\ "notes" \notin lapses
           /\ "claim" \notin lapses' => ~ClaimLost /\ "claim" \notin lapses
           /\ "flag" \notin lapses' =>
                PictureRight' \/ (~FlagLate /\ "flag" \notin lapses)
           /\ "prompt" \notin lapses' =>
                PictureRight' \/ (~PromptSent /\ "prompt" \notin lapses)
  <1>1. /\ Hit("requeue") <=> RequeueLost
        /\ Hit("erase") <=> TextErased
        /\ Hit("mark") <=> MarkLost
        /\ Hit("resent") <=> Resent
    BY Zenon DEF Hit
  <1>2. /\ Hit("notes") <=> NoteLost
        /\ Hit("claim") <=> ClaimLost
        /\ Hit("flag") <=> FlagLate
        /\ Hit("prompt") <=> PromptSent
    BY Zenon DEF Hit
  <1>3. /\ \A l \in {"requeue", "erase"} : MadeGood(l) => RequeueDone
        /\ \A l \in {"mark", "resent"} : MadeGood(l) => MarksRight'
        /\ \A l \in {"notes", "claim"} : ~MadeGood(l)
        /\ \A l \in {"flag", "prompt"} : MadeGood(l) => PictureRight'
    BY DEF MadeGood
  <1> QED
    BY <1>1, <1>2, <1>3, OnRecord DEF Lapse

----------------------------------------------------------------------------
(* No message is stranded.  NoStranded is not inductive: whether a message  *)
(* about to be marked as handed over is in front of the agent depends on    *)
(* what the thread that typed it remembers, and a requeue only settles the  *)
(* others' messages because no other thread is between typing and marking.  *)

Phase == {"waiting", "requeue", "claim", "loop", "peek", "stuck", "held", "query",
          "hand", "paste", "enter", "mark"}

\* A thread in a sweep holds the lock, and belongs to a process that is up.
OneSweep ==
    /\ pc \in [Sweeper -> Phase]
    /\ \A t \in Sweeper : pc[t] # "waiting" => lock = t /\ process = "up"

InHand(i) == <<i, Me>> \in handed \ acked

HandedIsKnown == \A i \in Nat : InHand(i) => i \in context \/ ToBeRequeued

TypedIsKnown ==
    \A t \in Sweeper :
        /\ pc[t] = "enter" =>
              picked[t] \in pasted \union context \union {Note} \/ ToBeRequeued
        /\ pc[t] = "mark" => picked[t] \in context \/ ToBeRequeued

Known == HandedIsKnown /\ TypedIsKnown

HandoverInv == OneSweep /\ (NoneOf({"requeue", "erase"}) => Known)

\* What a step does for it, but where a requeue or a typed text is lost.
HandoverFollows ==
    /\ OneSweep'
    /\ RequeueDone \/ (~RequeueLost /\ ~TextErased /\ Known) => Known'

LEMMA HandoverInit == ListenerInit => OneSweep /\ Known
  BY DEF ListenerInit, Init, SessionInit, OneSweep, Phase, Known,
     HandedIsKnown, InHand, TypedIsKnown

LEMMA ProcessSteps ==
    ASSUME OneSweep,
           Crash \/ Launch \/ StartSession
             \/ RestartFiles \/ RestartPane \/ RestartListener \/ RestartCut
    PROVE  HandoverFollows
  <1> USE DEF HandoverFollows, OneSweep, Phase, Known, HandedIsKnown, TypedIsKnown,
              InHand, ToBeRequeued, Fresh, RequeueLost, RequeueDone
  <1>1. CASE Crash
    BY <1>1 DEF Crash, boardVars, sessionVars
  <1>2. CASE Launch
    BY <1>2 DEF Launch, boardVars, sessionVars
  <1>3. CASE StartSession
    BY <1>3 DEF StartSession, RequeueUnacked, Unacked, boardVars, sessionVars
  <1>4. CASE RestartFiles
    BY <1>4 DEF RestartFiles, processVars, boardVars
  <1>5. CASE RestartPane
    BY <1>5 DEF RestartPane, Respawn, processVars, boardVars
  <1>6. CASE RestartListener
    BY <1>6 DEF RestartListener, boardVars, sessionVars
  <1>7. CASE RestartCut
    BY <1>7 DEF RestartCut, boardVars, sessionVars, processVars
  <1> QED
    BY <1>1, <1>2, <1>3, <1>4, <1>5, <1>6, <1>7

LEMMA WorldSteps ==
    ASSUME OneSweep,
           OthersPost \/ AgentPosts \/ AgentAcks \/ TimePasses
             \/ SessionSteps \/ HumanSends \/ HumanErases \/ HumanActs
             \/ WatchLooks \/ WatchTouches
             \/ UNCHANGED vars
    PROVE  HandoverFollows
  <1> USE DEF OneSweep, Phase, Known, HandedIsKnown, TypedIsKnown, InHand,
              ToBeRequeued
  <1>0. ~RequeueDone
    BY DEF RequeueDone, OthersPost, AgentPosts, AgentAcks, TimePasses,
           SessionSteps, HumanSends, HumanErases, HumanActs, WatchLooks,
           WatchTouches, vars, listenerVars, processVars
  <1> SUFFICES OneSweep' /\ (~TextErased /\ Known => Known')
    BY <1>0 DEF HandoverFollows
  <1>1. CASE OthersPost \/ AgentPosts
    <2>1. PICK a \in Agent, q \in Request : PostMessage(a, q)
      BY <1>1, MeIsAgent DEF OthersPost, AgentPosts
    <2>2. UNCHANGED <<handed, acked>>
      BY <2>1 DEF PostMessage, Insert
    <2>3. UNCHANGED <<sessionVars, listenerVars>>
      BY <1>1 DEF OthersPost, AgentPosts
    <2> QED
      BY <2>2, <2>3 DEF sessionVars, listenerVars, processVars
  <1>2. CASE AgentAcks
    BY <1>2 DEF AgentAcks, AckMessage, sessionVars, listenerVars, processVars
  <1>3. CASE TimePasses
    BY <1>3 DEF TimePasses, Tick, sessionVars, listenerVars, processVars
  <1>4. CASE SessionSteps
    <2>1. /\ UNCHANGED <<handed, acked, pasted, context>>
          /\ UNCHANGED listenerVars
      BY <1>4 DEF SessionSteps, TakePrompt, EndTurn, RunHook, boardVars
    <2>2. cleared_marker \/ "marker" \in hooks
            => (cleared_marker \/ "marker" \in hooks)'
      <3>1. CASE RunHook
        <4>1. PICK h \in hooks : /\ hooks' = hooks \ {h}
                                 /\ cleared_marker' = (cleared_marker \/ h = "marker")
          BY <3>1 DEF RunHook
        <4>2. CASE h = "marker"
          BY <4>1, <4>2, Zenon
        <4>3. CASE h # "marker"
          BY <4>1, <4>3, Zenon
        <4> QED
          BY <4>2, <4>3
      <3>2. CASE UNCHANGED <<cleared_marker, hooks>>
        BY <3>2
      <3> QED
        BY <1>4, <3>1, <3>2 DEF SessionSteps, TakePrompt, EndTurn
    <2> QED
      BY <2>1, <2>2 DEF listenerVars, processVars
  <1>5. CASE HumanSends
    BY <1>5 DEF HumanSends, Submit, PressEnter, boardVars, listenerVars, processVars
  <1>6. CASE HumanErases
    <2>1. /\ UNCHANGED <<handed, acked, cleared_marker, hooks, context, restart>>
          /\ UNCHANGED processVars /\ pasted' = {}
      BY <1>6 DEF HumanErases, Erase, boardVars
    <2>2. ~TextErased => \A t \in Sweeper : pc[t] = "enter" => picked[t] \notin pasted
      BY <2>1 DEF TextErased
    <2> QED
      BY <2>1, <2>2 DEF processVars
  <1>7. CASE HumanActs
    BY <1>7 DEF HumanActs, Type, Clear, Interrupt, boardVars, processVars
  <1>8. CASE UNCHANGED vars
    BY <1>8 DEF vars, boardVars, sessionVars, listenerVars, processVars
  <1>9. CASE WatchLooks \/ WatchTouches
    BY <1>9 DEF WatchLooks, WatchTouches, TouchFlag, boardVars, sessionVars
  <1> QED
    BY <1>1, <1>2, <1>3, <1>4, <1>5, <1>6, <1>7, <1>8, <1>9

LEMMA SweepSteps ==
    ASSUME OneSweep, NEW t \in Sweeper,
           Sweep(t) \/ LookAtScreen(t) \/ PeekBlind(t)
             \/ DatabaseFails(t) \/ ClaimRolledBack(t) \/ TmuxFails(t)
    PROVE  HandoverFollows
  <1> USE ListenerAssumption
      DEF HandoverFollows, OneSweep, Phase, Known, HandedIsKnown, TypedIsKnown,
          InHand, ToBeRequeued, Goto, Leave, RequeueDone
  <1>1. CASE BeginSweep(t)
    BY <1>1 DEF BeginSweep, boardVars
  <1>2. CASE Requeue(t)
    BY <1>2 DEF Requeue, RequeueUnacked, Unacked, sessionVars
  <1>3. CASE Claim(t)
    BY <1>3 DEF Claim, ClaimOverdueRequests, sessionVars
  <1>4. CASE Look(t)
    BY <1>4 DEF Look, boardVars, sessionVars
  <1>5. CASE Peek(t) \/ PeekBlind(t)
    BY <1>5 DEF Peek, PeekBlind, boardVars, sessionVars
  <1>6. CASE LookAtScreen(t)
    BY <1>6 DEF LookAtScreen, boardVars, sessionVars
  <1>7. CASE Unstick(t)
    BY <1>7 DEF Unstick, TouchFlag, boardVars
  <1>8. CASE Query(t)
    BY <1>8 DEF Query, boardVars, sessionVars
  <1>9. CASE Hand(t)
    BY <1>9 DEF Hand, DropFlag, boardVars
  <1>10. CASE PasteText(t)
    BY <1>10 DEF PasteText, Paste, boardVars
  <1>11. CASE Enter(t)
    BY <1>11 DEF Enter, PressEnter, boardVars
  <1>12. CASE Mark(t)
    BY <1>12 DEF Mark, MarkDelivered, boardVars, sessionVars
  <1>13. CASE DatabaseFails(t)
    BY <1>13 DEF DatabaseFails, RequeueLost, boardVars, sessionVars
  <1>14. CASE ClaimRolledBack(t)
    BY <1>14 DEF ClaimRolledBack, boardVars, sessionVars
  <1>15. CASE TmuxFails(t)
    BY <1>15 DEF TmuxFails, boardVars, sessionVars
  <1> QED
    BY <1>1, <1>2, <1>3, <1>4, <1>5, <1>6, <1>7, <1>8, <1>9, <1>10, <1>11,
       <1>12, <1>13, <1>14, <1>15
    DEF Sweep

LEMMA OneSweepStep == OneSweep /\ [ListenerNext]_vars => OneSweep'
  BY ProcessSteps, WorldSteps, SweepSteps DEF ListenerNext, HandoverFollows

LEMMA HandoverStep ==
    HandoverInv /\ [ListenerNext /\ Recorded]_lapseVars => HandoverInv'
  <1>1. ASSUME HandoverInv, ListenerNext, Recorded PROVE HandoverInv'
    <2>1. HandoverFollows
      BY <1>1, ProcessSteps, WorldSteps, SweepSteps DEF ListenerNext, HandoverInv
    <2>2. NoneOf({"requeue", "erase"})' => Known'
      BY <1>1, <2>1, LapseOnRecord DEF HandoverInv, HandoverFollows, NoneOf
    <2> QED
      BY <2>1, <2>2 DEF HandoverInv, HandoverFollows
  <1>2. ASSUME HandoverInv, UNCHANGED lapseVars PROVE HandoverInv'
    BY <1>2 DEF HandoverInv, OneSweep, Phase, Known, HandedIsKnown, TypedIsKnown,
        InHand, ToBeRequeued, NoneOf, lapseVars, vars, boardVars, sessionVars,
        listenerVars, processVars
  <1> QED
    BY <1>1, <1>2

LEMMA HandoverStranded == TypeOK /\ HandoverInv => NoStranded
  BY DEF HandoverInv, Known, NoneOf, HandedIsKnown, InHand, NoStranded,
         HandedBack, Open, Ids, TypeOK

LEMMA LapsesType == LapsesSpec => []TypeOK
  <1>1. ListenerInit => Init
    BY DEF ListenerInit
  <1> QED
    BY <1>1, InitType, BoardTypeStep, LapsesAside, PTL DEF ListenerSpec

\* No interleaving of sweeps, /clears, restarts, crashes and failures, with
\* and without ORCH_SESSION_KEPT, strands a message but by losing a requeue,
\* and then until the next one: what the board counts as handed over and
\* unfinished is in the agent's conversation or about to be put back on its
\* work list (listen.py, start_session and sweep).  A restart cut short before
\* its listener is one way to lose a requeue; a text erased between the paste
\* and the Enter is lost the same way.
THEOREM NothingStranded == LapsesSpec => []NoStranded
  <1>1. ListenerInit /\ lapses = {} => HandoverInv
    BY HandoverInit DEF HandoverInv
  <1> QED
    BY <1>1, LapsesType, HandoverStep, HandoverStranded, PTL DEF LapsesSpec
=============================================================================
