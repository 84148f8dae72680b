--------------------------- MODULE LauncherProofs ---------------------------
(* For any number of agents, panes, tokens, commands and mishaps: what is   *)
(* started for an agent is known to its record, runs once and has a token   *)
(* that works, and a restart cuts no turn that ran when it was typed.       *)
EXTENDS Launcher, TLAPS, FiniteSetTheorems, WellFoundedInduction

----------------------------------------------------------------------------
(* The inductive invariant *)

Opening == {"record", "listener", "note"}
StartPCs == {"sync", "files", "session"} \union Opening
StopPCs == {"stop-listener", "stop-session", "forget"}

Record == [token : Nat, session : Pane \union {None}, listener : Pane \union {None}]
Command == [does : {"none", "up", "add", "restart", "remove", "down"},
            pc : {"none"} \union StartPCs \union StopPCs,
            todo : SUBSET Agent, force : BOOLEAN, whole : BOOLEAN,
            was : [Agent -> Record],
            begun : SUBSET Pane, token : 0..issued,
            session : Pane \union {None}, listener : Pane \union {None}]

\* The command that runs is at one of these steps, for this agent.
At(a, pcs) == cmd.pc \in pcs /\ a = Current

\* A recorded pane was opened, and runs what it is recorded for or nothing.
IsOf(p, kind, a) ==
    p \in 0..opened /\ (IsLive(p) => pane[p].kind = kind /\ pane[p].agent = a)
Owned(r, a) == IsOf(r.session, "session", a) /\ IsOf(r.listener, "listener", a)

References ==
    /\ \A p \in Pane : IsLive(p) =>
          p <= opened /\ pane[p].serves <= opened /\ pane[p].agent \in Agent
    /\ \A a \in Agent : Owned(env[a], a) /\ Owned(cmd.was[a], a)
    /\ \A a \in Agent : At(a, Opening) => IsOf(cmd.session, "session", a)
    /\ \A a \in Agent : At(a, {"note"}) => IsOf(cmd.listener, "listener", a)

\* What each command knows of the agents it has still to deal with: up and add
\* start those that do not run; restart replaces what its picture of the
\* records names; remove closes listener and session in turn; down has closed
\* everything before it forgets.
StartsAfresh ==
    cmd.pc \in StartPCs /\ cmd.does # "restart" =>
        \A a \in cmd.todo : /\ cmd.was[a] = NoRecord
                            /\ At(a, {"listener", "note"}) \/ ~IsLive(env[a].session)
Replaces ==
    cmd.pc \in StartPCs /\ cmd.does = "restart" =>
        \A a \in cmd.todo : /\ cmd.was[a].session # None
                            /\ At(a, {"listener", "note"}) \/ env[a] = cmd.was[a]
                            /\ At(a, Opening) => cmd.session = cmd.was[a].session
Removes ==
    cmd.pc \in StopPCs /\ cmd.does = "remove" =>
        /\ \E a \in Agent : cmd.todo = {a}
        /\ \A a \in cmd.todo :
            /\ env[a] = cmd.was[a]
            /\ cmd.pc # "stop-listener" => ~IsLive(env[a].listener)
            /\ cmd.pc = "forget" => ~IsLive(env[a].session)
TakesDown ==
    cmd.pc \in StopPCs /\ cmd.does # "remove" =>
        cmd.pc = "forget" /\ \A p \in Pane : ~IsLive(p)

\* The token is in hash, conf and env in turn, once its step is done.
Writes ==
    \A a \in Agent :
        /\ At(a, {"files", "session"} \union Opening) => cmd.token = hash[a]
        /\ At(a, {"session"} \union Opening) => conf[a] = cmd.token
        /\ At(a, Opening) => cmd.session # None
        /\ At(a, {"listener", "note"}) =>
              env[a] = [token |-> cmd.token, session |-> cmd.session, listener |-> None]

Types ==
    /\ hash \in [Agent -> 0..issued] /\ conf \in [Agent -> 0..issued]
    /\ env \in [Agent -> [token : 0..issued, session : Pane \union {None},
                          listener : Pane \union {None}]]
    /\ pane \in [Pane -> PaneState] /\ views \in BOOLEAN
    /\ issued \in 0..MaxTokens /\ opened \in 0..MaxPanes
    /\ half \subseteq Agent /\ widowed \subseteq Agent
    /\ cmd \in Command
    /\ cmd.pc \in StartPCs => cmd.todo # {}

\* The pane of an agent's session, and that of the listener that serves it.
SessionOf(a) == IF At(a, {"record"}) THEN cmd.session ELSE env[a].session
ListenerOf(a) ==
    IF At(a, {"note"}) THEN cmd.listener
    ELSE IF cmd.pc \in StartPCs /\ a \in cmd.todo THEN cmd.was[a].listener
    ELSE env[a].listener

\* Beside these two panes nothing runs for an agent, but what a start cut
\* short or a session's own end has left behind.
OnlySession ==
    \A a \in Agent \ half : Live("session", a) \subseteq {SessionOf(a)}

OnlyVoice ==
    \A a \in Agent \ half : \A l \in Live("listener", a) :
        pane[l].serves \in Live("session", a) => l = ListenerOf(a)

\* A listener is left without its session only where that ended by itself.
NoneLeft ==
    \A a \in Agent \ (half \union widowed) :
        /\ Live("listener", a) \subseteq {ListenerOf(a)}
        /\ IsLive(SessionOf(a)) \/ Live("listener", a) = {}
        /\ At(a, Opening) => IsLive(cmd.session)

\* Between the commit of a new token and the session opened with it the old
\* session has a token that is out of date; before and after none has.
Tokens ==
    \A a \in Agent \ half :
        /\ IsLive(env[a].session) /\ ~At(a, {"files", "session", "record"}) =>
               conf[a] = hash[a] /\ env[a].token = hash[a]
        /\ ~At(a, {"files", "session"}) =>
               \A p \in Live("session", a) :
                   pane[p].token = hash[a] /\ pane[p].state # "refused"

LauncherInv ==
    /\ Types /\ References
    /\ StartsAfresh /\ Replaces /\ Removes /\ TakesDown /\ Writes
    /\ OnlySession /\ OnlyVoice /\ NoneLeft /\ Tokens

----------------------------------------------------------------------------
(* Lemmas about the parts *)

LEMMA CurrentIsTodo ==
  ASSUME NEW S \in SUBSET Agent, S # {}
  PROVE  Min(S) \in S
  <1>1. S \subseteq Nat
    BY DEF Agent
  <1>2. PICK n \in S : \A m \in S : <<m, n>> \notin OpToRel(<, Nat)
    BY <1>1, NatLessThanWellFounded, WFMin, Zenon
  <1>3. \A m \in S : ~(m < n)
    BY <1>1, <1>2, Zenon DEF OpToRel
  <1>4. \A m \in S : n =< m
    BY <1>1, <1>3
  <1> QED
    BY <1>4 DEF Min

LEMMA Bounds == /\ MaxAgents \in Nat /\ MaxPanes \in Nat /\ MaxTokens \in Nat
                /\ MaxCommands \in Nat /\ MaxMishaps \in Nat
  BY LauncherAssumption

\* What is opened, field by field.
LEMMA OpenedFields ==
  ASSUME Types, NEW k \in {"session", "listener"}, NEW a \in Agent
  PROVE  /\ Opened(k, a) \in PaneState
         /\ Opened(k, a).kind = k /\ Opened(k, a).agent = a
         /\ Opened(k, a).state = "starting" /\ ~Opened(k, a).busy
         /\ k = "session" => Opened(k, a).token = conf[a] /\ Opened(k, a).serves = None
         /\ k = "listener" => Opened(k, a).serves = env[a].session
  <1>1. conf[a] \in 0..MaxTokens /\ env[a].token \in 0..MaxTokens
    BY Bounds DEF Types
  <1>2. env[a].session \in Pane \union {None}
    BY DEF Types
  <1> DEFINE T == IF k = "session" THEN conf[a] ELSE env[a].token
             Q == IF k = "session" THEN None ELSE env[a].session
             r == [Closed EXCEPT !.kind = k, !.agent = a, !.token = T, !.serves = Q]
  <1>3. T \in 0..MaxTokens /\ Q \in Pane \union {None}
    BY <1>1, <1>2
  <1>4. /\ r \in PaneState /\ r.kind = k /\ r.agent = a
        /\ r.state = "starting" /\ ~r.busy /\ r.token = T /\ r.serves = Q
    <2> HIDE DEF T, Q
    <2> QED
      BY <1>3 DEF Closed, PaneState
  <1>5. Opened(k, a) = r
    BY Zenon DEF Opened
  <1> HIDE DEF r
  <1> QED
    BY <1>4, <1>5

\* What a command that starts agents knows of the one whose turn it is.
LEMMA StartingFacts ==
  ASSUME LauncherInv, cmd.pc \in StartPCs
  PROVE  /\ Current \in cmd.todo /\ Current \in Agent /\ cmd.todo \in SUBSET Agent
         /\ cmd.does = "restart" \/ Was = NoRecord
         /\ cmd.was \in [Agent -> Record] /\ Was \in Record
  BY CurrentIsTodo DEF LauncherInv, Types, Command, StartsAfresh, Current, Was

----------------------------------------------------------------------------
(* The session is opened, in the old pane or in a new one *)

LEMMA OpenSessionStep ==
  ASSUME LauncherInv, OpenSession
  PROVE  LauncherInv'
  <1> USE DEF None
  <1>1. cmd.pc = "session" /\ cmd.pc \in StartPCs
    BY DEF OpenSession, StartPCs
  <1> PICK c \in Agent : c = Current /\ c \in cmd.todo
    BY <1>1, StartingFacts
  <1>2. cmd.todo \in SUBSET Agent /\ Was = cmd.was[c] /\ cmd.was \in [Agent -> Record]
    BY <1>1, StartingFacts DEF Was
  <1> PICK p \in Pane : p = IF Was.session # None THEN Was.session ELSE opened + 1
    BY DEF OpenSession, Open
  <1>3. /\ opened' = (IF Was.session # None THEN opened ELSE p)
        /\ pane' = [pane EXCEPT ![p] = Opened("session", c)]
        /\ UNCHANGED <<hash, conf, env, views, issued, half, widowed>>
        /\ Was.session # None => IsLive(Was.session)
    BY DEF OpenSession, Open, files, counters
  <1>4. cmd' = [cmd EXCEPT !.pc = "record", !["session"] = p]
    BY DEF OpenSession, Open
  <1>5. /\ cmd'.pc = "record" /\ cmd'.session = p /\ cmd' \in Command
        /\ cmd'.does = cmd.does /\ cmd'.todo = cmd.todo /\ cmd'.was = cmd.was
        /\ cmd'.token = cmd.token /\ cmd'.listener = cmd.listener
    BY <1>4 DEF LauncherInv, Types, Command, StartPCs, Opening
  <1>6. Current' = c
    BY <1>5 DEF Current
  <1>7. /\ opened \in Nat /\ opened' \in Nat /\ opened <= opened'
        /\ opened' \in 0..MaxPanes /\ p \in Nat /\ p # 0 /\ p <= opened'
    BY <1>2, <1>3, Bounds DEF LauncherInv, Types, References, Owned, IsOf, Pane
  <1>8. /\ pane \in [Pane -> PaneState] /\ pane' \in [Pane -> PaneState]
        /\ pane'[p].kind = "session" /\ pane'[p].agent = c /\ pane'[p].serves = 0
        /\ pane'[p].state = "starting" /\ pane'[p].token = conf[c]
        /\ \A q \in Pane : q # p => pane'[q] = pane[q]
    <2>1. Types
      BY DEF LauncherInv
    <2>2. pane \in [Pane -> PaneState]
      BY <2>1 DEF Types
    <2> QED
      BY <2>1, <2>2, <1>2, <1>3, OpenedFields
  <1>9. \/ /\ cmd.does = "restart" /\ IsLive(p) /\ opened' = opened
           /\ cmd.was[c].session = p /\ env[c] = cmd.was[c]
           /\ pane[p].kind = "session" /\ pane[p].agent = c
        \/ /\ cmd.does # "restart" /\ ~IsLive(p) /\ opened < p /\ cmd.was[c] = NoRecord
           /\ ~IsLive(env[c].session)
    <2>1. References /\ StartsAfresh /\ Replaces
      BY DEF LauncherInv
    <2>2. ~At(c, {"listener", "note"}) /\ ~At(c, Opening)
      BY <1>1 DEF At, Opening
    <2>3. CASE cmd.does = "restart"
      <3>1. cmd.was[c].session # 0 /\ env[c] = cmd.was[c]
        BY <2>1, <2>2, <2>3, <1>1, <1>2 DEF Replaces
      <3> QED
        BY <2>1, <2>3, <3>1, <1>2, <1>3 DEF References, Owned, IsOf
    <2>4. CASE cmd.does # "restart"
      <3>1. cmd.was[c] = NoRecord /\ ~IsLive(env[c].session)
        BY <2>1, <2>2, <2>4, <1>1, <1>2 DEF StartsAfresh
      <3>2. p = opened + 1
        BY <3>1, <1>2 DEF NoRecord
      <3> QED
        BY <2>1, <2>4, <3>1, <3>2, <1>3, <1>7 DEF References
    <2> QED
      BY <2>3, <2>4
  <1>10. \A a \in Agent : /\ env[a].session = p => a = c /\ IsLive(p)
                          /\ cmd.was[a].session = p => a = c /\ IsLive(p)
                          /\ env[a].listener # p /\ cmd.was[a].listener # p
    <2> SUFFICES ASSUME NEW a \in Agent
                 PROVE  /\ env[a].session = p => a = c /\ IsLive(p)
                        /\ cmd.was[a].session = p => a = c /\ IsLive(p)
                        /\ env[a].listener # p /\ cmd.was[a].listener # p
      OBVIOUS
    <2>1. /\ IsOf(env[a].session, "session", a) /\ IsOf(env[a].listener, "listener", a)
          /\ IsOf(cmd.was[a].session, "session", a)
          /\ IsOf(cmd.was[a].listener, "listener", a)
      BY DEF LauncherInv, References, Owned
    <2> QED
      BY <2>1, <1>7, <1>9 DEF IsOf
  <1>11. /\ \A q \in Pane \union {0} : (IsLive(q) <=> IsLive(q)') \/ q = p
         /\ IsLive(p)'
    BY <1>7, <1>8 DEF IsLive
  <1>a. Types'
    <2>1. /\ hash \in [Agent -> 0..issued] /\ conf \in [Agent -> 0..issued]
          /\ env \in [Agent -> [token : 0..issued, session : Pane \union {None},
                                listener : Pane \union {None}]]
          /\ views \in BOOLEAN /\ issued \in 0..MaxTokens
          /\ half \subseteq Agent /\ widowed \subseteq Agent
      BY DEF LauncherInv, Types
    <2>2. cmd' \in Command' /\ cmd'.todo # {}
      BY <1>3, <1>5 DEF Command
    <2> QED
      BY <2>1, <2>2, <1>3, <1>7, <1>8 DEF Types
  <1>b. References'
    <2>1. \A q \in Pane : IsLive(q)' =>
             q <= opened' /\ pane'[q].serves <= opened' /\ pane'[q].agent \in Agent
      <3>1. \A q \in Pane : pane[q].serves \in Nat /\ q \in Nat
        BY <1>8 DEF PaneState, Pane
      <3>2. \A q \in Pane : IsLive(q) =>
               q <= opened /\ pane[q].serves <= opened /\ pane[q].agent \in Agent
        BY DEF LauncherInv, References
      <3> QED
        BY <3>1, <3>2, <1>7, <1>8, <1>11
    <2>2. ASSUME NEW a \in Agent
          PROVE  Owned(env[a], a)' /\ Owned(cmd.was[a], a)'
      <3>1. Owned(env[a], a) /\ Owned(cmd.was[a], a)
        BY DEF LauncherInv, References
      <3>2. env[a].session \in Pane \union {0} /\ env[a].listener \in Pane \union {0}
        BY DEF LauncherInv, Types
      <3>3. cmd.was[a].session \in Pane \union {0} /\ cmd.was[a].listener \in Pane \union {0}
        BY <1>2 DEF Record
      <3> QED
        BY <3>1, <3>2, <3>3, <1>3, <1>5, <1>7, <1>8, <1>10, <1>11 DEF Owned, IsOf
    <2>3. IsOf(cmd.session, "session", c)'
      BY <1>5, <1>7, <1>8 DEF IsOf
    <2> QED
      BY <2>1, <2>2, <2>3, <1>5, <1>6 DEF References, At
  <1>12. \A a \in Agent : env[a].session \in Pane \union {0}
    BY DEF LauncherInv, Types
  <1>c. StartsAfresh' /\ Replaces'
    <2>1. cmd'.pc \in StartPCs /\ ~(cmd'.pc \in {"listener", "note"})
      BY <1>5 DEF StartPCs, Opening
    <2>2. StartsAfresh'
      <3>1. ASSUME NEW a \in cmd.todo, cmd.does # "restart"
            PROVE  cmd.was[a] = NoRecord /\ ~IsLive(env[a].session)'
        <4>1. a \in Agent /\ cmd.was[a] = NoRecord /\ ~IsLive(env[a].session)
          BY <3>1, <1>1, <1>2 DEF LauncherInv, StartsAfresh, At
        <4> QED
          BY <4>1, <3>1, <1>3, <1>9, <1>10, <1>11, <1>12
      <3> QED
        BY <3>1, <1>5 DEF StartsAfresh
    <2>3. Replaces'
      BY <2>1, <1>1, <1>2, <1>3, <1>5, <1>6, <1>9 DEF LauncherInv, Replaces, At
    <2> QED
      BY <2>2, <2>3
  <1>d. Removes' /\ TakesDown'
    BY <1>5 DEF Removes, TakesDown, StopPCs
  <1>e. Writes'
    BY <1>1, <1>2, <1>3, <1>5, <1>6, <1>7 DEF LauncherInv, Writes, Opening, At
  <1>13. \A k \in {"session", "listener"}, a \in Agent :
            Live(k, a)' = IF k = "session" /\ a = c THEN Live(k, a) \union {p} ELSE Live(k, a)
    <2> SUFFICES ASSUME NEW k \in {"session", "listener"}, NEW a \in Agent, NEW q \in Pane
                 PROVE  q \in Live(k, a)' <=> \/ q \in Live(k, a)
                                              \/ q = p /\ k = "session" /\ a = c
      BY DEF Live
    <2>1. CASE q = p
      BY <2>1, <1>7, <1>8, <1>9 DEF Live, IsLive
    <2>2. CASE q # p
      BY <2>2, <1>8 DEF Live
    <2> QED
      BY <2>1, <2>2
  <1>14. p \in Live("session", c) \/ \A q \in Pane : IsLive(q) => pane[q].serves # p
    BY <1>7, <1>8, <1>9 DEF Live, LauncherInv, References, PaneState, Pane
  <1>15. \A a \in Agent : /\ ListenerOf(a)' = ListenerOf(a)
                          /\ SessionOf(a)' = IF a = c THEN p ELSE SessionOf(a)
    BY <1>1, <1>3, <1>5, <1>6 DEF SessionOf, ListenerOf, At, StartPCs, Opening
  <1>16. SessionOf(c) = env[c].session /\ (SessionOf(c) # p => ~IsLive(SessionOf(c)))
    BY <1>1, <1>9 DEF SessionOf, At
  <1>f. OnlySession'
    <2>1. ASSUME NEW a \in Agent \ half, NEW q \in Live("session", a)' PROVE q = SessionOf(a)'
      <3>1. Live("session", a) \subseteq {SessionOf(a)}
        BY DEF LauncherInv, OnlySession
      <3>2. q \in Live("session", a) => IsLive(q)
        BY <1>7, <2>1 DEF Live, IsLive, Pane
      <3> QED
        BY <2>1, <3>1, <3>2, <1>13, <1>15, <1>16
    <2> QED
      BY <2>1, <1>3 DEF OnlySession
  <1>g. OnlyVoice'
    <2>1. ASSUME NEW a \in Agent \ half, NEW l \in Live("listener", a)',
                 pane'[l].serves \in Live("session", a)'
          PROVE  l = ListenerOf(a)'
      <3>1. l \in Live("listener", a) /\ l # p /\ IsLive(l) /\ l \in Pane
        BY <2>1, <1>8, <1>13 DEF Live, IsLive, Pane
      <3>2. pane'[l].serves = pane[l].serves
        BY <3>1, <1>8
      <3>3. pane[l].serves \in Live("session", a)
        BY <2>1, <3>1, <3>2, <1>13, <1>14
      <3> QED
        BY <3>1, <3>3, <1>15 DEF LauncherInv, OnlyVoice
    <2> QED
      BY <2>1, <1>3 DEF OnlyVoice
  <1>h. NoneLeft'
    <2>1. ASSUME NEW a \in Agent \ (half \union widowed)
          PROVE  /\ Live("listener", a)' \subseteq {ListenerOf(a)'}
                 /\ IsLive(SessionOf(a))' \/ Live("listener", a)' = {}
                 /\ At(a, Opening)' => IsLive(cmd.session)'
      <3>1. /\ Live("listener", a) \subseteq {ListenerOf(a)}
            /\ IsLive(SessionOf(a)) \/ Live("listener", a) = {}
        BY DEF LauncherInv, NoneLeft
      <3>2. IsLive(SessionOf(a)) => IsLive(SessionOf(a))'
        BY <1>3, <1>1, <1>5, <1>6, <1>11, <1>12, <1>15 DEF SessionOf, At
      <3> QED
        BY <3>1, <3>2, <1>5, <1>6, <1>11, <1>13, <1>15 DEF At
    <2> QED
      BY <2>1, <1>3 DEF NoneLeft
  <1>i. Tokens'
    <2>1. conf[c] = hash[c]
      BY <1>1 DEF LauncherInv, Writes, At
    <2>2. ASSUME NEW a \in Agent \ half,
                 IsLive(env[a].session)', ~At(a, {"files", "session", "record"})'
          PROVE  conf[a] = hash[a] /\ env[a].token = hash[a]
      <3>1. a # c
        BY <2>2, <1>5, <1>6 DEF At
      <3>2. IsLive(env[a].session) /\ ~At(a, {"files", "session", "record"})
        BY <2>2, <3>1, <1>3, <1>10, <1>11, <1>12 DEF At
      <3> QED
        BY <3>2 DEF LauncherInv, Tokens
    <2>3. ASSUME NEW a \in Agent \ half, NEW q \in Live("session", a)'
          PROVE  pane'[q].token = hash[a] /\ pane'[q].state # "refused"
      <3>1. CASE q = p
        BY <2>1, <2>3, <3>1, <1>8 DEF Live
      <3>2. CASE q # p
        <4>1. q \in Pane /\ pane'[q] = pane[q] /\ q \in Live("session", a)
          BY <2>3, <3>2, <1>8, <1>13 DEF Live
        <4>2. a # c
          BY <2>3, <3>2, <1>f, <1>3, <1>15 DEF OnlySession
        <4> QED
          BY <4>1, <4>2 DEF LauncherInv, Tokens, At
      <3> QED
        BY <3>1, <3>2
    <2> QED
      BY <2>2, <2>3, <1>3 DEF Tokens
  <1> QED
    BY <1>a, <1>b, <1>c, <1>d, <1>e, <1>f, <1>g, <1>h, <1>i DEF LauncherInv

----------------------------------------------------------------------------
(* The listener is opened, in the old one's pane or in a new one *)

LEMMA OpenListenerStep ==
  ASSUME LauncherInv, OpenListener
  PROVE  LauncherInv'
  <1> USE DEF None
  <1>1. cmd.pc = "listener" /\ cmd.pc \in StartPCs
    BY DEF OpenListener, StartPCs, Opening
  <1> PICK c \in Agent : c = Current /\ c \in cmd.todo
    BY <1>1, StartingFacts
  <1>2. /\ cmd.todo \in SUBSET Agent /\ Was = cmd.was[c] /\ cmd.was \in [Agent -> Record]
        /\ cmd.session # 0 /\ env[c].session = cmd.session /\ env[c].listener = 0
    BY <1>1, StartingFacts DEF Was, LauncherInv, Writes, At, Opening
  <1> DEFINE old == IF IsLive(Was.listener) THEN Was.listener ELSE 0
  <1> PICK p \in Pane : p = IF old # 0 THEN old ELSE opened + 1
    BY DEF OpenListener, Open
  <1>3. /\ opened' = (IF old # 0 THEN opened ELSE p)
        /\ pane' = [pane EXCEPT ![p] = Opened("listener", c)]
        /\ UNCHANGED <<hash, conf, env, views, issued, half, widowed>>
    BY DEF OpenListener, Open, files, counters
  <1>4. cmd' = [cmd EXCEPT !.pc = "note", !["listener"] = p]
    BY DEF OpenListener, Open
  <1>5. /\ cmd'.pc = "note" /\ cmd'.listener = p /\ cmd' \in Command
        /\ cmd'.does = cmd.does /\ cmd'.todo = cmd.todo /\ cmd'.was = cmd.was
        /\ cmd'.token = cmd.token /\ cmd'.session = cmd.session
    BY <1>4 DEF LauncherInv, Types, Command, StartPCs, Opening
  <1>6. Current' = c
    BY <1>5 DEF Current
  <1>7. \/ /\ IsLive(p) /\ opened' = opened /\ cmd.was[c].listener = p
           /\ pane[p].kind = "listener" /\ pane[p].agent = c
        \/ /\ ~IsLive(p) /\ opened' = p /\ opened < p /\ ~IsLive(cmd.was[c].listener)
    <2>1. opened \in Nat
      BY Bounds DEF LauncherInv, Types
    <2>2. CASE IsLive(Was.listener)
      BY <1>2, <1>3, <2>2 DEF LauncherInv, References, Owned, IsOf, IsLive
    <2>3. CASE ~IsLive(Was.listener)
      BY <1>2, <1>3, <2>1, <2>3 DEF LauncherInv, References
    <2> QED
      BY <2>2, <2>3
  <1> HIDE DEF old
  <1>8. /\ opened \in Nat /\ opened' \in Nat /\ opened <= opened'
        /\ opened' \in 0..MaxPanes /\ p \in Nat /\ p # 0 /\ p <= opened'
    BY <1>7, Bounds DEF LauncherInv, Types, References, Pane
  <1>9. /\ pane \in [Pane -> PaneState] /\ pane' \in [Pane -> PaneState]
        /\ pane'[p].kind = "listener" /\ pane'[p].agent = c
        /\ pane'[p].serves = cmd.session
        /\ \A q \in Pane : q # p => pane'[q] = pane[q]
    <2>1. Types
      BY DEF LauncherInv
    <2>2. pane \in [Pane -> PaneState]
      BY <2>1 DEF Types
    <2> QED
      BY <2>1, <2>2, <1>2, <1>3, OpenedFields
  <1>10. \A a \in Agent : /\ env[a].session # p /\ cmd.was[a].session # p
                          /\ env[a].listener = p => a = c /\ IsLive(p)
                          /\ cmd.was[a].listener = p => a = c /\ IsLive(p)
    <2> SUFFICES ASSUME NEW a \in Agent
                 PROVE  /\ env[a].session # p /\ cmd.was[a].session # p
                        /\ env[a].listener = p => a = c /\ IsLive(p)
                        /\ cmd.was[a].listener = p => a = c /\ IsLive(p)
      OBVIOUS
    <2>1. /\ IsOf(env[a].session, "session", a) /\ IsOf(env[a].listener, "listener", a)
          /\ IsOf(cmd.was[a].session, "session", a)
          /\ IsOf(cmd.was[a].listener, "listener", a)
      BY DEF LauncherInv, References, Owned
    <2> QED
      BY <2>1, <1>7, <1>8 DEF IsOf
  <1>11. /\ \A q \in Pane \union {0} : (IsLive(q) <=> IsLive(q)') \/ q = p
         /\ IsLive(p)'
    BY <1>8, <1>9 DEF IsLive
  <1>a. Types'
    <2>1. /\ hash \in [Agent -> 0..issued] /\ conf \in [Agent -> 0..issued]
          /\ env \in [Agent -> [token : 0..issued, session : Pane \union {None},
                                listener : Pane \union {None}]]
          /\ views \in BOOLEAN /\ issued \in 0..MaxTokens
          /\ half \subseteq Agent /\ widowed \subseteq Agent
      BY DEF LauncherInv, Types
    <2>2. cmd' \in Command' /\ cmd'.todo # {}
      BY <1>3, <1>5 DEF Command
    <2> QED
      BY <2>1, <2>2, <1>3, <1>8, <1>9 DEF Types
  <1>12. /\ \A a \in Agent : env[a].session \in Pane \union {0}
         /\ cmd.session \in Pane
    BY <1>2 DEF LauncherInv, Types
  <1>b. References'
    <2>1. \A q \in Pane : IsLive(q)' =>
             q <= opened' /\ pane'[q].serves <= opened' /\ pane'[q].agent \in Agent
      <3>1. \A q \in Pane : pane[q].serves \in Nat /\ q \in Nat
        BY <1>9 DEF PaneState, Pane
      <3>2. \A q \in Pane : IsLive(q) =>
               q <= opened /\ pane[q].serves <= opened /\ pane[q].agent \in Agent
        BY DEF LauncherInv, References
      <3>3. cmd.session \in 0..opened
        BY <1>2 DEF LauncherInv, References, Owned, IsOf
      <3>4. p <= opened' /\ pane'[p].serves <= opened' /\ pane'[p].agent \in Agent
        BY <3>3, <1>8, <1>9
      <3>5. \A q \in Pane : q # p /\ IsLive(q)' =>
               q <= opened' /\ pane'[q].serves <= opened' /\ pane'[q].agent \in Agent
        BY <3>1, <3>2, <1>8, <1>9, <1>11
      <3> QED
        BY <3>4, <3>5
    <2>2. ASSUME NEW a \in Agent
          PROVE  Owned(env[a], a)' /\ Owned(cmd.was[a], a)'
      <3>1. Owned(env[a], a) /\ Owned(cmd.was[a], a)
        BY DEF LauncherInv, References
      <3>2. env[a].session \in Pane \union {0} /\ env[a].listener \in Pane \union {0}
        BY DEF LauncherInv, Types
      <3>3. cmd.was[a].session \in Pane \union {0} /\ cmd.was[a].listener \in Pane \union {0}
        BY <1>2 DEF Record
      <3> QED
        BY <3>1, <3>2, <3>3, <1>3, <1>5, <1>8, <1>9, <1>10, <1>11 DEF Owned, IsOf
    <2>3. IsOf(cmd.session, "session", c)'
      BY <2>2, <1>2, <1>3, <1>5 DEF Owned
    <2>4. IsOf(cmd.listener, "listener", c)'
      BY <1>5, <1>8, <1>9 DEF IsOf
    <2> QED
      BY <2>1, <2>2, <2>3, <2>4, <1>5, <1>6 DEF References, At
  <1>c. StartsAfresh' /\ Replaces'
    <2>1. cmd'.pc \in StartPCs
      BY <1>5 DEF StartPCs, Opening
    <2>2. StartsAfresh'
      <3>1. ASSUME NEW a \in cmd.todo, cmd.does # "restart"
            PROVE  /\ cmd.was[a] = NoRecord
                   /\ (At(a, {"listener", "note"}) \/ ~IsLive(env[a].session))'
        <4>1. a \in Agent /\ cmd.was[a] = NoRecord
          BY <3>1, <1>1, <1>2 DEF LauncherInv, StartsAfresh
        <4>2. a # c => ~IsLive(env[a].session)
          BY <3>1, <1>1, <1>2 DEF LauncherInv, StartsAfresh, At
        <4> QED
          BY <4>1, <4>2, <1>3, <1>5, <1>6, <1>10, <1>11, <1>12 DEF At
      <3> QED
        BY <3>1, <1>5 DEF StartsAfresh
    <2>3. Replaces'
      BY <2>1, <1>1, <1>2, <1>3, <1>5, <1>6 DEF LauncherInv, Replaces, At, Opening
    <2> QED
      BY <2>2, <2>3
  <1>d. Removes' /\ TakesDown'
    BY <1>5 DEF Removes, TakesDown, StopPCs
  <1>e. Writes'
    BY <1>1, <1>2, <1>3, <1>5, <1>6 DEF LauncherInv, Writes, Opening, At
  <1>13. \A k \in {"session", "listener"}, a \in Agent :
            Live(k, a)' = IF k = "listener" /\ a = c THEN Live(k, a) \union {p} ELSE Live(k, a)
    <2> SUFFICES ASSUME NEW k \in {"session", "listener"}, NEW a \in Agent, NEW q \in Pane
                 PROVE  q \in Live(k, a)' <=> \/ q \in Live(k, a)
                                              \/ q = p /\ k = "listener" /\ a = c
      BY DEF Live
    <2>1. CASE q = p
      BY <2>1, <1>7, <1>8, <1>9 DEF Live, IsLive
    <2>2. CASE q # p
      BY <2>2, <1>9 DEF Live
    <2> QED
      BY <2>1, <2>2
  <1>14. \A a \in Agent : /\ SessionOf(a)' = SessionOf(a)
                          /\ ListenerOf(a)' = IF a = c THEN p ELSE ListenerOf(a)
    BY <1>1, <1>3, <1>5, <1>6 DEF SessionOf, ListenerOf, At, StartPCs, Opening
  <1>15. ListenerOf(c) = cmd.was[c].listener /\ SessionOf(c) = cmd.session
    BY <1>1, <1>2 DEF SessionOf, ListenerOf, At
  <1>f. OnlySession'
    BY <1>3, <1>13, <1>14 DEF LauncherInv, OnlySession
  <1>g. OnlyVoice'
    <2>1. ASSUME NEW a \in Agent \ half, NEW l \in Live("listener", a)',
                 pane'[l].serves \in Live("session", a)'
          PROVE  l = ListenerOf(a)'
      <3>1. CASE l = p
        BY <2>1, <3>1, <1>9, <1>14 DEF Live
      <3>2. CASE l # p
        <4>1. l \in Live("listener", a) /\ IsLive(l) /\ l \in Pane
          BY <2>1, <3>2, <1>8, <1>13 DEF Live, IsLive, Pane
        <4>2. pane'[l].serves = pane[l].serves
          BY <4>1, <3>2, <1>9
        <4>3. pane[l].serves \in Live("session", a)
          BY <2>1, <4>2, <1>13
        <4>4. l = ListenerOf(a)
          BY <4>1, <4>3 DEF LauncherInv, OnlyVoice
        <4> QED
          BY <4>1, <4>4, <3>2, <1>7, <1>14, <1>15
      <3> QED
        BY <3>1, <3>2
    <2> QED
      BY <2>1, <1>3 DEF OnlyVoice
  <1>h. NoneLeft'
    <2>1. ASSUME NEW a \in Agent \ (half \union widowed)
          PROVE  /\ Live("listener", a)' \subseteq {ListenerOf(a)'}
                 /\ IsLive(SessionOf(a))' \/ Live("listener", a)' = {}
                 /\ At(a, Opening)' => IsLive(cmd.session)'
      <3>1. /\ Live("listener", a) \subseteq {ListenerOf(a)}
            /\ IsLive(SessionOf(a)) \/ Live("listener", a) = {}
            /\ a = c => IsLive(cmd.session)
        BY <1>1 DEF LauncherInv, NoneLeft, At, Opening
      <3>2. /\ IsLive(SessionOf(a)) => IsLive(SessionOf(a))'
            /\ IsLive(cmd.session) => IsLive(cmd.session)'
        BY <1>3, <1>1, <1>2, <1>5, <1>6, <1>11, <1>12, <1>14 DEF SessionOf, At
      <3>3. CASE a = c
        <4>1. ASSUME NEW l \in Live("listener", c)' PROVE l = p
          BY <4>1, <3>1, <3>3, <1>7, <1>13, <1>15 DEF Live, IsLive, Pane
        <4> QED
          BY <4>1, <3>1, <3>2, <3>3, <1>14, <1>15
      <3>4. CASE a # c
        BY <3>1, <3>2, <3>4, <1>5, <1>6, <1>13, <1>14 DEF At
      <3> QED
        BY <3>3, <3>4
    <2> QED
      BY <2>1, <1>3 DEF NoneLeft
  <1>i. Tokens'
    <2>1. ASSUME NEW a \in Agent \ half, IsLive(env[a].session)'
          PROVE  conf[a] = hash[a] /\ env[a].token = hash[a]
      BY <2>1, <1>1, <1>3, <1>10, <1>11, <1>12 DEF LauncherInv, Tokens, At
    <2>2. ASSUME NEW a \in Agent \ half, NEW q \in Live("session", a)'
          PROVE  pane'[q].token = hash[a] /\ pane'[q].state # "refused"
      <3>1. q \in Live("session", a) /\ q # p /\ q \in Pane
        BY <2>2, <1>9, <1>13 DEF Live
      <3> QED
        BY <3>1, <1>1, <1>9 DEF LauncherInv, Tokens, At
    <2> QED
      BY <2>1, <2>2, <1>3 DEF Tokens
  <1> QED
    BY <1>a, <1>b, <1>c, <1>d, <1>e, <1>f, <1>g, <1>h, <1>i DEF LauncherInv

----------------------------------------------------------------------------
(* What the panes do by themselves *)

\* Panes close or go on, servers are accepted or refused, turns come and go;
\* nothing else happens, but for the history of sessions that ended.
Fades ==
    /\ UNCHANGED <<hash, conf, env, views, issued, opened, half>>
    /\ \E b \in SUBSET Pane : cmd' = [cmd EXCEPT !.begun = b]
    /\ pane' \in [Pane -> PaneState]
    /\ \A p \in Pane : IsLive(p)' =>
          /\ IsLive(p) /\ pane'[p].kind = pane[p].kind /\ pane'[p].agent = pane[p].agent
          /\ pane'[p].token = pane[p].token /\ pane'[p].serves = pane[p].serves
          /\ pane'[p].state = "refused" =>
                pane[p].state = "refused" \/ pane[p].token # hash[pane[p].agent]
    /\ widowed' \in SUBSET Agent /\ widowed \subseteq widowed'
    /\ \A p \in Pane : pane[p].kind = "session" /\ pane[p].agent \in Agent /\ ~IsLive(p)' =>
          pane[p].agent \in widowed'

LEMMA PanesFade ==
  ASSUME LauncherInv, NEW p \in Pane,
         \/ SessionConnects(p) \/ ListenerConnects(p)
         \/ BeginTurn(p) \/ EndTurn(p) \/ PaneEnds(p)
  PROVE  Fades
  <1> USE DEF None
  <1>1. /\ pane \in [Pane -> PaneState] /\ cmd \in Command /\ cmd.begun \in SUBSET Pane
        /\ widowed \in SUBSET Agent
    BY DEF LauncherInv, Types, Command
  <1>2. cmd = [cmd EXCEPT !.begun = cmd.begun]
    BY <1>1 DEF Command
  <1>3. \A q \in Pane : q # 0
    BY DEF Pane
  <1>4. pane[p].token \in 0..MaxTokens /\ pane[p] \in PaneState
    BY <1>1 DEF PaneState
  <1>a. Closed \in PaneState /\ Closed.kind = "none"
    BY Bounds DEF Closed, PaneState
  \* Only what may change of a pane that goes on is said of it.
  <1>b. ASSUME NEW r \in PaneState, pane' = [pane EXCEPT ![p] = r],
               r.kind # "none" =>
                  /\ r.kind = pane[p].kind /\ r.agent = pane[p].agent
                  /\ r.token = pane[p].token /\ r.serves = pane[p].serves
                  /\ r.state = "refused" =>
                        pane[p].state = "refused" \/ pane[p].token # hash[pane[p].agent],
               r.kind = "none" => pane[p].kind # "session",
               NEW b \in SUBSET Pane, cmd' = [cmd EXCEPT !.begun = b],
               UNCHANGED <<hash, conf, env, views, issued, opened, half, widowed>>
        PROVE  Fades
    <2>1. pane' \in [Pane -> PaneState] /\ pane'[p] = r
      BY <1>1, <1>b
    <2>2. \A q \in Pane : q # p => pane'[q] = pane[q]
      BY <1>1, <1>b
    <2> QED
      BY <1>1, <1>3, <1>b, <2>1, <2>2 DEF Fades, IsLive
  <1>5. CASE SessionConnects(p)
    <2> PICK st \in {"accepted", "refused"} :
           /\ st = IF pane[p].token = hash[pane[p].agent] THEN "accepted" ELSE "refused"
           /\ pane' = [pane EXCEPT ![p].state = st]
      BY <1>5 DEF SessionConnects
    <2> DEFINE r == [pane[p] EXCEPT !.state = st]
    <2>1. /\ r \in PaneState /\ r.kind = pane[p].kind /\ r.agent = pane[p].agent
          /\ r.token = pane[p].token /\ r.serves = pane[p].serves /\ r.state = st
          /\ pane' = [pane EXCEPT ![p] = r]
      BY <1>1, <1>4 DEF PaneState
    <2>2. /\ UNCHANGED <<hash, conf, env, views, issued, opened, half, widowed>>
          /\ cmd' = cmd /\ pane[p].kind = "session"
      BY <1>5 DEF SessionConnects, files, counters
    <2> HIDE DEF r
    <2> QED
      BY <1>1, <1>2, <1>b, <2>1, <2>2
  <1>6. CASE ListenerConnects(p)
    <2>1. /\ UNCHANGED <<hash, conf, env, views, issued, opened, half, widowed>>
          /\ cmd' = cmd /\ pane[p].kind = "listener"
      BY <1>6 DEF ListenerConnects, files, counters
    <2>2. CASE pane[p].token = hash[pane[p].agent]
      <3> DEFINE r == [pane[p] EXCEPT !.state = "accepted"]
      <3>1. /\ r \in PaneState /\ r.kind = pane[p].kind /\ r.agent = pane[p].agent
            /\ r.token = pane[p].token /\ r.serves = pane[p].serves /\ r.state = "accepted"
            /\ pane' = [pane EXCEPT ![p] = r]
        BY <1>1, <1>4, <1>6, <2>2 DEF ListenerConnects, PaneState
      <3> HIDE DEF r
      <3> QED
        BY <1>1, <1>2, <1>b, <2>1, <3>1
    <2>3. CASE pane[p].token # hash[pane[p].agent]
      <3>1. pane' = [pane EXCEPT ![p] = Closed]
        BY <1>6, <2>3 DEF ListenerConnects
      <3> QED
        BY <1>1, <1>2, <1>a, <1>b, <2>1, <3>1
    <2> QED
      BY <2>2, <2>3
  <1>7. ASSUME NEW on \in BOOLEAN, pane' = [pane EXCEPT ![p].busy = on],
               NEW b \in SUBSET Pane, cmd' = [cmd EXCEPT !.begun = b],
               UNCHANGED <<hash, conf, env, views, issued, opened, half, widowed>>
        PROVE  Fades
    <2> DEFINE r == [pane[p] EXCEPT !.busy = on]
    <2>1. /\ r \in PaneState /\ r.kind = pane[p].kind /\ r.agent = pane[p].agent
          /\ r.token = pane[p].token /\ r.serves = pane[p].serves /\ r.state = pane[p].state
          /\ pane' = [pane EXCEPT ![p] = r]
      BY <1>1, <1>4, <1>7 DEF PaneState
    <2> HIDE DEF r
    <2> QED
      BY <1>b, <1>7, <2>1
  <1>8. CASE BeginTurn(p)
    <2>1. PICK b \in SUBSET Pane : cmd' = [cmd EXCEPT !.begun = b]
      BY <1>1, <1>8 DEF BeginTurn
    <2> QED
      BY <1>7, <1>8, <2>1 DEF BeginTurn, files, counters
  <1>c. CASE EndTurn(p)
    BY <1>1, <1>2, <1>7, <1>c DEF EndTurn, files, counters
  <1>9. CASE PaneEnds(p)
    <2>1. pane' = [pane EXCEPT ![p] = Closed]
      BY <1>9 DEF PaneEnds, Close
    <2>2. pane[p].agent \in Agent
      BY <1>9 DEF PaneEnds, LauncherInv, References
    <2> QED
      BY <1>1, <1>2, <1>3, <1>a, <1>9, <2>1, <2>2 DEF PaneEnds, Fades, IsLive, files, counters
  <1> QED
    BY <1>5, <1>6, <1>8, <1>9, <1>c

LEMMA FadeStep ==
  ASSUME LauncherInv, Fades
  PROVE  LauncherInv'
  <1> USE DEF None
  <1>1. /\ cmd' \in Command /\ cmd'.pc = cmd.pc /\ cmd'.todo = cmd.todo
        /\ cmd'.does = cmd.does /\ cmd'.was = cmd.was /\ cmd'.token = cmd.token
        /\ cmd'.session = cmd.session /\ cmd'.listener = cmd.listener
        /\ Command' = Command
    BY DEF LauncherInv, Types, Fades, Command
  <1>2. Current' = Current /\ \A a, pcs : At(a, pcs)' = At(a, pcs)
    BY <1>1 DEF Current, At
  <1>3. /\ UNCHANGED <<hash, conf, env, views, issued, opened, half>>
        /\ widowed \subseteq widowed'
    BY DEF Fades
  <1>4. \A p \in Pane \union {0} : IsLive(p)' =>
          /\ IsLive(p) /\ pane'[p].kind = pane[p].kind /\ pane'[p].agent = pane[p].agent
          /\ pane'[p].token = pane[p].token /\ pane'[p].serves = pane[p].serves
    BY DEF Fades, IsLive
  <1>5. \A a \in Agent : SessionOf(a)' = SessionOf(a) /\ ListenerOf(a)' = ListenerOf(a)
    BY <1>1, <1>2, <1>3 DEF SessionOf, ListenerOf
  <1>6. \A k \in {"session", "listener"}, a \in Agent : Live(k, a)' \subseteq Live(k, a)
    BY <1>4 DEF Live, IsLive, Pane
  <1>7. /\ \A a \in Agent : /\ env[a].session \in Pane \union {0}
                            /\ env[a].listener \in Pane \union {0}
        /\ \A a \in Agent : /\ cmd.was[a].session \in Pane \union {0}
                            /\ cmd.was[a].listener \in Pane \union {0}
        /\ cmd.session \in Pane \union {0} /\ cmd.listener \in Pane \union {0}
    BY DEF LauncherInv, Types, Command, Record
  <1>a. Types'
    BY <1>1, <1>3 DEF LauncherInv, Types, Fades
  <1>b. References'
    BY <1>1, <1>2, <1>3, <1>4, <1>7 DEF LauncherInv, References, Owned, IsOf
  <1>c. StartsAfresh' /\ Replaces'
    BY <1>1, <1>2, <1>3, <1>4, <1>7 DEF LauncherInv, StartsAfresh, Replaces, Types, Command
  <1>d. Removes' /\ TakesDown'
    BY <1>1, <1>2, <1>3, <1>4, <1>7 DEF LauncherInv, Removes, TakesDown
  <1>e. Writes'
    BY <1>1, <1>2, <1>3 DEF LauncherInv, Writes
  <1>f. OnlySession'
    BY <1>3, <1>5, <1>6 DEF LauncherInv, OnlySession
  <1>g. OnlyVoice'
    <2>1. ASSUME NEW a \in Agent \ half, NEW l \in Live("listener", a)',
                 pane'[l].serves \in Live("session", a)'
          PROVE  l = ListenerOf(a)'
      <3>1. l \in Live("listener", a) /\ l \in Pane /\ IsLive(l)'
        BY <2>1, <1>6 DEF Live, IsLive, Pane
      <3>2. pane[l].serves \in Live("session", a)
        BY <2>1, <3>1, <1>4, <1>6
      <3> QED
        BY <3>1, <3>2, <1>5 DEF LauncherInv, OnlyVoice
    <2> QED
      BY <2>1, <1>3 DEF OnlyVoice
  <1>h. NoneLeft'
    <2>1. ASSUME NEW a \in Agent \ (half \union widowed')
          PROVE  /\ Live("listener", a)' \subseteq {ListenerOf(a)'}
                 /\ IsLive(SessionOf(a))' \/ Live("listener", a)' = {}
                 /\ At(a, Opening) => IsLive(cmd.session)'
      <3>1. /\ Live("listener", a) \subseteq {ListenerOf(a)}
            /\ IsLive(SessionOf(a)) \/ Live("listener", a) = {}
            /\ At(a, Opening) => IsLive(cmd.session)
        BY <1>3 DEF LauncherInv, NoneLeft
      <3>2. \A q \in Pane : IsLive(q) /\ IsOf(q, "session", a) => IsLive(q)'
        BY DEF IsOf, Fades
      <3>3. IsOf(SessionOf(a), "session", a) /\ (At(a, Opening) => IsOf(cmd.session, "session", a))
        BY DEF LauncherInv, References, Owned, SessionOf, At, Opening
      <3>4. SessionOf(a) \in Pane \union {0} /\ ~IsLive(0)
        BY <1>7 DEF SessionOf, IsLive
      <3> QED
        BY <3>1, <3>2, <3>3, <3>4, <1>1, <1>2, <1>5, <1>6, <1>7
    <2> QED
      BY <2>1, <1>2, <1>3 DEF NoneLeft
  <1>i. Tokens'
    <2>1. ASSUME NEW a \in Agent \ half,
                 IsLive(env[a].session)', ~At(a, {"files", "session", "record"})
          PROVE  conf[a] = hash[a] /\ env[a].token = hash[a]
      BY <2>1, <1>3, <1>4, <1>7 DEF LauncherInv, Tokens
    <2>2. ASSUME NEW a \in Agent \ half, NEW q \in Live("session", a)',
                 ~At(a, {"files", "session"})
          PROVE  pane'[q].token = hash[a] /\ pane'[q].state # "refused"
      <3>1. q \in Live("session", a) /\ q \in Pane /\ IsLive(q)' /\ pane[q].agent = a
        BY <2>2, <1>6 DEF Live, IsLive, Pane
      <3>2. pane[q].token = hash[a] /\ pane[q].state # "refused"
        BY <2>2, <3>1 DEF LauncherInv, Tokens
      <3> QED
        BY <3>1, <3>2 DEF Fades
    <2> QED
      BY <2>1, <2>2, <1>2, <1>3 DEF Tokens
  <1> QED
    BY <1>a, <1>b, <1>c, <1>d, <1>e, <1>f, <1>g, <1>h, <1>i DEF LauncherInv

----------------------------------------------------------------------------
(* remove and down *)

LEMMA StopStep ==
  ASSUME LauncherInv, StopListener \/ StopSession
  PROVE  LauncherInv'
  <1> USE DEF None
  <1>1. /\ cmd.pc \in {"stop-listener", "stop-session"}
        /\ cmd' = [cmd EXCEPT !.pc = IF cmd.pc = "stop-listener" THEN "stop-session" ELSE "forget"]
        /\ Close(IF cmd.pc = "stop-listener" THEN Was.listener ELSE Was.session)
        /\ UNCHANGED <<hash, conf, env, views, issued, opened, half, widowed>>
    BY DEF StopListener, StopSession, files, counters
  <1>2. cmd.does = "remove"
    BY <1>1 DEF LauncherInv, TakesDown, StopPCs
  <1> PICK c \in Agent : cmd.todo = {c}
    BY <1>1, <1>2 DEF LauncherInv, Removes, StopPCs
  <1>3. /\ env[c] = cmd.was[c] /\ Was = cmd.was[c]
        /\ cmd.pc = "stop-session" => ~IsLive(env[c].listener)
    <2>1. Current = c
      BY CurrentIsTodo DEF Current
    <2> QED
      BY <2>1, <1>1, <1>2 DEF LauncherInv, Removes, StopPCs, Was
  <1>4. /\ cmd' \in Command /\ cmd'.todo = cmd.todo /\ cmd'.does = cmd.does
        /\ cmd'.was = cmd.was /\ cmd'.token = cmd.token
        /\ cmd'.pc = IF cmd.pc = "stop-listener" THEN "stop-session" ELSE "forget"
        /\ cmd'.session = cmd.session /\ cmd'.listener = cmd.listener
        /\ Command' = Command
    BY <1>1 DEF LauncherInv, Types, Command, StopPCs
  <1> PICK p \in Pane \union {0} :
         p = IF cmd.pc = "stop-listener" THEN env[c].listener ELSE env[c].session
    BY DEF LauncherInv, Types
  <1>5. pane' = IF IsLive(p) THEN [pane EXCEPT ![p] = Closed] ELSE pane
    BY <1>1, <1>3 DEF Close
  <1>6. /\ pane \in [Pane -> PaneState] /\ pane' \in [Pane -> PaneState]
        /\ ~IsLive(p)' /\ \A q \in Pane : q # p => pane'[q] = pane[q]
    BY <1>5, Bounds DEF LauncherInv, Types, IsLive, Closed, PaneState
  <1>7. /\ \A q \in Pane \union {0} : IsLive(q)' <=> IsLive(q) /\ q # p
        /\ \A q \in Pane \union {0} : IsLive(q)' => pane'[q] = pane[q]
    BY <1>6 DEF IsLive
  <1>8. \A k \in {"session", "listener"}, a \in Agent :
           Live(k, a)' = Live(k, a) \ {p}
    <2> SUFFICES ASSUME NEW k \in {"session", "listener"}, NEW a \in Agent, NEW q \in Pane
                 PROVE  q \in Live(k, a)' <=> q \in Live(k, a) /\ q # p
      BY DEF Live
    <2> QED
      BY <1>6 DEF Live, IsLive, Pane
  <1>9. /\ \A a \in Agent : /\ env[a].session \in Pane \union {0}
                            /\ env[a].listener \in Pane \union {0}
        /\ \A a \in Agent : /\ cmd.was[a].session \in Pane \union {0}
                            /\ cmd.was[a].listener \in Pane \union {0}
    BY DEF LauncherInv, Types, Command, Record
  <1>10. \A a, pcs : pcs \subseteq StartPCs => ~At(a, pcs) /\ ~At(a, pcs)'
    BY <1>1, <1>4 DEF At, StartPCs, Opening
  <1>11. ~(cmd.pc \in StartPCs) /\ ~(cmd'.pc \in StartPCs)
    BY <1>1, <1>4 DEF StartPCs, Opening
  <1>12. \A a \in Agent : /\ SessionOf(a) = env[a].session /\ SessionOf(a)' = env[a].session
                          /\ ListenerOf(a) = env[a].listener /\ ListenerOf(a)' = env[a].listener
    BY <1>1, <1>10, <1>11 DEF SessionOf, ListenerOf, StartPCs, Opening
  <1>13. \A a \in Agent : IsOf(env[a].session, "session", a) /\ IsOf(env[a].listener, "listener", a)
    BY DEF LauncherInv, References, Owned
  <1>a. Types'
    BY <1>1, <1>4, <1>6, <1>11 DEF LauncherInv, Types
  <1>b. References'
    <2>1. \A q \in Pane : IsLive(q)' =>
             q <= opened /\ pane'[q].serves <= opened /\ pane'[q].agent \in Agent
      BY <1>7 DEF LauncherInv, References
    <2>2. ASSUME NEW a \in Agent
          PROVE  Owned(env[a], a)' /\ Owned(cmd.was[a], a)'
      <3>1. Owned(env[a], a) /\ Owned(cmd.was[a], a)
        BY DEF LauncherInv, References
      <3> QED
        BY <3>1, <1>1, <1>4, <1>7, <1>9 DEF Owned, IsOf
    <2> QED
      BY <2>1, <2>2, <1>1, <1>10 DEF References, StartPCs, Opening
  <1>c. StartsAfresh' /\ Replaces'
    BY <1>11 DEF StartsAfresh, Replaces
  <1>d. Removes' /\ TakesDown'
    <2>1. cmd'.pc # "stop-listener" => ~IsLive(env[c].listener)'
      BY <1>1, <1>3, <1>7, <1>9
    <2>2. cmd'.pc = "forget" => ~IsLive(env[c].session)'
      BY <1>1, <1>4, <1>7, <1>9
    <2> QED
      BY <2>1, <2>2, <1>1, <1>2, <1>3, <1>4 DEF Removes, TakesDown
  <1>e. Writes'
    BY <1>10 DEF Writes, StartPCs, Opening
  <1>f. OnlySession'
    BY <1>1, <1>8, <1>12 DEF LauncherInv, OnlySession
  <1>g. OnlyVoice'
    <2>1. ASSUME NEW a \in Agent \ half, NEW l \in Live("listener", a)',
                 pane'[l].serves \in Live("session", a)'
          PROVE  l = ListenerOf(a)'
      <3>1. l \in Live("listener", a) /\ l \in Pane /\ l # p
        BY <2>1, <1>8 DEF Live
      <3>2. pane[l].serves \in Live("session", a)
        BY <2>1, <3>1, <1>6, <1>8
      <3> QED
        BY <3>1, <3>2, <1>12 DEF LauncherInv, OnlyVoice
    <2> QED
      BY <2>1, <1>1 DEF OnlyVoice
  <1>h. NoneLeft'
    <2>1. ASSUME NEW a \in Agent \ (half \union widowed)
          PROVE  /\ Live("listener", a)' \subseteq {ListenerOf(a)'}
                 /\ IsLive(SessionOf(a))' \/ Live("listener", a)' = {}
      <3>1. /\ Live("listener", a) \subseteq {env[a].listener}
            /\ IsLive(env[a].session) \/ Live("listener", a) = {}
        BY <1>12 DEF LauncherInv, NoneLeft
      <3>2. CASE IsLive(env[a].session)'
        BY <3>1, <3>2, <1>1, <1>8, <1>12
      <3>3. CASE IsLive(env[a].session) /\ ~IsLive(env[a].session)'
        <4>1. env[a].session = p
          BY <3>3, <1>1, <1>7, <1>9
        <4>2. a = c /\ cmd.pc = "stop-session"
          BY <3>3, <4>1, <1>1, <1>13 DEF IsOf
        <4>3. Live("listener", a) = {}
          BY <4>2, <3>1, <1>3 DEF Live, IsLive, Pane
        <4> QED
          BY <4>3, <1>8
      <3>4. CASE ~IsLive(env[a].session)
        BY <3>1, <3>4, <1>8
      <3> QED
        BY <3>2, <3>3, <3>4
    <2> QED
      BY <2>1, <1>1, <1>10 DEF NoneLeft, StartPCs, Opening
  <1>i. Tokens'
    <2>1. ASSUME NEW a \in Agent \ half, IsLive(env[a].session)'
          PROVE  conf[a] = hash[a] /\ env[a].token = hash[a]
      BY <2>1, <1>1, <1>7, <1>9, <1>10 DEF LauncherInv, Tokens, StartPCs, Opening
    <2>2. ASSUME NEW a \in Agent \ half, NEW q \in Live("session", a)'
          PROVE  pane'[q].token = hash[a] /\ pane'[q].state # "refused"
      <3>1. q \in Live("session", a) /\ q # p /\ q \in Pane
        BY <2>2, <1>8 DEF Live
      <3> QED
        BY <3>1, <1>6, <1>10 DEF LauncherInv, Tokens, StartPCs, Opening
    <2> QED
      BY <2>1, <2>2, <1>1 DEF Tokens
  <1> QED
    BY <1>a, <1>b, <1>c, <1>d, <1>e, <1>f, <1>g, <1>h, <1>i DEF LauncherInv

----------------------------------------------------------------------------
(* Token, files and records *)

LEMMA SyncStep ==
  ASSUME LauncherInv, sync_agent \/ agent_command
  PROVE  LauncherInv'
  <1> USE DEF None
  <1>1. cmd.pc \in {"sync", "files"} /\ cmd.pc \in StartPCs
    BY DEF sync_agent, agent_command, StartPCs
  <1> PICK c \in Agent : c = Current /\ c \in cmd.todo
    BY <1>1, StartingFacts
  <1>2. /\ UNCHANGED <<env, pane, views, opened, half, widowed>>
        /\ issued' \in 0..MaxTokens /\ issued \in Nat /\ issued <= issued'
        /\ cmd.pc = "sync" => /\ hash' = [hash EXCEPT ![c] = issued'] /\ conf' = conf
                              /\ cmd' = [cmd EXCEPT !.pc = "files", !.token = issued']
        /\ cmd.pc = "files" => /\ conf' = [conf EXCEPT ![c] = cmd.token] /\ hash' = hash
                               /\ cmd' = [cmd EXCEPT !.pc = "session"]
                               /\ issued' = issued
    BY Bounds DEF sync_agent, agent_command, LauncherInv, Types, files, counters
  <1>3. /\ cmd'.does = cmd.does /\ cmd'.todo = cmd.todo /\ cmd'.was = cmd.was
        /\ cmd'.pc = IF cmd.pc = "sync" THEN "files" ELSE "session"
        /\ cmd'.token = IF cmd.pc = "sync" THEN issued' ELSE cmd.token
        /\ cmd' \in Command' /\ cmd.token \in 0..issued
    <2>1. cmd \in Command /\ cmd.token \in 0..issued
      BY DEF LauncherInv, Types, Command
    <2>2. 0..issued \subseteq 0..issued' /\ issued' \in 0..issued'
      BY <1>2, Bounds
    <2>3. CASE cmd.pc = "sync"
      BY <1>2, <2>1, <2>2, <2>3 DEF Command, StartPCs
    <2>4. CASE cmd.pc = "files"
      BY <1>2, <2>1, <2>2, <2>4 DEF Command, StartPCs
    <2> QED
      BY <1>1, <2>3, <2>4
  <1>4. Current' = c
    BY <1>3 DEF Current
  <1>5. /\ hash \in [Agent -> 0..issued] /\ conf \in [Agent -> 0..issued]
        /\ hash' \in [Agent -> 0..issued'] /\ conf' \in [Agent -> 0..issued']
        /\ \A a \in Agent : a # c => hash'[a] = hash[a] /\ conf'[a] = conf[a]
        /\ cmd'.token = hash'[c] /\ (cmd'.pc = "session" => conf'[c] = cmd'.token)
    <2>1. hash \in [Agent -> 0..issued] /\ conf \in [Agent -> 0..issued]
      BY DEF LauncherInv, Types
    <2>2. cmd.pc = "files" => cmd.token = hash[c]
      BY DEF LauncherInv, Writes, At
    <2> QED
      BY <2>1, <2>2, <1>1, <1>2, <1>3
  <1>6. /\ \A p : IsLive(p)' = IsLive(p)
        /\ \A k, a : Live(k, a)' = Live(k, a)
    BY <1>2 DEF IsLive, Live
  <1>7. \A a, pcs : pcs \subseteq Opening => ~At(a, pcs) /\ ~At(a, pcs)'
    BY <1>1, <1>3 DEF At, Opening
  <1>8. \A a \in Agent : SessionOf(a)' = SessionOf(a) /\ ListenerOf(a)' = ListenerOf(a)
    BY <1>1, <1>2, <1>3, <1>7 DEF SessionOf, ListenerOf, StartPCs, Opening
  <1>9. cmd'.pc \in {"files", "session"} /\ cmd'.pc \in StartPCs
    BY <1>1, <1>3 DEF StartPCs
  <1>a. Types'
    <2>1. env \in [Agent -> [token : 0..issued', session : Pane \union {None},
                            listener : Pane \union {None}]]
      BY <1>2 DEF LauncherInv, Types
    <2> QED
      BY <2>1, <1>2, <1>3, <1>5 DEF LauncherInv, Types
  <1>b. References'
    BY <1>2, <1>3, <1>6, <1>7 DEF LauncherInv, References, Owned, IsOf, Opening
  <1>c. StartsAfresh' /\ Replaces'
    BY <1>1, <1>2, <1>3, <1>6, <1>7, <1>9 DEF LauncherInv, StartsAfresh, Replaces, Opening
  <1>d. Removes' /\ TakesDown'
    BY <1>9 DEF Removes, TakesDown, StopPCs
  <1>e. Writes'
    BY <1>4, <1>5, <1>7, <1>9 DEF Writes, At, Opening
  <1>f. OnlySession' /\ OnlyVoice'
    BY <1>2, <1>6, <1>8 DEF LauncherInv, OnlySession, OnlyVoice
  <1>h. NoneLeft'
    BY <1>2, <1>3, <1>6, <1>7, <1>8 DEF LauncherInv, NoneLeft
  <1>i. Tokens'
    <2>1. ASSUME NEW a \in Agent \ half, a # c
          PROVE  /\ IsLive(env[a].session) => conf'[a] = hash'[a] /\ env[a].token = hash'[a]
                 /\ \A p \in Live("session", a) :
                       pane[p].token = hash'[a] /\ pane[p].state # "refused"
      BY <2>1, <1>5 DEF LauncherInv, Tokens, At
    <2>2. At(c, {"files", "session"})' /\ At(c, {"files", "session", "record"})'
      BY <1>4, <1>9 DEF At
    <2> QED
      BY <2>1, <2>2, <1>2, <1>6 DEF Tokens
  <1> QED
    BY <1>a, <1>b, <1>c, <1>d, <1>e, <1>f, <1>h, <1>i DEF LauncherInv

LEMMA WriteRecordStep ==
  ASSUME LauncherInv, WriteRecord
  PROVE  LauncherInv'
  <1> USE DEF None
  <1>1. cmd.pc = "record" /\ cmd.pc \in StartPCs
    BY DEF WriteRecord, StartPCs, Opening
  <1> PICK c \in Agent : c = Current /\ c \in cmd.todo
    BY <1>1, StartingFacts
  <1>2. /\ UNCHANGED <<hash, conf, pane, views, issued, opened, half, widowed>>
        /\ env' = [env EXCEPT ![c] =
                      [token |-> cmd.token, session |-> cmd.session, listener |-> 0]]
        /\ cmd' = [cmd EXCEPT !.pc = "listener"]
    BY DEF WriteRecord, counters
  <1>3. /\ cmd'.does = cmd.does /\ cmd'.todo = cmd.todo /\ cmd'.was = cmd.was
        /\ cmd'.pc = "listener" /\ cmd'.token = cmd.token /\ cmd'.session = cmd.session
        /\ cmd' \in Command' /\ cmd.token \in 0..issued /\ cmd.session \in Pane \union {0}
    BY <1>2 DEF LauncherInv, Types, Command, StartPCs, Opening
  <1>4. Current' = c
    BY <1>3 DEF Current
  <1>5. /\ env'[c].token = cmd.token /\ env'[c].session = cmd.session /\ env'[c].listener = 0
        /\ env'[c] = [token |-> cmd.token, session |-> cmd.session, listener |-> 0]
        /\ \A a \in Agent : a # c => env'[a] = env[a]
        /\ env' \in [Agent -> [token : 0..issued, session : Pane \union {None},
                               listener : Pane \union {None}]]
    BY <1>2, <1>3 DEF LauncherInv, Types
  <1>6. /\ \A p : IsLive(p)' = IsLive(p)
        /\ \A k, a : Live(k, a)' = Live(k, a)
    BY <1>2 DEF IsLive, Live
  <1>7. /\ cmd.session # 0 /\ cmd.token = hash[c] /\ conf[c] = cmd.token
        /\ IsOf(cmd.session, "session", c)
    BY <1>1 DEF LauncherInv, References, Writes, At, Opening
  <1>8. \A a \in Agent : SessionOf(a)' = SessionOf(a) /\ ListenerOf(a)' = ListenerOf(a)
    BY <1>1, <1>3, <1>4, <1>5 DEF SessionOf, ListenerOf, At, StartPCs, Opening
  <1>9. cmd'.pc \in StartPCs
    BY <1>3 DEF StartPCs, Opening
  <1>a. Types'
    BY <1>2, <1>3, <1>5 DEF LauncherInv, Types
  <1>b. References'
    <2>1. ASSUME NEW a \in Agent
          PROVE  Owned(env[a], a)' /\ Owned(cmd.was[a], a)'
      <3>1. Owned(env[a], a) /\ Owned(cmd.was[a], a)
        BY DEF LauncherInv, References
      <3>2. 0 \in 0..opened /\ ~IsLive(0)
        BY Bounds DEF LauncherInv, Types, IsLive
      <3>3. CASE a = c
        BY <3>1, <3>2, <3>3, <1>2, <1>3, <1>5, <1>6, <1>7 DEF Owned, IsOf
      <3>4. CASE a # c
        BY <3>1, <3>4, <1>2, <1>3, <1>5, <1>6 DEF Owned, IsOf
      <3> QED
        BY <3>3, <3>4
    <2>2. \A a : At(a, {"note"})' = FALSE
      BY <1>3 DEF At
    <2>3. \A p \in Pane : IsLive(p)' =>
             p <= opened' /\ pane'[p].serves <= opened' /\ pane'[p].agent \in Agent
      BY <1>2, <1>6 DEF LauncherInv, References
    <2>4. IsOf(cmd.session, "session", c)'
      BY <1>2, <1>3, <1>6, <1>7 DEF IsOf
    <2> QED
      BY <2>1, <2>2, <2>3, <2>4, <1>4 DEF References, At
  <1>c. StartsAfresh' /\ Replaces'
    BY <1>1, <1>3, <1>4, <1>5, <1>6, <1>9, StartingFacts
       DEF LauncherInv, StartsAfresh, Replaces, At, Opening
  <1>d. Removes' /\ TakesDown'
    BY <1>3 DEF Removes, TakesDown, StopPCs
  <1>e. Writes'
    BY <1>2, <1>3, <1>4, <1>5, <1>7 DEF Writes, At, Opening
  <1>f. OnlySession' /\ OnlyVoice'
    BY <1>2, <1>6, <1>8 DEF LauncherInv, OnlySession, OnlyVoice
  <1>h. NoneLeft'
    BY <1>1, <1>2, <1>3, <1>4, <1>6, <1>8 DEF LauncherInv, NoneLeft, At, Opening
  <1>i. Tokens'
    BY <1>1, <1>2, <1>3, <1>4, <1>5, <1>6, <1>7 DEF LauncherInv, Tokens, At
  <1> QED
    BY <1>a, <1>b, <1>c, <1>d, <1>e, <1>f, <1>h, <1>i DEF LauncherInv

\* Nothing is left to say of a command that has ended or has not begun.
LEMMA NothingBegun ==
  ASSUME LauncherInv, LauncherNext, cmd'.pc \in {"none", "sync"}
  PROVE  /\ \A a, pcs : pcs \subseteq {"files", "session"} \union Opening => ~At(a, pcs)'
         /\ \A a \in Agent : SessionOf(a)' = env'[a].session
         /\ Writes' /\ Removes' /\ TakesDown'
         /\ cmd'.pc = "none" => StartsAfresh' /\ Replaces'
  <1>1. \A a, pcs : pcs \subseteq {"files", "session"} \union Opening => ~At(a, pcs)'
    BY DEF At, Opening
  <1> QED
    BY <1>1 DEF SessionOf, Writes, Removes, TakesDown, StartsAfresh, Replaces,
                Opening, StartPCs, StopPCs

LEMMA IdleFields ==
  /\ Idle.does = "none" /\ Idle.pc = "none" /\ Idle.todo = {} /\ Idle.token = None
  /\ Idle.was \in [Agent -> Record] /\ \A a \in Agent : Idle.was[a] = NoRecord
  /\ NoRecord.session = None /\ NoRecord.listener = None /\ NoRecord.token = None
  /\ issued \in Nat => Idle \in Command
  BY DEF Idle, NoRecord, None, Record, Command, StartPCs

LEMMA NoteListenerStep ==
  ASSUME LauncherInv, NoteListener
  PROVE  LauncherInv'
  <1> USE DEF None
  <1>1. cmd.pc = "note" /\ cmd.pc \in StartPCs
    BY DEF NoteListener, StartPCs, Opening
  <1> PICK c \in Agent : c = Current /\ c \in cmd.todo
    BY <1>1, StartingFacts
  <1> DEFINE rest == cmd.todo \ {c}
  <1>2. /\ UNCHANGED <<hash, conf, pane, issued, opened, half, widowed>>
        /\ env' = [env EXCEPT ![c].listener = cmd.listener]
        /\ views' \in BOOLEAN
        /\ cmd' = IF rest = {} THEN Idle ELSE [cmd EXCEPT !.todo = rest, !.pc = "sync"]
    BY DEF NoteListener, NextAgent, counters, LauncherInv, Types
  <1>3. /\ cmd \in Command /\ cmd.listener \in Pane \union {0} /\ rest \in SUBSET Agent
        /\ issued \in Nat
    BY Bounds DEF LauncherInv, Types, Command
  <1>4. \/ rest = {} /\ cmd' = Idle
        \/ /\ rest # {} /\ cmd'.pc = "sync" /\ cmd'.todo = rest /\ cmd'.does = cmd.does
           /\ cmd'.was = cmd.was /\ cmd' \in Command
    <2> HIDE DEF rest
    <2> QED
      BY <1>2, <1>3 DEF Command, StartPCs
  <1>5. /\ cmd'.pc \in {"none", "sync"} /\ cmd' \in Command' /\ cmd'.todo = rest
        /\ cmd'.was \in [Agent -> Record]
        /\ \A a \in Agent : cmd'.was[a] \in {cmd.was[a], NoRecord}
        /\ rest # {} => cmd'.pc = "sync" /\ cmd'.was = cmd.was /\ cmd'.does = cmd.does
        /\ rest = {} => cmd'.pc = "none"
    <2> HIDE DEF rest
    <2>1. Command' = Command
      BY <1>2 DEF Command
    <2> QED
      BY <1>3, <1>4, <2>1, IdleFields DEF Command
  <1>6. /\ env'[c].token = env[c].token /\ env'[c].session = env[c].session
        /\ env'[c].listener = cmd.listener
        /\ \A a \in Agent : a # c => env'[a] = env[a]
        /\ env' \in [Agent -> [token : 0..issued, session : Pane \union {None},
                               listener : Pane \union {None}]]
    BY <1>2, <1>3 DEF LauncherInv, Types
  <1>7. /\ \A p : IsLive(p)' = IsLive(p)
        /\ \A k, a : Live(k, a)' = Live(k, a)
    BY <1>2 DEF IsLive, Live
  <1>8. /\ \A a, pcs : pcs \subseteq {"files", "session"} \union Opening => ~At(a, pcs)'
        /\ \A a \in Agent : SessionOf(a)' = env'[a].session
        /\ Writes' /\ Removes' /\ TakesDown'
        /\ cmd'.pc = "none" => StartsAfresh' /\ Replaces'
    <2>1. LauncherNext
      BY DEF LauncherNext, CommandStep
    <2> QED
      BY <2>1, <1>5, NothingBegun
  <1>9. \A a \in Agent : SessionOf(a)' = SessionOf(a) /\ ListenerOf(a)' = ListenerOf(a)
    <2>1. \A a \in Agent : SessionOf(a)' = SessionOf(a)
      BY <1>1, <1>6, <1>8 DEF SessionOf, At
    <2>2. \A a \in Agent : ~At(a, {"note"})'
      BY <1>8 DEF Opening
    <2>3. ListenerOf(c)' = ListenerOf(c)
      BY <2>2, <1>1, <1>5, <1>6 DEF ListenerOf, At
    <2>4. \A a \in Agent \ rest : a # c => ListenerOf(a)' = ListenerOf(a)
      BY <2>2, <1>1, <1>5, <1>6 DEF ListenerOf, At
    <2>5. \A a \in rest : ListenerOf(a)' = ListenerOf(a)
      BY <2>2, <1>1, <1>5, <1>6 DEF ListenerOf, At, StartPCs
    <2> QED
      BY <2>1, <2>3, <2>4, <2>5
  <1>a. Types'
    BY <1>2, <1>5, <1>6 DEF LauncherInv, Types, StartPCs, Opening
  <1>b. References'
    <2>1. ASSUME NEW a \in Agent
          PROVE  Owned(env[a], a)' /\ Owned(cmd.was[a], a)'
      <3>1. Owned(env[a], a) /\ Owned(cmd.was[a], a)
        BY DEF LauncherInv, References
      <3>2. IsOf(cmd.listener, "listener", c)
        BY <1>1 DEF LauncherInv, References, At
      <3>3. 0 \in 0..opened /\ ~IsLive(0)
        BY Bounds DEF LauncherInv, Types, IsLive
      <3>4. Owned(env[a], a)'
        BY <3>1, <3>2, <1>2, <1>6, <1>7 DEF Owned, IsOf
      <3>5. Owned(cmd.was[a], a)'
        BY <3>1, <3>3, <1>2, <1>5, <1>7, IdleFields DEF Owned, IsOf
      <3> QED
        BY <3>4, <3>5
    <2> QED
      BY <2>1, <1>2, <1>7, <1>8 DEF LauncherInv, References, Opening
  <1>c. StartsAfresh' /\ Replaces'
    <2>1. CASE rest = {}
      BY <2>1, <1>5, <1>8
    <2>2. CASE rest # {}
      <3>1. \A a \in rest : /\ a \in cmd.todo /\ env'[a] = env[a] /\ cmd'.was[a] = cmd.was[a]
                            /\ \A pcs : ~At(a, pcs)
        BY <2>2, <1>3, <1>5, <1>6 DEF At
      <3>2. StartsAfresh'
        BY <3>1, <2>2, <1>1, <1>5, <1>7 DEF LauncherInv, StartsAfresh
      <3>3. Replaces'
        BY <3>1, <2>2, <1>1, <1>5, <1>8 DEF LauncherInv, Replaces, Opening
      <3> QED
        BY <3>2, <3>3
    <2> QED
      BY <2>1, <2>2
  <1>f. OnlySession' /\ OnlyVoice'
    BY <1>2, <1>7, <1>9 DEF LauncherInv, OnlySession, OnlyVoice
  <1>h. NoneLeft'
    BY <1>2, <1>7, <1>8, <1>9 DEF LauncherInv, NoneLeft
  <1>i. Tokens'
    BY <1>1, <1>2, <1>6, <1>7 DEF LauncherInv, Tokens, At
  <1> QED
    BY <1>a, <1>b, <1>c, <1>8, <1>f, <1>h, <1>i DEF LauncherInv

LEMMA ForgetStep ==
  ASSUME LauncherInv, forget_agent
  PROVE  LauncherInv'
  <1> USE DEF None
  <1>1. /\ cmd.pc = "forget" /\ cmd' = Idle
        /\ UNCHANGED <<hash, pane, views, issued, opened, half, widowed>>
        /\ env' = [a \in Agent |-> IF a \in cmd.todo THEN NoRecord ELSE env[a]]
        /\ conf' = [a \in Agent |-> IF a \in cmd.todo THEN 0 ELSE conf[a]]
    BY DEF forget_agent, counters
  <1>2. /\ 0 \in 0..issued /\ 0 \in 0..opened /\ ~IsLive(0) /\ issued \in Nat
        /\ hash \in [Agent -> 0..issued] /\ conf \in [Agent -> 0..issued]
        /\ env \in [Agent -> [token : 0..issued, session : Pane \union {None},
                              listener : Pane \union {None}]]
    BY Bounds DEF LauncherInv, Types, IsLive
  <1>3. /\ env' \in [Agent -> [token : 0..issued, session : Pane \union {None},
                               listener : Pane \union {None}]]
        /\ conf' \in [Agent -> 0..issued]
    BY <1>1, <1>2 DEF NoRecord
  <1>4. \A a \in Agent : env'[a] = (IF a \in cmd.todo THEN NoRecord ELSE env[a])
    BY <1>1
  <1>5. /\ cmd'.pc = "none" /\ cmd' \in Command' /\ cmd'.was \in [Agent -> Record]
        /\ \A a \in Agent : cmd'.was[a] = NoRecord
    BY <1>1, <1>2, IdleFields DEF Command
  <1>6. /\ \A p : IsLive(p)' = IsLive(p)
        /\ \A k, a : Live(k, a)' = Live(k, a)
    BY <1>1 DEF IsLive, Live
  <1>7. /\ \A a, pcs : pcs \subseteq {"files", "session"} \union Opening => ~At(a, pcs)'
        /\ \A a \in Agent : SessionOf(a)' = env'[a].session
        /\ Writes' /\ Removes' /\ TakesDown' /\ StartsAfresh' /\ Replaces'
    <2>1. LauncherNext
      BY DEF LauncherNext, CommandStep
    <2> QED
      BY <2>1, <1>5, NothingBegun
  <1>8. \A a \in Agent : /\ SessionOf(a) = env[a].session /\ ListenerOf(a) = env[a].listener
                         /\ ListenerOf(a)' = env'[a].listener
                         /\ \A pcs : pcs \subseteq StartPCs => ~At(a, pcs)
    BY <1>1, <1>5 DEF SessionOf, ListenerOf, At, StartPCs, Opening
  <1>9. \A a \in cmd.todo : ~IsLive(env[a].session)
    BY <1>1, <1>2 DEF LauncherInv, Removes, TakesDown, StopPCs, Types, Command, IsLive
  <1>10. \A a \in cmd.todo : a \notin half => Live("session", a) = {}
    <2>1. ASSUME NEW a \in cmd.todo \ half, NEW p \in Live("session", a) PROVE FALSE
      <3>1. a \in Agent
        BY DEF LauncherInv, Types, Command
      <3>2. p = env[a].session /\ IsLive(p)
        BY <2>1, <3>1, <1>8 DEF LauncherInv, OnlySession, Live, IsLive, Pane
      <3> QED
        BY <3>2, <1>9
    <2> QED
      BY <2>1
  <1>a. Types'
    BY <1>1, <1>3, <1>5 DEF LauncherInv, Types, StartPCs, Opening
  <1>b. References'
    <2>1. ASSUME NEW a \in Agent
          PROVE  Owned(env[a], a)' /\ Owned(cmd.was[a], a)'
      <3>1. Owned(env[a], a)
        BY DEF LauncherInv, References
      <3> QED
        BY <3>1, <1>1, <1>2, <1>4, <1>5, <1>6, IdleFields DEF Owned, IsOf
    <2> QED
      BY <2>1, <1>1, <1>6, <1>7 DEF LauncherInv, References, Opening
  <1>f. OnlySession' /\ OnlyVoice'
    BY <1>1, <1>4, <1>6, <1>7, <1>8, <1>10 DEF LauncherInv, OnlySession, OnlyVoice
  <1>h. NoneLeft'
    <2>1. ASSUME NEW a \in Agent \ (half \union widowed)
          PROVE  /\ Live("listener", a) \subseteq {env'[a].listener}
                 /\ IsLive(env'[a].session) \/ Live("listener", a) = {}
      BY <1>4, <1>8, <1>9 DEF LauncherInv, NoneLeft
    <2> QED
      BY <2>1, <1>1, <1>6, <1>7, <1>8 DEF NoneLeft
  <1>i. Tokens'
    <2>1. ASSUME NEW a \in Agent \ half
          PROVE  /\ IsLive(env'[a].session) => conf'[a] = hash[a] /\ env'[a].token = hash[a]
                 /\ \A p \in Live("session", a) :
                       pane[p].token = hash[a] /\ pane[p].state # "refused"
      <3>1. CASE a \in cmd.todo
        BY <3>1, <1>2, <1>4, <1>10, IdleFields
      <3>2. CASE a \notin cmd.todo
        BY <3>2, <1>1, <1>4, <1>8 DEF LauncherInv, Tokens, StartPCs, Opening
      <3> QED
        BY <3>1, <3>2
    <2> QED
      BY <2>1, <1>1, <1>6 DEF Tokens
  <1> QED
    BY <1>a, <1>b, <1>7, <1>f, <1>h, <1>i DEF LauncherInv

LEMMA CutStep ==
  ASSUME LauncherInv, Interrupted \/ RespawnFails
  PROVE  LauncherInv'
  <1> USE DEF None
  <1> DEFINE begun == cmd.pc \in {"files", "session"} \union Opening
  <1>1. /\ cmd' = Idle /\ UNCHANGED <<hash, conf, env, pane, views, issued, opened, widowed>>
        /\ half' = IF begun THEN half \union {Current} ELSE half
    BY DEF Interrupted, RespawnFails, CutShort, files, Opening
  <1>2. 0 \in 0..opened /\ ~IsLive(0) /\ issued \in Nat
    BY Bounds DEF LauncherInv, Types, IsLive
  <1>3. /\ cmd'.pc = "none" /\ cmd' \in Command' /\ cmd'.was \in [Agent -> Record]
        /\ \A a \in Agent : cmd'.was[a] = NoRecord
    BY <1>1, <1>2, IdleFields DEF Command
  <1>4. /\ \A p : IsLive(p)' = IsLive(p)
        /\ \A k, a : Live(k, a)' = Live(k, a)
    BY <1>1 DEF IsLive, Live
  <1>5. /\ \A a, pcs : pcs \subseteq {"files", "session"} \union Opening => ~At(a, pcs)'
        /\ \A a \in Agent : SessionOf(a)' = env'[a].session
        /\ Writes' /\ Removes' /\ TakesDown' /\ StartsAfresh' /\ Replaces'
    <2>1. LauncherNext
      BY DEF LauncherNext, CommandStep
    <2> QED
      BY <2>1, <1>3, NothingBegun
  <1>6. \A a : a \notin half' =>
           /\ a \notin half
           /\ \A pcs : pcs \subseteq {"files", "session"} \union Opening => ~At(a, pcs)
    BY <1>1 DEF At
  <1>7. half \subseteq half' /\ half' \subseteq Agent
    <2>1. half \subseteq Agent
      BY DEF LauncherInv, Types
    <2>2. begun => Current \in Agent
      BY StartingFacts DEF StartPCs
    <2> QED
      BY <2>1, <2>2, <1>1
  <1>8. \A a \in Agent \ half' : SessionOf(a) = env[a].session /\ SessionOf(a)' = env[a].session
    BY <1>1, <1>5, <1>6 DEF SessionOf, Opening
  <1>9. \A a \in Agent : ListenerOf(a)' = env[a].listener
    BY <1>1, <1>3 DEF ListenerOf, At, StartPCs, Opening
  <1>10. \A a \in Agent \ half' : ListenerOf(a) = env[a].listener \/ ~IsLive(env[a].session)
    <2> SUFFICES ASSUME NEW a \in Agent \ half', cmd.pc \in StartPCs, a \in cmd.todo
                 PROVE  cmd.was[a].listener = env[a].listener \/ ~IsLive(env[a].session)
      BY <1>6 DEF ListenerOf, Opening
    <2>1. ~At(a, {"listener", "note"})
      BY <1>6 DEF Opening
    <2> QED
      BY <2>1 DEF LauncherInv, StartsAfresh, Replaces
  <1>11. \A a \in Agent \ half' : ~IsLive(env[a].session) => Live("session", a) = {}
    <2>1. ASSUME NEW a \in Agent \ half', ~IsLive(env[a].session), NEW p \in Live("session", a)
          PROVE  FALSE
      BY <2>1, <1>6, <1>8 DEF LauncherInv, OnlySession, Live, IsLive, Pane
    <2> QED
      BY <2>1
  <1>a. Types'
    BY <1>1, <1>3, <1>7 DEF LauncherInv, Types, StartPCs, Opening
  <1>b. References'
    <2>1. ASSUME NEW a \in Agent
          PROVE  Owned(env[a], a)' /\ Owned(cmd.was[a], a)'
      <3>1. Owned(env[a], a)
        BY DEF LauncherInv, References
      <3> QED
        BY <3>1, <1>1, <1>2, <1>3, <1>4, IdleFields DEF Owned, IsOf
    <2> QED
      BY <2>1, <1>1, <1>4, <1>5 DEF LauncherInv, References, Opening
  <1>f. OnlySession'
    BY <1>4, <1>6, <1>8 DEF LauncherInv, OnlySession
  <1>g. OnlyVoice'
    <2>1. ASSUME NEW a \in Agent \ half', NEW l \in Live("listener", a),
                 pane[l].serves \in Live("session", a)
          PROVE  l = env[a].listener
      <3>1. l = ListenerOf(a)
        BY <2>1, <1>6 DEF LauncherInv, OnlyVoice
      <3> QED
        BY <2>1, <3>1, <1>10, <1>11
    <2> QED
      BY <2>1, <1>1, <1>4, <1>9 DEF OnlyVoice
  <1>h. NoneLeft'
    <2>1. ASSUME NEW a \in Agent \ (half' \union widowed)
          PROVE  /\ Live("listener", a) \subseteq {env[a].listener}
                 /\ IsLive(env[a].session) \/ Live("listener", a) = {}
      <3>1. /\ Live("listener", a) \subseteq {ListenerOf(a)}
            /\ IsLive(env[a].session) \/ Live("listener", a) = {}
        BY <1>6, <1>8 DEF LauncherInv, NoneLeft
      <3> QED
        BY <3>1, <1>10
    <2> QED
      BY <2>1, <1>1, <1>4, <1>5, <1>8, <1>9 DEF NoneLeft
  <1>i. Tokens'
    <2>1. ASSUME NEW a \in Agent \ half'
          PROVE  /\ IsLive(env[a].session) => conf[a] = hash[a] /\ env[a].token = hash[a]
                 /\ \A p \in Live("session", a) :
                       pane[p].token = hash[a] /\ pane[p].state # "refused"
      BY <1>6 DEF LauncherInv, Tokens, Opening
    <2> QED
      BY <2>1, <1>1, <1>4 DEF Tokens
  <1> QED
    BY <1>a, <1>b, <1>5, <1>f, <1>g, <1>h, <1>i DEF LauncherInv

----------------------------------------------------------------------------
(* The commands as they are typed *)

\* add, restart and remove change nothing yet; what they know of each agent
\* is what its record says.
Begins(does, pc, todo, was) ==
    /\ cmd.pc = "none" /\ todo \in SUBSET Agent /\ todo # {}
    /\ UNCHANGED <<hash, conf, env, pane, views, issued, opened, half, widowed>>
    /\ cmd'.does = does /\ cmd'.pc = pc /\ cmd'.todo = todo /\ cmd'.was = was
    /\ cmd' \in Command
    /\ \/ does = "add" /\ pc = "sync" /\ was = Idle.was /\ todo \cap running_agents = {}
       \/ does = "restart" /\ pc = "sync" /\ was = env /\ todo \subseteq running_agents
       \/ /\ does = "remove" /\ pc = "stop-listener" /\ was = env
          /\ \E a \in Agent : todo = {a}

LEMMA TypedBegins ==
  ASSUME LauncherInv,
         \/ \E named \in {None} \union Agent : cmd_add(named)
         \/ \E named \in {None} \union Agent, force \in BOOLEAN :
                cmd_restart(named, force)
         \/ \E a \in Agent : cmd_remove(a)
  PROVE  \E does, pc, todo, was : Begins(does, pc, todo, was)
  <1> USE DEF None
  <1>1. /\ issued \in Nat /\ Idle \in Command /\ env \in [Agent -> Record]
        /\ \A t \in 0..issued : t \in Nat
    BY Bounds, IdleFields DEF LauncherInv, Types, Record
  <1>2. ASSUME NEW named \in {None} \union Agent, cmd_add(named)
        PROVE  \E does, pc, todo, was : Begins(does, pc, todo, was)
    <2>1. PICK a \in (IF named = None THEN resolve_agent(running_agents)
                                     ELSE {named} \ running_agents) :
             cmd' = [Idle EXCEPT !.does = "add", !.pc = "sync", !.todo = {a}]
      BY <1>2 DEF cmd_add
    <2>2. a \in Agent /\ a \notin running_agents
      BY <2>1 DEF resolve_agent
    <2>3. /\ cmd'.does = "add" /\ cmd'.pc = "sync" /\ cmd'.todo = {a} /\ cmd'.was = Idle.was
          /\ cmd' \in Command
      BY <1>1, <2>1, <2>2 DEF Command, StartPCs
    <2>4. Begins("add", "sync", {a}, Idle.was)
      BY <1>2, <2>2, <2>3 DEF Begins, cmd_add, Ready
    <2> QED
      BY <2>4
  <1>3. ASSUME NEW named \in {None} \union Agent, NEW force \in BOOLEAN,
               cmd_restart(named, force)
        PROVE  \E does, pc, todo, was : Begins(does, pc, todo, was)
    <2> DEFINE names == Names(named)
    <2>1. /\ names # {} /\ names \subseteq running_agents /\ names \in SUBSET Agent
          /\ cmd' = [Idle EXCEPT !.does = "restart", !.pc = "sync", !.todo = names,
                                 !.force = force, !.whole = (named = None),
                                 !.was = env]
      BY <1>3 DEF cmd_restart, Restarting, running_agents
    <2> HIDE DEF names
    <2>2. /\ cmd'.does = "restart" /\ cmd'.pc = "sync" /\ cmd'.todo = names /\ cmd'.was = env
          /\ cmd' \in Command
      BY <1>1, <2>1 DEF Command, StartPCs
    <2>3. Begins("restart", "sync", names, env)
      BY <1>3, <2>1, <2>2 DEF Begins, cmd_restart, Restarting, Ready
    <2> QED
      BY <2>3
  <1>4. ASSUME NEW a \in Agent, cmd_remove(a)
        PROVE  \E does, pc, todo, was : Begins(does, pc, todo, was)
    <2>1. cmd' = [Idle EXCEPT !.does = "remove", !.pc = "stop-listener",
                              !.todo = {a}, !.was = env]
      BY <1>4 DEF cmd_remove
    <2>2. /\ cmd'.does = "remove" /\ cmd'.pc = "stop-listener" /\ cmd'.todo = {a}
          /\ cmd'.was = env /\ cmd' \in Command
      BY <1>1, <2>1 DEF Command, StopPCs
    <2>3. Begins("remove", "stop-listener", {a}, env)
      BY <1>4, <2>2 DEF Begins, cmd_remove, Ready
    <2> QED
      BY <2>3
  <1> QED
    BY <1>2, <1>3, <1>4

LEMMA BeginStep ==
  ASSUME LauncherInv, NEW does, NEW pc, NEW todo, NEW was, Begins(does, pc, todo, was)
  PROVE  LauncherInv'
  <1> USE DEF None
  <1>1. /\ cmd.pc = "none" /\ todo \in SUBSET Agent /\ todo # {}
        /\ UNCHANGED <<hash, conf, env, pane, views, issued, opened, half, widowed>>
        /\ cmd'.does = does /\ cmd'.pc = pc /\ cmd'.todo = todo /\ cmd'.was = was
        /\ cmd' \in Command'
    BY DEF Begins, Command
  <1>2. /\ \A p : IsLive(p)' = IsLive(p)
        /\ \A k, a : Live(k, a)' = Live(k, a)
    BY <1>1 DEF IsLive, Live
  <1>3. \A a, pcs : pcs \subseteq {"files", "session"} \union Opening => ~At(a, pcs) /\ ~At(a, pcs)'
    BY <1>1 DEF Begins, At, Opening
  <1>4. /\ \A a \in Agent : SessionOf(a) = env[a].session /\ SessionOf(a)' = env[a].session
        /\ \A a \in Agent : ListenerOf(a) = env[a].listener
    BY <1>1, <1>3 DEF SessionOf, ListenerOf, Opening, StartPCs
  <1>5. \A a \in Agent : ListenerOf(a)' = env[a].listener \/ ~IsLive(env[a].session)
    <2>1. \A a \in Agent : ListenerOf(a)' =
             IF cmd'.pc \in StartPCs /\ a \in todo THEN was[a].listener ELSE env[a].listener
      BY <1>1, <1>3 DEF ListenerOf, Opening
    <2> QED
      BY <2>1, <1>1 DEF Begins, running_agents, StartPCs, Opening
  <1>6. \A a \in Agent \ half : ~IsLive(env[a].session) => Live("session", a) = {}
    <2>1. ASSUME NEW a \in Agent \ half, ~IsLive(env[a].session), NEW p \in Live("session", a)
          PROVE  FALSE
      BY <2>1, <1>4 DEF LauncherInv, OnlySession, Live, IsLive, Pane
    <2> QED
      BY <2>1
  <1>a. Types'
    BY <1>1 DEF LauncherInv, Types
  <1>b. References'
    <2>1. ASSUME NEW a \in Agent
          PROVE  Owned(env[a], a)' /\ Owned(cmd.was[a], a)'
      <3>1. Owned(env[a], a) /\ 0 \in 0..opened /\ ~IsLive(0)
        BY Bounds DEF LauncherInv, References, Types, IsLive
      <3>2. was[a] = NoRecord \/ was[a] = env[a]
        BY IdleFields DEF Begins
      <3> QED
        BY <3>1, <3>2, <1>1, <1>2, IdleFields DEF Owned, IsOf
    <2> QED
      BY <2>1, <1>1, <1>2, <1>3 DEF LauncherInv, References, Opening
  <1>c. StartsAfresh' /\ Replaces'
    <2>1. CASE does = "add"
      BY <2>1, <1>1, <1>2, IdleFields DEF Begins, StartsAfresh, Replaces, running_agents
    <2>2. CASE does = "restart"
      BY <2>2, <1>1, <1>2, <1>3 DEF Begins, StartsAfresh, Replaces, running_agents, IsLive, Opening
    <2>3. CASE does = "remove"
      BY <2>3, <1>1 DEF Begins, StartsAfresh, Replaces, StartPCs, Opening
    <2> QED
      BY <2>1, <2>2, <2>3 DEF Begins
  <1>d. Removes' /\ TakesDown'
    BY <1>1 DEF Begins, Removes, TakesDown, StopPCs
  <1>e. Writes'
    BY <1>3 DEF Writes, Opening
  <1>f. OnlySession'
    BY <1>1, <1>2, <1>4 DEF LauncherInv, OnlySession
  <1>g. OnlyVoice'
    BY <1>1, <1>2, <1>4, <1>5, <1>6 DEF LauncherInv, OnlyVoice
  <1>h. NoneLeft'
    <2>1. ASSUME NEW a \in Agent \ (half \union widowed)
          PROVE  /\ Live("listener", a) \subseteq {ListenerOf(a)'}
                 /\ IsLive(env[a].session) \/ Live("listener", a) = {}
      BY <1>4, <1>5 DEF LauncherInv, NoneLeft
    <2> QED
      BY <2>1, <1>1, <1>2, <1>3, <1>4 DEF NoneLeft
  <1>i. Tokens'
    BY <1>1, <1>2, <1>3 DEF LauncherInv, Tokens, Opening
  <1> QED
    BY <1>a, <1>b, <1>c, <1>d, <1>e, <1>f, <1>g, <1>h, <1>i DEF LauncherInv

\* Where no pane is alive nothing can be amiss, and up and down begin there.
Empty ==
    /\ Types /\ \A p \in Pane : ~IsLive(p)
    /\ cmd.pc \in {"none", "sync", "forget"}
    /\ cmd.pc = "sync" => cmd.does # "restart"
    /\ cmd.pc = "forget" => cmd.does # "remove"
    /\ \A a \in Agent : cmd.was[a] = NoRecord
    /\ \A a \in Agent : env[a].session <= opened /\ env[a].listener <= opened

LEMMA EmptyHolds == Empty => LauncherInv
  <1> SUFFICES ASSUME Empty PROVE LauncherInv
    OBVIOUS
  <1> USE DEF None
  <1>1. \A k \in {"session", "listener"}, a \in Agent : Live(k, a) = {}
    BY DEF Empty, Live, IsLive, Pane
  <1>2. ~IsLive(0) /\ opened \in Nat /\ \A a \in Agent : /\ env[a].session \in Pane \union {0}
                                                        /\ env[a].listener \in Pane \union {0}
    BY Bounds DEF Empty, Types, IsLive
  <1>3. \A a, pcs : pcs \subseteq {"files", "session"} \union Opening => ~At(a, pcs)
    BY DEF Empty, At, Opening
  <1>4. References
    BY <1>2, <1>3, IdleFields DEF Empty, References, Owned, IsOf, Opening, Pane
  <1>5. StartsAfresh /\ Replaces /\ Removes /\ TakesDown /\ Writes
    BY <1>2, <1>3 DEF Empty, StartsAfresh, Replaces, Removes, TakesDown, Writes,
                      StartPCs, StopPCs, Opening, Types, Command
  <1>6. OnlySession /\ OnlyVoice /\ NoneLeft
    BY <1>1, <1>3 DEF OnlySession, OnlyVoice, NoneLeft
  <1>7. Tokens
    BY <1>1, <1>2 DEF Empty, Tokens
  <1> QED
    BY <1>4, <1>5, <1>6, <1>7 DEF Empty, LauncherInv

LEMMA UpStep ==
  ASSUME LauncherInv, NEW n \in Agent, cmd_up(1..n)
  PROVE  LauncherInv'
  <1> USE DEF None
  <1>1. /\ env' = [a \in Agent |-> NoRecord] /\ conf' = [a \in Agent |-> 0]
        /\ cmd' = [Idle EXCEPT !.does = "up", !.pc = "sync", !.todo = 1..n]
        /\ opened' \in {opened, 0} /\ half' = {} /\ widowed' = {}
        /\ UNCHANGED <<hash, pane, views, issued>> /\ \A p \in Pane : ~IsLive(p)
    BY DEF cmd_up, session_exists
  <1>2. issued \in Nat /\ opened \in 0..MaxPanes /\ opened' \in 0..MaxPanes
    BY <1>1, Bounds DEF LauncherInv, Types
  <1>3. 1..n \in SUBSET Agent /\ 1..n # {}
    BY Bounds DEF Agent
  <1>4. /\ cmd' \in Command' /\ cmd'.pc = "sync" /\ cmd'.does = "up" /\ cmd'.todo = 1..n
        /\ cmd'.was = Idle.was
    <2>1. Idle \in Command /\ Command' = Command
      BY <1>1, <1>2, IdleFields DEF Command
    <2> QED
      BY <2>1, <1>1, <1>3 DEF Command, StartPCs
  <1>5. /\ env' \in [Agent -> [token : 0..issued, session : Pane \union {None},
                               listener : Pane \union {None}]]
        /\ conf' \in [Agent -> 0..issued]
        /\ \A a \in Agent : env'[a].session = 0 /\ env'[a].listener = 0
    BY <1>1, <1>2 DEF NoRecord
  <1>6. Types'
    BY <1>1, <1>2, <1>3, <1>4, <1>5 DEF LauncherInv, Types
  <1>7. \A p \in Pane : ~IsLive(p)'
    BY <1>1 DEF IsLive
  <1>8. \A a \in Agent : env'[a].session <= opened' /\ env'[a].listener <= opened'
    BY <1>2, <1>5
  <1>9. \A a \in Agent : cmd'.was[a] = NoRecord
    BY <1>4, IdleFields
  <1> QED
    <2>1. Empty'
      BY <1>4, <1>6, <1>7, <1>8, <1>9 DEF Empty
    <2> QED
      BY <2>1, EmptyHolds, PTL

LEMMA DownStep ==
  ASSUME LauncherInv, cmd_down
  PROVE  LauncherInv'
  <1> USE DEF None
  <1>1. /\ pane' = [p \in Pane |-> Closed] /\ views' = FALSE
        /\ cmd' = [Idle EXCEPT !.does = "down", !.pc = "forget", !.todo = Agent]
        /\ UNCHANGED <<hash, conf, env, issued, opened, half, widowed>>
    BY DEF cmd_down
  <1>2. issued \in Nat /\ opened \in Nat
    BY Bounds DEF LauncherInv, Types
  <1>3. /\ cmd' \in Command' /\ cmd'.pc = "forget" /\ cmd'.does = "down"
        /\ cmd'.was = Idle.was
    <2>1. Idle \in Command /\ Command' = Command
      BY <1>1, <1>2, IdleFields DEF Command
    <2> QED
      BY <2>1, <1>1 DEF Command, StopPCs
  <1>4. pane' \in [Pane -> PaneState] /\ \A p \in Pane : ~IsLive(p)'
    BY <1>1, Bounds DEF Closed, PaneState, IsLive
  <1>5. Types'
    BY <1>1, <1>3, <1>4 DEF LauncherInv, Types, StartPCs, Opening
  <1>6. \A a \in Agent : env'[a].session <= opened' /\ env'[a].listener <= opened'
    BY <1>1, <1>2 DEF LauncherInv, References, Owned, IsOf
  <1>7. \A a \in Agent : cmd'.was[a] = NoRecord
    BY <1>3, IdleFields
  <1> QED
    <2>1. Empty'
      BY <1>3, <1>4, <1>5, <1>6, <1>7 DEF Empty
    <2> QED
      BY <2>1, EmptyHolds, PTL

----------------------------------------------------------------------------
(* The invariant *)

LEMMA LauncherInvInit == LauncherInit => LauncherInv
  <1> SUFFICES ASSUME LauncherInit PROVE LauncherInv
    OBVIOUS
  <1> USE DEF None
  <1>1. Types
    <2>1. issued = 0 /\ opened = 0 /\ cmd = Idle /\ Idle \in Command
      BY IdleFields DEF LauncherInit
    <2>2. Closed \in PaneState
      BY Bounds DEF Closed, PaneState
    <2>3. NoRecord \in [token : 0..0, session : Pane \union {None}, listener : Pane \union {None}]
      BY DEF NoRecord
    <2>4. 0 \in 0..0 /\ 0 \in 0..MaxTokens /\ 0 \in 0..MaxPanes
      BY Bounds
    <2>5. /\ hash \in [Agent -> 0..issued] /\ conf \in [Agent -> 0..issued]
          /\ env \in [Agent -> [token : 0..issued, session : Pane \union {None},
                                listener : Pane \union {None}]]
          /\ pane \in [Pane -> PaneState]
      BY <2>1, <2>2, <2>3, <2>4 DEF LauncherInit
    <2>6. views \in BOOLEAN /\ half \subseteq Agent /\ widowed \subseteq Agent
      BY DEF LauncherInit
    <2>7. cmd.pc \in StartPCs => cmd.todo # {}
      BY <2>1, IdleFields DEF StartPCs, Opening
    <2> QED
      BY <2>1, <2>4, <2>5, <2>6, <2>7 DEF Types
  <1>2. \A p \in Pane : ~IsLive(p)
    BY DEF LauncherInit, IsLive, Closed
  <1>3. \A a \in Agent : env[a].session <= opened /\ env[a].listener <= opened
    BY DEF LauncherInit, NoRecord
  <1> QED
    BY <1>1, <1>2, <1>3, EmptyHolds, IdleFields DEF LauncherInit, Empty

LEMMA LauncherInvStutters ==
  ASSUME LauncherInv, UNCHANGED launcherVars
  PROVE  LauncherInv'
  BY DEF launcherVars, LauncherInv, Types, References, StartsAfresh, Replaces, Removes,
         TakesDown, Writes, OnlySession, OnlyVoice, NoneLeft, Tokens, At, Current, IsOf,
         Owned, IsLive, Live, SessionOf, ListenerOf, Command

LEMMA LauncherInvStep == LauncherInv /\ [LauncherNext]_launcherVars => LauncherInv'
  <1> SUFFICES ASSUME LauncherInv, [LauncherNext]_launcherVars PROVE LauncherInv'
    OBVIOUS
  <1>1. CASE Typed
    <2>1. ASSUME NEW n \in Agent, cmd_up(1..n) PROVE LauncherInv'
      BY <2>1, UpStep
    <2>2. CASE cmd_down
      BY <2>2, DownStep
    <2> QED
      BY <1>1, <2>1, <2>2, TypedBegins, BeginStep DEF Typed
  <1>2. CASE CommandStep
    BY <1>2, SyncStep, OpenSessionStep, WriteRecordStep, OpenListenerStep, NoteListenerStep,
       StopStep, ForgetStep, CutStep DEF CommandStep
  <1>3. CASE Interrupted
    BY <1>3, CutStep
  <1>4. ASSUME NEW p \in Pane,
               \/ SessionConnects(p) \/ ListenerConnects(p)
               \/ BeginTurn(p) \/ EndTurn(p) \/ PaneEnds(p)
        PROVE  LauncherInv'
    BY <1>4, PanesFade, FadeStep
  <1>5. CASE UNCHANGED launcherVars
    BY <1>5, LauncherInvStutters
  <1> QED
    BY <1>1, <1>2, <1>3, <1>4, <1>5 DEF LauncherNext

LEMMA LauncherInvHolds == LauncherSpec => []LauncherInv
  BY LauncherInvInit, LauncherInvStep, PTL DEF LauncherSpec

----------------------------------------------------------------------------
(* What follows for every command, however it is cut short *)

LEMMA AtMostOne ==
  ASSUME NEW x, NEW S, S \subseteq {x}
  PROVE  Cardinality(S) <= 1
  <1>1. Cardinality({}) = 0 /\ Cardinality({x}) = 1
    BY FS_EmptySet, FS_Singleton, Zenon
  <1>2. S = {} \/ S = {x}
    OBVIOUS
  <1> QED
    BY <1>1, <1>2

\* The launcher's state is well formed, and a pane recorded as the listener's
\* of an agent runs that or nothing.
THEOREM LauncherTypeCorrect == LauncherSpec => []LauncherTypeOK
  <1>1. LauncherInv => LauncherTypeOK
    BY DEF LauncherInv, Types, References, Owned, IsOf, LauncherTypeOK, Command
  <1> QED
    BY <1>1, LauncherInvHolds, PTL

\* No agent runs twice, unless its start was cut short.
THEOREM OneSessionEach == LauncherSpec => []OneSession
  <1>1. LauncherInv => OneSession
    BY AtMostOne DEF LauncherInv, OnlySession, OneSession
  <1> QED
    BY <1>1, LauncherInvHolds, PTL

\* No two listeners type into one session.
THEOREM OneVoiceEach == LauncherSpec => []OneVoice
  <1>1. LauncherInv => OneVoice
    <2> SUFFICES ASSUME LauncherInv, NEW a \in Agent \ half, NEW s \in Live("session", a)
                 PROVE  Cardinality({p \in Live("listener", a) : pane[p].serves = s}) <= 1
      BY DEF OneVoice
    <2>1. {p \in Live("listener", a) : pane[p].serves = s} \subseteq {ListenerOf(a)}
      BY DEF LauncherInv, OnlyVoice
    <2> QED
      BY <2>1, AtMostOne
  <1> QED
    BY <1>1, LauncherInvHolds, PTL

\* Between commands restart and remove find all that runs for an agent.
THEOREM AllIsStoppable == LauncherSpec => []Stoppable
  <1>1. LauncherInv => Stoppable
    <2> SUFFICES ASSUME LauncherInv, cmd.pc = "none"
                 PROVE  \A a \in Agent \ (half \union widowed) :
                           /\ Live("session", a) \subseteq {env[a].session}
                           /\ Live("listener", a) \subseteq {env[a].listener}
      BY DEF Stoppable, AtRest
    <2>1. \A a \in Agent : SessionOf(a) = env[a].session /\ ListenerOf(a) = env[a].listener
      BY DEF SessionOf, ListenerOf, At, StartPCs, Opening
    <2> QED
      BY <2>1 DEF LauncherInv, OnlySession, NoneLeft
  <1> QED
    BY <1>1, LauncherInvHolds, PTL

\* An agent whose start was not cut short has a token the board accepts.
THEOREM WhatStartsWorks == LauncherSpec => []StartedWorks
  <1>1. LauncherInv => StartedWorks
    BY DEF LauncherInv, Tokens, StartedWorks, AtRest, At, running_agents
  <1> QED
    BY <1>1, LauncherInvHolds, PTL

----------------------------------------------------------------------------
(* Which turns a restart cuts *)

\* What a restart has promised to spare it still knows after a step, and a
\* turn that runs then ran before, or is known to have begun since.
SparesTurns ==
    cmd'.does = "restart" =>
        /\ cmd.does = "restart" /\ (cmd'.pc # "none" => cmd.pc # "none")
        /\ cmd'.force = cmd.force /\ cmd'.was = cmd.was
        /\ cmd'.todo \subseteq cmd.todo /\ cmd.begun \subseteq cmd'.begun
        /\ \A p \in Pane : pane'[p].busy /\ IsLive(p)' =>
              (pane[p].busy /\ IsLive(p)) \/ p \in cmd'.begun

LEMMA PanesSpare ==
  ASSUME LauncherInv, NEW p \in Pane,
         \/ SessionConnects(p) \/ ListenerConnects(p)
         \/ BeginTurn(p) \/ EndTurn(p) \/ PaneEnds(p)
  PROVE  SparesTurns
  <1>1. /\ cmd \in Command /\ cmd.begun \in SUBSET Pane /\ pane \in [Pane -> PaneState]
        /\ ~Closed.busy /\ p # None
    BY DEF LauncherInv, Types, Command, Closed, Pane, None
  <1>2. CASE SessionConnects(p)
    BY <1>1, <1>2 DEF SessionConnects, SparesTurns, IsLive, PaneState
  <1>3. CASE ListenerConnects(p)
    <2>1. \A q \in Pane : pane'[q].busy => pane[q].busy /\ IsLive(p)
      BY <1>1, <1>3 DEF ListenerConnects, PaneState, IsLive
    <2>2. \A q \in Pane : IsLive(q)' => IsLive(q)
      BY <1>1, <1>3 DEF ListenerConnects, PaneState, IsLive
    <2> QED
      BY <1>3, <2>1, <2>2 DEF ListenerConnects, SparesTurns
  <1>4. CASE BeginTurn(p)
    BY <1>1, <1>4 DEF BeginTurn, SparesTurns, IsLive, PaneState, Command
  <1>5. CASE EndTurn(p)
    BY <1>1, <1>5 DEF EndTurn, SparesTurns, IsLive, PaneState
  <1>6. CASE PaneEnds(p)
    <2>1. pane' = [pane EXCEPT ![p] = Closed] /\ cmd' = cmd
      BY <1>6 DEF PaneEnds, Close
    <2> QED
      BY <1>1, <1>6, <2>1 DEF PaneEnds, SparesTurns, IsLive
  <1> QED
    BY <1>2, <1>3, <1>4, <1>5, <1>6

LEMMA CommandSpares ==
  ASSUME LauncherInv, CommandStep \/ Interrupted
  PROVE  SparesTurns
  <1>1. /\ cmd \in Command /\ pane \in [Pane -> PaneState] /\ ~Closed.busy
        /\ Idle.does = "none"
    BY IdleFields DEF LauncherInv, Types, Closed
  <1>2. CASE cmd' = Idle
    BY <1>1, <1>2 DEF SparesTurns
  <1>3. CASE sync_agent \/ agent_command \/ WriteRecord
    <2>1. /\ cmd'.does = cmd.does /\ cmd'.force = cmd.force /\ cmd'.was = cmd.was
          /\ cmd'.todo = cmd.todo /\ cmd'.begun = cmd.begun /\ cmd.pc # "none"
      BY <1>1, <1>3 DEF sync_agent, agent_command, WriteRecord, Command
    <2>2. pane' = pane
      BY <1>3 DEF sync_agent, agent_command, WriteRecord
    <2> QED
      BY <2>1, <2>2 DEF SparesTurns, IsLive
  <1>4. ASSUME NEW k \in {"session", "listener"}, NEW old, NEW next, Open(k, old, next),
               cmd.pc \in {"session", "listener"}
        PROVE  SparesTurns
    <2>1. Current \in Agent
      BY <1>4, StartingFacts DEF StartPCs, Opening
    <2>2. PICK p \in Pane : /\ pane' = [pane EXCEPT ![p] = Opened(k, Current)]
                            /\ cmd' = [cmd EXCEPT !.pc = next, ![k] = p]
      BY <1>4 DEF Open
    <2>3. ~Opened(k, Current).busy
      BY <2>1, OpenedFields DEF LauncherInv
    <2>4. /\ cmd'.does = cmd.does /\ cmd'.force = cmd.force /\ cmd'.was = cmd.was
          /\ cmd'.todo = cmd.todo /\ cmd'.begun = cmd.begun
      BY <1>1, <2>2 DEF Command
    <2> QED
      BY <1>1, <1>4, <2>2, <2>3, <2>4 DEF SparesTurns, IsLive
  <1>5. CASE NoteListener /\ cmd' # Idle
    <2>1. /\ cmd' = [cmd EXCEPT !.todo = cmd.todo \ {Current}, !.pc = "sync"]
          /\ pane' = pane /\ cmd.pc # "none"
      BY <1>5 DEF NoteListener, NextAgent
    <2> QED
      BY <1>1, <2>1 DEF SparesTurns, IsLive, Command
  <1>6. CASE StopListener \/ StopSession
    <2>1. /\ cmd'.does = cmd.does /\ cmd'.force = cmd.force /\ cmd'.was = cmd.was
          /\ cmd'.todo = cmd.todo /\ cmd'.begun = cmd.begun /\ cmd.pc # "none"
      BY <1>1, <1>6 DEF StopListener, StopSession, Command
    <2>2. PICK p : Close(p)
      BY <1>6 DEF StopListener, StopSession
    <2> QED
      BY <1>1, <2>1, <2>2 DEF Close, SparesTurns, IsLive, Closed
  <1> QED
    BY <1>2, <1>3, <1>4, <1>5, <1>6
       DEF CommandStep, Interrupted, RespawnFails, CutShort, forget_agent, OpenSession, OpenListener

LEMMA TypedSpares ==
  ASSUME LauncherInv, Typed
  PROVE  OnlyNewTurnsCut'
  <1>1. CASE cmd'.does # "restart"
    BY <1>1 DEF OnlyNewTurnsCut
  <1>2. ASSUME NEW named, NEW force \in BOOLEAN, cmd_restart(named, force)
        PROVE  OnlyNewTurnsCut'
    <2>1. /\ cmd'.todo = Names(named) /\ cmd'.was = env /\ cmd'.force = force
          /\ pane' = pane
          /\ force \/ \A a \in Names(named) : ~pane[env[a].session].busy
      BY <1>2 DEF cmd_restart, Restarting, is_idle, Idle
    <2> QED
      BY <2>1 DEF OnlyNewTurnsCut
  <1>3. ASSUME \/ \E n \in Agent : cmd_up(1..n)
               \/ \E named \in {None} \union Agent : cmd_add(named)
               \/ \E a \in Agent : cmd_remove(a)
               \/ cmd_down
        PROVE  cmd'.does # "restart"
    BY <1>3 DEF cmd_up, cmd_add, cmd_remove, cmd_down, Idle
  <1> QED
    BY <1>1, <1>2, <1>3 DEF Typed

\* A restart without --force cuts no turn that ran when it was typed.
THEOREM OldTurnsAreSpared == LauncherSpec => []OnlyNewTurnsCut
  <1>1. LauncherInit => OnlyNewTurnsCut
    BY IdleFields DEF LauncherInit, OnlyNewTurnsCut
  <1>2. LauncherInv /\ OnlyNewTurnsCut /\ [LauncherNext]_launcherVars => OnlyNewTurnsCut'
    <2> SUFFICES ASSUME LauncherInv, OnlyNewTurnsCut, [LauncherNext]_launcherVars
                 PROVE  OnlyNewTurnsCut'
      OBVIOUS
    <2>1. ASSUME SparesTurns PROVE OnlyNewTurnsCut'
      <3> SUFFICES ASSUME cmd'.does = "restart", ~cmd'.force, cmd'.pc # "none",
                          NEW a \in cmd'.todo, NEW s, s = cmd'.was[a].session,
                          s # None, pane'[s].kind # "none", pane'[s].busy
                   PROVE  s \in cmd'.begun
        BY DEF OnlyNewTurnsCut, IsLive
      <3>1. /\ cmd.does = "restart" /\ ~cmd.force /\ cmd.pc # "none" /\ cmd.was = cmd'.was
            /\ a \in cmd.todo /\ cmd.begun \subseteq cmd'.begun
        BY <2>1 DEF SparesTurns
      <3>2. s \in Pane
        BY <3>1 DEF LauncherInv, Types, Command, Record, None
      <3>3. (pane[s].busy /\ IsLive(s)) \/ s \in cmd'.begun
        BY <2>1, <3>2 DEF SparesTurns, IsLive
      <3> QED
        BY <3>1, <3>3 DEF OnlyNewTurnsCut
    <2>2. CASE UNCHANGED launcherVars
      BY <2>2 DEF launcherVars, OnlyNewTurnsCut, IsLive
    <2> QED
      BY <2>1, <2>2, TypedSpares, CommandSpares, PanesSpare DEF LauncherNext
  <1> QED
    BY <1>1, <1>2, LauncherInvHolds, PTL DEF LauncherSpec

----------------------------------------------------------------------------
(* Whose panes a command touches *)

\* A pane that is opened is a new one, or one of the agent's own.
LEMMA OpensOwn ==
  ASSUME LauncherInv, cmd.pc \in StartPCs, NEW kind, NEW old, NEW next,
         Open(kind, old, next), old \in {None, Was.session, Was.listener},
         NEW p \in Pane, IsLive(p), pane'[p] # pane[p]
  PROVE  pane[p].agent = Current
  <1>1. PICK q \in Pane : /\ q = IF old # None THEN old ELSE opened + 1
                          /\ pane' = [pane EXCEPT ![q] = Opened(kind, Current)]
    BY DEF Open
  <1>2. p = q
    BY <1>1 DEF LauncherInv, Types
  <1>3. p <= opened /\ opened \in Nat /\ p \in Nat
    BY Bounds DEF LauncherInv, Types, References, Pane
  <1>4. old # None /\ p = old
    BY <1>1, <1>2, <1>3
  <1>5. Owned(Was, Current)
    BY StartingFacts DEF LauncherInv, References, Was
  <1> QED
    BY <1>4, <1>5 DEF Owned, IsOf

\* What is stopped is the agent's own.
LEMMA StopsOwn ==
  ASSUME LauncherInv, StopListener \/ StopSession,
         NEW p \in Pane, IsLive(p), pane'[p] # pane[p]
  PROVE  pane[p].agent = Current
  <1>1. PICK q \in {Was.session, Was.listener} : Close(q)
    BY DEF StopListener, StopSession
  <1>2. p = q
    BY <1>1 DEF Close, LauncherInv, Types
  <1>3. cmd.pc \in StopPCs /\ cmd.pc # "forget"
    BY DEF StopListener, StopSession, StopPCs
  <1>4. PICK a \in Agent : cmd.todo = {a}
    BY <1>3 DEF LauncherInv, Removes, TakesDown
  <1>5. Current \in Agent
    BY <1>4, CurrentIsTodo DEF Current
  <1>6. Owned(Was, Current)
    BY <1>5 DEF LauncherInv, References, Was
  <1> QED
    BY <1>1, <1>2, <1>6 DEF Owned, IsOf

\* A step of a command replaces or closes no pane of any other agent.
THEOREM OthersAreSpared == LauncherSpec => SparesOthers
  <1>1. ASSUME LauncherInv, CommandStep,
               NEW p \in Pane, IsLive(p), pane'[p] # pane[p]
        PROVE  pane[p].agent = Current
    <2>1. CASE OpenSession
      <3>1. cmd.pc \in StartPCs /\ Open("session", Was.session, "record")
        BY <2>1 DEF OpenSession, StartPCs
      <3> QED
        BY <1>1, <3>1, OpensOwn
    <2>2. CASE OpenListener
      <3>1. /\ cmd.pc \in StartPCs
            /\ Open("listener", IF IsLive(Was.listener) THEN Was.listener ELSE None, "note")
        BY <2>2 DEF OpenListener, StartPCs, Opening
      <3> QED
        BY <1>1, <3>1, OpensOwn
    <2>3. CASE StopListener \/ StopSession
      BY <1>1, <2>3, StopsOwn
    <2>4. CASE ~(OpenSession \/ OpenListener \/ StopListener \/ StopSession)
      BY <1>1, <2>4 DEF CommandStep, sync_agent, agent_command, WriteRecord, NoteListener,
                        forget_agent, RespawnFails, CutShort
    <2> QED
      BY <2>1, <2>2, <2>3, <2>4
  <1>2. LauncherInv /\ [LauncherNext]_launcherVars =>
           [CommandStep => \A p \in Pane :
               IsLive(p) /\ pane'[p] # pane[p] => pane[p].agent = Current]_launcherVars
    BY <1>1
  <1> QED
    BY <1>2, LauncherInvHolds, PTL DEF LauncherSpec, SparesOthers
=============================================================================
