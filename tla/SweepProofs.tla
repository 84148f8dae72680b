----------------------------- MODULE SweepProofs -----------------------------
(* What the listener types, for any number of sweep threads, messages and   *)
(* mishaps: never into a turn, no message twice into one conversation, and  *)
(* the note of each timeout once.                                           *)
EXTENDS ListenerProofs, FiniteSetTheorems, SequenceTheorems

----------------------------------------------------------------------------
(* Sequences without repetition *)

Entries(s) == {s[k] : k \in 1..Len(s)}

Distinct(s) == \A j, k \in 1..Len(s) : s[j] = s[k] => j = k

LEMMA EmptyEntries == Entries(<<>>) = {} /\ Distinct(<<>>)
  BY DEF Entries, Distinct

LEMMA ConcatEntries ==
    ASSUME NEW S, NEW s \in Seq(S), NEW t \in Seq(S)
    PROVE  /\ Entries(s \o t) = Entries(s) \union Entries(t)
           /\ Distinct(s \o t) <=> /\ Distinct(s) /\ Distinct(t)
                                   /\ Entries(s) \intersect Entries(t) = {}
  <1> DEFINE st == s \o t
  <1>1. /\ Len(s) \in Nat /\ Len(t) \in Nat /\ Len(st) = Len(s) + Len(t)
        /\ \A k \in 1..Len(s) : k \in 1..Len(st) /\ st[k] = s[k]
        /\ \A k \in 1..Len(t) : Len(s) + k \in 1..Len(st) /\ st[Len(s) + k] = t[k]
    BY LenProperties, ConcatProperties
  <1>2. \A k \in 1..Len(st) : k \notin 1..Len(s)
            => k - Len(s) \in 1..Len(t) /\ st[k] = t[k - Len(s)]
    BY <1>1, ConcatProperties
  <1> HIDE DEF st
  <1>a. /\ \A k \in 1..Len(s) : s[k] \in Entries(s)
        /\ \A k \in 1..Len(t) : t[k] \in Entries(t)
        /\ \A k \in 1..Len(st) : st[k] \in Entries(st)
    BY DEF Entries
  <1>3. Entries(st) = Entries(s) \union Entries(t)
    <2>1. ASSUME NEW k \in 1..Len(st)
          PROVE  st[k] \in Entries(s) \union Entries(t)
      BY <1>1, <1>2, <1>a
    <2>2. ASSUME NEW k \in 1..Len(s) PROVE s[k] \in Entries(st)
      BY <1>1, <1>a
    <2>3. ASSUME NEW k \in 1..Len(t) PROVE t[k] \in Entries(st)
      BY <1>1, <1>a
    <2> QED
      BY <2>1, <2>2, <2>3 DEF Entries
  <1>4. ASSUME Distinct(st)
        PROVE  Distinct(s) /\ Distinct(t) /\ Entries(s) \intersect Entries(t) = {}
    <2>1. Distinct(s)
      BY <1>1, <1>4 DEF Distinct
    <2>2. Distinct(t)
      <3> SUFFICES ASSUME NEW j \in 1..Len(t), NEW k \in 1..Len(t), t[j] = t[k]
                   PROVE  j = k
        BY DEF Distinct
      <3>1. Len(s) + j = Len(s) + k
        BY <1>1, <1>4 DEF Distinct
      <3> QED
        BY <1>1, <3>1
    <2>3. ASSUME NEW j \in 1..Len(s), NEW k \in 1..Len(t), s[j] = t[k] PROVE FALSE
      <3>1. j = Len(s) + k
        BY <1>1, <1>4, <2>3 DEF Distinct
      <3> QED
        BY <1>1, <3>1
    <2> QED
      BY <2>1, <2>2, <2>3 DEF Entries
  <1>5. ASSUME Distinct(s), Distinct(t), Entries(s) \intersect Entries(t) = {},
               NEW j \in 1..Len(st), NEW k \in 1..Len(st), st[j] = st[k]
        PROVE  j = k
    <2>1. CASE j \in 1..Len(s) /\ k \in 1..Len(s)
      BY <1>1, <1>5, <2>1 DEF Distinct
    <2>2. CASE j \notin 1..Len(s) /\ k \notin 1..Len(s)
      <3>1. j - Len(s) = k - Len(s)
        BY <1>2, <1>5, <2>2 DEF Distinct
      <3> QED
        BY <1>1, <3>1
    <2>3. CASE j \in 1..Len(s) /\ k \notin 1..Len(s)
      <3>1. st[j] \in Entries(s) /\ st[k] \in Entries(t)
        BY <1>1, <1>2, <1>a, <2>3
      <3> QED
        BY <1>5, <3>1
    <2>4. CASE j \notin 1..Len(s) /\ k \in 1..Len(s)
      <3>1. st[k] \in Entries(s) /\ st[j] \in Entries(t)
        BY <1>1, <1>2, <1>a, <2>4
      <3> QED
        BY <1>5, <3>1
    <2> QED
      BY <2>1, <2>2, <2>3, <2>4
  <1> QED
    BY <1>3, <1>4, <1>5 DEF Distinct, st

LEMMA TailEntries ==
    ASSUME NEW S, NEW s \in Seq(S), s # <<>>
    PROVE  /\ Head(s) \in S /\ Tail(s) \in Seq(S)
           /\ Entries(s) = Entries(Tail(s)) \union {Head(s)}
           /\ Distinct(s) => Distinct(Tail(s)) /\ Head(s) \notin Entries(Tail(s))
  <1> DEFINE r == Tail(s)
  <1>1. /\ Head(s) \in S /\ r \in Seq(S) /\ Head(s) = s[1]
        /\ Len(s) \in Nat \ {0} /\ Len(r) = Len(s) - 1
        /\ \A k \in 1..Len(r) : r[k] = s[k + 1]
    BY HeadTailProperties, EmptySeq
  <1> HIDE DEF r
  <1>2. \A k \in 1..Len(s) : k = 1 \/ (k - 1 \in 1..Len(r) /\ s[k] = r[k - 1])
    BY <1>1
  <1>3. Entries(s) = Entries(r) \union {Head(s)}
    <2>1. Entries(s) \subseteq Entries(r) \union {Head(s)}
      BY <1>1, <1>2 DEF Entries
    <2>2. ASSUME NEW k \in 1..Len(r) PROVE r[k] \in Entries(s)
      <3>1. k + 1 \in 1..Len(s) /\ r[k] = s[k + 1]
        BY <1>1
      <3> QED
        BY <3>1 DEF Entries
    <2>3. Head(s) \in Entries(s)
      BY <1>1 DEF Entries
    <2> QED
      BY <2>1, <2>2, <2>3 DEF Entries
  <1>4. ASSUME Distinct(s) PROVE Distinct(r) /\ Head(s) \notin Entries(r)
    <2>1. \A j, k \in 1..Len(r) : r[j] = r[k] => j + 1 = k + 1
      BY <1>1, <1>4 DEF Distinct
    <2>2. \A k \in 1..Len(r) : r[k] = s[1] => k + 1 = 1
      BY <1>1, <1>4 DEF Distinct
    <2> QED
      BY <1>1, <2>1, <2>2 DEF Distinct, Entries
  <1> QED
    BY <1>1, <1>3, <1>4 DEF r

LEMMA AppendEntries ==
    ASSUME NEW S, NEW s \in Seq(S), NEW e \in S
    PROVE  /\ Append(s, e) \in Seq(S)
           /\ Entries(Append(s, e)) = Entries(s) \union {e}
           /\ Distinct(s) /\ e \notin Entries(s) => Distinct(Append(s, e))
  <1> DEFINE a == Append(s, e)
  <1>1. /\ a \in Seq(S) /\ Len(s) \in Nat /\ Len(a) = Len(s) + 1
        /\ \A k \in 1..Len(s) : a[k] = s[k]
        /\ a[Len(s) + 1] = e
    BY AppendProperties, LenProperties
  <1> HIDE DEF a
  <1>2. \A k \in 1..Len(a) : k \in 1..Len(s) \/ k = Len(s) + 1
    BY <1>1
  <1>3. \A k \in 1..Len(s) : k \in 1..Len(a)
    BY <1>1
  <1>4. Len(s) + 1 \in 1..Len(a)
    BY <1>1
  <1>5. Entries(a) = Entries(s) \union {e}
    BY <1>1, <1>2, <1>3, <1>4 DEF Entries
  <1>6. Distinct(s) /\ e \notin Entries(s) => Distinct(a)
    BY <1>1, <1>2 DEF Distinct, Entries
  <1> QED
    BY <1>1, <1>5, <1>6 DEF a
----------------------------------------------------------------------------
(* The shape of the state.  A thread about to type has something to type:   *)
(* it alone takes from the notes, as it alone holds the lock.               *)

\* claim_overdue_requests returns each request of a set once.
LEMMA OrdersOnce ==
    ASSUME TypeOK, NEW s \in Orders(Overdue(Me))
    PROVE  s \in Seq(Ids) /\ Entries(s) = Overdue(Me) /\ Distinct(s)
  <1> DEFINE S == Overdue(Me)  n == Cardinality(S)
  <1>1. S \subseteq Ids /\ IsFiniteSet(S)
    <2>1. S \subseteq 1..Len(log) /\ Len(log) \in Nat
      BY DEF Overdue, Ids, TypeOK
    <2>2. IsFiniteSet(1..Len(log))
      BY <2>1, FS_Interval
    <2> QED
      BY <2>1, <2>2, FS_Subset DEF Ids
  <1>2. n \in Nat
    BY <1>1, FS_CardinalityType
  <1>3. s \in [1..n -> S] /\ {s[k] : k \in DOMAIN s} = S
    BY DEF Orders
  <1> HIDE DEF S
  <1>4. s \in Seq(S)
    BY <1>2, <1>3
  <1>5. Len(s) = n /\ DOMAIN s = 1..n
    BY <1>2, <1>3, <1>4, LenProperties
  <1>6. s \in Surjection(1..n, S)
    BY <1>3, <1>5 DEF Surjection
  <1>7. IsFiniteSet(1..n) /\ Cardinality(1..n) = n
    BY <1>2, FS_Interval
  <1>8. s \in Injection(1..n, S)
    BY <1>6, <1>7, FS_SurjSameCardinalityImpliesInj
  <1>9. Distinct(s)
    BY <1>5, <1>8 DEF Distinct, Injection, IsInjective
  <1>10. Entries(s) = S
    BY <1>3, <1>5 DEF Entries
  <1>11. s \in Seq(Ids)
    BY <1>1, <1>4, SeqMonotonic
  <1> QED
    BY <1>9, <1>10, <1>11 DEF S

LEMMA IdsStay ==
    ASSUME TypeOK, [ListenerNext]_vars
    PROVE  Ids \subseteq Ids' /\ \A i \in Ids : log'[i] = log[i]
  <1>1. [Next \/ RawInsert]_boardVars
    BY StepIsBoardStep
  <1> QED
    BY <1>1, BoardGrows DEF Grows

SweepInv == ListenerTypeOK /\ OneSweep

LEMMA SweepInvInit == ListenerInit => SweepInv
  <1> SUFFICES ASSUME ListenerInit PROVE SweepInv
    OBVIOUS
  <1>1. TypeOK
    BY InitType DEF ListenerInit
  <1>2. notes \in Seq(Ids) /\ told \in Seq(Ids)
    BY EmptySeq DEF ListenerInit
  <1> QED
    BY <1>1, <1>2
    DEF ListenerInit, SessionInit, SweepInv, ListenerTypeOK, SessionTypeOK,
        OneSweep, Phase

\* A step of the board beside the listener.
LEMMA LogGrowsInv ==
    ASSUME SweepInv, TypeOK', Ids \subseteq Ids', UNCHANGED listenerVars,
           SessionTypeOK'
    PROVE  SweepInv'
  <1>1. notes \in Seq(Ids') /\ told \in Seq(Ids')
    BY SeqMonotonic DEF SweepInv, ListenerTypeOK
  <1> QED
    BY <1>1 DEF SweepInv, ListenerTypeOK, OneSweep, listenerVars,
                processVars

LEMMA SpendKeepsCount ==
    ASSUME spent \in [Mishap -> Nat], NEW m \in Mishap, Spend(m)
    PROVE  spent' \in [Mishap -> Nat] /\ spent'[m] > 0 /\ \A k \in Mishap : spent[k] <= spent'[k]
  BY DEF Spend

LEMMA SweepInvProcess ==
    ASSUME SweepInv, TypeOK', 
           Crash \/ Launch \/ StartSession
             \/ RestartFiles \/ RestartPane \/ RestartListener \/ RestartCut
    PROVE  SweepInv'
  <1> USE ListenerAssumption
      DEF SweepInv, ListenerTypeOK, SessionTypeOK, OneSweep, Phase,
          Fresh
  <1>0. <<>> \in Seq(Ids)
    BY EmptySeq
  <1>1. CASE Crash
    BY <1>0, <1>1, SpendKeepsCount DEF Crash, boardVars, sessionVars, Mishap, Ids
  <1>2. CASE Launch
    BY <1>2 DEF Launch, boardVars, sessionVars, Ids
  <1>3. CASE StartSession
    BY <1>3 DEF StartSession, RequeueUnacked, boardVars, sessionVars, Ids
  <1>4. CASE RestartFiles
    BY <1>4, SpendKeepsCount DEF RestartFiles, processVars, boardVars, Mishap, Ids
  <1>5. CASE RestartPane
    BY <1>5 DEF RestartPane, Respawn, processVars, boardVars, Ids
  <1>6. CASE RestartListener
    BY <1>0, <1>6 DEF RestartListener, boardVars, sessionVars, Ids
  <1>7. CASE RestartCut
    BY <1>7, SpendKeepsCount
    DEF RestartCut, boardVars, sessionVars, processVars, Mishap, Ids
  <1> QED
    BY <1>1, <1>2, <1>3, <1>4, <1>5, <1>6, <1>7

LEMMA SweepInvWorld ==
    ASSUME SweepInv, TypeOK', Ids \subseteq Ids',
           OthersPost \/ AgentPosts \/ AgentAcks \/ TimePasses
             \/ SessionSteps \/ HumanSends \/ HumanErases \/ HumanActs
             \/ WatchLooks \/ WatchTouches
             \/ UNCHANGED vars
    PROVE  SweepInv'
  <1>0. SessionTypeOK /\ TypeOK /\ spent \in [Mishap -> Nat]
    BY DEF SweepInv, ListenerTypeOK
  <1>1. CASE UNCHANGED <<sessionVars, listenerVars>>
    BY <1>0, <1>1, LogGrowsInv DEF SessionTypeOK, sessionVars
  <1>2. CASE SessionSteps \/ HumanSends
    <2>1. SessionTypeOK'
      BY <1>0, <1>2 DEF SessionSteps, TakePrompt, EndTurn, RunHook, HumanSends,
                        Submit, PressEnter, SessionTypeOK
    <2>2. UNCHANGED <<boardVars, listenerVars>>
      BY <1>2 DEF SessionSteps, HumanSends
    <2> QED
      BY <2>1, <2>2, LogGrowsInv
  <1>3. CASE HumanErases \/ HumanActs
    <2>1. SessionTypeOK' /\ spent' \in [Mishap -> Nat]
      BY <1>0, <1>3, SpendKeepsCount
      DEF HumanErases, HumanActs, Erase, Type, Clear, Interrupt, SessionTypeOK,
          Mishap
    <2>2. UNCHANGED <<boardVars, processVars, restart, told>>
      BY <1>3 DEF HumanErases, HumanActs
    <2> QED
      BY <2>1, <2>2
      DEF SweepInv, ListenerTypeOK, OneSweep, boardVars, processVars, Ids
  <1>4. CASE WatchLooks
    <2>1. spent' \in [Mishap -> Nat]
      <3>1. "watch" \in Mishap
        BY DEF Mishap
      <3> QED
        BY <1>0, <1>4, <3>1, SpendKeepsCount DEF WatchLooks
    <2> QED
      BY <1>4, <2>1
      DEF WatchLooks, SweepInv, ListenerTypeOK, SessionTypeOK, OneSweep,
          boardVars, sessionVars, Ids
  <1>5. CASE WatchTouches
    BY <1>5 DEF WatchTouches, TouchFlag, SweepInv, ListenerTypeOK, SessionTypeOK,
                OneSweep, boardVars, Ids
  <1> QED
    BY <1>1, <1>2, <1>3, <1>4, <1>5
    DEF OthersPost, AgentPosts, AgentAcks, TimePasses, vars

LEMMA SweepInvSweep ==
    ASSUME SweepInv, TypeOK', NEW t \in Sweeper,
           Sweep(t) \/ LookAtScreen(t) \/ PeekBlind(t)
             \/ DatabaseFails(t) \/ ClaimRolledBack(t) \/ TmuxFails(t)
    PROVE  SweepInv'
  <1> USE ListenerAssumption
      DEF SweepInv, ListenerTypeOK, SessionTypeOK, OneSweep, Phase,
          Goto, Leave
  <1>0. Ids \subseteq Nat
    BY DEF Ids, TypeOK
  <1>a. ASSUME NEW s \in Orders(Overdue(Me)) 
        PROVE  notes \o s \in Seq(Ids)
    BY OrdersOnce, ConcatProperties
  <1>b. notes # <<>> =>
          /\ Tail(notes) \in Seq(Ids)
          /\ Append(told, Head(notes)) \in Seq(Ids)
    BY TailEntries, AppendEntries
  <1>c. Spend("fault") \/ Spend("tmux") => spent' \in [Mishap -> Nat]
    <2>1. {"fault", "tmux"} \subseteq Mishap
      BY DEF Mishap
    <2> QED
      BY <2>1, SpendKeepsCount
  <1>1. CASE BeginSweep(t)
    BY <1>1 DEF BeginSweep, boardVars, Ids
  <1>2. CASE Requeue(t)
    BY <1>2 DEF Requeue, RequeueUnacked, sessionVars, Ids
  <1>3. CASE Claim(t)
    <2>1. notes' \in Seq(Ids) /\ UNCHANGED log
      BY <1>3, <1>a DEF Claim, ClaimOverdueRequests
    <2> QED
      BY <1>3, <2>1 DEF Claim, sessionVars, Ids
  <1>4. CASE Look(t)
    <2>1. CASE idle_flag
      BY <1>4, <2>1 DEF Look, boardVars, sessionVars, Ids
    <2>2. CASE ~idle_flag
      BY <1>4, <2>2 DEF Look, boardVars, sessionVars, Ids
    <2> QED
      BY <2>1, <2>2
  <1>5. CASE Peek(t)
    <2>1. CASE BoxEmpty
      BY <1>5, <2>1 DEF Peek, boardVars, sessionVars, Ids
    <2>2. CASE ~BoxEmpty
      BY <1>5, <2>2 DEF Peek, boardVars, sessionVars, Ids
    <2> QED
      BY <2>1, <2>2
  <1>5a. CASE PeekBlind(t)
    BY <1>5a, <1>c DEF PeekBlind, boardVars, sessionVars, Ids
  <1>6. CASE LookAtScreen(t)
    BY <1>6 DEF LookAtScreen, boardVars, sessionVars, Ids
  <1>7. CASE Unstick(t)
    <2>1. CASE pc[t] = "stuck"
      BY <1>7, <2>1 DEF Unstick, TouchFlag, boardVars, Ids
    <2>2. CASE pc[t] = "held"
      BY <1>7, <2>2 DEF Unstick, TouchFlag, boardVars, Ids
    <2> QED
      BY <1>7, <2>1, <2>2 DEF Unstick
  <1>8. CASE Query(t)
    <2>1. UNCHANGED <<boardVars, sessionVars, process, kept, watch, notes, restart, told,
                      spent>>
      BY <1>8 DEF Query
    <2>2. CASE \E i \in Undelivered(Me) :
                 /\ picked' = [picked EXCEPT ![t] = i]
                 /\ pc' = [pc EXCEPT ![t] = "hand"] /\ UNCHANGED lock
      <3>1. PICK i \in Ids : picked' = [picked EXCEPT ![t] = i]
        BY <2>2 DEF Undelivered
      <3>2. i # Note
        BY DEF Ids, TypeOK, Note
      <3> QED
        BY <1>0, <1>8, <2>1, <2>2, <3>1, <3>2
        DEF Query, boardVars, sessionVars, Ids
    <2>3. CASE /\ notes # <<>>
               /\ picked' = [picked EXCEPT ![t] = Note]
               /\ pc' = [pc EXCEPT ![t] = "hand"] /\ UNCHANGED lock
      BY <1>8, <2>1, <2>3 DEF Query, Note, boardVars, sessionVars, Ids
    <2>4. CASE /\ UNCHANGED picked
               /\ pc' = [pc EXCEPT ![t] = "waiting"] /\ lock' = None
      BY <1>8, <2>1, <2>4 DEF Query, boardVars, sessionVars, Ids
    <2> QED
      BY <1>8, <2>2, <2>3, <2>4 DEF Query
  <1>9. CASE Hand(t)
    BY <1>9 DEF Hand, DropFlag, boardVars, Ids
  <1>10. CASE PasteText(t)
    <2>1. /\ pc[t] = "paste" /\ pc' = [pc EXCEPT ![t] = "enter"]
          /\ pasted' = pasted \union {picked[t]}
          /\ UNCHANGED <<turn, idle_flag, cleared_marker, hooks, draft, context>>
          /\ UNCHANGED <<boardVars, process, kept, watch, lock, picked, restart,
                         spent>>
      BY <1>10 DEF PasteText, Paste
    <2>2. notes' \in Seq(Ids) /\ told' \in Seq(Ids)
      BY <1>10, <1>b DEF PasteText
    <2>3. picked[t] \in Nat
      <3>1. picked[t] \in Ids \union {Note}
        BY <2>1
      <3>2. Note \in Nat
        BY DEF Note
      <3> QED
        BY <1>0, <3>1, <3>2
    <2>4. \A u \in Sweeper : pc'[u] # "waiting" => u = t
      BY <2>1
    <2> QED
      BY <2>1, <2>2, <2>3, <2>4 DEF boardVars, Ids
  <1>11. CASE Enter(t)
    BY <1>11 DEF Enter, PressEnter, boardVars, Ids
  <1>12. CASE Mark(t)
    BY <1>12 DEF Mark, MarkDelivered, boardVars, sessionVars, Ids
  <1>13. CASE DatabaseFails(t)
    BY <1>13, <1>c DEF DatabaseFails, boardVars, sessionVars, Ids
  <1>14. CASE ClaimRolledBack(t)
    <2>1. notes' \in Seq(Ids) /\ UNCHANGED log
      BY <1>14, <1>a DEF ClaimRolledBack, boardVars
    <2> QED
      BY <1>14, <1>c, <2>1 DEF ClaimRolledBack, boardVars, sessionVars, Ids
  <1>15. CASE TmuxFails(t)
    <2>1. notes' \in Seq(Ids)
      BY <1>15, <1>b DEF TmuxFails
    <2>2. /\ picked' = [picked EXCEPT ![t] = None]
          /\ pc' = [pc EXCEPT ![t] = "waiting"] /\ lock' = None
          /\ spent' \in [Mishap -> Nat]
          /\ UNCHANGED <<boardVars, sessionVars, process, kept, watch, restart, told>>
      BY <1>15, <1>c DEF TmuxFails
    <2>3. /\ pc[t] # "waiting" /\ lock = t
          /\ \A u \in Sweeper : pc'[u] = "waiting"
      BY <1>15, <2>2 DEF TmuxFails
    <2>4. ListenerTypeOK'
      BY <2>1, <2>2, <2>3 DEF boardVars, sessionVars, Ids
    <2>5. OneSweep'
      BY <2>2, <2>3
    <2> QED
      BY <2>4, <2>5
  <1> QED
    BY <1>1, <1>2, <1>3, <1>4, <1>5, <1>5a, <1>6, <1>7, <1>8, <1>9, <1>10,
       <1>11, <1>12, <1>13, <1>14, <1>15
    DEF Sweep

LEMMA SweepInvStep == SweepInv /\ [ListenerNext]_vars => SweepInv'
  <1> SUFFICES ASSUME SweepInv, [ListenerNext]_vars PROVE SweepInv'
    OBVIOUS
  <1>1. TypeOK /\ TypeOK'
    BY BoardTypeStep DEF SweepInv, ListenerTypeOK
  <1>2. Ids \subseteq Ids'
    BY <1>1, IdsStay
  <1> QED
    BY <1>1, <1>2, SweepInvProcess, SweepInvWorld, SweepInvSweep DEF ListenerNext

LEMMA SweepInvRecorded ==
    SweepInv /\ [ListenerNext /\ Recorded]_lapseVars => SweepInv'
  BY SweepInvStep DEF lapseVars

\* Every thread is at one of the points where sweep may be cut; from the query
\* to the mark it has the message it is working on, or a note, and no one has
\* taken that note away before it is pasted (listen.py, sweep).
THEOREM ListenerTypeCorrect == ListenerSpec => []ListenerTypeOK
  <1>1. SweepInv => ListenerTypeOK
    BY DEF SweepInv
  <1> QED
    BY <1>1, SweepInvInit, SweepInvStep, PTL DEF ListenerSpec
----------------------------------------------------------------------------
(* Nothing is typed into a turn.  The idle flag alone does not say so: it   *)
(* was looked at a query and a paste ago, and what keeps a prompt from      *)
(* coming in between is that the other threads wait, and that hooks and     *)
(* other people are on record until the picture is right again.             *)

QuietInv == NoneOf({"flag", "prompt"}) => PictureRight

LEMMA QuietInit == ListenerInit => PictureRight
  BY DEF ListenerInit, SessionInit, PictureRight, Typing

LEMMA QuietProcess ==
    ASSUME SweepInv, PictureRight,
           Crash \/ Launch \/ StartSession
             \/ RestartFiles \/ RestartPane \/ RestartListener \/ RestartCut
    PROVE  PictureRight'
  BY DEF PictureRight, Typing, Crash, Launch, StartSession, RestartFiles,
         RestartPane, RestartListener, RestartCut, Respawn, Fresh, sessionVars,
         processVars

LEMMA QuietWorld ==
    ASSUME SweepInv, PictureRight, ~FlagLate, ~PromptSent,
           OthersPost \/ AgentPosts \/ AgentAcks \/ TimePasses
             \/ SessionSteps \/ HumanSends \/ HumanErases \/ HumanActs
             \/ WatchLooks \/ WatchTouches
             \/ UNCHANGED vars
    PROVE  PictureRight'
  <1> USE DEF PictureRight, Typing
  <1>1. CASE UNCHANGED <<sessionVars, listenerVars>>
    BY <1>1 DEF sessionVars, listenerVars, processVars
  <1>2. CASE SessionSteps
    <2>1. UNCHANGED pc
      BY <1>2 DEF SessionSteps, listenerVars, processVars
    <2>2. CASE TakePrompt \/ EndTurn
      BY <2>1, <2>2 DEF TakePrompt, EndTurn
    <2>3. CASE RunHook
      <3>1. PICK h \in hooks : /\ hooks' = hooks \ {h} /\ UNCHANGED turn
                               /\ idle_flag' = (idle_flag \/ h = "flag")
        BY <2>3 DEF RunHook
      <3>2. CASE h = "flag"
        BY <2>1, <3>1, <3>2 DEF FlagLate
      <3>3. CASE h # "flag"
        <4>1. idle_flag' = idle_flag
          BY <3>1, <3>3 DEF SweepInv, ListenerTypeOK, SessionTypeOK
        <4> QED
          BY <2>1, <3>1, <4>1
      <3> QED
        BY <3>2, <3>3
    <2> QED
      BY <1>2, <2>2, <2>3 DEF SessionSteps
  <1>3. CASE HumanSends
    BY <1>3 DEF HumanSends, Submit, PressEnter, PromptSent, listenerVars, processVars
  <1>4. CASE HumanErases \/ HumanActs
    BY <1>4 DEF HumanErases, HumanActs, Erase, Type, Clear, Interrupt, processVars
  <1>5. CASE WatchLooks
    BY <1>5 DEF WatchLooks, sessionVars
  <1>6. CASE WatchTouches
    BY <1>6 DEF WatchTouches, TouchFlag, FlagLate
  <1> QED
    BY <1>1, <1>2, <1>3, <1>4, <1>5, <1>6
    DEF OthersPost, AgentPosts, AgentAcks, TimePasses, vars

LEMMA QuietSweep ==
    ASSUME SweepInv, PictureRight, NEW t \in Sweeper,
           Sweep(t) \/ LookAtScreen(t) \/ PeekBlind(t)
             \/ DatabaseFails(t) \/ ClaimRolledBack(t) \/ TmuxFails(t)
    PROVE  PictureRight'
  <1> USE DEF PictureRight, Typing, SweepInv, OneSweep, Phase, Goto, Leave
  <1>1. CASE BeginSweep(t)
    BY <1>1 DEF BeginSweep
  <1>2. CASE Requeue(t) \/ Claim(t) \/ Mark(t)
    BY <1>2 DEF Requeue, Claim, Mark, sessionVars
  <1>3. CASE Look(t) \/ Peek(t) \/ PeekBlind(t)
    BY <1>3 DEF Look, Peek, PeekBlind, sessionVars
  <1>4. CASE LookAtScreen(t)
    BY <1>4 DEF LookAtScreen, LooksStuck, sessionVars
  <1>5. CASE Unstick(t)
    BY <1>5 DEF Unstick, TouchFlag
  <1>6. CASE Query(t)
    BY <1>6 DEF Query, sessionVars
  <1>7. CASE Hand(t)
    BY <1>7 DEF Hand, DropFlag
  <1>8. CASE PasteText(t)
    BY <1>8 DEF PasteText, Paste
  <1>9. CASE Enter(t)
    BY <1>9 DEF Enter, PressEnter
  <1>10. CASE DatabaseFails(t) \/ ClaimRolledBack(t) \/ TmuxFails(t)
    BY <1>10 DEF DatabaseFails, ClaimRolledBack, TmuxFails, sessionVars
  <1> QED
    BY <1>1, <1>2, <1>3, <1>4, <1>5, <1>6, <1>7, <1>8, <1>9, <1>10 DEF Sweep

LEMMA QuietStep ==
    SweepInv /\ QuietInv /\ [ListenerNext /\ Recorded]_lapseVars => QuietInv'
  <1>1. ASSUME SweepInv, QuietInv, ListenerNext, Recorded,
               NoneOf({"flag", "prompt"})'
        PROVE  PictureRight'
    <2>1. PictureRight' \/ (~FlagLate /\ ~PromptSent /\ PictureRight)
      BY <1>1, LapseOnRecord DEF QuietInv, NoneOf
    <2> QED
      BY <1>1, <2>1, QuietProcess, QuietWorld, QuietSweep DEF ListenerNext
  <1>2. ASSUME QuietInv, UNCHANGED lapseVars PROVE QuietInv'
    BY <1>2 DEF QuietInv, PictureRight, Typing, NoneOf, lapseVars, vars,
                sessionVars, listenerVars, processVars
  <1> QED
    BY <1>1, <1>2 DEF QuietInv

\* Nothing is typed into a session that has a prompt to work on, whatever
\* interrupts, crashes, /clears and failures do to the flag: but while a hook
\* or the idle watch that came late, or a prompt of somebody else's, has the flag wrong, or came
\* between a look and its typing (session/tmux.py:5).
THEOREM NothingTypedMidTurn == LapsesSpec => NeverTypesMidTurn
  <1> DEFINE Idle == Types /\ NoneOf({"flag", "prompt"}) => turn = "idle"
  <1>1. QuietInv => Idle
    BY DEF QuietInv, PictureRight, Typing, Types
  <1>2. ListenerInit => QuietInv
    BY QuietInit DEF QuietInv
  <1> HIDE DEF Idle
  <1>3. LapsesSpec => [][Idle]_lapseVars
    BY <1>1, <1>2, SweepInvInit, SweepInvRecorded, QuietStep, PTL DEF LapsesSpec
  <1> QED
    BY <1>3 DEF Idle, NeverTypesMidTurn
----------------------------------------------------------------------------
(* No message is typed twice into one conversation: what the session has is *)
(* marked or finished, or its thread is about to mark it, and holds the lock *)
(* till then.                                                               *)

RememberInv == NoneOf({"mark", "resent"}) => MarksRight

LEMMA RememberInit == ListenerInit => MarksRight
  BY DEF ListenerInit, SessionInit, MarksRight

LEMMA RememberProcess ==
    ASSUME SweepInv, MarksRight, ~MarkLost, ~Resent,
           Crash \/ Launch \/ StartSession
             \/ RestartFiles \/ RestartPane \/ RestartListener \/ RestartCut
    PROVE  MarksRight'
  <1> USE DEF MarksRight, SweepInv, OneSweep
  <1>1. CASE Crash
    BY <1>1 DEF Crash, Fresh, MarkLost, boardVars, sessionVars
  <1>2. CASE Launch
    BY <1>2 DEF Launch, boardVars, sessionVars
  <1>3. CASE StartSession
    <2>1. \A i \in context \union pasted : <<i, Me>> \in handed => <<i, Me>> \in handed'
      BY DEF Resent
    <2>2. UNCHANGED <<acked, context, pasted, pc, picked>>
      BY <1>3 DEF StartSession, RequeueUnacked, boardVars, sessionVars
    <2> QED
      BY <2>1, <2>2
  <1>4. CASE RestartFiles
    BY <1>4 DEF RestartFiles, processVars, boardVars
  <1>5. CASE RestartPane
    BY <1>5 DEF RestartPane, Respawn, processVars, boardVars
  <1>6. CASE RestartListener
    BY <1>6 DEF RestartListener, Fresh, MarkLost, boardVars, sessionVars
  <1>7. CASE RestartCut
    BY <1>7 DEF RestartCut, boardVars, sessionVars, processVars
  <1> QED
    BY <1>1, <1>2, <1>3, <1>4, <1>5, <1>6, <1>7

LEMMA RememberWorld ==
    ASSUME SweepInv, MarksRight,
           OthersPost \/ AgentPosts \/ AgentAcks \/ TimePasses
             \/ SessionSteps \/ HumanSends \/ HumanErases \/ HumanActs
             \/ WatchLooks \/ WatchTouches
             \/ UNCHANGED vars
    PROVE  MarksRight'
  <1>1. UNCHANGED handed /\ acked \subseteq acked'
    <2>1. CASE OthersPost \/ AgentPosts
      <3>1. \E a \in Agent, q \in Request : PostMessage(a, q)
        BY <2>1, MeIsAgent DEF OthersPost, AgentPosts
      <3> QED
        BY <3>1 DEF PostMessage, Insert
    <2>2. CASE AgentAcks \/ TimePasses
      BY <2>2 DEF AgentAcks, AckMessage, TimePasses, Tick
    <2>3. CASE UNCHANGED boardVars
      BY <2>3 DEF boardVars
    <2> QED
      BY <2>1, <2>2, <2>3
      DEF SessionSteps, HumanSends, HumanErases, HumanActs, WatchLooks,
          WatchTouches, vars
  <1>2. /\ UNCHANGED <<pc, picked>>
        /\ context' \union pasted' \subseteq context \union pasted
    BY DEF OthersPost, AgentPosts, AgentAcks, TimePasses, SessionSteps,
           TakePrompt, EndTurn, RunHook, HumanSends, Submit, PressEnter,
           HumanErases, Erase, HumanActs, Type, Clear, Interrupt, WatchLooks,
           WatchTouches, TouchFlag, vars, sessionVars, listenerVars, processVars
  <1> QED
    BY <1>1, <1>2 DEF MarksRight

LEMMA RememberSweep ==
    ASSUME SweepInv, MarksRight, ~MarkLost, ~Resent, NEW t \in Sweeper,
           Sweep(t) \/ LookAtScreen(t) \/ PeekBlind(t)
             \/ DatabaseFails(t) \/ ClaimRolledBack(t) \/ TmuxFails(t)
    PROVE  MarksRight'
  <1> USE DEF MarksRight, SweepInv, ListenerTypeOK, OneSweep, Phase, Goto, Leave
  <1>1. CASE BeginSweep(t)
    BY <1>1 DEF BeginSweep, boardVars
  <1>2. CASE Requeue(t)
    <2>1. \A i \in context \union pasted : <<i, Me>> \in handed => <<i, Me>> \in handed'
      BY DEF Resent
    <2>2. /\ pc[t] = "requeue" /\ pc' = [pc EXCEPT ![t] = "claim"]
          /\ UNCHANGED <<acked, context, pasted, picked>>
      BY <1>2 DEF Requeue, RequeueUnacked, sessionVars
    <2> QED
      BY <2>1, <2>2
  <1>3. CASE Claim(t)
    BY <1>3 DEF Claim, ClaimOverdueRequests, sessionVars
  <1>4. CASE Look(t) \/ Peek(t) \/ PeekBlind(t)
    BY <1>4 DEF Look, Peek, PeekBlind, boardVars, sessionVars
  <1>5. CASE LookAtScreen(t)
    BY <1>5 DEF LookAtScreen, boardVars, sessionVars
  <1>6. CASE Unstick(t)
    BY <1>6 DEF Unstick, TouchFlag, boardVars
  <1>7. CASE Query(t)
    <2>1. UNCHANGED <<boardVars, sessionVars>> /\ pc[t] = "query"
      BY <1>7 DEF Query
    <2>2. UNCHANGED <<handed, acked, context, pasted>>
      BY <2>1 DEF boardVars, sessionVars
    <2>3. \A u \in Sweeper : u # t => pc[u] = "waiting" /\ pc'[u] = "waiting"
      BY <1>7 DEF Query
    <2>4. \A i \in (context \union pasted) \ {Note} : <<i, Me>> \in handed \union acked
      BY <2>1, <2>3
    <2>5. CASE \E i \in Undelivered(Me) :
                 picked' = [picked EXCEPT ![t] = i] /\ pc' = [pc EXCEPT ![t] = "hand"]
      <3>1. PICK i \in Undelivered(Me) : picked' = [picked EXCEPT ![t] = i]
        BY <2>5
      <3>2. <<i, Me>> \notin handed \union acked
        BY DEF Undelivered, Pending
      <3>3. pc'[t] = "hand" /\ picked'[t] = i
        BY <2>5, <3>1
      <3> QED
        BY <2>2, <2>3, <2>4, <3>2, <3>3
    <2>6. CASE picked' = [picked EXCEPT ![t] = Note] /\ pc' = [pc EXCEPT ![t] = "hand"]
      BY <2>2, <2>3, <2>4, <2>6
    <2>7. CASE UNCHANGED picked /\ pc' = [pc EXCEPT ![t] = "waiting"]
      BY <2>2, <2>3, <2>4, <2>7
    <2> QED
      BY <1>7, <2>5, <2>6, <2>7 DEF Query
  <1>8. CASE Hand(t)
    BY <1>8 DEF Hand, DropFlag, boardVars
  <1>9. CASE PasteText(t)
    <2>1. /\ pc[t] = "paste" /\ pc' = [pc EXCEPT ![t] = "enter"]
          /\ pasted' = pasted \union {picked[t]}
          /\ UNCHANGED <<handed, acked, context, picked>>
      BY <1>9 DEF PasteText, Paste, boardVars
    <2>2. \A u \in Sweeper : u # t => pc[u] = "waiting" /\ pc'[u] = "waiting"
      BY <2>1
    <2>3. pc'[t] = "enter"
      BY <2>1
    <2>4. ~MarkLost
      BY <2>1, <2>2 DEF MarkLost
    <2>5. ASSUME MarksRight  PROVE MarksRight'
      <3>1. ASSUME NEW i \in (context' \union pasted') \ {Note}
            PROVE  \/ <<i, Me>> \in handed' \union acked'
                   \/ \E u \in Sweeper : pc'[u] \in {"enter", "mark"} /\ picked'[u] = i
        <4>1. CASE i = picked[t]
          BY <2>1, <2>3, <4>1
        <4>2. CASE i # picked[t]
          <5>1. i \in (context \union pasted) \ {Note}
            BY <2>1, <3>1, <4>2
          <5>2. ~\E u \in Sweeper : pc[u] \in {"enter", "mark"}
            BY <2>1, <2>2
          <5> QED
            BY <2>1, <2>5, <5>1, <5>2
        <4> QED
          BY <4>1, <4>2
      <3>2. \A u \in Sweeper : pc'[u] \notin {"hand", "paste"}
        BY <2>2, <2>3
      <3> QED
        BY <3>1, <3>2
    <2> QED
      BY <2>4, <2>5
  <1>10. CASE Enter(t)
    <2>1. /\ pc[t] = "enter" /\ UNCHANGED <<handed, acked>>
          /\ context' \union pasted' \subseteq context \union pasted
          /\ IF picked[t] = Note
             THEN pc' = [pc EXCEPT ![t] = "loop"] /\ picked' = [picked EXCEPT ![t] = None]
             ELSE pc' = [pc EXCEPT ![t] = "mark"] /\ UNCHANGED picked
      BY <1>10 DEF Enter, PressEnter, boardVars
    <2>2. \A u \in Sweeper : u # t => pc[u] = "waiting" /\ pc'[u] = "waiting"
      BY <2>1
    <2>3. CASE picked[t] = Note
      <3>1. ~\E u \in Sweeper : pc'[u] \in {"hand", "paste"}
        BY <2>1, <2>2, <2>3
      <3>2. ASSUME NEW i \in (context' \union pasted') \ {Note}
            PROVE  <<i, Me>> \in handed' \union acked'
        <4>1. ~\E u \in Sweeper : pc[u] \in {"enter", "mark"} /\ picked[u] = i
          BY <2>1, <2>2, <2>3
        <4> QED
          BY <2>1, <3>2, <4>1
      <3> QED
        BY <3>1, <3>2
    <2>4. CASE picked[t] # Note
      <3>1. /\ pc'[t] = "mark" /\ picked' = picked
            /\ ~\E u \in Sweeper : pc'[u] \in {"hand", "paste"}
            /\ \A u \in Sweeper : pc[u] \in {"enter", "mark"} => u = t
        BY <2>1, <2>2, <2>4
      <3> QED
        BY <2>1, <3>1
    <2> QED
      BY <2>3, <2>4
  <1>11. CASE Mark(t)
    <2>1. /\ pc[t] = "mark" /\ pc' = [pc EXCEPT ![t] = "loop"]
          /\ picked' = [picked EXCEPT ![t] = None]
          /\ UNCHANGED <<acked, context, pasted>>
      BY <1>11 DEF Mark, MarkDelivered, boardVars, sessionVars
    <2>2. handed' = handed \union {<<picked[t], Me>>}
      BY <1>11 DEF Mark, MarkDelivered, boardVars
    <2> QED
      BY <2>1, <2>2
  <1>12. CASE DatabaseFails(t)
    <2>1. pc[t] = "mark" => picked[t] # Note
      BY DEF Ids, Note, TypeOK
    <2> QED
      BY <1>12, <2>1 DEF DatabaseFails, MarkLost, boardVars, sessionVars
  <1>13. CASE ClaimRolledBack(t)
    BY <1>13 DEF ClaimRolledBack, boardVars, sessionVars
  <1>14. CASE TmuxFails(t)
    BY <1>14 DEF TmuxFails, MarkLost, boardVars, sessionVars
  <1> QED
    BY <1>1, <1>2, <1>3, <1>4, <1>5, <1>6, <1>7, <1>8, <1>9, <1>10, <1>11,
       <1>12, <1>13, <1>14
    DEF Sweep

LEMMA RememberStep ==
    SweepInv /\ RememberInv /\ [ListenerNext /\ Recorded]_lapseVars => RememberInv'
  <1>1. ASSUME SweepInv, RememberInv, ListenerNext, Recorded,
               NoneOf({"mark", "resent"})'
        PROVE  MarksRight'
    <2>1. MarksRight' \/ (~MarkLost /\ ~Resent /\ MarksRight)
      BY <1>1, LapseOnRecord DEF RememberInv, NoneOf
    <2> QED
      BY <1>1, <2>1, RememberProcess, RememberWorld, RememberSweep
      DEF ListenerNext
  <1>2. ASSUME SweepInv, RememberInv, UNCHANGED lapseVars PROVE RememberInv'
    BY <1>2, RememberWorld DEF RememberInv, NoneOf, lapseVars
  <1> QED
    BY <1>1, <1>2 DEF RememberInv

\* No message is typed into a session that has it in its conversation or in its
\* box, by whichever of the sweeps, before and after a crash, a restart or a
\* /clear, but while the session has one whose mark was lost, by a refused Enter
\* or a kill in the settle pause too, or that a requeue took back (listen.py:94).
THEOREM NothingRepeated == LapsesSpec => NoRepeat
  <1> DEFINE New == \A t \in Sweeper :
                 /\ pc[t] = "paste" /\ pc'[t] = "enter" /\ picked[t] # Note
                 /\ NoneOf({"mark", "resent"})
                 => picked[t] \notin context \union pasted
  <1>1. RememberInv => New
    BY DEF RememberInv, MarksRight
  <1>2. ListenerInit => RememberInv
    BY RememberInit DEF RememberInv
  <1> HIDE DEF New
  <1>3. LapsesSpec => [][New]_lapseVars
    BY <1>1, <1>2, SweepInvInit, SweepInvRecorded, RememberStep, PTL
    DEF LapsesSpec
  <1> QED
    BY <1>3 DEF New, NoRepeat
----------------------------------------------------------------------------
(* The note of each timeout, once.  What ties the stamp in the database to  *)
(* the notes in memory is that a claim makes both at once, and that what is *)
(* stamped is never claimed again.                                          *)

NotedOnce ==
    /\ Distinct(notes) /\ Distinct(told)
    /\ Entries(notes) \intersect Entries(told) = {}
    /\ Entries(notes) \union Entries(told) \subseteq noted

AllNoted ==
    \A i \in noted : log[i].sender = Me => i \in Entries(notes) \union Entries(told)

NotesInv ==
    /\ NoneOf({"claim"}) => NotedOnce
    /\ NoneOf({"notes"}) => AllNoted

\* What a step does for both: each stays true but for its own lapse.
NotesFollow ==
    /\ ~ClaimLost /\ NotedOnce => NotedOnce'
    /\ ~NoteLost /\ AllNoted => AllNoted'

LEMMA NotesInit == ListenerInit => NotedOnce /\ AllNoted
  BY EmptyEntries DEF ListenerInit, Init, NotedOnce, AllNoted

\* Notes and stamps stay as they are.
LEMMA NotesStay ==
    ASSUME TypeOK, [ListenerNext]_vars, UNCHANGED <<notes, told, noted>>
    PROVE  NotesFollow
  <1>1. \A i \in noted : log'[i] = log[i]
    BY IdsStay DEF TypeOK
  <1>2. /\ Entries(notes)' = Entries(notes) /\ Entries(told)' = Entries(told)
        /\ Distinct(notes)' <=> Distinct(notes)
        /\ Distinct(told)' <=> Distinct(told)
    BY DEF Entries, Distinct
  <1>3. NotedOnce => NotedOnce'
    BY <1>2 DEF NotedOnce
  <1>4. AllNoted => AllNoted'
    BY <1>1, <1>2 DEF AllNoted
  <1> QED
    BY <1>3, <1>4 DEF NotesFollow

\* The process dies or is replaced, and the notes with it.
LEMMA NotesForgotten ==
    ASSUME SweepInv, TypeOK, [ListenerNext]_vars, notes' = <<>>,
           UNCHANGED <<told, noted>>, process' # "up"
    PROVE  NotesFollow
  <1>1. NotedOnce => NotedOnce'
    BY EmptyEntries DEF NotedOnce, Entries, Distinct
  <1>2. CASE notes = <<>>
    BY <1>2, NotesStay
  <1>3. CASE notes # <<>>
    <2>1. Len(notes) \in Nat /\ Len(notes) # 0 /\ Len(<<>>) = 0
      BY <1>3, EmptySeq, LenProperties DEF SweepInv, ListenerTypeOK
    <2>2. NoteLost
      BY <2>1 DEF NoteLost
    <2> QED
      BY <1>1, <2>2 DEF NotesFollow
  <1> QED
    BY <1>2, <1>3

LEMMA NotesSweep ==
    ASSUME SweepInv, TypeOK, [ListenerNext]_vars, NEW t \in Sweeper,
           Sweep(t) \/ LookAtScreen(t) \/ PeekBlind(t)
             \/ DatabaseFails(t) \/ ClaimRolledBack(t) \/ TmuxFails(t)
    PROVE  NotesFollow
  <1>0. /\ notes \in Seq(Ids) /\ told \in Seq(Ids)
        /\ noted \subseteq Ids
    BY DEF SweepInv, ListenerTypeOK, TypeOK
  <1>o. ASSUME NEW s \in Orders(Overdue(Me))
        PROVE  /\ Entries(notes \o s) = Entries(notes) \union Overdue(Me)
               /\ NotedOnce => Distinct(notes \o s)
    <2>1. s \in Seq(Ids) /\ Entries(s) = Overdue(Me) /\ Distinct(s)
      BY OrdersOnce
    <2>2. NotedOnce => Entries(notes) \intersect Entries(s) = {}
      BY <2>1 DEF NotedOnce, Overdue
    <2> QED
      BY <1>0, <2>1, <2>2, ConcatEntries DEF NotedOnce
  <1>1. CASE Claim(t)
    <2>1. PICK s \in Orders(Overdue(Me)) : notes' = notes \o s
      BY <1>1 DEF Claim
    <2>2. noted' = noted \union Overdue(Me) /\ UNCHANGED <<told, log>>
      BY <1>1 DEF Claim, ClaimOverdueRequests
    <2>3. Entries(told)' = Entries(told) /\ (Distinct(told)' <=> Distinct(told))
      BY <2>2 DEF Entries, Distinct
    <2>4. /\ Entries(notes)' = Entries(notes) \union Overdue(Me)
          /\ NotedOnce => Distinct(notes)'
      BY <1>o, <2>1 DEF Entries, Distinct
    <2>5. NotedOnce => Overdue(Me) \intersect Entries(told) = {}
      BY DEF NotedOnce, Overdue
    <2>6. NotedOnce => NotedOnce'
      BY <2>2, <2>3, <2>4, <2>5 DEF NotedOnce
    <2>7. AllNoted => AllNoted'
      BY <2>2, <2>3, <2>4 DEF AllNoted
    <2> QED
      BY <2>6, <2>7 DEF NotesFollow
  <1>2. CASE PasteText(t) /\ picked[t] = Note
    <2>1. /\ notes # <<>> /\ notes' = Tail(notes) /\ told' = Append(told, Head(notes))
          /\ UNCHANGED <<noted, log>>
      BY <1>2 DEF PasteText, SweepInv, ListenerTypeOK, boardVars
    <2>2. /\ Head(notes) \in Ids
          /\ Entries(notes) = Entries(notes') \union {Head(notes)}
          /\ Distinct(notes) => Distinct(notes') /\ Head(notes) \notin Entries(notes')
      BY <1>0, <2>1, TailEntries
    <2>3. /\ Entries(told') = Entries(told) \union {Head(notes)}
          /\ Distinct(told) /\ Head(notes) \notin Entries(told) => Distinct(told')
      BY <1>0, <2>1, <2>2, AppendEntries
    <2>4. NotedOnce => NotedOnce'
      <3> SUFFICES ASSUME NotedOnce PROVE NotedOnce'
        OBVIOUS
      <3>1. Distinct(notes') /\ Distinct(told')
        BY <2>2, <2>3 DEF NotedOnce
      <3>2. Entries(notes') \intersect Entries(told') = {}
        BY <2>2, <2>3 DEF NotedOnce
      <3>3. Entries(notes') \union Entries(told') \subseteq noted'
        BY <2>1, <2>2, <2>3 DEF NotedOnce
      <3>4. /\ Entries(notes)' = Entries(notes') /\ Entries(told)' = Entries(told')
            /\ Distinct(notes)' = Distinct(notes') /\ Distinct(told)' = Distinct(told')
        BY DEF Entries, Distinct
      <3> QED
        BY <3>1, <3>2, <3>3, <3>4 DEF NotedOnce
    <2>5. AllNoted => AllNoted'
      BY <2>1, <2>2, <2>3 DEF AllNoted, Entries
    <2> QED
      BY <2>4, <2>5 DEF NotesFollow
  <1>3. CASE ClaimRolledBack(t)
    <2>1. PICK s \in Orders(Overdue(Me)) : notes' = notes \o s
      BY <1>3 DEF ClaimRolledBack
    <2>2. UNCHANGED <<told, noted, log>>
      BY <1>3 DEF ClaimRolledBack, boardVars
    <2>3. AllNoted => AllNoted'
      <3>1. Entries(notes)' = Entries(notes) \union Overdue(Me)
        BY <1>o, <2>1 DEF Entries
      <3> QED
        BY <2>2, <3>1 DEF AllNoted, Entries
    <2>4. s \in Seq(Ids)
      BY OrdersOnce
    <2>5. CASE s = <<>>
      <3>1. notes' = notes
        BY <1>0, <2>1, <2>5, ConcatEmptySeq
      <3> QED
        BY <2>2, <3>1, NotesStay
    <2>6. CASE s # <<>>
      <3>1. Len(notes') = Len(notes) + Len(s) /\ Len(notes) \in Nat /\ Len(s) \in Nat
        BY <1>0, <2>1, <2>4, ConcatProperties, LenProperties
      <3>2. Len(s) # 0
        BY <2>4, <2>6, EmptySeq
      <3>3. ClaimLost
        BY <1>3, <3>1, <3>2
        DEF ClaimLost, ClaimRolledBack, Leave, Goto, SweepInv, ListenerTypeOK
      <3> QED
        BY <2>3, <3>3 DEF NotesFollow
    <2> QED
      BY <2>5, <2>6
  <1>4. CASE TmuxFails(t)
    <2>1. CASE UNCHANGED notes
      BY <1>4, <2>1, NotesStay DEF TmuxFails, boardVars
    <2>2. CASE pc[t] = "paste" /\ picked[t] = Note /\ notes' = Tail(notes)
      <3>1. notes # <<>> /\ UNCHANGED <<told, noted>>
        BY <1>4, <2>2 DEF TmuxFails, SweepInv, ListenerTypeOK, boardVars
      <3>2. /\ Entries(notes') \subseteq Entries(notes)
            /\ Distinct(notes) => Distinct(notes')
        BY <1>0, <2>2, <3>1, TailEntries
      <3>3. /\ Entries(notes)' = Entries(notes') /\ Entries(told)' = Entries(told)
            /\ Distinct(notes)' <=> Distinct(notes')
            /\ Distinct(told)' <=> Distinct(told)
        BY <3>1 DEF Entries, Distinct
      <3>4. NotedOnce => NotedOnce'
        BY <3>1, <3>2, <3>3 DEF NotedOnce
      <3>5. Len(notes) \in Nat /\ Len(notes') = Len(notes) - 1
        BY <1>0, <2>2, <3>1, HeadTailProperties, LenProperties
      <3>6. pc'[t] = "waiting"
        BY <1>4 DEF TmuxFails, Leave, Goto, SweepInv, ListenerTypeOK
      <3>7. Len(notes') < Len(notes)
        BY <3>5
      <3>8. NoteLost
        BY <2>2, <3>6, <3>7 DEF NoteLost
      <3> QED
        BY <3>4, <3>8 DEF NotesFollow
    <2> QED
      BY <1>4, <2>1, <2>2 DEF TmuxFails
  <1>5. CASE UNCHANGED <<notes, told, noted>>
    BY <1>5, NotesStay
  <1> QED
    BY <1>1, <1>2, <1>3, <1>4, <1>5
    DEF Sweep, BeginSweep, Requeue, RequeueUnacked, Look, Peek, PeekBlind,
        LookAtScreen, Unstick, Query, Hand, PasteText, Enter, Mark,
        MarkDelivered, DatabaseFails, boardVars

LEMMA NotesOther ==
    ASSUME SweepInv, TypeOK, [ListenerNext]_vars
    PROVE  NotesFollow
  <1>1. CASE Crash \/ RestartListener
    BY <1>1, NotesForgotten DEF Crash, RestartListener, Fresh, boardVars
  <1>2. CASE UNCHANGED <<notes, told, noted>>
    BY <1>2, NotesStay
  <1>3. CASE OthersPost \/ AgentPosts
    <2>1. \E a \in Agent, q \in Request : PostMessage(a, q)
      BY <1>3, MeIsAgent DEF OthersPost, AgentPosts
    <2>2. UNCHANGED noted
      BY <2>1 DEF PostMessage, Insert
    <2> QED
      BY <1>2, <1>3, <2>2 DEF OthersPost, AgentPosts, listenerVars, processVars
  <1>4. CASE Launch \/ StartSession \/ RestartFiles \/ RestartPane \/ RestartCut
             \/ AgentAcks \/ TimePasses
             \/ SessionSteps \/ HumanSends \/ HumanErases \/ HumanActs
             \/ WatchLooks \/ WatchTouches
    BY <1>2, <1>4
    DEF Launch, StartSession, RequeueUnacked, RestartFiles, RestartPane,
        RestartCut, AgentAcks, AckMessage, TimePasses, Tick, SessionSteps,
        HumanSends, HumanErases, HumanActs, WatchLooks, WatchTouches, boardVars,
        listenerVars, processVars
  <1>5. CASE UNCHANGED vars
    BY <1>2, <1>5 DEF vars, boardVars, listenerVars, processVars
  <1> QED
    BY <1>1, <1>3, <1>4, <1>5, NotesSweep DEF ListenerNext

LEMMA NotesStep ==
    SweepInv /\ NotesInv /\ [ListenerNext /\ Recorded]_lapseVars => NotesInv'
  <1> SUFFICES ASSUME SweepInv, NotesInv, [ListenerNext /\ Recorded]_lapseVars
               PROVE  NotesInv'
    OBVIOUS
  <1>1. NotesFollow
    BY NotesOther DEF SweepInv, ListenerTypeOK, lapseVars
  <1>2. CASE Recorded
    BY <1>1, <1>2, LapseOnRecord DEF NotesInv, NotesFollow, NoneOf
  <1>3. CASE UNCHANGED lapseVars
    <2>1. ~ClaimLost /\ ~NoteLost
      <3>1. notes' = notes /\ Len(notes) \in Nat
        BY <1>3, LenProperties DEF lapseVars, vars, listenerVars, processVars,
                                   SweepInv, ListenerTypeOK
      <3> QED
        BY <3>1 DEF ClaimLost, NoteLost
    <2> QED
      BY <1>1, <1>3, <2>1 DEF NotesInv, NotesFollow, NoneOf, lapseVars
  <1> QED
    BY <1>2, <1>3

LEMMA NotesAlways == LapsesSpec => [](SweepInv /\ NotesInv)
  <1>1. ListenerInit => NotesInv
    BY NotesInit DEF NotesInv
  <1> QED
    BY <1>1, SweepInvInit, SweepInvRecorded, NotesStep, PTL DEF LapsesSpec

\* Nobody is told, or about to be told, of the same timeout twice, through
\* crashes and failures as well, unless a claim was rolled back (listen.py:123).
THEOREM NobodyToldTwice == LapsesSpec => []ToldOnce
  <1>1. SweepInv /\ NotesInv => ToldOnce
    <2> SUFFICES ASSUME SweepInv, NotesInv, NoneOf({"claim"})
                 PROVE  Distinct(notes \o told)
      BY DEF ToldOnce, Distinct
    <2> QED
      BY ConcatEntries DEF NotesInv, NotedOnce, SweepInv, ListenerTypeOK
  <1> QED
    BY <1>1, NotesAlways, PTL

LEMMA AllNotedTold == SweepInv /\ AllNoted => Told
  <1> SUFFICES ASSUME SweepInv, AllNoted PROVE Told
    OBVIOUS
  <1>1. Entries(notes \o told) = Entries(notes) \union Entries(told)
    BY ConcatEntries DEF SweepInv, ListenerTypeOK
  <1>2. \A i \in noted : log[i].sender = Me => i \in Entries(notes \o told)
    BY <1>1 DEF AllNoted
  <1> QED
    BY <1>2 DEF Told, HasNote, Entries

\* As long as no note is forgotten with the process or popped too soon, every
\* timeout claimed has been typed or is kept (listen.py:123, listen.py:143).
THEOREM NotesAreKept == LapsesSpec => []NoteKept
  <1>1. SweepInv /\ NotesInv => NoteKept
    BY AllNotedTold DEF NoteKept, NotesInv
  <1> QED
    BY <1>1, NotesAlways, PTL

\* Up to the hop budget, whoever asks with a deadline hears of it: it has a
\* reply in its inbox, or the note that there is none was typed into its
\* session, waits in its listener or is what the next claim makes, unless a
\* note was lost (claim_overdue_requests, README.md:391).
THEOREM AskersHear == LapsesSpec => []AnsweredOrToldInBudget
  <1>1. SweepInv /\ NotesInv /\ AnsweredOrClaimedInBudget => AnsweredOrToldInBudget
    <2> SUFFICES ASSUME SweepInv, AllNoted, AnsweredOrClaimedInBudget,
                        NEW i \in Ids, log[i].sender = Me, Due(i), log[i].depth > 1
                 PROVE  AnsweredInInbox(i) \/ HasNote(i) \/ i \in Overdue(Me)
      BY DEF AnsweredOrToldInBudget, NotesInv
    <2>1. AnsweredInInbox(i) \/ i \in noted \/ i \in Overdue(Me)
      BY DEF AnsweredOrClaimedInBudget, ClaimedOrToBeClaimed
    <2>2. i \in noted => HasNote(i)
      BY AllNotedTold DEF Told
    <2> QED
      BY <2>1, <2>2
  <1>2. LapsesSpec => []AnsweredOrClaimedInBudget
    BY LapsesAside, ListenerImplementsBoard, RequestsClaimed, PTL
  <1> QED
    BY <1>1, <1>2, NotesAlways, PTL
=============================================================================
