---------------------------- MODULE WakeupProofs ----------------------------
(* The notification loop never forgets a message it should hear of and      *)
(* follows the agent's topics, for any topics and bounds.                   *)
EXTENDS Wakeup, TLAPS

LEMMA ChannelsDiffer == Own \notin Topic /\ Topology \notin Topic /\ Own # Topology
  BY WakeupAssumption DEF Own, Topology

LEMMA SeqEmpty == \A S : <<>> \in Seq(S) /\ Len(<<>>) = 0
  OBVIOUS

\* Sequences of a set are sequences of any larger one.
LEMMA SeqGrows ==
    ASSUME NEW S, NEW T, S \subseteq T, NEW s \in Seq(S)
    PROVE  s \in Seq(T)
  OBVIOUS

LEMMA SeqAppend ==
    ASSUME NEW S, NEW s \in Seq(S), NEW e \in S
    PROVE  /\ Append(s, e) \in Seq(S)
           /\ Len(Append(s, e)) = Len(s) + 1
           /\ Append(s, e)[Len(s) + 1] = e
           /\ \A k \in 1..Len(s) : Append(s, e)[k] = s[k]
  OBVIOUS

LEMMA SeqTail ==
    ASSUME NEW S, NEW s \in Seq(S), s # <<>>
    PROVE  /\ Tail(s) \in Seq(S)
           /\ \A k \in 1..Len(s) :
                k # 1 => k - 1 \in 1..Len(Tail(s)) /\ Tail(s)[k - 1] = s[k]
           /\ 1 \in 1..Len(s) /\ Head(s) = s[1]
  OBVIOUS

----------------------------------------------------------------------------
(* The steps, sorted by what they do to the queue and the inbox *)

\* Every step is one of these.
Operation ==
    \/ \E c \in Channel : Post(c)
    \/ \E t \in Topic, backfill \in {0, 1} : Subscribe(t, backfill)
    \/ \E t \in Topic : Unsubscribe(t)
    \/ OthersChange
    \/ Connect
    \/ ReadChannels
    \/ \E c \in Channel : Listen(c)
    \/ Listening
    \/ SweepNow
    \/ Take
    \/ Breaks
    \/ NoticeBroken \/ PoolFails \/ Dies
    \/ TimerSweep

LEMMA StepIsOperation == WakeupNext <=> Operation
  BY DEF WakeupNext, Loop, Operation

\* Every end of a connection leaves the loop where it began.
LEMMA EndsReconnect ==
    NoticeBroken \/ PoolFails \/ Dies =>
        /\ Reconnects
        /\ failures \in Nat => failures' \in Nat
  BY DEF NoticeBroken, PoolFails, Dies, Fails

\* What a notification does to the queue.
LEMMA NotifyQueues ==
    ASSUME WakeupTypeOK, NEW c, Notify(c)
    PROVE  /\ queue' \in Seq(listened)
           /\ \A k \in 1..Len(queue) : k \in 1..Len(queue') /\ queue'[k] = queue[k]
           /\ Hears(c) => /\ Len(queue') = Len(queue) + 1
                          /\ queue'[Len(queue')] = c
                          /\ Len(queue') \in 1..Len(queue')
  <1>1. CASE Hears(c)
    <2>1. queue' = Append(queue, c) /\ c \in listened /\ queue \in Seq(listened)
      BY <1>1 DEF Notify, Hears, WakeupTypeOK
    <2>2. /\ Append(queue, c) \in Seq(listened)
          /\ Len(Append(queue, c)) = Len(queue) + 1
          /\ Append(queue, c)[Len(queue) + 1] = c
          /\ \A k \in 1..Len(queue) : Append(queue, c)[k] = queue[k]
      BY <2>1, SeqAppend
    <2> QED
      BY <2>1, <2>2
  <1>2. CASE ~Hears(c)
    BY <1>2 DEF Notify, WakeupTypeOK
  <1> QED
    BY <1>1, <1>2

\* A new message, by a post or a backfill.
LEMMA OneMore ==
    ASSUME WakeupTypeOK, NEW c \in Topic \union {Own}, Len(via) < MaxPosts,
           via' = Append(via, c)
    PROVE  /\ via' \in Seq(Topic \union {Own})
           /\ Len(via') = Len(via) + 1 /\ Len(via') <= MaxPosts
           /\ Ids' = Ids \union {Len(via) + 1}
           /\ Len(via) + 1 \notin Ids
           /\ Len(via) + 1 \in 1..MaxPosts
  <1>1. via \in Seq(Topic \union {Own}) /\ MaxPosts \in Nat /\ Len(via) \in Nat
    BY WakeupAssumption DEF WakeupTypeOK
  <1>2. via' \in Seq(Topic \union {Own}) /\ Len(via') = Len(via) + 1
    BY <1>1, SeqAppend
  <1> QED
    BY <1>1, <1>2 DEF Ids

LEMMA SubscribeKinds ==
    ASSUME WakeupTypeOK, NEW t \in Topic, NEW backfill \in {0, 1}, Subscribe(t, backfill)
    PROVE  \/ backfill = 0 /\ UNCHANGED <<via, unheard>>
           \/ backfill = 1 /\ Len(via) < MaxPosts /\ via' = Append(via, t)
  BY WakeupAssumption DEF Subscribe, WakeupTypeOK

----------------------------------------------------------------------------
(* Type *)

LEMMA InitType == WakeupInit => WakeupTypeOK
  <1> SUFFICES ASSUME WakeupInit PROVE WakeupTypeOK
    OBVIOUS
  <1>1. MaxPosts \in Nat
    BY WakeupAssumption
  <1>2. queue \in Seq(listened) /\ via \in Seq(Topic \union {Own}) /\ Len(via) = 0
    BY SeqEmpty DEF WakeupInit
  <1>3. Len(via) <= MaxPosts
    BY <1>1, <1>2
  <1>4. /\ topics = {} /\ swept = {} /\ unheard = {} /\ listened = {} /\ wanted = {}
        /\ conn = "none" /\ pc = "connect" /\ steady = FALSE /\ overlooked = FALSE
        /\ changes = 0 /\ failures = 0
    BY DEF WakeupInit
  <1> QED
    BY <1>2, <1>3, <1>4 DEF WakeupTypeOK

LEMMA TypeStep == WakeupTypeOK /\ [WakeupNext]_wakeupVars => WakeupTypeOK'
  <1> SUFFICES ASSUME WakeupTypeOK, [WakeupNext]_wakeupVars
               PROVE  WakeupTypeOK'
    OBVIOUS
  <1>0. CASE UNCHANGED wakeupVars
    BY <1>0 DEF wakeupVars, loopVars, histories, WakeupTypeOK, Ids
  <1>1. ASSUME NEW c \in Channel, Post(c) PROVE WakeupTypeOK'
    <2>1. c \in Topic \union {Own} /\ via' = Append(via, c) /\ Len(via) < MaxPosts
      BY <1>1 DEF Post, WakeupTypeOK
    <2>2. queue' \in Seq(listened)
      BY <1>1, NotifyQueues DEF Post
    <2> QED
      BY <1>1, <2>1, <2>2, OneMore DEF Post, WakeupTypeOK
  <1>2. ASSUME NEW t \in Topic, NEW backfill \in {0, 1}, Subscribe(t, backfill)
        PROVE  WakeupTypeOK'
    <2>1. queue' \in Seq(listened) /\ changes' \in Nat
      BY <1>2, NotifyQueues DEF Subscribe, TopologyChanges, WakeupTypeOK
    <2>2. CASE UNCHANGED <<via, unheard>>
      BY <1>2, <2>1, <2>2 DEF Subscribe, WakeupTypeOK, Ids
    <2>3. CASE Len(via) < MaxPosts /\ via' = Append(via, t)
      BY <1>2, <2>1, <2>3, OneMore DEF Subscribe, WakeupTypeOK
    <2> QED
      BY <1>2, <2>2, <2>3, SubscribeKinds
  <1>3. ASSUME NEW t \in Topic, Unsubscribe(t) PROVE WakeupTypeOK'
    <2>1. queue' \in Seq(listened) /\ changes' \in Nat
      BY <1>3, NotifyQueues DEF Unsubscribe, TopologyChanges, WakeupTypeOK
    <2> QED
      BY <1>3, <2>1 DEF Unsubscribe, histories, WakeupTypeOK, Ids
  <1>4. CASE OthersChange
    <2>1. queue' \in Seq(listened) /\ changes' \in Nat
      BY <1>4, NotifyQueues DEF OthersChange, TopologyChanges, WakeupTypeOK
    <2> QED
      BY <1>4, <2>1 DEF OthersChange, histories, WakeupTypeOK, Ids
  <1>5. CASE Connect
    <2>1. queue' \in Seq(listened')
      BY <1>5, SeqEmpty DEF Connect
    <2> QED
      BY <1>5, <2>1 DEF Connect, histories, WakeupTypeOK, Ids
  <1>6. CASE ReadChannels
    BY <1>6 DEF ReadChannels, Channel, WakeupTypeOK, Ids
  <1>7. ASSUME NEW c \in Channel, Listen(c) PROVE WakeupTypeOK'
    <2>1. queue' \in Seq(listened')
      BY <1>7, SeqGrows DEF Listen, WakeupTypeOK
    <2> QED
      BY <1>7, <2>1 DEF Listen, histories, WakeupTypeOK, Ids
  <1>8. CASE Listening
    BY <1>8 DEF Listening, histories, WakeupTypeOK, Ids
  <1>9. CASE SweepNow
    BY <1>9 DEF SweepNow, histories, WakeupTypeOK, Ids
  <1>10. CASE Take
    <2>1. queue' \in Seq(listened)
      BY <1>10, SeqTail DEF Take, WakeupTypeOK
    <2> QED
      BY <1>10, <2>1 DEF Take, histories, WakeupTypeOK, Ids
  <1>11. CASE Breaks
    BY <1>11 DEF Breaks, Fails, histories, WakeupTypeOK, Ids
  <1>12. CASE NoticeBroken \/ PoolFails \/ Dies
    <2>1. Reconnects /\ failures' \in Nat
      BY <1>12, EndsReconnect DEF WakeupTypeOK
    <2>2. queue' \in Seq(listened')
      BY <2>1, SeqEmpty DEF Reconnects
    <2> QED
      BY <2>1, <2>2 DEF Reconnects, histories, WakeupTypeOK, Ids
  <1>13. CASE TimerSweep
    BY <1>13 DEF TimerSweep, loopVars, histories, WakeupTypeOK, Ids
  <1> QED
    BY <1>0, <1>1, <1>2, <1>3, <1>4, <1>5, <1>6, <1>7, <1>8, <1>9, <1>10, <1>11,
       <1>12, <1>13, StepIsOperation DEF Operation

\* Every reachable state of the notification loop is well formed: it has
\* received notifications only of channels it listens to.
THEOREM WakeupTypeCorrect == WakeupSpec => []WakeupTypeOK
  BY InitType, TypeStep, PTL DEF WakeupSpec

----------------------------------------------------------------------------
(* Never neither.  The invariant is inductive once the state is well formed: *)
(* a notification that is taken off the queue becomes a sweep, and one for   *)
(* the topology is not what a message waits for.                             *)

\* A notification of a message.
Notified == \E k \in 1..Len(queue) : queue[k] # Topology

Waits(m) == m \in unheard \/ SweepAhead \/ Notified

LEMMA NotifyKeepsNotified ==
    ASSUME WakeupTypeOK, NEW c, Notify(c)
    PROVE  /\ Notified => Notified'
           /\ Hears(c) /\ c # Topology => Notified'
           /\ Heard(Topology) => Heard(Topology)'
           /\ Hears(c) /\ c = Topology => Heard(Topology)'
  BY NotifyQueues DEF Notified, Heard

LEMMA NeverNeitherStep ==
    WakeupTypeOK /\ NeverNeither /\ [WakeupNext]_wakeupVars => NeverNeither'
  <1> SUFFICES ASSUME WakeupTypeOK, NeverNeither, [WakeupNext]_wakeupVars,
                      NEW m \in (Ids \ swept)'
               PROVE  Waits(m)'
    BY DEF NeverNeither, Waits, Notified
  <1> USE ChannelsDiffer
  <1>0. m \in Ids \ swept => Waits(m)
    BY DEF NeverNeither, Waits, Notified
  \* A step that leaves the messages alone and what each waits for.
  <1>a. ASSUME Ids' \ swept' \subseteq Ids \ swept, unheard \subseteq unheard',
               SweepAhead => SweepAhead', Notified => Notified' \/ SweepAhead'
        PROVE  Waits(m)'
    BY <1>0, <1>a DEF Waits
  <1>1. CASE UNCHANGED wakeupVars
    BY <1>1, <1>a DEF wakeupVars, loopVars, histories, Ids, SweepAhead, Notified
  <1>2. ASSUME NEW c \in Channel, Post(c) PROVE Waits(m)'
    <2>1. c \in Topic \union {Own} /\ c # Topology /\ via' = Append(via, c)
          /\ Len(via) < MaxPosts
      BY <1>2 DEF Post, WakeupTypeOK
    <2>2. Ids' = Ids \union {Len(via) + 1}
      BY <2>1, OneMore
    <2>3. (Notified => Notified') /\ (Hears(c) => Notified')
      BY <1>2, <2>1, NotifyKeepsNotified DEF Post
    <2>4. (SweepAhead' <=> SweepAhead) /\ unheard \subseteq unheard'
      BY <1>2 DEF Post, SweepAhead
    <2>5. CASE m = Len(via) + 1
      BY <1>2, <2>3, <2>4, <2>5 DEF Post, Waits
    <2>6. CASE m \in Ids \ swept
      BY <1>0, <2>3, <2>4, <2>6 DEF Waits
    <2> QED
      BY <1>2, <2>2, <2>5, <2>6 DEF Post
  <1>3. ASSUME NEW t \in Topic, NEW backfill \in {0, 1}, Subscribe(t, backfill)
        PROVE  Waits(m)'
    <2>1. Notified => Notified'
      BY <1>3, NotifyKeepsNotified DEF Subscribe, TopologyChanges
    <2>2. SweepAhead' <=> SweepAhead
      BY <1>3 DEF Subscribe, SweepAhead
    <2>3. CASE backfill = 0 /\ UNCHANGED <<via, unheard>>
      BY <1>3, <1>a, <2>1, <2>2, <2>3 DEF Subscribe, Ids
    <2>4. CASE backfill = 1 /\ Len(via) < MaxPosts /\ via' = Append(via, t)
      <3>1. Ids' = Ids \union {Len(via) + 1}
        BY <2>4, OneMore
      <3>2. unheard' = IF SweepAhead THEN unheard ELSE unheard \union {Len(via) + 1}
        BY <1>3, <2>4 DEF Subscribe
      <3>3. CASE m = Len(via) + 1
        BY <2>2, <3>2, <3>3 DEF Waits
      <3>4. CASE m \in Ids \ swept
        BY <1>0, <2>1, <2>2, <3>2, <3>4 DEF Waits
      <3> QED
        BY <1>3, <3>1, <3>3, <3>4 DEF Subscribe
    <2> QED
      BY <1>3, <2>3, <2>4, SubscribeKinds
  <1>4. ASSUME NEW t \in Topic, Unsubscribe(t) PROVE Waits(m)'
    <2>1. Notified => Notified'
      BY <1>4, NotifyKeepsNotified DEF Unsubscribe, TopologyChanges
    <2> QED
      BY <1>4, <1>a, <2>1 DEF Unsubscribe, histories, SweepAhead, Ids
  <1>5. CASE OthersChange
    <2>1. Notified => Notified'
      BY <1>5, NotifyKeepsNotified DEF OthersChange, TopologyChanges
    <2> QED
      BY <1>5, <1>a, <2>1 DEF OthersChange, histories, SweepAhead, Ids
  <1>6. CASE Connect
    BY <1>6, <1>a DEF Connect, histories, SweepAhead, Ids
  <1>7. CASE ReadChannels
    BY <1>7, <1>a DEF ReadChannels, histories, SweepAhead, Notified, Ids
  <1>8. ASSUME NEW c \in Channel, Listen(c) PROVE Waits(m)'
    BY <1>8, <1>a DEF Listen, histories, SweepAhead, Notified, Ids
  <1>9. CASE Listening
    BY <1>9, <1>a DEF Listening, histories, SweepAhead, Notified, Ids
  <1>10. CASE SweepNow
    BY <1>10 DEF SweepNow, Ids
  <1>11. CASE Take
    <2>1. CASE Head(queue) = Topology
      <3>1. Notified => Notified'
        BY <1>11, <2>1, SeqTail DEF Take, Notified, WakeupTypeOK
      <3> QED
        BY <1>11, <1>a, <2>1, <3>1 DEF Take, histories, SweepAhead, Ids
    <2>2. CASE Head(queue) # Topology
      BY <1>11, <2>2 DEF Take, SweepAhead, Waits
    <2> QED
      BY <2>1, <2>2
  <1>12. CASE Breaks
    BY <1>12 DEF Breaks, SweepAhead, Waits
  <1>13. CASE NoticeBroken \/ PoolFails \/ Dies
    BY <1>13, EndsReconnect DEF Reconnects, SweepAhead, Waits
  <1>14. CASE TimerSweep
    BY <1>14 DEF TimerSweep, Ids
  <1> QED
    BY <1>1, <1>2, <1>3, <1>4, <1>5, <1>6, <1>7, <1>8, <1>9, <1>10, <1>11, <1>12,
       <1>13, <1>14, StepIsOperation DEF Operation

\* LISTEN first, then sweep: between the two, a message that no sweep has
\* found is never without a sweep or a notification to come, however posts,
\* topology, the network and crashes fall.
THEOREM NeitherNever == WakeupSpec => []NeverNeither
  <1>1. WakeupInit => NeverNeither
    BY DEF WakeupInit, NeverNeither, SweepAhead
  <1> QED
    BY <1>1, WakeupTypeCorrect, NeverNeitherStep, PTL DEF WakeupSpec

----------------------------------------------------------------------------
(* The topics.  FollowsTopics speaks of the loop at rest; on the way there,  *)
(* each topic is listened to, or about to be, or the notification of its     *)
(* subscription is in the queue.                                             *)

Follows(t) ==
    \/ t \in listened
    \/ pc \in {"connect", "read"}
    \/ pc = "listen" /\ t \in wanted
    \/ Heard(Topology) \/ overlooked \/ conn = "dead"

TopicsInv == \A t \in topics : Follows(t)

LEMMA TopicsStep ==
    WakeupTypeOK /\ TopicsInv /\ [WakeupNext]_wakeupVars => TopicsInv'
  <1> SUFFICES ASSUME WakeupTypeOK, TopicsInv, [WakeupNext]_wakeupVars,
                      NEW t \in topics'
               PROVE  Follows(t)'
    BY DEF TopicsInv
  <1> USE ChannelsDiffer
  <1>0. t \in topics => Follows(t)
    BY DEF TopicsInv
  <1>1. CASE UNCHANGED wakeupVars
    BY <1>0, <1>1 DEF wakeupVars, loopVars, histories, Follows, Heard
  <1>2. ASSUME NEW c \in Channel, Post(c) PROVE Follows(t)'
    BY <1>0, <1>2, NotifyKeepsNotified DEF Post, Follows
  <1>3. ASSUME NEW u \in Topic, NEW backfill \in {0, 1}, Subscribe(u, backfill)
        PROVE  Follows(t)'
    <2>1. /\ Heard(Topology) => Heard(Topology)'
          /\ Hears(Topology) => Heard(Topology)'
      BY <1>3, NotifyKeepsNotified DEF Subscribe, TopologyChanges
    <2>2. /\ topics' = topics \union {u}
          /\ overlooked' = (overlooked \/ ~Hears(Topology))
          /\ UNCHANGED <<listened, wanted, pc, conn>>
      BY <1>3 DEF Subscribe
    <2>3. CASE Hears(Topology)
      BY <2>1, <2>3 DEF Follows
    <2>4. CASE ~Hears(Topology)
      BY <2>2, <2>4 DEF Follows
    <2> QED
      BY <2>3, <2>4
  <1>4. ASSUME NEW u \in Topic, Unsubscribe(u) PROVE Follows(t)'
    <2>1. Heard(Topology) => Heard(Topology)'
      BY <1>4, NotifyKeepsNotified DEF Unsubscribe, TopologyChanges
    <2> QED
      BY <1>0, <1>4, <2>1 DEF Unsubscribe, histories, Follows
  <1>5. CASE OthersChange
    <2>1. Heard(Topology) => Heard(Topology)'
      BY <1>5, NotifyKeepsNotified DEF OthersChange, TopologyChanges
    <2> QED
      BY <1>0, <1>5, <2>1 DEF OthersChange, histories, Follows
  <1>6. CASE Connect
    <2>1. pc' = "read"
      BY <1>6 DEF Connect
    <2> QED
      BY <2>1 DEF Follows
  <1>7. CASE ReadChannels
    BY <1>7 DEF ReadChannels, Follows
  <1>8. ASSUME NEW c \in Channel, Listen(c) PROVE Follows(t)'
    BY <1>0, <1>8 DEF Listen, histories, Follows, Heard
  <1>9. CASE Listening
    BY <1>0, <1>9 DEF Listening, histories, Follows, Heard
  <1>10. CASE SweepNow
    BY <1>0, <1>10 DEF SweepNow, histories, Follows, Heard
  <1>11. CASE Take
    <2>1. CASE Head(queue) = Topology
      <3>1. pc' = "read"
        BY <1>11, <2>1 DEF Take
      <3> QED
        BY <3>1 DEF Follows
    <2>2. CASE Head(queue) # Topology
      <3>1. Heard(Topology) => Heard(Topology)'
        BY <1>11, <2>2, SeqTail DEF Take, Heard, WakeupTypeOK
      <3> QED
        BY <1>0, <1>11, <3>1 DEF Take, histories, Follows
    <2> QED
      BY <2>1, <2>2
  <1>12. CASE Breaks
    BY <1>12 DEF Breaks, Follows
  <1>13. CASE NoticeBroken \/ PoolFails \/ Dies
    <2>1. pc' = "connect"
      BY <1>13, EndsReconnect DEF Reconnects
    <2> QED
      BY <2>1 DEF Follows
  <1>14. CASE TimerSweep
    BY <1>0, <1>14 DEF TimerSweep, loopVars, histories, Follows, Heard
  <1> QED
    BY <1>1, <1>2, <1>3, <1>4, <1>5, <1>6, <1>7, <1>8, <1>9, <1>10, <1>11, <1>12,
       <1>13, <1>14, StepIsOperation DEF Operation

\* When the loop is at rest on a live connection, with no change of topology
\* left to hear of, it listens to every topic of the agent.
THEOREM TopicsFollowed == WakeupSpec => []FollowsTopics
  <1>1. WakeupInit => TopicsInv
    BY DEF WakeupInit, TopicsInv, Follows
  <1>2. TopicsInv => FollowsTopics
    BY DEF TopicsInv, Follows, FollowsTopics
  <1> QED
    BY <1>1, <1>2, WakeupTypeCorrect, TopicsStep, PTL DEF WakeupSpec
=============================================================================
