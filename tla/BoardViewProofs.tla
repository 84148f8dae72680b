--------------------------- MODULE BoardViewProofs ---------------------------
(* The board view prints nothing twice or out of order, and skips nothing   *)
(* that commits in order while it follows, for any number of posts, stamps, *)
(* polls and lost connections.                                              *)
EXTENDS BoardView, FiniteSetTheorems, SequenceTheorems, TLAPS

----------------------------------------------------------------------------
(* The rows of a query, in order *)

LEMMA RowsInOrder ==
    ASSUME NEW S, IsFiniteSet(S), NEW s \in [1..Cardinality(S) -> S],
           S = {s[k] : k \in DOMAIN s}
    PROVE  /\ s \in Seq(S) /\ Len(s) \in Nat
           /\ DOMAIN s = 1..Len(s)
           /\ \A e \in S : \E k \in 1..Len(s) : s[k] = e
           /\ (s = <<>> <=> S = {})
  <1>1. Cardinality(S) \in Nat
    BY FS_CardinalityType
  <1>2. s \in Seq(S)
    BY <1>1
  <1>3. Len(s) \in Nat /\ DOMAIN s = 1..Len(s)
    BY <1>2, LenProperties
  <1>4. \A e \in S : \E k \in 1..Len(s) : s[k] = e
    BY <1>3
  <1>5. s = <<>> => S = {}
    BY <1>4, EmptySeq
  <1>6. S = {} => s = <<>>
    <2> SUFFICES ASSUME S = {}, s # <<>> PROVE FALSE
      OBVIOUS
    <2>1. Len(s) \in Nat \ {0}
      BY <1>2, EmptySeq
    <2>2. s \in [1..Len(s) -> S]
      BY <1>2, LenProperties
    <2>3. 1 \in 1..Len(s)
      BY <2>1
    <2> QED
      BY <2>2, <2>3
  <1> QED
    BY <1>2, <1>3, <1>4, <1>5, <1>6

LEMMA LowerOrder ==
    ASSUME NEW S \in SUBSET Nat, IsFiniteSet(S), NEW s \in InOrder(S, Lower)
    PROVE  /\ s \in Seq(S) /\ Len(s) \in Nat
           /\ \A j, k \in 1..Len(s) : j < k => s[j] < s[k]
           /\ \A e \in S : \E k \in 1..Len(s) : s[k] = e
           /\ (s = <<>> <=> S = {})
  <1>1. /\ s \in [1..Cardinality(S) -> S] /\ S = {s[k] : k \in DOMAIN s}
        /\ \A j, k \in DOMAIN s : j < k => s[j] < s[k]
    BY DEF InOrder, Lower
  <1>2. /\ s \in Seq(S) /\ Len(s) \in Nat /\ DOMAIN s = 1..Len(s)
        /\ \A e \in S : \E k \in 1..Len(s) : s[k] = e
        /\ (s = <<>> <=> S = {})
    BY <1>1, RowsInOrder
  <1> QED
    BY <1>1, <1>2

LEMMA EarlierOrder ==
    ASSUME NEW S \in SUBSET Event, IsFiniteSet(S), NEW s \in InOrder(S, Earlier)
    PROVE  /\ s \in Seq(S) /\ Len(s) \in Nat
           /\ \A j, k \in 1..Len(s) : j < k => s[j].at < s[k].at
           /\ \A e \in S : \E k \in 1..Len(s) : s[k] = e
  <1>1. /\ s \in [1..Cardinality(S) -> S] /\ S = {s[k] : k \in DOMAIN s}
        /\ \A j, k \in DOMAIN s : j < k => s[j].at < s[k].at
    BY DEF InOrder, Earlier
  <1>2. /\ s \in Seq(S) /\ Len(s) \in Nat /\ DOMAIN s = 1..Len(s)
        /\ \A e \in S : \E k \in 1..Len(s) : s[k] = e
    BY <1>1, RowsInOrder
  <1> QED
    BY <1>1, <1>2

\* The cursor is at the last row, which is the highest.
LEMMA CursorAtHighest ==
    ASSUME NEW S \in SUBSET Nat, IsFiniteSet(S), NEW s \in InOrder(S, Lower),
           NEW cursor
    PROVE  /\ S = {} => LastOf(s, cursor) = cursor
           /\ S # {} => /\ LastOf(s, cursor) \in S
                        /\ \A e \in S : e <= LastOf(s, cursor)
  <1>1. /\ s \in Seq(S) /\ Len(s) \in Nat
        /\ \A j, k \in 1..Len(s) : j < k => s[j] < s[k]
        /\ \A e \in S : \E k \in 1..Len(s) : s[k] = e
        /\ (s = <<>> <=> S = {})
    BY LowerOrder
  <1>2. CASE S = {}
    BY <1>1, <1>2 DEF LastOf
  <1>3. CASE S # {}
    <2>0. s # <<>> /\ Len(s) \in Nat \ {0}
      BY <1>1, <1>3, EmptySeq
    <2>1. Len(s) \in 1..Len(s) /\ LastOf(s, cursor) = s[Len(s)]
      BY <2>0 DEF LastOf
    <2>2. s[Len(s)] \in S
      BY <1>1, <2>1, ElementOfSeq
    <2>3. ASSUME NEW e \in S PROVE e <= s[Len(s)]
      <3>1. PICK k \in 1..Len(s) : s[k] = e
        BY <1>1
      <3>2. k = Len(s) \/ k < Len(s)
        BY <1>1
      <3>3. e \in Nat /\ s[Len(s)] \in Nat
        BY <2>2
      <3> QED
        BY <1>1, <2>1, <3>1, <3>2, <3>3
    <2> QED
      BY <1>3, <2>1, <2>2, <2>3
  <1> QED
    BY <1>2, <1>3

----------------------------------------------------------------------------
(* The invariant that the others rest on: what the cursors point at, and     *)
(* that the history is only shown to somebody who has seen nothing yet.      *)

ViewInv ==
    /\ ViewTypeOK
    /\ IsFiniteSet(events)
    /\ last_id \in messages \union {0}
    /\ \A k \in 1..Len(shown) : shown[k] \in messages
    /\ pc \in {"start", "history"} /\ history # 0 => shown = <<>>
    /\ pc = "events" => seen_until <= until

LEMMA MessagesFinite ==
    ASSUME ViewTypeOK
    PROVE  /\ messages \in SUBSET Nat /\ IsFiniteSet(messages)
           /\ \A S \in SUBSET messages : IsFiniteSet(S) /\ Cardinality(S) \in Nat
  <1>1. lastId \in Nat /\ messages \in SUBSET (1..lastId)
    BY ViewAssumption DEF ViewTypeOK
  <1>2. IsFiniteSet(1..lastId)
    BY <1>1, FS_Interval
  <1>3. \A S \in SUBSET messages : IsFiniteSet(S)
    BY <1>1, <1>2, FS_Subset
  <1> QED
    BY <1>1, <1>3, FS_CardinalityType

LEMMA InitInv == ViewInit => ViewInv
  <1> SUFFICES ASSUME ViewInit PROVE ViewInv
    OBVIOUS
  <1>1. shown = <<>> /\ told = <<>> /\ Len(shown) = 0 /\ Len(told) = 0
        /\ shown \in Seq(1..lastId) /\ told \in Seq(Event)
    BY EmptySeq DEF ViewInit
  <1>2. IsFiniteSet(events)
    BY FS_EmptySet DEF ViewInit
  <1> QED
    BY <1>1, <1>2, ViewAssumption DEF ViewInit, ViewInv, ViewTypeOK, Following

\* The steps of the board, of the clock and of the cursors, one by one.
Operation ==
    \/ BeginPost \/ (\E m \in posting : CommitPost(m))
    \/ (\E kind \in EventKind, m \in messages : BeginStamp(kind, m))
    \/ (\E e \in stamping : CommitStamp(e))
    \/ Rollback \/ RequeueUnacked
    \/ Start \/ ShowHistory \/ SkipToNewest
    \/ ShowMessages \/ AskTime \/ ShowEvents
    \/ LoseConnection \/ Reconnect

LEMMA StepIsOperation == ViewNext <=> Operation
  BY DEF ViewNext, Operation

LEMMA ClockReads ==
    ASSUME ViewTypeOK, ReadClock
    PROVE  now' \in 1..MaxTime /\ now' = now + 1 /\ now \in Nat
  BY ViewAssumption DEF ViewTypeOK, ReadClock

\* What an append leaves where.
LEMMA Appended ==
    ASSUME NEW S, NEW old \in Seq(S), NEW s \in Seq(S), NEW new, new = old \o s
    PROVE  /\ new \in Seq(S)
           /\ Len(old) \in Nat /\ Len(s) \in Nat /\ Len(new) = Len(old) + Len(s)
           /\ \A k \in 1..Len(old) : k \in 1..Len(new) /\ new[k] = old[k]
           /\ \A k \in 1..Len(s) :
                Len(old) + k \in 1..Len(new) /\ new[Len(old) + k] = s[k]
           /\ \A k \in 1..Len(new) :
                k \notin 1..Len(old) => /\ k > Len(old) /\ k - Len(old) \in 1..Len(s)
                                       /\ new[k] = s[k - Len(old)]
  <1>1. Len(old) \in Nat /\ Len(s) \in Nat
    BY LenProperties
  <1>2. /\ new \in Seq(S) /\ Len(new) = Len(old) + Len(s)
        /\ \A k \in 1..Len(old) + Len(s) :
              new[k] = IF k <= Len(old) THEN old[k] ELSE s[k - Len(old)]
    BY ConcatProperties
  <1>3. \A k \in 1..Len(s) : Len(old) + k \in 1..Len(old) + Len(s)
                               /\ ~(Len(old) + k <= Len(old))
                               /\ (Len(old) + k) - Len(old) = k
    BY <1>1
  <1> QED
    BY <1>1, <1>2, <1>3

LEMMA MessagesShown ==
    ASSUME ViewInv, ShowMessages
    PROVE  \E s \in Seq(Fresh) :
             /\ s \in Seq(1..lastId) /\ shown' = shown \o s
             /\ \A j, k \in 1..Len(s) : j < k => s[j] < s[k]
             /\ \A m \in Fresh : \E k \in 1..Len(s) : s[k] = m
             /\ last_id' \in messages \union {0} /\ last_id <= last_id'
             /\ \A e \in Fresh : e <= last_id'
  <1>1. PICK s \in InOrder(Fresh, Lower) :
          shown' = shown \o s /\ last_id' = LastOf(s, last_id)
    BY DEF ShowMessages
  <1>2. Fresh \in SUBSET messages /\ Fresh \in SUBSET Nat /\ IsFiniteSet(Fresh)
    BY MessagesFinite DEF Fresh, ViewInv
  <1>3. /\ s \in Seq(Fresh)
        /\ \A j, k \in 1..Len(s) : j < k => s[j] < s[k]
        /\ \A m \in Fresh : \E k \in 1..Len(s) : s[k] = m
    BY <1>2, LowerOrder
  <1>4. /\ last_id' \in messages \union {0} /\ last_id <= last_id'
        /\ \A e \in Fresh : e <= last_id'
    <2>1. last_id \in Nat
      BY ViewAssumption DEF ViewInv, ViewTypeOK
    <2>2. CASE Fresh = {}
      <3>1. last_id' = last_id
        BY <1>1, <1>2, <2>2, CursorAtHighest
      <3> QED
        BY <2>1, <2>2, <3>1 DEF ViewInv
    <2>3. CASE Fresh # {}
      <3>1. last_id' \in Fresh /\ \A e \in Fresh : e <= last_id'
        BY <1>1, <1>2, <2>3, CursorAtHighest
      <3> QED
        BY <1>2, <2>1, <3>1 DEF Fresh
    <2> QED
      BY <2>2, <2>3
  <1>5. s \in Seq(1..lastId)
    BY <1>2, <1>3, SeqMonotonic DEF ViewInv, ViewTypeOK
  <1> QED
    BY <1>1, <1>3, <1>4, <1>5

LEMMA EventsShown ==
    ASSUME ViewInv, ShowEvents
    PROVE  \E s \in Seq(Fetched) :
             /\ s \in Seq(Event) /\ told' = told \o s
             /\ \A j, k \in 1..Len(s) : j < k => s[j].at < s[k].at
             /\ \A e \in Fetched : \E k \in 1..Len(s) : s[k] = e
  <1>1. PICK s \in InOrder(Fetched, Earlier) : told' = told \o s
    BY DEF ShowEvents
  <1>2. Fetched \in SUBSET events /\ Fetched \in SUBSET Event /\ IsFiniteSet(Fetched)
    BY FS_Subset DEF ViewInv, ViewTypeOK, Fetched
  <1>3. /\ s \in Seq(Fetched)
        /\ \A j, k \in 1..Len(s) : j < k => s[j].at < s[k].at
        /\ \A e \in Fetched : \E k \in 1..Len(s) : s[k] = e
    BY <1>2, EarlierOrder
  <1> QED
    BY <1>1, <1>2, <1>3, SeqMonotonic

\* The first rows are shown to a screen that is empty, or not at all.
LEMMA HistoryShown ==
    ASSUME ViewInv, ShowHistory
    PROVE  \/ UNCHANGED shown /\ last_id' = 0 /\ pc' = "newest"
           \/ /\ shown = <<>> /\ pc' = "messages" /\ shown' \in Seq(1..lastId)
              /\ \A j, k \in 1..Len(shown') : j < k => shown'[j] < shown'[k]
              /\ \A k \in 1..Len(shown') : shown'[k] \in messages /\ shown'[k] <= last_id'
              /\ last_id' \in messages
  <1> DEFINE newest == Newest(history, messages)
  <1>t. ViewTypeOK
    BY DEF ViewInv
  <1>1. PICK s \in InOrder(newest, Lower) :
          /\ shown' = shown \o s /\ last_id' = LastOf(s, 0)
          /\ pc' = IF s = <<>> THEN "newest" ELSE "messages"
    BY DEF ShowHistory
  <1>2. /\ newest \in SUBSET messages /\ newest \in SUBSET Nat
        /\ IsFiniteSet(newest) /\ newest \subseteq 1..lastId
    BY <1>t, MessagesFinite DEF Newest, ViewTypeOK
  <1>3. /\ s \in Seq(newest) /\ Len(s) \in Nat /\ (s = <<>> <=> newest = {})
        /\ \A j, k \in 1..Len(s) : j < k => s[j] < s[k]
    BY <1>2, LowerOrder
  <1>4. s \in Seq(1..lastId) /\ shown \in Seq(1..lastId)
    BY <1>t, <1>2, <1>3, SeqMonotonic DEF ViewTypeOK
  <1>5. CASE s = <<>>
    BY <1>1, <1>4, <1>5, ConcatEmptySeq DEF LastOf
  <1>6. CASE s # <<>>
    <2>1. \E m \in messages : Cardinality({n \in messages : n > m}) < history
      BY <1>3, <1>6 DEF Newest
    <2>2. history # 0
      BY <1>t, <2>1, MessagesFinite
    <2>3. shown = <<>>
      BY <2>2 DEF ShowHistory, ViewInv
    <2>4. shown' = s /\ pc' = "messages"
      BY <1>1, <1>4, <1>6, <2>3, ConcatEmptySeq
    <2>5. last_id' \in newest /\ \A e \in newest : e <= last_id'
      BY <1>1, <1>2, <1>3, <1>6, CursorAtHighest
    <2>6. \A k \in 1..Len(shown') : shown'[k] \in messages /\ shown'[k] <= last_id'
      BY <1>2, <1>3, <2>4, <2>5, ElementOfSeq
    <2> QED
      BY <1>2, <1>3, <1>4, <2>3, <2>4, <2>5, <2>6
  <1> QED
    BY <1>5, <1>6

LEMMA InvStep == ViewInv /\ [ViewNext]_viewVars => ViewInv'
  <1> SUFFICES ASSUME ViewInv, [ViewNext]_viewVars PROVE ViewInv'
    OBVIOUS
  <1> USE ViewAssumption
  <1>t. ViewTypeOK
    BY DEF ViewInv
  <1>l. lastId \in Nat /\ last_id \in Nat /\ Len(shown) \in Nat /\ Len(told) \in Nat
        /\ now \in Nat /\ seen_until \in Nat /\ until \in Nat
    BY <1>t, LenProperties DEF ViewTypeOK
  <1>0. CASE UNCHANGED viewVars
    BY <1>0 DEF viewVars, boardSide, cursors, printed, histories, ViewInv,
                ViewTypeOK, Following
  <1>1. CASE BeginPost
    <2>1. lastId' = lastId + 1 /\ lastId' \in 0..MaxPosts
          /\ posting' = posting \union {lastId'} /\ lastId' \notin messages
      BY <1>t, <1>1 DEF BeginPost, ViewTypeOK
    <2>2. shown \in Seq(1..lastId')
      BY <1>t, <1>l, <2>1, SeqMonotonic DEF ViewTypeOK
    <2>3. UNCHANGED <<now, stamping, messages, events, pc, cursors, printed,
                      histories>>
      BY <1>1 DEF BeginPost
    <2> QED
      BY <1>l, <2>1, <2>2, <2>3
      DEF cursors, printed, histories, ViewInv, ViewTypeOK, Following
  <1>2. ASSUME NEW m \in posting, CommitPost(m) PROVE ViewInv'
    BY <1>l, <1>2 DEF CommitPost, cursors, printed, ViewInv, ViewTypeOK, Following
  <1>3. ASSUME NEW kind \in EventKind, NEW m \in messages, BeginStamp(kind, m)
        PROVE  ViewInv'
    <2>1. now' \in 1..MaxTime /\ now' = now + 1
      BY <1>t, <1>3, ClockReads DEF BeginStamp
    <2>2. m \in 1..MaxPosts
      BY <1>t DEF ViewTypeOK
    <2>3. stamping' \subseteq Event
      BY <1>t, <1>3, <2>1, <2>2 DEF BeginStamp, ViewTypeOK, Event
    <2> QED
      BY <1>l, <1>3, <2>1, <2>3
      DEF BeginStamp, cursors, printed, histories, ViewInv, ViewTypeOK, Following
  <1>4. ASSUME NEW e \in stamping, CommitStamp(e) PROVE ViewInv'
    <2>1. e \in Event
      BY <1>t DEF ViewTypeOK
    <2>2. events' \in {events, events \union {e}} /\ away' \in {away, away \union {e}}
      BY <1>4 DEF CommitStamp
    <2>3. IsFiniteSet(events')
      BY <2>2, FS_AddElement DEF ViewInv
    <2> QED
      BY <1>l, <1>4, <2>1, <2>2, <2>3
      DEF CommitStamp, cursors, printed, ViewInv, ViewTypeOK, Following
  <1>5. CASE Rollback
    BY <1>l, <1>5
    DEF Rollback, cursors, printed, histories, ViewInv, ViewTypeOK, Following
  <1>6. CASE RequeueUnacked
    <2>1. events' \subseteq events
      BY <1>6 DEF RequeueUnacked
    <2>2. IsFiniteSet(events')
      BY <2>1, FS_Subset DEF ViewInv
    <2> QED
      BY <1>l, <1>6, <2>1, <2>2
      DEF RequeueUnacked, cursors, printed, histories, ViewInv, ViewTypeOK, Following
  <1>7. CASE Start
    <2>1. now' \in 1..MaxTime /\ now' = now + 1
      BY <1>t, <1>7, ClockReads DEF Start
    <2>2. /\ pc = "start" /\ pc' = "history" /\ seen_until' = now'
          /\ slow' = slow \union stamping
          /\ UNCHANGED <<boardSide, last_id, until, history, printed, overtaken,
                         gap, away>>
      BY <1>7 DEF Start, NoteSlow
    <2>3. \A k \in 1..Len(told) : told[k].at <= seen_until'
      <3> SUFFICES ASSUME NEW k \in 1..Len(told) PROVE told[k].at <= seen_until'
        OBVIOUS
      <3>1. told[k] \in Event
        BY <1>t, ElementOfSeq DEF ViewTypeOK
      <3>2. told[k].at \in Nat /\ told[k].at <= seen_until /\ seen_until <= now
        BY <1>t, <3>1 DEF ViewTypeOK, Event
      <3> QED
        BY <1>l, <2>1, <2>2, <3>2
    <2>4. ViewTypeOK'
      BY <1>t, <1>l, <2>1, <2>2, <2>3 DEF boardSide, printed, ViewTypeOK, Following
    <2> QED
      BY <1>l, <2>2, <2>4 DEF boardSide, printed, ViewInv
  <1>8. CASE ShowHistory
    <2>1. /\ pc = "history"
          /\ UNCHANGED <<now, boardSide, seen_until, until, history, told, histories>>
      BY <1>8 DEF ShowHistory
    <2>2. CASE UNCHANGED shown /\ last_id' = 0 /\ pc' = "newest"
      <3>1. ViewTypeOK'
        BY <1>t, <1>l, <2>1, <2>2 DEF boardSide, histories, ViewTypeOK, Following
      <3> QED
        BY <2>1, <2>2, <3>1 DEF boardSide, ViewInv
    <2>3. CASE /\ pc' = "messages" /\ shown' \in Seq(1..lastId)
               /\ \A k \in 1..Len(shown') :
                    shown'[k] \in messages /\ shown'[k] <= last_id'
               /\ last_id' \in messages
      <3>1. ViewTypeOK'
        BY <1>t, <1>l, <2>1, <2>3 DEF boardSide, histories, ViewTypeOK
      <3> QED
        BY <2>1, <2>3, <3>1 DEF boardSide, ViewInv
    <2> QED
      BY <1>8, <2>2, <2>3, HistoryShown
  <1>9. CASE SkipToNewest
    <2>1. /\ last_id' \in messages \union {0} /\ \A m \in messages : m <= last_id'
          /\ pc' = "messages"
          /\ UNCHANGED <<now, boardSide, seen_until, until, history, printed, histories>>
      BY <1>9 DEF SkipToNewest
    <2>2. last_id' \in 0..lastId
      BY <1>t, <1>l, <2>1 DEF ViewTypeOK
    <2>3. \A k \in 1..Len(shown) : shown[k] <= last_id'
      BY <2>1 DEF ViewInv
    <2>4. ViewTypeOK'
      BY <1>t, <2>1, <2>2, <2>3 DEF boardSide, printed, histories, ViewTypeOK
    <2> QED
      BY <2>1, <2>4 DEF boardSide, printed, ViewInv
  <1>10. CASE ShowMessages
    <2>1. PICK s \in Seq(Fresh) :
            /\ s \in Seq(1..lastId) /\ shown' = shown \o s
            /\ last_id' \in messages \union {0} /\ last_id <= last_id'
            /\ \A e \in Fresh : e <= last_id'
      BY <1>10, MessagesShown
    <2>2. /\ shown' \in Seq(1..lastId)
          /\ \A k \in 1..Len(shown) : shown'[k] = shown[k]
          /\ \A k \in 1..Len(shown') :
               k \notin 1..Len(shown) => /\ k - Len(shown) \in 1..Len(s)
                                        /\ shown'[k] = s[k - Len(shown)]
      BY <1>t, <2>1, Appended DEF ViewTypeOK
    <2>3. /\ pc = "messages" /\ pc' = "clock"
          /\ UNCHANGED <<now, boardSide, seen_until, until, history, told, histories>>
      BY <1>10 DEF ShowMessages
    <2>4. ASSUME NEW k \in 1..Len(shown')
          PROVE  shown'[k] \in messages /\ shown'[k] <= last_id'
      <3>1. CASE k \in 1..Len(shown)
        <4>1. shown[k] \in messages /\ shown[k] <= last_id
          BY <2>3, <3>1 DEF ViewInv, ViewTypeOK, Following
        <4>2. shown[k] \in Nat /\ last_id' \in Nat
          BY <1>t, <2>1, <4>1, MessagesFinite
        <4> QED
          BY <1>l, <2>1, <2>2, <3>1, <4>1, <4>2
      <3>2. CASE k \notin 1..Len(shown)
        BY <2>1, <2>2, <3>2, ElementOfSeq DEF Fresh
      <3> QED
        BY <3>1, <3>2
    <2>5. ViewTypeOK'
      <3>0. last_id' \in messages \union {0}
        BY <2>1
      <3>1. last_id' \in 0..lastId
        BY <1>t, <1>l, <3>0 DEF ViewTypeOK
      <3> QED
        BY <1>t, <2>2, <2>3, <2>4, <3>1 DEF boardSide, histories, ViewTypeOK
    <2> QED
      BY <2>1, <2>3, <2>4, <2>5 DEF boardSide, ViewInv
  <1>11. CASE AskTime
    <2>1. now' \in 1..MaxTime /\ now' = now + 1
      BY <1>t, <1>11, ClockReads DEF AskTime
    <2>2. /\ pc = "clock" /\ pc' = "events" /\ until' = now'
          /\ slow' = slow \union stamping
          /\ UNCHANGED <<lastId, posting, stamping, messages, events, last_id,
                        seen_until, history, shown, told, overtaken, gap, away>>
      BY <1>11 DEF AskTime, NoteSlow, boardSide, printed
    <2>3. /\ seen_until \in Nat /\ now \in Nat /\ seen_until <= now
          /\ slow' \subseteq Event
      BY <1>t, <2>2, ViewAssumption DEF ViewTypeOK
    <2>4. seen_until' \in 0..now' /\ until' \in 0..now' /\ now' \in 0..MaxTime
      BY <2>1, <2>2, <2>3
    <2>5. \A k \in 1..Len(shown) : shown[k] <= last_id
      BY <1>t, <2>2 DEF ViewTypeOK, Following
    <2>6. ViewTypeOK'
      BY <1>t, <2>2, <2>3, <2>4, <2>5 DEF ViewTypeOK
    <2> QED
      BY <2>1, <2>2, <2>3, <2>6 DEF ViewInv
  <1>12. CASE ShowEvents
    <2>1. PICK s \in Seq(Fetched) : s \in Seq(Event) /\ told' = told \o s
      BY <1>12, EventsShown
    <2>2. /\ told \in Seq(Event) /\ told' \in Seq(Event)
          /\ \A k \in 1..Len(told) : told'[k] = told[k]
          /\ \A k \in 1..Len(told') :
               k \notin 1..Len(told) => /\ k - Len(told) \in 1..Len(s)
                                       /\ told'[k] = s[k - Len(told)]
      BY <1>t, <2>1, Appended DEF ViewTypeOK
    <2>3. /\ pc = "events" /\ pc' = "messages" /\ seen_until' = until
          /\ UNCHANGED <<now, boardSide, last_id, until, history, shown, histories>>
      BY <1>12 DEF ShowEvents
    <2>4. ASSUME NEW k \in 1..Len(told') PROVE told'[k].at <= until
      <3>1. CASE k \in 1..Len(told)
        <4>1. told[k] \in Event
          BY <2>2, <3>1, ElementOfSeq
        <4>2. told[k].at \in Nat /\ told[k].at <= seen_until /\ seen_until <= until
          BY <1>t, <2>3, <3>1, <4>1 DEF ViewInv, ViewTypeOK, Event
        <4> QED
          BY <1>l, <2>2, <3>1, <4>2
      <3>2. CASE k \notin 1..Len(told)
        BY <2>1, <2>2, <3>2, ElementOfSeq DEF Fetched
      <3> QED
        BY <3>1, <3>2
    <2>5. ViewTypeOK'
      BY <1>t, <1>l, <2>2, <2>3, <2>4 DEF boardSide, histories, ViewTypeOK, Following
    <2> QED
      BY <2>3, <2>5 DEF boardSide, ViewInv
  <1>13. CASE LoseConnection
    BY <1>l, <1>13
    DEF LoseConnection, Fresh, boardSide, cursors, printed, ViewInv, ViewTypeOK,
        Following
  <1>14. CASE Reconnect
    BY <1>l, <1>14
    DEF Reconnect, boardSide, printed, histories, ViewInv, ViewTypeOK, Following
  <1> QED
    BY <1>0, <1>1, <1>2, <1>3, <1>4, <1>5, <1>6, <1>7, <1>8, <1>9, <1>10, <1>11,
       <1>12, <1>13, <1>14, StepIsOperation DEF Operation

LEMMA InvHolds == ViewSpec => []ViewInv
  BY InitInv, InvStep, PTL DEF ViewSpec

\* Every reachable state of the view is well formed: what is printed is behind
\* the cursors, and the cursors never ahead of the board.
THEOREM ViewTypeCorrect == ViewSpec => []ViewTypeOK
  <1>1. ViewInv => ViewTypeOK
    BY DEF ViewInv
  <1> QED
    BY <1>1, InvHolds, PTL

----------------------------------------------------------------------------
(* Nothing twice, nothing out of order *)

\* The view prints in two of its steps only.
LEMMA ShownBy ==
    [ViewNext]_viewVars => UNCHANGED shown \/ ShowHistory \/ ShowMessages
  BY DEF ViewNext, viewVars, printed, BeginPost, CommitPost, BeginStamp, CommitStamp,
         Rollback, RequeueUnacked, Start, SkipToNewest, AskTime, ShowEvents,
         LoseConnection, Reconnect

LEMMA ToldBy == [ViewNext]_viewVars => UNCHANGED told \/ ShowEvents
  BY DEF ViewNext, viewVars, printed, BeginPost, CommitPost, BeginStamp, CommitStamp,
         Rollback, RequeueUnacked, Start, ShowHistory, SkipToNewest, ShowMessages,
         AskTime, LoseConnection, Reconnect

LEMMA OrderStep ==
    ViewInv /\ PrintedOnceInOrder /\ [ViewNext]_viewVars => PrintedOnceInOrder'
  <1> SUFFICES ASSUME ViewInv, PrintedOnceInOrder, [ViewNext]_viewVars
               PROVE  PrintedOnceInOrder'
    OBVIOUS
  <1>1. CASE UNCHANGED shown
    BY <1>1 DEF PrintedOnceInOrder
  <1>2. CASE ShowHistory
    BY <1>1, <1>2, HistoryShown DEF PrintedOnceInOrder
  <1>3. CASE ShowMessages
    <2>1. PICK s \in Seq(Fresh) :
            /\ s \in Seq(1..lastId) /\ shown' = shown \o s
            /\ \A j, k \in 1..Len(s) : j < k => s[j] < s[k]
      BY <1>3, MessagesShown
    <2>2. /\ shown \in Seq(1..lastId)
          /\ \A k \in 1..Len(shown) : shown[k] <= last_id
          /\ last_id \in Nat
      BY <1>3 DEF ShowMessages, ViewInv, ViewTypeOK, Following
    <2>3. /\ Len(shown) \in Nat /\ Len(s) \in Nat
          /\ \A k \in 1..Len(shown) : shown'[k] = shown[k]
          /\ \A k \in 1..Len(shown') :
               k \notin 1..Len(shown) => /\ k > Len(shown)
                                        /\ k - Len(shown) \in 1..Len(s)
                                        /\ shown'[k] = s[k - Len(shown)]
      BY <2>1, <2>2, Appended
    <2>4. ASSUME NEW j \in 1..Len(shown'), NEW k \in 1..Len(shown'), j < k
          PROVE  shown'[j] < shown'[k]
      <3>1. CASE k \in 1..Len(shown)
        BY <2>3, <2>4, <3>1 DEF PrintedOnceInOrder
      <3>2. CASE j \in 1..Len(shown) /\ k \notin 1..Len(shown)
        <4>1. shown'[k] \in Fresh /\ shown'[k] \in 1..lastId
          BY <2>1, <2>3, <3>2, ElementOfSeq
        <4>2. shown[j] <= last_id /\ shown[j] \in 1..lastId
          BY <2>2, <3>2, ElementOfSeq
        <4>3. shown'[k] > last_id
          BY <4>1 DEF Fresh
        <4> QED
          BY <2>2, <2>3, <3>2, <4>1, <4>2, <4>3
      <3>3. CASE j \notin 1..Len(shown) /\ k \notin 1..Len(shown)
        <4>1. /\ j - Len(shown) \in 1..Len(s) /\ shown'[j] = s[j - Len(shown)]
              /\ k - Len(shown) \in 1..Len(s) /\ shown'[k] = s[k - Len(shown)]
          BY <2>3, <3>3
        <4>2. j \in Nat /\ k \in Nat
          OBVIOUS
        <4>3. j - Len(shown) < k - Len(shown)
          BY <2>3, <2>4, <4>2
        <4> QED
          BY <2>1, <4>1, <4>3
      <3> QED
        BY <2>3, <2>4, <3>1, <3>2, <3>3
    <2> QED
      BY <2>4 DEF PrintedOnceInOrder
  <1> QED
    BY <1>1, <1>2, <1>3, ShownBy

\* No message is printed twice or after a later one, whatever commits when and
\* however often the connection is lost.
THEOREM MessagesPrintedOnce == ViewSpec => []PrintedOnceInOrder
  <1>1. ViewInit => PrintedOnceInOrder
    BY EmptySeq DEF ViewInit, PrintedOnceInOrder
  <1> QED
    BY <1>1, InvHolds, OrderStep, PTL DEF ViewSpec

LEMMA OnceStep == ViewInv /\ EventsOnce /\ [ViewNext]_viewVars => EventsOnce'
  <1> SUFFICES ASSUME ViewInv, EventsOnce, [ViewNext]_viewVars PROVE EventsOnce'
    OBVIOUS
  <1>1. CASE UNCHANGED told
    BY <1>1 DEF EventsOnce
  <1>2. CASE ShowEvents
    <2>1. PICK s \in Seq(Fetched) :
            /\ s \in Seq(Event) /\ told' = told \o s
            /\ \A j, k \in 1..Len(s) : j < k => s[j].at < s[k].at
      BY <1>2, EventsShown
    <2>2. told \in Seq(Event) /\ \A k \in 1..Len(told) : told[k].at <= seen_until
      BY DEF ViewInv, ViewTypeOK
    <2>3. /\ Len(told) \in Nat /\ Len(s) \in Nat
          /\ \A k \in 1..Len(told) : told'[k] = told[k]
          /\ \A k \in 1..Len(told') :
               k \notin 1..Len(told) => /\ k > Len(told)
                                       /\ k - Len(told) \in 1..Len(s)
                                       /\ told'[k] = s[k - Len(told)]
      BY <2>1, <2>2, Appended
    \* What is new was stamped later than what is old.
    <2>4. ASSUME NEW j \in 1..Len(told), NEW k \in 1..Len(told'), k \notin 1..Len(told)
          PROVE  told'[j] # told'[k]
      <3>1. told'[k].at > seen_until
        BY <2>1, <2>3, <2>4, ElementOfSeq DEF Fetched
      <3>2. told[j] \in Event /\ told[j].at <= seen_until /\ seen_until \in Nat
        BY <2>2, ElementOfSeq DEF ViewInv, ViewTypeOK
      <3>3. told[j].at \in Nat
        BY <3>2 DEF Event
      <3> QED
        BY <2>3, <3>1, <3>2, <3>3
    \* What is new was stamped at different times.
    <2>5. ASSUME NEW j \in 1..Len(s), NEW k \in 1..Len(s), s[j] = s[k] PROVE j = k
      <3>1. s[j] \in Event /\ s[k] \in Event
        BY <2>1, ElementOfSeq
      <3>2. s[j].at \in Nat /\ s[k].at = s[j].at
        BY <2>5, <3>1 DEF Event
      <3> QED
        BY <2>1, <2>3, <3>2
    <2>6. ASSUME NEW j \in 1..Len(told'), NEW k \in 1..Len(told'), told'[j] = told'[k]
          PROVE  j = k
      <3>1. CASE j \in 1..Len(told) /\ k \in 1..Len(told)
        BY <2>3, <2>6, <3>1 DEF EventsOnce
      <3>2. CASE j \notin 1..Len(told) /\ k \notin 1..Len(told)
        <4>1. j - Len(told) = k - Len(told)
          BY <2>3, <2>5, <2>6, <3>2
        <4> QED
          BY <2>3, <4>1
      <3> QED
        BY <2>4, <2>6, <3>1, <3>2
    <2> QED
      BY <2>6 DEF EventsOnce
  <1> QED
    BY <1>1, <1>2, ToldBy

\* No event is printed twice, whatever the order of stamps and commits.
THEOREM EventsPrintedOnce == ViewSpec => []EventsOnce
  <1>1. ViewInit => EventsOnce
    BY EmptySeq DEF ViewInit, EventsOnce
  <1> QED
    BY <1>1, InvHolds, OnceStep, PTL DEF ViewSpec

----------------------------------------------------------------------------
(* Nothing skipped.  Away from the board, whatever the view has not printed  *)
(* is set down as lost to it; so when it follows again, it need not have     *)
(* printed anything but what it printed before.                              *)

OnScreen(m) == \E k \in 1..Len(shown) : shown[k] = m

MessagesInv ==
    \A m \in messages \ (overtaken \union gap) :
        m <= last_id \/ ~Following => OnScreen(m)

LEMMA MessagesStep ==
    ViewInv /\ MessagesInv /\ [ViewNext]_viewVars => MessagesInv'
  <1> SUFFICES ASSUME ViewInv, MessagesInv, [ViewNext]_viewVars,
                      NEW m \in (messages \ (overtaken \union gap))',
                      (m <= last_id \/ ~Following)'
               PROVE  OnScreen(m)'
    BY DEF MessagesInv
  <1> USE ViewAssumption
  <1>t. ViewTypeOK
    BY DEF ViewInv
  <1>i. m \in messages \ (overtaken \union gap) /\ (m <= last_id \/ ~Following)
            => OnScreen(m)
    BY DEF MessagesInv
  \* Most steps change neither the screen nor what has to be on it.
  <1>a. ASSUME UNCHANGED <<messages, shown, last_id>>, overtaken \subseteq overtaken',
               gap \subseteq gap', ~Following' => ~Following
        PROVE  OnScreen(m)'
    BY <1>i, <1>a DEF OnScreen
  <1>0. CASE UNCHANGED viewVars
    BY <1>a, <1>0 DEF viewVars, boardSide, cursors, printed, histories, Following
  <1>1. CASE BeginPost
    BY <1>a, <1>1 DEF BeginPost, cursors, printed, histories, Following
  <1>2. ASSUME NEW n \in posting, CommitPost(n) PROVE OnScreen(m)'
    <2>1. /\ messages' = messages \union {n} /\ UNCHANGED <<shown, last_id, pc>>
          /\ overtaken \subseteq overtaken' /\ gap \subseteq gap'
      BY <1>2 DEF CommitPost, cursors, printed
    <2>2. CASE m \in messages
      BY <1>i, <2>1, <2>2 DEF OnScreen, Following
    \* The cursor is at a message, and this one is higher than all.
    <2>3. CASE m = n
      <3>1. Following /\ \A x \in messages : ~(x > n)
        BY <1>2, <2>3 DEF CommitPost
      <3>2. n \in Nat \ {0} /\ n \notin messages /\ messages \subseteq Nat
        BY <1>t DEF ViewTypeOK
      <3>3. last_id \in messages \union {0}
        BY DEF ViewInv
      <3>4. ~(n <= last_id)
        BY <3>1, <3>2, <3>3
      <3> QED
        BY <2>1, <2>3, <3>1, <3>4 DEF Following
    <2> QED
      BY <2>1, <2>2, <2>3
  <1>3. ASSUME NEW kind \in EventKind, NEW n \in messages, BeginStamp(kind, n)
        PROVE  OnScreen(m)'
    BY <1>a, <1>3 DEF BeginStamp, cursors, printed, histories, Following
  <1>4. ASSUME NEW e \in stamping, CommitStamp(e) PROVE OnScreen(m)'
    BY <1>a, <1>4 DEF CommitStamp, cursors, printed, Following
  <1>5. CASE Rollback
    BY <1>a, <1>5 DEF Rollback, cursors, printed, histories, Following
  <1>6. CASE RequeueUnacked
    BY <1>a, <1>6 DEF RequeueUnacked, cursors, printed, histories, Following
  <1>7. CASE Start
    BY <1>a, <1>7 DEF Start, boardSide, printed, Following
  <1>8. CASE ShowHistory
    <2>1. pc = "history" /\ UNCHANGED <<boardSide, histories>>
      BY <1>8 DEF ShowHistory
    <2>2. OnScreen(m)
      BY <1>i, <2>1 DEF boardSide, histories, Following
    <2>3. shown # <<>>
      BY <2>2, EmptySeq DEF OnScreen
    <2> QED
      BY <1>8, <2>2, <2>3, HistoryShown DEF OnScreen
  <1>9. CASE SkipToNewest
    BY <1>i, <1>9 DEF SkipToNewest, boardSide, printed, histories, Following, OnScreen
  <1>10. CASE ShowMessages
    <2>1. PICK s \in Seq(Fresh) :
            /\ s \in Seq(1..lastId) /\ shown' = shown \o s
            /\ \A n \in Fresh : \E k \in 1..Len(s) : s[k] = n
      BY <1>10, MessagesShown
    <2>2. /\ \A k \in 1..Len(shown) : k \in 1..Len(shown') /\ shown'[k] = shown[k]
          /\ \A k \in 1..Len(s) :
               Len(shown) + k \in 1..Len(shown') /\ shown'[Len(shown) + k] = s[k]
      <3>1. shown \in Seq(1..lastId)
        BY <1>t DEF ViewTypeOK
      <3>2. s \in Seq(1..lastId) /\ shown' = shown \o s
        BY <2>1
      <3>3. \A k \in 1..Len(shown) : k \in 1..Len(shown') /\ shown'[k] = shown[k]
        BY <3>1, <3>2, Appended
      <3>4. \A k \in 1..Len(s) :
               Len(shown) + k \in 1..Len(shown') /\ shown'[Len(shown) + k] = s[k]
        BY <3>1, <3>2, Appended
      <3> QED
        BY <3>3, <3>4
    <2>3. UNCHANGED <<messages, overtaken, gap>>
      BY <1>10 DEF ShowMessages, boardSide, histories
    <2>4. CASE m \in Fresh
      BY <2>1, <2>2, <2>4 DEF OnScreen
    <2>5. CASE m \notin Fresh
      <3>1. m <= last_id
        BY <1>t, <2>3, <2>5 DEF Fresh, ViewTypeOK
      <3> QED
        BY <1>i, <2>2, <2>3, <3>1 DEF OnScreen
    <2> QED
      BY <2>4, <2>5
  <1>11. CASE AskTime
    BY <1>a, <1>11 DEF AskTime, boardSide, printed, Following
  <1>12. CASE ShowEvents
    BY <1>a, <1>12 DEF ShowEvents, boardSide, histories, Following
  <1>13. CASE LoseConnection
    <2>1. /\ gap' = gap \union Fresh
          /\ UNCHANGED <<messages, shown, last_id, overtaken>>
      BY <1>13 DEF LoseConnection, boardSide, cursors, printed
    <2>2. m <= last_id
      BY <1>t, <2>1 DEF Fresh, ViewTypeOK
    <2> QED
      BY <1>i, <2>1, <2>2 DEF OnScreen
  <1>14. CASE Reconnect
    BY <1>a, <1>14 DEF Reconnect, boardSide, printed, histories, Following
  <1> QED
    BY <1>0, <1>1, <1>2, <1>3, <1>4, <1>5, <1>6, <1>7, <1>8, <1>9, <1>10, <1>11,
       <1>12, <1>13, <1>14, StepIsOperation DEF Operation

\* A message that commits in the order of the ids while the view follows is
\* printed by the time the view has got past its id.
THEOREM MessagesNotSkipped == ViewSpec => []NoMessageSkipped
  <1>1. ViewInit => MessagesInv
    BY DEF ViewInit, MessagesInv
  <1>2. MessagesInv => NoMessageSkipped
    BY DEF MessagesInv, NoMessageSkipped, OnScreen
  <1> QED
    BY <1>1, <1>2, InvHolds, MessagesStep, PTL DEF ViewSpec

\* An event has its turn with the view, unless the view read the clock while
\* its transaction was open.
Announced(e) == \E k \in 1..Len(told) : told[k] = e

StampsInv ==
    \A e \in stamping \ slow : e.at > seen_until /\ (pc = "events" => e.at > until)

EventsInv ==
    \A e \in events \ (slow \union away) :
        e.at <= seen_until \/ ~Following => Announced(e)

LEMMA StampsStep ==
    ViewInv /\ StampsInv /\ [ViewNext]_viewVars => StampsInv'
  <1> SUFFICES ASSUME ViewInv, StampsInv, [ViewNext]_viewVars,
                      NEW e \in (stamping \ slow)'
               PROVE  (e.at > seen_until /\ (pc = "events" => e.at > until))'
    BY DEF StampsInv
  <1>t. ViewTypeOK /\ now \in Nat /\ seen_until \in 0..now /\ until \in 0..now
    BY ViewAssumption DEF ViewInv, ViewTypeOK
  <1>i. e \in stamping \ slow => e.at > seen_until /\ (pc = "events" => e.at > until)
    BY DEF StampsInv
  <1>a. ASSUME stamping' \subseteq stamping, slow \subseteq slow',
               UNCHANGED <<seen_until, until>>, pc' = "events" => pc = "events"
        PROVE  (e.at > seen_until /\ (pc = "events" => e.at > until))'
    <2>1. e \in stamping \ slow
      BY <1>a
    <2>2. e.at > seen_until /\ (pc = "events" => e.at > until)
      BY <1>i, <2>1
    <2> QED
      BY <1>a, <2>2
  <1>1. ASSUME NEW kind \in EventKind, NEW m \in messages, BeginStamp(kind, m)
        PROVE  (e.at > seen_until /\ (pc = "events" => e.at > until))'
    <2>1. now' = now + 1
      BY <1>t, <1>1, ClockReads DEF BeginStamp
    <2>2. stamping' = stamping \union {[kind |-> kind, id |-> m, at |-> now']}
          /\ UNCHANGED <<seen_until, until, pc, slow>>
      BY <1>1 DEF BeginStamp, cursors, histories
    <2>3. CASE e = [kind |-> kind, id |-> m, at |-> now']
      BY <1>t, <2>1, <2>2, <2>3
    <2>4. CASE e \in stamping \ slow
      BY <1>i, <2>2, <2>4
    <2> QED
      BY <2>2, <2>3, <2>4
  \* A reading of the clock is after whatever is being stamped, and notes it.
  <1>2. CASE Start \/ AskTime
    BY <1>2 DEF Start, AskTime, NoteSlow, boardSide
  <1>3. CASE ShowEvents
    BY <1>i, <1>3 DEF ShowEvents, boardSide, histories
  <1>4. CASE UNCHANGED viewVars
    BY <1>a, <1>4 DEF viewVars, boardSide, cursors, histories
  <1> QED
    BY <1>a, <1>1, <1>2, <1>3, <1>4
    DEF ViewNext, BeginPost, CommitPost, CommitStamp, Rollback, RequeueUnacked,
        ShowHistory, SkipToNewest, ShowMessages, LoseConnection, Reconnect,
        boardSide, cursors, histories

LEMMA EventsStep ==
    ViewInv /\ StampsInv /\ EventsInv /\ [ViewNext]_viewVars => EventsInv'
  <1> SUFFICES ASSUME ViewInv, StampsInv, EventsInv, [ViewNext]_viewVars,
                      NEW e \in (events \ (slow \union away))',
                      (e.at <= seen_until \/ ~Following)'
               PROVE  Announced(e)'
    BY DEF EventsInv
  <1>t. ViewTypeOK /\ seen_until \in Nat /\ until \in Nat
    BY ViewAssumption DEF ViewInv, ViewTypeOK
  <1>i. e \in events \ (slow \union away) /\ (e.at <= seen_until \/ ~Following)
            => Announced(e)
    BY DEF EventsInv
  <1>a. ASSUME events' \subseteq events, UNCHANGED <<told, seen_until>>,
               slow \subseteq slow', away \subseteq away', ~Following' => ~Following
        PROVE  Announced(e)'
    BY <1>i, <1>a DEF Announced
  <1>0. CASE UNCHANGED viewVars
    BY <1>a, <1>0 DEF viewVars, boardSide, cursors, printed, histories, Following
  <1>1. CASE BeginPost
    BY <1>a, <1>1 DEF BeginPost, cursors, printed, histories, Following
  <1>2. ASSUME NEW n \in posting, CommitPost(n) PROVE Announced(e)'
    BY <1>a, <1>2 DEF CommitPost, cursors, printed, Following
  <1>3. ASSUME NEW kind \in EventKind, NEW n \in messages, BeginStamp(kind, n)
        PROVE  Announced(e)'
    BY <1>a, <1>3 DEF BeginStamp, cursors, printed, histories, Following
  <1>4. ASSUME NEW f \in stamping, CommitStamp(f) PROVE Announced(e)'
    <2>1. UNCHANGED <<told, seen_until, pc, slow>>
      BY <1>4 DEF CommitStamp, cursors, printed
    <2>2. CASE UNCHANGED <<events, away>>
      BY <1>a, <2>1, <2>2 DEF Following
    <2>3. CASE /\ events' = events \union {f}
               /\ away' = IF Following THEN away ELSE away \union {f}
      <3>1. CASE e \in events
        BY <1>i, <2>1, <2>3, <3>1 DEF Following, Announced
      <3>2. CASE e = f
        <4>1. Following /\ e \notin slow
          BY <2>1, <2>3, <3>2
        <4>2. e.at > seen_until /\ e \in Event
          BY <1>t, <3>2, <4>1 DEF StampsInv, ViewTypeOK
        <4>3. ~(e.at <= seen_until)
          BY <1>t, <4>2 DEF Event
        <4> QED
          BY <2>1, <4>1, <4>3 DEF Following
      <3> QED
        BY <2>3, <3>1, <3>2
    <2> QED
      BY <1>4, <2>2, <2>3 DEF CommitStamp
  <1>5. CASE Rollback
    BY <1>a, <1>5 DEF Rollback, cursors, printed, histories, Following
  <1>6. CASE RequeueUnacked
    BY <1>a, <1>6 DEF RequeueUnacked, cursors, printed, histories, Following
  <1>7. CASE Start
    <2>1. UNCHANGED <<events, told, away>> /\ slow \subseteq slow' /\ ~Following
      BY <1>7 DEF Start, NoteSlow, boardSide, printed, Following
    <2> QED
      BY <1>i, <2>1 DEF Announced
  <1>8. CASE ShowHistory
    <2>1. UNCHANGED <<events, told, slow, away>> /\ ~Following
      BY <1>8 DEF ShowHistory, boardSide, histories, Following
    <2> QED
      BY <1>i, <2>1 DEF Announced
  <1>9. CASE SkipToNewest
    <2>1. UNCHANGED <<events, told, slow, away>> /\ ~Following
      BY <1>9 DEF SkipToNewest, boardSide, printed, histories, Following
    <2> QED
      BY <1>i, <2>1 DEF Announced
  <1>10. CASE ShowMessages
    BY <1>a, <1>10 DEF ShowMessages, boardSide, histories, Following
  <1>11. CASE AskTime
    BY <1>a, <1>11 DEF AskTime, NoteSlow, boardSide, printed, Following
  <1>12. CASE ShowEvents
    <2>1. PICK s \in Seq(Fetched) :
            /\ s \in Seq(Event) /\ told' = told \o s
            /\ \A f \in Fetched : \E k \in 1..Len(s) : s[k] = f
      BY <1>12, EventsShown
    <2>2. /\ \A k \in 1..Len(told) : k \in 1..Len(told') /\ told'[k] = told[k]
          /\ \A k \in 1..Len(s) :
               Len(told) + k \in 1..Len(told') /\ told'[Len(told) + k] = s[k]
      <3>1. told \in Seq(Event)
        BY <1>t DEF ViewTypeOK
      <3>2. s \in Seq(Event) /\ told' = told \o s
        BY <2>1
      <3>3. \A k \in 1..Len(told) : k \in 1..Len(told') /\ told'[k] = told[k]
        BY <3>1, <3>2, Appended
      <3>4. \A k \in 1..Len(s) :
               Len(told) + k \in 1..Len(told') /\ told'[Len(told) + k] = s[k]
        BY <3>1, <3>2, Appended
      <3> QED
        BY <3>3, <3>4
    <2>3. /\ seen_until' = until /\ Following /\ Following'
          /\ UNCHANGED <<events, slow, away>>
      BY <1>12 DEF ShowEvents, boardSide, histories, Following
    <2>4. e \in events \ (slow \union away) /\ e.at <= until /\ e \in Event
      BY <1>t, <2>3 DEF ViewTypeOK
    <2>5. CASE e.at > seen_until
      BY <2>1, <2>2, <2>4, <2>5 DEF Fetched, Announced
    <2>6. CASE ~(e.at > seen_until)
      <3>1. e.at <= seen_until
        BY <1>t, <2>4, <2>6 DEF Event
      <3> QED
        BY <1>i, <2>2, <2>4, <3>1 DEF Announced
    <2> QED
      BY <2>5, <2>6
  <1>13. CASE LoseConnection
    <2>1. /\ away' = away \union {f \in events : f.at > seen_until}
          /\ UNCHANGED <<events, told, seen_until, slow>>
      BY <1>13 DEF LoseConnection, boardSide, cursors, printed
    <2>2. e \in events /\ e \in Event /\ ~(e.at > seen_until)
      BY <1>t, <2>1 DEF ViewTypeOK
    <2>3. e.at <= seen_until
      BY <1>t, <2>2 DEF Event
    <2> QED
      BY <1>i, <2>1, <2>3 DEF Announced
  <1>14. CASE Reconnect
    BY <1>a, <1>14 DEF Reconnect, boardSide, printed, histories, Following
  <1> QED
    BY <1>0, <1>1, <1>2, <1>3, <1>4, <1>5, <1>6, <1>7, <1>8, <1>9, <1>10, <1>11,
       <1>12, <1>13, <1>14, StepIsOperation DEF Operation

\* An event stamped and committed between two readings of the clock is printed
\* after the second, if the view follows.
THEOREM EventsNotSkipped == ViewSpec => []NoEventSkipped
  <1>1. ViewInit => StampsInv /\ EventsInv
    BY DEF ViewInit, StampsInv, EventsInv
  <1>2. EventsInv => NoEventSkipped
    BY DEF EventsInv, NoEventSkipped, Printed, Announced
  <1> QED
    BY <1>1, <1>2, InvHolds, StampsStep, EventsStep, PTL DEF ViewSpec
=============================================================================
