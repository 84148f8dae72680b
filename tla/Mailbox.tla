------------------------------ MODULE Mailbox ------------------------------
(***************************************************************************)
(* What the board promises of its deliveries, pairs of a message and an    *)
(* agent.  Each comes once; it waits, is given, may be taken back to wait  *)
(* again with all that its agent was given, and ends once: by itself, or   *)
(* with every other delivery of its message.                               *)
(***************************************************************************)
VARIABLES waiting, given, closed

mailboxVars == <<waiting, given, closed>>

MailboxInit == waiting = {} /\ given = {} /\ closed = {}

\* New deliveries come in, some of them too late already.
Arrive ==
    /\ waiting \subseteq waiting' /\ closed \subseteq closed'
    /\ (waiting' \ waiting) \intersect (given \union closed') = {}
    /\ (closed' \ closed) \intersect (given \union waiting') = {}
    /\ UNCHANGED given

Give(d) ==
    /\ waiting' = waiting \ {d} /\ given' = given \union {d}
    /\ UNCHANGED closed

TakeBack(agent) ==
    LET back == {d \in given : d[2] = agent} IN
    /\ waiting' = waiting \union back /\ given' = given \ back
    /\ UNCHANGED closed

Close(ended) ==
    /\ waiting' = waiting \ ended /\ given' = given \ ended
    /\ closed' = closed \union ended

\* Messages run out of time, each for everybody.
Expire ==
    LET open == waiting \union given
        late == open \intersect closed'
    IN  /\ \A d \in late, e \in open : d[1] = e[1] => e \in late
        /\ Close(late)

MailboxNext ==
    \/ Arrive
    \/ \E d \in waiting : Give(d)
    \/ \E d \in given : TakeBack(d[2])
    \/ \E d \in waiting \union given : Close({d})
    \/ Expire

MailboxSpec == MailboxInit /\ [][MailboxNext]_mailboxVars
=============================================================================
