---------------------------- MODULE TunnelKeeper ----------------------------
(***************************************************************************)
(* The keepers of the SSH tunnel (ops/scripts/board_tunnel.sh keep): one   *)
(* runs beside the listeners of each workspace, all on one machine.  The   *)
(* lock is a directory with the holder's pid in a file; it is made,        *)
(* written, read and removed in separate steps, and rm -rf is two steps    *)
(* itself (the file, then the directory).                                  *)
(***************************************************************************)
EXTENDS Naturals

CONSTANTS
    Keeper,  \* the keeper processes, each with a pid of its own
    NoPid,   \* no pid file, or an empty one
    MaxLosses \* bound: how often the tunnel breaks

ASSUME KeeperAssumption == NoPid \notin Keeper /\ MaxLosses \in Nat

VARIABLES
    pc,     \* where each keeper is
    seen,   \* the owner each has read from the pid file
    dir,    \* the lock directory exists
    pid,    \* the pid file in it
    tunnel, \* "up", "hung" or "down"
    losses, \* how often it broke
    raced   \* history: a keeper changed the lock with another one at it

tunnelVars == <<pc, seen, dir, pid, tunnel, losses, raced>>

Taking == {"take", "write", "read", "judge", "remove", "rmdir", "retake", "rewrite"}
Working == {"check", "timeout", "reopen", "pause"}
Leaving == {"exit", "exit-remove", "exit-rmdir"}
Alive(k) == pc[k] \notin {"off", "gone"}

\* In the middle of taking or leaving the lock; there, about to change it.
AtLock(k) == pc[k] \in (Taking \ {"take"}) \union Leaving
Altering(k) == AtLock(k) /\ pc[k] \notin {"read", "judge", "exit"}

Goto(k, there) ==
    /\ pc' = [pc EXCEPT ![k] = there]
    /\ raced' = (raced \/ \E j, l \in Keeper : j # l /\ Altering(j)' /\ AtLock(l)')

Start(k) ==
    /\ pc[k] = "off"
    /\ Goto(k, "take")
    /\ UNCHANGED <<seen, dir, pid, tunnel, losses>>

----------------------------------------------------------------------------
(* take_lock *)

\* mkdir, which fails when the lock is there.
Take(k) ==
    /\ pc[k] = "take"
    /\ Goto(k, IF dir THEN "read" ELSE "write")
    /\ dir' = TRUE
    /\ UNCHANGED <<seen, pid, tunnel, losses>>

\* cat of the pid file, which may be gone by now.
Read(k) ==
    /\ pc[k] = "read"
    /\ seen' = [seen EXCEPT ![k] = pid]
    /\ Goto(k, IF pid = k THEN "check" ELSE "judge")
    /\ UNCHANGED <<dir, pid, tunnel, losses>>

\* Mutant of Write: the pid file lies beside the directory.
WriteBeside(k) ==
    /\ pc[k] = "write"
    /\ pid' = k
    /\ Goto(k, "check")
    /\ UNCHANGED <<seen, dir, tunnel, losses>>

\* echo $$ > pid.  If the directory is gone, this first branch returns 0 all
\* the same.
Write(k) ==
    /\ pc[k] = "write"
    /\ pid' = IF dir THEN k ELSE pid
    /\ Goto(k, "check")
    /\ UNCHANGED <<seen, dir, tunnel, losses>>

\* Mutant of Judge: whoever does not hold the lock takes it.
JudgeAllDead(k) ==
    /\ pc[k] = "judge"
    /\ Goto(k, "remove")
    /\ UNCHANGED <<seen, dir, pid, tunnel, losses>>

\* Mutant of Judge: whoever is named in the file is taken to live.
JudgeByFile(k) ==
    /\ pc[k] = "judge"
    /\ Goto(k, IF seen[k] # NoPid THEN "wait" ELSE "remove")
    /\ UNCHANGED <<seen, dir, pid, tunnel, losses>>

\* kill -0 of the owner read before.
Judge(k) ==
    /\ pc[k] = "judge"
    /\ Goto(k, IF seen[k] # NoPid /\ Alive(seen[k]) THEN "wait" ELSE "remove")
    /\ UNCHANGED <<seen, dir, pid, tunnel, losses>>

RemoveFile(k) ==
    /\ pc[k] \in {"remove", "exit-remove"}
    /\ pid' = NoPid
    /\ Goto(k, IF pc[k] = "remove" THEN "rmdir" ELSE "exit-rmdir")
    /\ UNCHANGED <<seen, dir, tunnel, losses>>

\* rmdir fails when somebody has just written a pid.
RemoveDir(k) ==
    /\ pc[k] \in {"rmdir", "exit-rmdir"}
    /\ dir' = (dir /\ pid # NoPid)
    /\ Goto(k, IF pc[k] = "rmdir" THEN "retake" ELSE "gone")
    /\ UNCHANGED <<seen, pid, tunnel, losses>>

Retake(k) ==
    /\ pc[k] = "retake"
    /\ Goto(k, IF dir THEN "wait" ELSE "rewrite")
    /\ dir' = TRUE
    /\ UNCHANGED <<seen, pid, tunnel, losses>>

Rewrite(k) ==
    /\ pc[k] = "rewrite"
    /\ pid' = IF dir THEN k ELSE pid
    /\ Goto(k, IF dir THEN "check" ELSE "wait")
    /\ UNCHANGED <<seen, dir, tunnel, losses>>

\* Mutant of Again: the lock is taken once and for all.
AgainUnasked(k) ==
    /\ pc[k] \in {"wait", "pause"}
    /\ Goto(k, IF pc[k] = "wait" THEN "take" ELSE "check")
    /\ UNCHANGED <<seen, dir, pid, tunnel, losses>>

\* The sleep of a keeper without the lock and of the one with it.
Again(k) ==
    /\ pc[k] \in {"wait", "pause"}
    /\ Goto(k, "take")
    /\ UNCHANGED <<seen, dir, pid, tunnel, losses>>

----------------------------------------------------------------------------
(* The tunnel *)

\* check: answers at once, or hangs until the timeout.
Check(k) ==
    /\ pc[k] = "check"
    /\ Goto(k, CASE tunnel = "up" -> "pause"
                 [] tunnel = "hung" -> "timeout"
                 [] tunnel = "down" -> "reopen")
    /\ UNCHANGED <<seen, dir, pid, tunnel, losses>>

\* Mutant of Timeout: the hung ssh is left running.
TimeoutOnly(k) ==
    /\ pc[k] = "timeout"
    /\ Goto(k, "reopen")
    /\ UNCHANGED <<seen, dir, pid, tunnel, losses>>

\* pkill ends whatever ssh has the socket by now.
Timeout(k) ==
    /\ pc[k] = "timeout"
    /\ tunnel' = "down"
    /\ Goto(k, "reopen")
    /\ UNCHANGED <<seen, dir, pid, losses>>

\* ssh -f -M: fails while another ssh holds the port.
Reopen(k) ==
    /\ pc[k] = "reopen"
    /\ tunnel = "down" /\ tunnel' = "up"
    /\ Goto(k, "pause")
    /\ UNCHANGED <<seen, dir, pid, losses>>

ReopenFails(k) ==
    /\ pc[k] = "reopen"
    /\ Goto(k, "pause")
    /\ UNCHANGED <<seen, dir, pid, tunnel, losses>>

\* The network changes, the laptop sleeps, the server stops answering.
Breaks ==
    /\ tunnel = "up" /\ losses < MaxLosses
    /\ tunnel' \in {"hung", "down"}
    /\ losses' = losses + 1
    /\ UNCHANGED <<pc, seen, dir, pid, raced>>

----------------------------------------------------------------------------
(* The end of a keeper: its pane is closed and the EXIT trap runs, or it is *)
(* killed on the spot.                                                      *)

Hangup(k) ==
    /\ Alive(k) /\ pc[k] \notin Leaving
    /\ Goto(k, "exit")
    /\ UNCHANGED <<seen, dir, pid, tunnel, losses>>

ExitTrap(k) ==
    /\ pc[k] = "exit"
    /\ Goto(k, IF pid = k THEN "exit-remove" ELSE "gone")
    /\ UNCHANGED <<seen, dir, pid, tunnel, losses>>

Killed(k) ==
    /\ Alive(k)
    /\ Goto(k, "gone")
    /\ UNCHANGED <<seen, dir, pid, tunnel, losses>>

----------------------------------------------------------------------------
TunnelInit ==
    /\ pc = [k \in Keeper |-> "off"]
    /\ seen = [k \in Keeper |-> NoPid]
    /\ dir = FALSE /\ pid = NoPid
    /\ tunnel = "down" /\ losses = 0
    /\ raced = FALSE

KeeperStep(k) ==
    \/ Take(k) \/ Write(k) \/ Read(k) \/ Judge(k)
    \/ RemoveFile(k) \/ RemoveDir(k) \/ Retake(k) \/ Rewrite(k)
    \/ Again(k) \/ Check(k) \/ Timeout(k)
    \/ Reopen(k) \/ ReopenFails(k)
    \/ ExitTrap(k)

TunnelNext ==
    \/ \E k \in Keeper : Start(k) \/ KeeperStep(k) \/ Hangup(k) \/ Killed(k)
    \/ Breaks

TunnelSpec == TunnelInit /\ [][TunnelNext]_tunnelVars

\* A keeper that lives goes on with its loop, and ssh does not fail forever
\* to a server that answers.  Between two tries at the lock a keeper sleeps
\* CHECK_SECONDS, a try takes milliseconds: time and again all are asleep or
\* at the tunnel.
TunnelFairSpec ==
    /\ TunnelSpec
    /\ \A k \in Keeper : WF_tunnelVars(KeeperStep(k)) /\ SF_tunnelVars(Reopen(k))
    /\ []<>(\A k \in Keeper : ~AtLock(k))

----------------------------------------------------------------------------
TunnelTypeOK ==
    /\ pc \in [Keeper -> Taking \union Working \union Leaving
                           \union {"off", "wait", "gone"}]
    /\ seen \in [Keeper -> Keeper \union {NoPid}]
    /\ dir \in BOOLEAN /\ pid \in Keeper \union {NoPid}
    /\ pid # NoPid => dir
    /\ tunnel \in {"up", "hung", "down"} /\ losses \in 0..MaxLosses
    /\ raced \in BOOLEAN

\* board_tunnel.sh:16, "only one of them works at a time (it holds a lock)".
OnlyOneWorks ==
    \A j, k \in Keeper : pc[j] \in Working /\ pc[k] \in Working => j = k

\* That is so, through starts, deaths and take-overs, for as long as no
\* keeper changed the lock while another one was looking at it.
OneWorksUnlessRaced == ~raced => OnlyOneWorks

NoRace == \A j, l \in Keeper : j # l => ~(Altering(j) /\ AtLock(l))

\* What a keeper at the lock takes for granted about it.
Rightly(k) ==
    CASE pc[k] = "judge" -> pid = seen[k]
      [] pc[k] = "remove" -> pid = NoPid \/ ~Alive(pid)
      [] pc[k] = "exit-remove" -> pid = k
      [] pc[k] \in {"rmdir", "retake", "exit-rmdir"} -> pid = NoPid
      [] pc[k] \in {"write", "rewrite"} -> dir /\ pid = NoPid
      [] OTHER -> TRUE

\* Nobody is at the lock on false grounds, and who works is in its pid file.
InOrder ==
    /\ NoRace
    /\ \A k \in Keeper : Rightly(k)
    /\ \A k \in Keeper : pc[k] \in Working => pid = k

\* When a race is over the lock protects again: nothing but another race
\* brings it out of order, no start, death, take-over or broken tunnel
\* (board_tunnel.sh:50, take_lock).
OrderLasts == [][InOrder /\ NoRace' => InOrder']_tunnelVars

\* Two that got hold of the lock in a race do not both keep it: in the end
\* one works and the others wait.
SettlesOnOne == <>[]OnlyOneWorks

\* The others take over when it stops (board_tunnel.sh:17): while keepers
\* live, one of them works again and again.
SomeoneWorks ==
    []<>((\E k \in Keeper : pc[k] \in Working)
           \/ \A k \in Keeper : ~Alive(k) \/ pc[k] \in Leaving)

\* Whatever broke the tunnel, it comes up again while there is a keeper.
ComesUp ==
    []<>(tunnel = "up" \/ \A k \in Keeper : ~Alive(k) \/ pc[k] \in Leaving)
=============================================================================
