---------------------------- MODULE TunnelProofs ----------------------------
(* However many keepers there are: as long as no keeper changes the lock     *)
(* while another one is looking at it, at most one works on the tunnel.      *)
EXTENDS TunnelKeeper, TLAPS

----------------------------------------------------------------------------
(* Type correctness *)

LEMMA TunnelInitType == TunnelInit => TunnelTypeOK
  <1> SUFFICES ASSUME TunnelInit PROVE TunnelTypeOK
    OBVIOUS
  <1>1. 0 \in 0..MaxLosses
    BY KeeperAssumption
  <1>2. /\ pc \in [Keeper -> {"off"}] /\ seen \in [Keeper -> {NoPid}]
        /\ dir \in BOOLEAN /\ raced \in BOOLEAN
    BY DEF TunnelInit
  <1> QED
    BY <1>1, <1>2 DEF TunnelInit, TunnelTypeOK

LEMMA TunnelStepType == TunnelTypeOK /\ [TunnelNext]_tunnelVars => TunnelTypeOK'
  <1> SUFFICES ASSUME TunnelTypeOK, [TunnelNext]_tunnelVars PROVE TunnelTypeOK'
    OBVIOUS
  <1> USE KeeperAssumption DEF TunnelTypeOK, Taking, Working, Leaving, Goto
  <1>1. ASSUME NEW k \in Keeper,
               \/ Take(k) \/ Write(k) \/ Read(k) \/ Judge(k)
               \/ RemoveFile(k) \/ RemoveDir(k) \/ Retake(k) \/ Rewrite(k)
               \/ Again(k)
        PROVE  TunnelTypeOK'
    BY <1>1 DEF Take, Write, Read, Judge, RemoveFile, RemoveDir, Retake,
                Rewrite, Again
  <1>2. ASSUME NEW k \in Keeper,
               \/ Start(k) \/ Check(k) \/ Timeout(k)
               \/ Reopen(k) \/ ReopenFails(k)
               \/ ExitTrap(k) \/ Hangup(k) \/ Killed(k)
        PROVE  TunnelTypeOK'
    BY <1>2 DEF Start, Check, Timeout, Reopen, ReopenFails, ExitTrap,
                Hangup, Killed
  <1>3. CASE Breaks
    BY <1>3 DEF Breaks
  <1>4. CASE UNCHANGED tunnelVars
    BY <1>4 DEF tunnelVars
  <1> QED
    BY <1>1, <1>2, <1>3, <1>4 DEF TunnelNext, KeeperStep

\* A keeper's place, what it read, the lock and the tunnel are always one of
\* the values the script can give them, and a pid file is in a directory.
THEOREM TunnelTypeCorrect == TunnelSpec => []TunnelTypeOK
  BY TunnelInitType, TunnelStepType, PTL DEF TunnelSpec

----------------------------------------------------------------------------
(* One works.  A worker is the one in the pid file; what has to be kept for  *)
(* that is that a keeper about to remove the file has a dead owner's, or     *)
(* its own, and one about to write into it finds none.                       *)

\* A keeper whose pid is in the file has been started.
Named == \A k \in Keeper : pid = k => pc[k] # "off"

LEMMA NamedStep == TunnelTypeOK /\ Named /\ [TunnelNext]_tunnelVars => Named'
  <1> SUFFICES ASSUME TunnelTypeOK, Named, [TunnelNext]_tunnelVars PROVE Named'
    OBVIOUS
  <1> USE KeeperAssumption DEF TunnelTypeOK, Named, Goto
  <1>1. ASSUME NEW k \in Keeper, Start(k) \/ KeeperStep(k) \/ Hangup(k) \/ Killed(k)
        PROVE  Named'
    BY <1>1 DEF Start, KeeperStep, Take, Write, Read, Judge, RemoveFile,
                RemoveDir, Retake, Rewrite, Again, Check, Timeout, Reopen,
                ReopenFails, ExitTrap, Hangup, Killed
  <1>2. CASE Breaks \/ UNCHANGED tunnelVars
    BY <1>2 DEF Breaks, tunnelVars
  <1> QED
    BY <1>1, <1>2 DEF TunnelNext

LEMMA OrderInit == TunnelInit => Named /\ InOrder
  BY KeeperAssumption
  DEF TunnelInit, Named, InOrder, NoRace, Altering, AtLock, Rightly, Taking,
      Leaving, Working

LEMMA OrderStep ==
    ASSUME TunnelTypeOK, Named, InOrder, NoRace', [TunnelNext]_tunnelVars
    PROVE  InOrder'
  <1> USE KeeperAssumption
  <1>1. ASSUME UNCHANGED <<pc, seen, dir, pid>>
        PROVE  InOrder'
    BY <1>1 DEF InOrder, NoRace, Altering, AtLock, Rightly, Alive
  <1>2. ASSUME NEW k \in Keeper, NEW there, Goto(k, there)
        PROVE  /\ pc' = [pc EXCEPT ![k] = there]
               /\ \A j \in Keeper : pid = j => pc[j] # "off"
               /\ NoRace /\ NoRace'
               /\ \A j \in Keeper : Rightly(j)
               /\ \A j \in Keeper : pc[j] \in Working => pid = j
    BY <1>2 DEF Goto, Named, InOrder
  <1> USE DEF TunnelTypeOK, Taking, Working, Leaving, Rightly, Alive
  <1>3. ASSUME NEW k \in Keeper, NEW there, Goto(k, there), Altering(k)
        PROVE  /\ NoRace'
               /\ \A j \in Keeper \ {k} :
                     pc'[j] = pc[j] /\ ~AtLock(j) /\ Rightly(j)'
    <2>1. \A j \in Keeper \ {k} : pc'[j] = pc[j] /\ ~AtLock(j)
      BY <1>3, <1>2 DEF NoRace
    <2>2. ASSUME NEW j \in Keeper \ {k} PROVE Rightly(j)'
      <3>1. pc'[j] \notin {"judge", "remove", "exit-remove", "write", "rmdir",
                           "retake", "rewrite", "exit-rmdir"}
        BY <2>1, <2>2 DEF AtLock
      <3> QED
        BY <3>1
    <2> QED
      BY <2>1, <2>2
  <1>4. ASSUME NEW k \in Keeper, Start(k) PROVE InOrder'
    <2>1. Goto(k, "take")
      BY <1>4 DEF Start
    <2> QED
      BY <1>4, <2>1, <1>2 DEF Start, InOrder
  <1>5. ASSUME NEW k \in Keeper, Take(k) PROVE InOrder'
    <2>1. Goto(k, IF dir THEN "read" ELSE "write")
      BY <1>5 DEF Take
    <2> QED
      BY <1>5, <2>1, <1>2 DEF Take, InOrder
  <1>6. ASSUME NEW k \in Keeper, Write(k) PROVE InOrder'
    <2>1. Goto(k, "check")
      BY <1>6 DEF Write
    <2>2. Altering(k)
      BY <1>6 DEF Write, Altering, AtLock
    <2>3. \A j \in Keeper : j # k => ~AtLock(j)
      BY <2>1, <2>2, <1>2 DEF NoRace
    <2> QED
      BY <1>6, <2>1, <2>3, <1>2 DEF Write, InOrder, AtLock
  <1>7. ASSUME NEW k \in Keeper, Read(k) PROVE InOrder'
    <2>1. Goto(k, IF pid = k THEN "check" ELSE "judge")
      BY <1>7 DEF Read
    <2> QED
      BY <1>7, <2>1, <1>2 DEF Read, InOrder
  <1>8. ASSUME NEW k \in Keeper, Judge(k) PROVE InOrder'
    <2>1. Goto(k, IF seen[k] # NoPid /\ Alive(seen[k]) THEN "wait" ELSE "remove")
      BY <1>8 DEF Judge
    <2> QED
      BY <1>8, <2>1, <1>2 DEF Judge, InOrder
  <1>9. ASSUME NEW k \in Keeper, RemoveFile(k) PROVE InOrder'
    <2>1. Goto(k, IF pc[k] = "remove" THEN "rmdir" ELSE "exit-rmdir")
      BY <1>9 DEF RemoveFile
    <2>2. Altering(k)
      BY <1>9 DEF RemoveFile, Altering, AtLock
    <2>3. \A j \in Keeper : pc[j] \notin Working
      BY <1>9, <2>1, <1>2 DEF RemoveFile
    <2>4. Rightly(k)' /\ pc'[k] \notin Working
      BY <1>9, <2>1, <1>2 DEF RemoveFile
    <2> QED
      BY <2>1, <2>2, <2>3, <2>4, <1>3 DEF InOrder
  <1>10. ASSUME NEW k \in Keeper, RemoveDir(k) PROVE InOrder'
    <2>1. Goto(k, IF pc[k] = "rmdir" THEN "retake" ELSE "gone")
      BY <1>10 DEF RemoveDir
    <2>2. Altering(k)
      BY <1>10 DEF RemoveDir, Altering, AtLock
    <2>3. \A j \in Keeper : pc[j] \notin Working
      BY <1>10, <2>1, <1>2 DEF RemoveDir
    <2>4. Rightly(k)' /\ pc'[k] \notin Working
      BY <1>10, <2>1, <1>2 DEF RemoveDir
    <2> QED
      BY <2>1, <2>2, <2>3, <2>4, <1>3 DEF InOrder
  <1>11. ASSUME NEW k \in Keeper, Retake(k) PROVE InOrder'
    <2>1. Goto(k, IF dir THEN "wait" ELSE "rewrite")
      BY <1>11 DEF Retake
    <2>2. Altering(k)
      BY <1>11 DEF Retake, Altering, AtLock
    <2>3. \A j \in Keeper : pc[j] \notin Working
      BY <1>11, <2>1, <1>2 DEF Retake
    <2>4. Rightly(k)' /\ pc'[k] \notin Working
      BY <1>11, <2>1, <1>2 DEF Retake
    <2> QED
      BY <2>1, <2>2, <2>3, <2>4, <1>3 DEF InOrder
  <1>12. ASSUME NEW k \in Keeper, Rewrite(k) PROVE InOrder'
    <2>1. Goto(k, IF dir THEN "check" ELSE "wait")
      BY <1>12 DEF Rewrite
    <2>2. Altering(k)
      BY <1>12 DEF Rewrite, Altering, AtLock
    <2>3. \A j \in Keeper : pc[j] \notin Working
      BY <1>12, <2>1, <1>2 DEF Rewrite
    <2>4. Rightly(k)' /\ (pc'[k] \in Working => pid' = k)
      BY <1>12, <2>1, <1>2 DEF Rewrite
    <2> QED
      BY <2>1, <2>2, <2>3, <2>4, <1>3 DEF InOrder
  <1>13. ASSUME NEW k \in Keeper, Again(k) PROVE InOrder'
    <2>1. Goto(k, "take")
      BY <1>13 DEF Again
    <2> QED
      BY <1>13, <2>1, <1>2 DEF Again, InOrder
  <1>14. ASSUME NEW k \in Keeper, Check(k) PROVE InOrder'
    <2>1. PICK there \in Working : Goto(k, there)
      BY <1>14 DEF Check
    <2> QED
      BY <1>14, <2>1, <1>2 DEF Check, InOrder
  <1>15. ASSUME NEW k \in Keeper, Timeout(k) PROVE InOrder'
    <2>1. Goto(k, "reopen")
      BY <1>15 DEF Timeout
    <2> QED
      BY <1>15, <2>1, <1>2 DEF Timeout, InOrder
  <1>16. ASSUME NEW k \in Keeper, Reopen(k) PROVE InOrder'
    <2>1. Goto(k, "pause")
      BY <1>16 DEF Reopen
    <2> QED
      BY <1>16, <2>1, <1>2 DEF Reopen, InOrder
  <1>17. ASSUME NEW k \in Keeper, ReopenFails(k) PROVE InOrder'
    <2>1. Goto(k, "pause")
      BY <1>17 DEF ReopenFails
    <2> QED
      BY <1>17, <2>1, <1>2 DEF ReopenFails, InOrder
  <1>18. ASSUME NEW k \in Keeper, Hangup(k) PROVE InOrder'
    <2>1. Goto(k, "exit")
      BY <1>18 DEF Hangup
    <2> QED
      BY <1>18, <2>1, <1>2 DEF Hangup, InOrder
  <1>19. ASSUME NEW k \in Keeper, ExitTrap(k) PROVE InOrder'
    <2>1. Goto(k, IF pid = k THEN "exit-remove" ELSE "gone")
      BY <1>19 DEF ExitTrap
    <2> QED
      BY <1>19, <2>1, <1>2 DEF ExitTrap, InOrder
  <1>20. ASSUME NEW k \in Keeper, Killed(k) PROVE InOrder'
    <2>1. Goto(k, "gone")
      BY <1>20 DEF Killed
    <2> QED
      BY <1>20, <2>1, <1>2 DEF Killed, InOrder
  <1>21. CASE Breaks
    BY <1>21, <1>1 DEF Breaks
  <1>22. CASE UNCHANGED tunnelVars
    BY <1>22, <1>1 DEF tunnelVars
  <1> QED
    BY <1>4, <1>5, <1>6, <1>7, <1>8, <1>9, <1>10, <1>11, <1>12, <1>13,
       <1>14, <1>15, <1>16, <1>17, <1>18, <1>19, <1>20, <1>21, <1>22
    DEF TunnelNext, KeeperStep

LockInv == Named /\ (~raced => InOrder)

LEMMA LockStep ==
    TunnelTypeOK /\ LockInv /\ [TunnelNext]_tunnelVars => LockInv'
  <1> SUFFICES ASSUME TunnelTypeOK, LockInv, [TunnelNext]_tunnelVars, ~raced'
               PROVE  InOrder'
    BY NamedStep DEF LockInv
  <1>1. CASE \E k \in Keeper : Start(k) \/ KeeperStep(k) \/ Hangup(k) \/ Killed(k)
    <2>1. PICK k \in Keeper : \E there : Goto(k, there)
      BY <1>1 DEF Start, KeeperStep, Take, Write, Read, Judge, RemoveFile,
                  RemoveDir, Retake, Rewrite, Again, Check, Timeout, Reopen,
                  ReopenFails, ExitTrap, Hangup, Killed
    <2>2. ~raced /\ NoRace'
      BY <2>1 DEF Goto, NoRace
    <2> QED
      BY <2>2, OrderStep DEF LockInv
  <1>2. CASE Breaks \/ UNCHANGED tunnelVars
    <2>1. ~raced /\ UNCHANGED pc
      BY <1>2 DEF Breaks, tunnelVars
    <2>2. NoRace'
      BY <2>1 DEF LockInv, InOrder, NoRace, Altering, AtLock
    <2> QED
      BY <2>1, <2>2, OrderStep DEF LockInv
  <1> QED
    BY <1>1, <1>2 DEF TunnelNext

LEMMA WorkersAreRecorded == LockInv => OneWorksUnlessRaced
  BY DEF LockInv, InOrder, OneWorksUnlessRaced, OnlyOneWorks

LEMMA LockAlways == TunnelSpec => []LockInv
  <1>1. TunnelInit => LockInv
    BY OrderInit DEF LockInv
  <1> QED
    BY <1>1, TunnelTypeCorrect, LockStep, PTL DEF TunnelSpec

\* For as long as no keeper changed the lock while another one was looking at
\* it, at most one keeper is past take_lock, through starts, hang-ups, kills
\* and take-overs of a dead keeper's lock.
THEOREM OneWorks == TunnelSpec => []OneWorksUnlessRaced
  BY LockAlways, WorkersAreRecorded, PTL

\* After a race the lock need not be restored by anybody: once what the
\* keepers take for granted is true again, it stays true until the next race,
\* and meanwhile one works (take_lock of board_tunnel.sh).
THEOREM OrderIsKept == TunnelSpec => OrderLasts
  <1>1. TunnelTypeOK /\ Named /\ [TunnelNext]_tunnelVars
           => [InOrder /\ NoRace' => InOrder']_tunnelVars
    BY OrderStep
  <1>2. TunnelSpec => []Named
    BY OrderInit, NamedStep, TunnelTypeCorrect, PTL DEF TunnelSpec
  <1> QED
    BY <1>1, <1>2, TunnelTypeCorrect, PTL DEF TunnelSpec, OrderLasts
=============================================================================
