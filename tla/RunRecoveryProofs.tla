------------------------- MODULE RunRecoveryProofs --------------------------
(***************************************************************************)
(* Proofs about RunRecovery, for every set of runs, processes and pooled   *)
(* connections, whatever operators command and however often processes     *)
(* die.                                                                    *)
(***************************************************************************)
EXTENDS RunRecovery, TLAPS

\* The labels at which a cleaner occupies the connection that holds a lock.
Cleaning == {"mark", "unlock"}

Alive(r) == HostOf[r] \notin dead

-----------------------------------------------------------------------------
(* What a step does to the runs                                            *)

\* Every step of the specification is a step of one run, a command or a crash.
LEMMA NextCases ==
    ASSUME Next
    PROVE  \/ \E r \in Runs :
                \/ CreateRun(r) \/ RunStarts(r) \/ AcquireRunLock(r)
                \/ RunLockError(r) \/ ReclaimInterrupted(r)
                \/ SelectUnfinished(r)
                \/ \E q \in rows[r] : \E c \in Conns : TryLock(r, q, c)
                \/ MarkFailed(r) \/ Unlock(r) \/ RecoveryDone(r)
                \/ \E c \in Conns : Subscribe(r, c)
                \/ RegisterTask(r) \/ TaskAdvances(r) \/ WorkflowDone(r)
                \/ CompleteRun(r) \/ FailRun(r)
           \/ \E r \in Commanded : \E s \in Commands : Command(r, s)
           \/ \E p \in Procs : Crash(p)
           \/ UNCHANGED vars
  BY DEF Next, AllOver

LEMMA TypeInit == Init => TypeOK
  BY DEF Init, TypeOK, Pc

LEMMA TypeNext == TypeOK /\ [Next]_vars => TypeOK'
<1> SUFFICES ASSUME TypeOK, [Next]_vars PROVE TypeOK'
  OBVIOUS
<1> USE RunRecoveryAssumption
<1>1. ASSUME NEW r \in Runs, CreateRun(r) PROVE TypeOK'
  BY <1>1 DEF CreateRun, Step, TypeOK, cleaning, seen, Pc, RunState
<1>2. ASSUME NEW r \in Runs, RunStarts(r) PROVE TypeOK'
  BY <1>2 DEF RunStarts, Step, TypeOK, cleaning, seen, Pc, Working, RunState
<1>3. ASSUME NEW r \in Runs, AcquireRunLock(r) PROVE TypeOK'
  BY <1>3 DEF AcquireRunLock, Step, TypeOK, cleaning, seen, Pc
<1>4. ASSUME NEW r \in Runs, RunLockError(r) PROVE TypeOK'
  BY <1>4 DEF RunLockError, Step, TypeOK, cleaning, seen, Pc, Working
<1>5. ASSUME NEW r \in Runs, ReclaimInterrupted(r) PROVE TypeOK'
  BY <1>5 DEF ReclaimInterrupted, Step, TypeOK, cleaning, Pc, Crashed,
     ReclaimedStatus, TaskState
<1>6. ASSUME NEW r \in Runs, SelectUnfinished(r) PROVE TypeOK'
  BY <1>6 DEF SelectUnfinished, Step, TypeOK, Pc, Crashed
<1>7. ASSUME NEW r \in Runs, NEW q \in rows[r], NEW c \in Conns, TryLock(r, q, c)
      PROVE  TypeOK'
  <2>1. q \in Runs
    BY DEF TypeOK
  <2> QED
    BY <1>7, <2>1 DEF TryLock, Step, TypeOK, seen, Pc
<1>8. ASSUME NEW r \in Runs, MarkFailed(r) PROVE TypeOK'
  BY <1>8 DEF MarkFailed, Step, TypeOK, cleaning, seen, Pc, RunState
<1>9. ASSUME NEW r \in Runs, Unlock(r) PROVE TypeOK'
  BY <1>9 DEF Unlock, Step, TypeOK, seen, Pc
<1>10. ASSUME NEW r \in Runs, RecoveryDone(r) PROVE TypeOK'
  BY <1>10 DEF RecoveryDone, Step, TypeOK, cleaning, seen, Pc, Working
<1>11. ASSUME NEW r \in Runs, NEW c \in Conns, Subscribe(r, c) PROVE TypeOK'
  BY <1>11 DEF Subscribe, Step, TypeOK, seen, Pc, Working
<1>12. ASSUME NEW r \in Runs, RegisterTask(r) PROVE TypeOK'
  BY <1>12 DEF RegisterTask, Step, TypeOK, cleaning, seen, Pc, Working, TaskState
<1>13. ASSUME NEW r \in Runs, TaskAdvances(r) PROVE TypeOK'
  <2>1. Successor[state[r]] \in TaskState
    BY <1>13 DEF TaskAdvances, Successor, TaskState
  <2> QED
    BY <1>13, <2>1 DEF TaskAdvances, Step, TypeOK, cleaning, seen, Pc, Working
<1>14. ASSUME NEW r \in Runs, WorkflowDone(r) PROVE TypeOK'
  BY <1>14 DEF WorkflowDone, Step, TypeOK, seen, Pc, Working
<1>15. ASSUME NEW r \in Runs, CompleteRun(r) PROVE TypeOK'
  BY <1>15 DEF CompleteRun, Step, TypeOK, cleaning, seen, Pc, Working, RunState
<1>16. ASSUME NEW r \in Runs, FailRun(r) PROVE TypeOK'
  BY <1>16 DEF FailRun, Step, TypeOK, cleaning, seen, Pc, Working, RunState
<1>17. ASSUME NEW r \in Commanded, NEW s \in Commands, Command(r, s) PROVE TypeOK'
  <2>1. s \in RunState
    BY DEF RunState
  <2> QED
    BY <1>17, <2>1 DEF Command, TypeOK, cleaning, seen
<1>18. ASSUME NEW p \in Procs, Crash(p) PROVE TypeOK'
  BY <1>18 DEF Crash, TypeOK, seen
<1>19. CASE UNCHANGED vars
  BY <1>19 DEF TypeOK, vars, cleaning, seen
<1> QED
  BY <1>1, <1>2, <1>3, <1>4, <1>5, <1>6, <1>7, <1>8, <1>9, <1>10, <1>11, <1>12,
     <1>13, <1>14, <1>15, <1>16, <1>17, <1>18, <1>19, NextCases

\* Every variable of start_run and of the recovery keeps its type.
THEOREM RecoveryTypes == Spec => []TypeOK
  BY TypeInit, TypeNext, PTL DEF Spec

-----------------------------------------------------------------------------
(* The lock of a cleaner                                                   *)

\* A connection is given out to one coroutine at a time.
ConnsApart ==
    \A r, q \in Runs : (r # q /\ conn[r] # NoConn) => conn[r] # conn[q]

\* A live cleaner has a run in hand and a connection of its own process.
PreyInHand ==
    \A r \in Runs : (Alive(r) /\ pc[r] \in Cleaning) =>
        /\ prey[r] \in Runs
        /\ conn[r] \in Conns
        /\ PoolOf[conn[r]] = HostOf[r]

LockInv == TypeOK /\ ConnsApart /\ PreyInHand /\ CleanerHoldsLock

\* A step that leaves the locks, the connections and the prey alone, and moves no run
\* to or from the labels of a cleaner that holds a lock, keeps the invariant.
LEMMA LockInvKept ==
    ASSUME LockInv, TypeOK', UNCHANGED <<lock, conn, prey, dead>>,
           \A x \in Runs : pc'[x] \in Cleaning => pc[x] \in Cleaning
    PROVE  LockInv'
  BY DEF LockInv, ConnsApart, PreyInHand, CleanerHoldsLock, Alive, Cleaning

LEMMA LockInvNext == LockInv /\ [Next]_vars => LockInv'
<1> SUFFICES ASSUME LockInv, [Next]_vars PROVE LockInv'
  OBVIOUS
<1> USE RunRecoveryAssumption
<1>0. TypeOK /\ TypeOK'
  BY TypeNext DEF LockInv
<1>1. ASSUME NEW r \in Runs, CreateRun(r) \/ RunStarts(r) \/ AcquireRunLock(r)
             \/ RunLockError(r) \/ RecoveryDone(r) \/ CompleteRun(r) \/ FailRun(r)
      PROVE  LockInv'
  BY <1>0, <1>1, LockInvKept DEF CreateRun, RunStarts, AcquireRunLock, RunLockError,
     RecoveryDone, CompleteRun, FailRun, Step, cleaning, Cleaning, TypeOK
<1>2. ASSUME NEW r \in Runs, ReclaimInterrupted(r) \/ SelectUnfinished(r)
             \/ MarkFailed(r) \/ RegisterTask(r) \/ TaskAdvances(r)
      PROVE  LockInv'
  BY <1>0, <1>2, LockInvKept DEF ReclaimInterrupted, SelectUnfinished, MarkFailed,
     RegisterTask, TaskAdvances, Step, cleaning, Cleaning, TypeOK
<1>3. ASSUME NEW r \in Runs, NEW q \in rows[r], NEW c \in Conns, TryLock(r, q, c)
      PROVE  LockInv'
  <2>1. q \in Runs
    BY <1>0 DEF TypeOK
  <2>2. CASE lock[q] # NoConn
    <3>1. UNCHANGED <<lock, conn, prey, dead>>
      BY <1>3, <2>2 DEF TryLock
    <3>2. \A x \in Runs : pc'[x] = pc[x]
      BY <1>0, <1>3, <2>2 DEF TryLock, Step, TypeOK
    <3> QED
      BY <1>0, <3>1, <3>2, LockInvKept
  <2>3. CASE lock[q] = NoConn
    <3>1. /\ lock' = [lock EXCEPT ![q] = c]
          /\ conn' = [conn EXCEPT ![r] = c]
          /\ prey' = [prey EXCEPT ![r] = q]
          /\ pc' = [pc EXCEPT ![r] = "mark"]
          /\ dead' = dead
      BY <1>3, <2>3 DEF TryLock, Step
    <3>2. PoolOf[c] = HostOf[r] /\ \A x \in Runs : conn[x] # c
      BY <1>3 DEF TryLock, FreeConns
    <3>3. ConnsApart'
      BY <1>0, <3>1, <3>2 DEF LockInv, ConnsApart, TypeOK
    <3>4. PreyInHand'
      BY <1>0, <2>1, <3>1, <3>2 DEF LockInv, PreyInHand, Alive, Cleaning, TypeOK
    <3>5. CleanerHoldsLock'
      BY <1>0, <2>1, <2>3, <3>1, <3>2
         DEF LockInv, PreyInHand, CleanerHoldsLock, Alive, Cleaning, TypeOK
    <3> QED
      BY <1>0, <3>3, <3>4, <3>5 DEF LockInv
  <2> QED
    BY <2>2, <2>3
<1>4. ASSUME NEW r \in Runs, Unlock(r) PROVE LockInv'
  <2>1. /\ lock' = [lock EXCEPT ![prey[r]] = NoConn]
        /\ conn' = [conn EXCEPT ![r] = NoConn]
        /\ prey' = [prey EXCEPT ![r] = NoRun]
        /\ pc' = [pc EXCEPT ![r] = "clean"]
        /\ pc[r] = "unlock" /\ Alive(r)
        /\ dead' = dead
    BY <1>4 DEF Unlock, Step, Alive
  <2>2. ConnsApart'
    BY <1>0, <2>1 DEF LockInv, ConnsApart, TypeOK
  <2>3. PreyInHand'
    BY <1>0, <2>1 DEF LockInv, PreyInHand, Alive, Cleaning, TypeOK
  <2>4. ASSUME NEW x \in Runs, x # r, Alive(x), pc[x] \in Cleaning
        PROVE  prey[x] # prey[r]
    BY <1>0, <2>1, <2>4
       DEF LockInv, ConnsApart, PreyInHand, CleanerHoldsLock, Alive, Cleaning
  <2>5. CleanerHoldsLock'
    BY <1>0, <2>1, <2>4 DEF LockInv, CleanerHoldsLock, Alive, Cleaning, TypeOK
  <2> QED
    BY <1>0, <2>2, <2>3, <2>5 DEF LockInv
<1>5. ASSUME NEW r \in Runs, NEW c \in Conns, Subscribe(r, c) PROVE LockInv'
  <2>1. /\ UNCHANGED <<lock, prey, dead>>
        /\ conn' = conn \/ conn' = [conn EXCEPT ![r] = c]
        /\ pc[r] = "subscribe"
        /\ \E l \in {"register", "fail"} : pc' = [pc EXCEPT ![r] = l]
        /\ \A x \in Runs : conn[x] # c
    BY <1>5 DEF Subscribe, Step, FreeConns
  <2> QED
    BY <1>0, <2>1 DEF LockInv, ConnsApart, PreyInHand, CleanerHoldsLock, Alive,
       Cleaning, TypeOK
<1>6. ASSUME NEW r \in Runs, WorkflowDone(r) PROVE LockInv'
  <2>1. /\ UNCHANGED <<lock, prey, dead>>
        /\ conn' = [conn EXCEPT ![r] = NoConn]
        /\ pc[r] = "work" /\ pc' = [pc EXCEPT ![r] = "complete"]
    BY <1>6 DEF WorkflowDone, Step
  <2> QED
    BY <1>0, <2>1 DEF LockInv, ConnsApart, PreyInHand, CleanerHoldsLock, Alive,
       Cleaning, TypeOK
<1>7. ASSUME NEW r \in Commanded, NEW s \in Commands, Command(r, s) PROVE LockInv'
  BY <1>0, <1>7, LockInvKept DEF Command, cleaning
<1>8. ASSUME NEW p \in Procs, Crash(p) PROVE LockInv'
  <2>1. /\ dead' = dead \cup {p} /\ UNCHANGED <<pc, prey>>
        /\ \A x \in Runs :
              /\ lock'[x] = IF lock[x] # NoConn /\ PoolOf[lock[x]] = p THEN NoConn
                            ELSE lock[x]
              /\ conn'[x] = IF HostOf[x] = p THEN NoConn ELSE conn[x]
    BY <1>8 DEF Crash
  <2>2. ConnsApart'
    BY <1>0, <2>1 DEF LockInv, ConnsApart, TypeOK
  <2>3. PreyInHand'
    BY <1>0, <2>1 DEF LockInv, PreyInHand, Alive, TypeOK
  <2>4. CleanerHoldsLock'
    BY <1>0, <2>1 DEF LockInv, PreyInHand, CleanerHoldsLock, Alive, Cleaning, TypeOK
  <2> QED
    BY <1>0, <2>2, <2>3, <2>4 DEF LockInv
<1>9. CASE UNCHANGED vars
  BY <1>0, <1>9, LockInvKept DEF vars, cleaning
<1> QED
  BY <1>1, <1>2, <1>3, <1>4, <1>5, <1>6, <1>7, <1>8, <1>9, NextCases

LEMMA LockInvAlways == Spec => []LockInv
<1>1. Init => LockInv
  BY TypeInit DEF Init, LockInv, ConnsApart, PreyInHand, CleanerHoldsLock, Cleaning
<1> QED
  BY <1>1, LockInvNext, PTL DEF Spec

\* Between pg_try_advisory_lock and pg_advisory_unlock a live cleaner's own connection
\* holds the lock of the run it marks (clean_orphaned keeps the connection it acquired),
\* so two cleaners never mark one run at the same time.
THEOREM CleanersExclude == Spec => []CleanerHoldsLock
<1>1. LockInv => CleanerHoldsLock
  BY DEF LockInv
<1> QED
  BY <1>1, LockInvAlways, PTL

-----------------------------------------------------------------------------
(* What a recovery leaves                                                  *)

\* The runs a recovery saw dead stay dead, and their tasks stay reclaimed.
TasksInv ==
    /\ TypeOK
    /\ \A r \in Runs : \A q \in deadTasks[r] : HostOf[q] \in dead
    /\ DeadTasksReclaimed

LEMMA TasksInvNext == TasksInv /\ [Next]_vars => TasksInv'
<1> SUFFICES ASSUME TasksInv, [Next]_vars PROVE TasksInv'
  OBVIOUS
<1>0. TypeOK /\ TypeOK'
  BY TypeNext DEF TasksInv
<1>1. ASSUME UNCHANGED <<traced, deadTasks>>, dead \subseteq dead' PROVE TasksInv'
  BY <1>0, <1>1 DEF TasksInv, DeadTasksReclaimed
<1>2. ASSUME NEW r \in Runs, ReclaimInterrupted(r) PROVE TasksInv'
  <2>1. /\ deadTasks' = [deadTasks EXCEPT ![r] = Crashed] /\ dead' = dead
        /\ \A q \in Runs : traced'[q] = traced[q] \/ traced'[q] = "cancelled"
        /\ \A q \in Runs :
              traced'[q] \notin {"active", "prechecking", "postchecking"}
    BY <1>2 DEF ReclaimInterrupted, Interrupted, ReclaimedStatus
  <2> QED
    BY <1>0, <2>1 DEF TasksInv, DeadTasksReclaimed, Crashed, TypeOK
<1>3. ASSUME NEW r \in Runs, RegisterTask(r) \/ TaskAdvances(r) PROVE TasksInv'
  <2>1. /\ UNCHANGED <<deadTasks, dead>> /\ HostOf[r] \notin dead
        /\ \A q \in Runs : q # r => traced'[q] = traced[q]
    BY <1>0, <1>3 DEF RegisterTask, TaskAdvances, Step, seen, TypeOK
  <2> QED
    BY <1>0, <2>1 DEF TasksInv, DeadTasksReclaimed, TypeOK
<1>4. \/ UNCHANGED <<traced, deadTasks>> /\ dead \subseteq dead'
      \/ \E r \in Runs : ReclaimInterrupted(r) \/ RegisterTask(r) \/ TaskAdvances(r)
  BY NextCases DEF CreateRun, RunStarts, AcquireRunLock, RunLockError,
     SelectUnfinished, TryLock, MarkFailed, Unlock, RecoveryDone, Subscribe,
     WorkflowDone, CompleteRun, FailRun, Command, Crash, vars, seen
<1> QED
  BY <1>1, <1>2, <1>3, <1>4

\* A task that a crashed run left active or in its checks is cancelled by the next
\* recovery, and no step of any other run brings it back (reclaim_interrupted).
THEOREM InterruptedReclaimed == Spec => []DeadTasksReclaimed
<1>1. Init => TasksInv
  BY TypeInit DEF Init, TasksInv, DeadTasksReclaimed
<1>2. TasksInv => DeadTasksReclaimed
  BY DEF TasksInv
<1> QED
  BY <1>1, <1>2, TasksInvNext, PTL DEF Spec

\* Only runs that have a row are selected by a recovery and taken by a cleaner.
OnlyStarted ==
    /\ \A r \in Runs : pc[r] = "new" => status[r] = "none"
    /\ \A r, q \in Runs : pc[q] = "new" => q \notin rows[r] /\ prey[r] # q

\* What a cleaner has marked is failed, and stays failed.
MarkedFailed ==
    \A r \in Runs : pc[r] = "unlock" =>
        prey[r] \in Runs /\ status[prey[r]] = "failed"

\* A lock that is taken belongs to a live cleaner that is at the run.
LockHasCleaner ==
    \A q \in Runs : lock[q] # NoConn =>
        \E x \in Runs : /\ Alive(x) /\ pc[x] \in Cleaning
                        /\ prey[x] = q /\ conn[x] = lock[q]

\* A cleaner is about to mark q, or died when it was.
ToBeMarked(q) == \E x \in Runs : prey[x] = q /\ pc[x] = "mark"

\* q does not look alive any more, or a cleaner has it in hand.
Settled(q) == status[q] \notin Unfinished \/ ToBeMarked(q)

\* Of the runs that were dead when r selected its rows, each is still to be visited
\* by r or settled.
DeadVisited ==
    \A r \in Runs : \A q \in deadRuns[r] :
        /\ HostOf[q] \in dead
        /\ status[q] # "created"
        /\ pc[r] \in {"clean", "ended"} \cup Cleaning \cup Working
        /\ Alive(r) /\ pc[r] \in {"clean"} \cup Cleaning => q \in rows[r] \/ Settled(q)
        /\ pc[r] \in Working => Settled(q)

CleanInv ==
    LockInv /\ OnlyStarted /\ MarkedFailed /\ LockHasCleaner /\ DeadVisited

\* The tables lead nowhere from "failed", and to "running" and "paused" only from
\* each other and from "created".
LEMMA RunTable ==
    ASSUME NEW old, NEW new, ValidRunTransition(old, new)
    PROVE  old \in {"created"} \cup Unfinished /\ new # "created"
  BY DEF ValidRunTransition, RUN_TRANSITIONS, RUN_TERMINAL_STATES, Unfinished

\* What a step does to the status of a run.
LEMMA StatusStep ==
    ASSUME CleanInv, Next, NEW q \in Runs
    PROVE  \/ status'[q] = status[q]
           \/ pc[q] = "new" /\ Alive(q) /\ CreateRun(q)
           \/ /\ status[q] \in {"created"} \cup Unfinished
              /\ status'[q] # "created"
              /\ Alive(q) \/ UNCHANGED <<pc, prey>>
           \/ \E r \in Runs : MarkFailed(r) /\ prey[r] = q /\ status'[q] = "failed"
<1> USE RunRecoveryAssumption
<1>0. TypeOK
  BY DEF CleanInv, LockInv
<1>1. ASSUME NEW r \in Runs, CreateRun(r)
      PROVE  \/ status'[q] = status[q]
             \/ pc[q] = "new" /\ Alive(q) /\ CreateRun(q)
  BY <1>0, <1>1 DEF CreateRun, Step, Alive, TypeOK
<1>2. ASSUME NEW r \in Runs, RunStarts(r) \/ CompleteRun(r) \/ FailRun(r)
      PROVE  \/ status'[q] = status[q]
             \/ /\ status[q] \in {"created"} \cup Unfinished
                /\ status'[q] # "created" /\ Alive(q)
  BY <1>0, <1>2, RunTable DEF RunStarts, CompleteRun, FailRun, Step, Alive, TypeOK
<1>3. ASSUME NEW r \in Runs, MarkFailed(r)
      PROVE  \/ status'[q] = status[q]
             \/ prey[r] = q /\ status'[q] = "failed"
  BY <1>0, <1>3 DEF MarkFailed, TypeOK
<1>4. ASSUME NEW r \in Commanded, NEW s \in Commands, Command(r, s)
      PROVE  \/ status'[q] = status[q]
             \/ /\ status[q] \in {"created"} \cup Unfinished
                /\ status'[q] # "created" /\ UNCHANGED <<pc, prey>>
  BY <1>0, <1>4, RunTable DEF Command, cleaning, TypeOK
<1>5. \/ UNCHANGED status
      \/ \E r \in Runs : CreateRun(r) \/ RunStarts(r) \/ CompleteRun(r) \/ FailRun(r)
                         \/ MarkFailed(r)
      \/ \E r \in Commanded : \E s \in Commands : Command(r, s)
  BY NextCases DEF AcquireRunLock, RunLockError, ReclaimInterrupted, SelectUnfinished,
     TryLock, Unlock, RecoveryDone, Subscribe, RegisterTask, TaskAdvances,
     WorkflowDone, Crash, vars
<1> QED
  BY <1>1, <1>2, <1>3, <1>4, <1>5

\* A step of another run, a command or a crash: x stays where it is.
StaysPut(x) ==
    /\ pc'[x] = pc[x] /\ prey'[x] = prey[x]
    /\ rows'[x] = rows[x] \/ (rows'[x] = {} /\ HostOf[x] \in dead')

\* A step of x before its recovery, or after it.
MovesOn(x) ==
    /\ pc[x] \notin {"select", "clean"} \cup Cleaning
    /\ pc'[x] \notin {"new", "clean"} \cup Cleaning
    /\ pc'[x] \in Working => pc[x] \in {"created", "lock"} \cup Working
    /\ prey'[x] = prey[x] /\ rows'[x] = rows[x]

\* What a step does to the label, the rows and the prey of a run.
LEMMA CleanerStep ==
    ASSUME CleanInv, Next, NEW x \in Runs
    PROVE  \/ StaysPut(x)
           \/ MovesOn(x)
           \/ SelectUnfinished(x)
           \/ \E q \in rows[x] : \E c \in Conns : TryLock(x, q, c)
           \/ MarkFailed(x)
           \/ Unlock(x)
           \/ RecoveryDone(x)
<1> USE RunRecoveryAssumption
<1>0. TypeOK
  BY DEF CleanInv, LockInv
<1>1. ASSUME NEW r \in Runs, CreateRun(r) \/ RunStarts(r) \/ AcquireRunLock(r)
             \/ RunLockError(r) \/ ReclaimInterrupted(r)
      PROVE  StaysPut(x) \/ MovesOn(x)
  BY <1>0, <1>1 DEF CreateRun, RunStarts, AcquireRunLock, RunLockError,
     ReclaimInterrupted, Step, cleaning, Cleaning, Working, TypeOK,
     StaysPut, MovesOn
<1>2. ASSUME NEW r \in Runs, (\E c \in Conns : Subscribe(r, c)) \/ RegisterTask(r)
             \/ TaskAdvances(r) \/ WorkflowDone(r) \/ CompleteRun(r) \/ FailRun(r)
      PROVE  StaysPut(x) \/ MovesOn(x)
  BY <1>0, <1>2 DEF Subscribe, RegisterTask, TaskAdvances, WorkflowDone, CompleteRun,
     FailRun, Step, cleaning, Cleaning, Working, TypeOK,
     StaysPut, MovesOn
<1>3. ASSUME NEW r \in Runs, r # x,
             \/ SelectUnfinished(r) \/ MarkFailed(r) \/ Unlock(r) \/ RecoveryDone(r)
             \/ \E q \in rows[r] : \E c \in Conns : TryLock(r, q, c)
      PROVE  StaysPut(x)
  BY <1>0, <1>3 DEF SelectUnfinished, MarkFailed, Unlock, RecoveryDone, TryLock, Step,
     cleaning, TypeOK, StaysPut
<1>4. ASSUME \/ UNCHANGED vars \/ \E p \in Procs : Crash(p)
             \/ \E r \in Commanded : \E s \in Commands : Command(r, s)
      PROVE  StaysPut(x)
  BY <1>0, <1>4 DEF Command, Crash, vars, cleaning, TypeOK, StaysPut
<1> QED
  BY <1>1, <1>2, <1>3, <1>4, NextCases

LEMMA OnlyStartedNext ==
    ASSUME CleanInv, Next
    PROVE  OnlyStarted'
<1>0. TypeOK /\ TypeOK' /\ OnlyStarted
  BY TypeNext DEF CleanInv, LockInv
<1>1. ASSUME NEW q \in Runs, pc'[q] = "new" PROVE pc[q] = "new" /\ status'[q] = "none"
  <2>0. ~(SelectUnfinished(q) \/ MarkFailed(q) \/ Unlock(q) \/ RecoveryDone(q)
          \/ \E y \in rows[q] : \E c \in Conns : TryLock(q, y, c))
    BY <1>0, <1>1 DEF SelectUnfinished, TryLock, MarkFailed, Unlock, RecoveryDone,
       Step, TypeOK
  <2>1. pc[q] = "new"
    BY <1>1, <2>0, CleanerStep DEF StaysPut, MovesOn
  <2>2. status[q] = "none" /\ \A r \in Runs : prey[r] # q
    BY <1>0, <2>1 DEF OnlyStarted
  <2>3. ~CreateRun(q)
    BY <1>0, <1>1 DEF CreateRun, Step, TypeOK
  <2> QED
    BY <2>1, <2>2, <2>3, StatusStep DEF Unfinished
<1>2. ASSUME NEW q \in Runs, pc'[q] = "new", NEW r \in Runs
      PROVE  q \notin rows'[r] /\ prey'[r] # q
  <2>1. pc[q] = "new" /\ status[q] = "none" /\ q \notin rows[r] /\ prey[r] # q
    BY <1>0, <1>1, <1>2 DEF OnlyStarted
  <2>2. CASE SelectUnfinished(r)
    BY <1>0, <2>1, <2>2 DEF SelectUnfinished, Unfinished, TypeOK
  <2>3. ASSUME NEW y \in rows[r], NEW c \in Conns, TryLock(r, y, c)
        PROVE  q \notin rows'[r] /\ prey'[r] # q
    BY <1>0, <2>1, <2>3 DEF TryLock, TypeOK
  <2>4. CASE MarkFailed(r) \/ RecoveryDone(r)
    BY <2>1, <2>4 DEF MarkFailed, RecoveryDone, cleaning
  <2>5. CASE Unlock(r)
    BY <1>0, <2>1, <2>5, RunRecoveryAssumption DEF Unlock, TypeOK
  <2> QED
    BY <2>1, <2>2, <2>3, <2>4, <2>5, CleanerStep DEF StaysPut, MovesOn
<1> QED
  BY <1>1, <1>2 DEF OnlyStarted

LEMMA MarkedFailedNext ==
    ASSUME CleanInv, Next
    PROVE  MarkedFailed'
<1>0. TypeOK /\ TypeOK' /\ LockInv
  BY TypeNext DEF CleanInv, LockInv
<1> SUFFICES ASSUME NEW r \in Runs, pc'[r] = "unlock"
             PROVE  prey'[r] \in Runs /\ status'[prey'[r]] = "failed"
  BY DEF MarkedFailed
<1>1. CASE MarkFailed(r)
  <2>1. prey[r] \in Runs /\ prey' = prey
    BY <1>0, <1>1 DEF MarkFailed, Step, LockInv, PreyInHand, Alive, Cleaning, cleaning
  <2> QED
    BY <1>0, <1>1, <2>1 DEF MarkFailed, TypeOK
<1>2. CASE ~MarkFailed(r)
  <2>0. ~(SelectUnfinished(r) \/ Unlock(r) \/ RecoveryDone(r)
          \/ \E y \in rows[r] : \E c \in Conns : TryLock(r, y, c))
    BY <1>0 DEF SelectUnfinished, TryLock, Unlock, RecoveryDone, Step, TypeOK
  <2>1. pc[r] = "unlock" /\ prey'[r] = prey[r]
    BY <1>2, <2>0, CleanerStep DEF StaysPut, MovesOn, Cleaning
  <2>2. prey[r] \in Runs /\ status[prey[r]] = "failed" /\ pc[prey[r]] # "new"
    BY <2>1 DEF CleanInv, MarkedFailed, OnlyStarted
  <2> QED
    BY <2>1, <2>2, StatusStep DEF Unfinished
<1> QED
  BY <1>1, <1>2

LEMMA LockHasCleanerNext ==
    ASSUME CleanInv, Next
    PROVE  LockHasCleaner'
<1> USE RunRecoveryAssumption
<1>0. TypeOK /\ TypeOK' /\ LockInv /\ LockHasCleaner
  BY TypeNext DEF CleanInv, LockInv
<1>1. ASSUME NEW r \in Runs, NEW y \in rows[r], NEW c \in Conns, TryLock(r, y, c)
      PROVE  LockHasCleaner'
  <2>1. y \in Runs
    BY <1>0 DEF TypeOK
  <2>2. CASE lock[y] # NoConn
    <3>1. UNCHANGED <<lock, conn, prey, dead>> /\ \A x \in Runs : pc'[x] = pc[x]
      BY <1>0, <1>1, <2>2 DEF TryLock, Step, TypeOK
    <3> QED
      BY <1>0, <3>1 DEF LockHasCleaner, Alive
  <2>3. CASE lock[y] = NoConn
    <3>1. /\ lock' = [lock EXCEPT ![y] = c]
          /\ conn' = [conn EXCEPT ![r] = c]
          /\ prey' = [prey EXCEPT ![r] = y]
          /\ pc[r] = "clean" /\ Alive(r) /\ pc' = [pc EXCEPT ![r] = "mark"]
          /\ dead' = dead
      BY <1>1, <2>3 DEF TryLock, Step, Alive
    <3>2. ASSUME NEW q \in Runs, q # y, lock[q] # NoConn,
                 NEW x \in Runs, Alive(x), pc[x] \in Cleaning, prey[x] = q,
                 conn[x] = lock[q]
          PROVE  Alive(x)' /\ pc'[x] \in Cleaning /\ prey'[x] = q /\ conn'[x] = lock'[q]
      BY <1>0, <3>1, <3>2 DEF Alive, Cleaning, TypeOK
    <3>3. Alive(r)' /\ pc'[r] \in Cleaning /\ prey'[r] = y /\ conn'[r] = lock'[y]
      BY <1>0, <2>1, <3>1 DEF Alive, Cleaning, TypeOK
    <3>4. \A q \in Runs : q # y => lock'[q] = lock[q]
      BY <1>0, <3>1 DEF TypeOK
    <3> QED
      BY <1>0, <3>2, <3>3, <3>4 DEF LockHasCleaner
  <2> QED
    BY <2>2, <2>3
<1>2. ASSUME NEW r \in Runs, Unlock(r) PROVE LockHasCleaner'
  <2>1. /\ lock' = [lock EXCEPT ![prey[r]] = NoConn]
        /\ conn' = [conn EXCEPT ![r] = NoConn]
        /\ prey' = [prey EXCEPT ![r] = NoRun]
        /\ pc' = [pc EXCEPT ![r] = "clean"]
        /\ pc[r] = "unlock" /\ dead' = dead
    BY <1>2 DEF Unlock, Step
  <2> QED
    BY <1>0, <2>1 DEF LockHasCleaner, Alive, TypeOK
<1>3. ASSUME NEW p \in Procs, Crash(p) PROVE LockHasCleaner'
  <2>1. /\ dead' = dead \cup {p} /\ UNCHANGED <<pc, prey>>
        /\ \A x \in Runs :
              /\ lock'[x] = IF lock[x] # NoConn /\ PoolOf[lock[x]] = p THEN NoConn
                            ELSE lock[x]
              /\ conn'[x] = IF HostOf[x] = p THEN NoConn ELSE conn[x]
    BY <1>3 DEF Crash
  <2> SUFFICES ASSUME NEW q \in Runs, lock'[q] # NoConn
               PROVE  \E x \in Runs : /\ Alive(x)' /\ pc'[x] \in Cleaning
                                      /\ prey'[x] = q /\ conn'[x] = lock'[q]
    BY DEF LockHasCleaner
  <2>2. lock[q] # NoConn /\ PoolOf[lock[q]] # p /\ lock'[q] = lock[q]
    BY <2>1
  <2>3. PICK x \in Runs : /\ Alive(x) /\ pc[x] \in Cleaning
                          /\ prey[x] = q /\ conn[x] = lock[q]
    BY <1>0, <2>2 DEF LockHasCleaner
  <2>4. HostOf[x] # p
    BY <1>0, <2>2, <2>3 DEF LockInv, PreyInHand
  <2> QED
    BY <2>1, <2>2, <2>3, <2>4 DEF Alive
<1>4. ASSUME NEW r \in Runs, MarkFailed(r) PROVE LockHasCleaner'
  <2>1. /\ UNCHANGED <<lock, conn, prey, dead>>
        /\ \A x \in Runs : pc[x] \in Cleaning => pc'[x] \in Cleaning
    BY <1>0, <1>4 DEF MarkFailed, Step, cleaning, Cleaning, TypeOK
  <2> QED
    BY <1>0, <2>1 DEF LockHasCleaner, Alive
<1>5. ASSUME UNCHANGED <<lock, prey, dead>>,
             \A x \in Runs : pc[x] \in Cleaning =>
                pc'[x] \in Cleaning /\ conn'[x] = conn[x]
      PROVE  LockHasCleaner'
  BY <1>0, <1>5 DEF LockHasCleaner, Alive
<1>6. ASSUME NEW r \in Runs, CreateRun(r) \/ RunStarts(r) \/ AcquireRunLock(r)
             \/ RunLockError(r) \/ RecoveryDone(r) \/ CompleteRun(r) \/ FailRun(r)
             \/ ReclaimInterrupted(r) \/ SelectUnfinished(r) \/ RegisterTask(r)
             \/ TaskAdvances(r) \/ WorkflowDone(r) \/ \E c \in Conns : Subscribe(r, c)
      PROVE  LockHasCleaner'
  <2>1. pc[r] \notin Cleaning
    BY <1>6 DEF CreateRun, RunStarts, AcquireRunLock, RunLockError, RecoveryDone,
       CompleteRun, FailRun, ReclaimInterrupted, SelectUnfinished, RegisterTask,
       TaskAdvances, WorkflowDone, Subscribe, Step, Cleaning
  <2>2. /\ UNCHANGED <<lock, prey, dead>>
        /\ \A x \in Runs : x # r => pc'[x] = pc[x] /\ conn'[x] = conn[x]
    BY <1>0, <1>6 DEF CreateRun, RunStarts, AcquireRunLock, RunLockError, RecoveryDone,
       CompleteRun, FailRun, ReclaimInterrupted, SelectUnfinished, RegisterTask,
       TaskAdvances, WorkflowDone, Subscribe, Step, cleaning, TypeOK
  <2> QED
    BY <1>5, <2>1, <2>2
<1>7. ASSUME UNCHANGED vars \/ \E r \in Commanded : \E s \in Commands : Command(r, s)
      PROVE  LockHasCleaner'
  BY <1>5, <1>7 DEF vars, cleaning, Command
<1> QED
  BY <1>1, <1>2, <1>3, <1>4, <1>6, <1>7, NextCases

\* A run that is dead and was started never looks alive again once it is settled.
LEMMA SettledKept ==
    ASSUME CleanInv, Next, NEW q \in Runs, HostOf[q] \in dead, status[q] # "created"
    PROVE  /\ HostOf[q] \in dead'
           /\ status'[q] # "created"
           /\ Settled(q) => Settled(q)'
<1>0. TypeOK
  BY DEF CleanInv, LockInv
<1>1. HostOf[q] \in dead'
  BY NextCases DEF CreateRun, RunStarts, AcquireRunLock, RunLockError, RecoveryDone,
     CompleteRun, FailRun, ReclaimInterrupted, SelectUnfinished, RegisterTask,
     TaskAdvances, WorkflowDone, Subscribe, TryLock, MarkFailed, Unlock, Command, Crash,
     vars
<1>2. \/ status'[q] = status[q]
      \/ status[q] \in Unfinished /\ status'[q] # "created" /\ UNCHANGED <<pc, prey>>
      \/ status'[q] = "failed"
  BY StatusStep DEF Alive
<1>3. ASSUME ToBeMarked(q) PROVE Settled(q)'
  <2>1. PICK x \in Runs : prey[x] = q /\ pc[x] = "mark"
    BY <1>3 DEF ToBeMarked
  <2>2. ~(SelectUnfinished(x) \/ Unlock(x) \/ RecoveryDone(x) \/ MovesOn(x)
          \/ \E y \in rows[x] : \E c \in Conns : TryLock(x, y, c))
    BY <2>1 DEF SelectUnfinished, TryLock, Unlock, RecoveryDone, Step, MovesOn, Cleaning
  <2>3. CASE MarkFailed(x)
    BY <1>0, <2>1, <2>3 DEF MarkFailed, Settled, Unfinished, TypeOK
  <2>4. CASE StaysPut(x)
    BY <2>1, <2>4 DEF StaysPut, Settled, ToBeMarked
  <2> QED
    BY <2>2, <2>3, <2>4, CleanerStep
<1>4. ASSUME status[q] \notin Unfinished PROVE status'[q] \notin Unfinished
  BY <1>2, <1>4 DEF Unfinished
<1> QED
  BY <1>1, <1>2, <1>3, <1>4 DEF Settled

\* A row whose lock is taken is settled.
LEMMA LockedIsSettled ==
    ASSUME CleanInv, NEW q \in Runs, lock[q] # NoConn
    PROVE  Settled(q)
<1>1. PICK x \in Runs : pc[x] \in Cleaning /\ prey[x] = q
  BY DEF CleanInv, LockHasCleaner
<1> QED
  BY <1>1 DEF CleanInv, MarkedFailed, Settled, ToBeMarked, Cleaning, Unfinished

LEMMA DeadVisitedNext ==
    ASSUME CleanInv, Next
    PROVE  DeadVisited'
<1>0. TypeOK /\ TypeOK' /\ DeadVisited
  BY TypeNext DEF CleanInv, LockInv
<1> SUFFICES ASSUME NEW r \in Runs, NEW q \in deadRuns'[r]
             PROVE  /\ HostOf[q] \in dead'
                    /\ status'[q] # "created"
                    /\ pc'[r] \in {"clean", "ended"} \cup Cleaning \cup Working
                    /\ Alive(r)' /\ pc'[r] \in {"clean"} \cup Cleaning
                         => q \in rows'[r] \/ Settled(q)'
                    /\ pc'[r] \in Working => Settled(q)'
  BY DEF DeadVisited
<1>1. q \in Runs
  BY <1>0 DEF TypeOK
<1>2. CASE SelectUnfinished(r)
  BY <1>0, <1>1, <1>2 DEF SelectUnfinished, Step, Crashed, Alive, Settled, Working,
     Cleaning, TypeOK
<1>3. CASE ~SelectUnfinished(r)
  <2>1. deadRuns'[r] = deadRuns[r]
    BY <1>0, <1>3, NextCases DEF CreateRun, RunStarts, AcquireRunLock, RunLockError,
       RecoveryDone, CompleteRun, FailRun, ReclaimInterrupted, SelectUnfinished,
       RegisterTask, TaskAdvances, WorkflowDone, Subscribe, TryLock, MarkFailed, Unlock,
       Command, Crash, vars, seen, TypeOK
  <2>2. /\ HostOf[q] \in dead
        /\ status[q] # "created"
        /\ pc[r] \in {"clean", "ended"} \cup Cleaning \cup Working
        /\ Alive(r) /\ pc[r] \in {"clean"} \cup Cleaning => q \in rows[r] \/ Settled(q)
        /\ pc[r] \in Working => Settled(q)
    BY <1>0, <2>1 DEF DeadVisited
  <2>3. /\ HostOf[q] \in dead'
        /\ status'[q] # "created"
        /\ Settled(q) => Settled(q)'
    BY <1>1, <2>2, SettledKept
  <2>4. Alive(r)' => Alive(r)
    BY NextCases DEF CreateRun, RunStarts, AcquireRunLock, RunLockError, RecoveryDone,
       CompleteRun, FailRun, ReclaimInterrupted, SelectUnfinished, RegisterTask,
       TaskAdvances, WorkflowDone, Subscribe, TryLock, MarkFailed, Unlock, Command,
       Crash, vars, Alive
  <2>5. CASE StaysPut(r)
    BY <2>2, <2>3, <2>4, <2>5 DEF StaysPut, Alive
  <2>6. CASE MovesOn(r)
    <3>1. pc[r] \in Working \cup {"ended"}
      BY <2>2, <2>6 DEF MovesOn
    <3>2. pc'[r] \in Working \cup {"ended"}
      BY <1>0, <2>6, <3>1, NextCases DEF CreateRun, RunStarts, AcquireRunLock,
         RunLockError, RecoveryDone, CompleteRun, FailRun, ReclaimInterrupted,
         SelectUnfinished, RegisterTask, TaskAdvances, WorkflowDone, Subscribe, TryLock,
         MarkFailed, Unlock, Command, Crash, vars, Step, Working, TypeOK
    <3> QED
      BY <2>2, <2>3, <2>6, <3>1, <3>2 DEF MovesOn, Working
  <2>7. ASSUME NEW y \in rows[r], NEW c \in Conns, TryLock(r, y, c)
        PROVE  /\ pc'[r] \in {"clean"} \cup Cleaning
               /\ q \in rows'[r] \/ Settled(q)'
    <3>1. /\ pc[r] = "clean" /\ Alive(r) /\ pc'[r] \in {"clean", "mark"}
          /\ rows'[r] = rows[r] \ {y}
          /\ lock[y] = NoConn => prey'[r] = y /\ pc'[r] = "mark"
      BY <1>0, <2>7 DEF TryLock, Step, Alive, TypeOK
    <3>2. q = y => Settled(q)'
      BY <1>1, <2>3, <3>1, LockedIsSettled DEF Settled, ToBeMarked
    <3> QED
      BY <2>2, <2>3, <3>1, <3>2 DEF Cleaning
  <2>8. CASE MarkFailed(r) \/ Unlock(r)
    <3>1. /\ pc[r] \in Cleaning /\ Alive(r) /\ pc'[r] \in {"clean", "unlock"}
          /\ rows'[r] = rows[r]
      BY <1>0, <2>8 DEF MarkFailed, Unlock, Step, Alive, cleaning, Cleaning, TypeOK
    <3> QED
      BY <2>2, <2>3, <3>1 DEF Cleaning, Working
  <2>9. CASE RecoveryDone(r)
    <3>1. /\ pc[r] = "clean" /\ Alive(r) /\ pc'[r] = "subscribe"
          /\ rows[r] = {}
      BY <1>0, <2>9 DEF RecoveryDone, Step, Alive, TypeOK
    <3> QED
      BY <2>2, <2>3, <3>1 DEF Cleaning, Working
  <2> QED
    BY <1>3, <2>3, <2>5, <2>6, <2>7, <2>8, <2>9, CleanerStep DEF Cleaning, Working
<1> QED
  BY <1>2, <1>3

LEMMA CleanInvAlways == Spec => []CleanInv
<1>1. Init => CleanInv
  <2> SUFFICES ASSUME Init PROVE CleanInv
    OBVIOUS
  <2>1. LockInv
    BY TypeInit DEF Init, LockInv, ConnsApart, PreyInHand, CleanerHoldsLock, Cleaning
  <2> QED
    BY <2>1, RunRecoveryAssumption DEF Init, CleanInv, OnlyStarted, MarkedFailed,
       LockHasCleaner, DeadVisited
<1>2. CleanInv /\ [Next]_vars => CleanInv'
  <2> SUFFICES ASSUME CleanInv, [Next]_vars PROVE CleanInv'
    OBVIOUS
  <2>1. CASE Next
    BY <2>1, LockInvNext, OnlyStartedNext, MarkedFailedNext, LockHasCleanerNext,
       DeadVisitedNext DEF CleanInv
  <2>2. CASE UNCHANGED vars
    <3>1. LockInv'
      BY LockInvNext DEF CleanInv
    <3> QED
      BY <2>2, <3>1 DEF CleanInv, OnlyStarted, MarkedFailed, LockHasCleaner, DeadVisited,
         Settled, ToBeMarked, Alive, vars, cleaning, seen
  <2> QED
    BY <2>1, <2>2
<1> QED
  BY <1>1, <1>2, PTL DEF Spec

\* What had crashed before a recovery began is settled by it: no interrupted task is
\* left, and no run that still looks alive, except one that another cleaner has in hand
\* or died over (reclaim_interrupted, clean_orphaned).
THEOREM CrashedReclaimed == Spec => []DeadReclaimed
<1>1. CleanInv /\ DeadTasksReclaimed => DeadReclaimed
  BY DEF CleanInv, LockInv, DeadVisited, Settled, ToBeMarked, Unfinished,
     DeadRunsCleaned, DeadReclaimed
<1> QED
  BY <1>1, CleanInvAlways, InterruptedReclaimed, PTL
=============================================================================
