---------------------------- MODULE RunRecovery -----------------------------
(***************************************************************************)
(* Runs in the trace store: start_run from the row it creates to the final *)
(* status, the three passes of crash recovery that every run makes over    *)
(* the rows of ALL runs before it works, the run lock, the commands        *)
(* `run abort`, `run pause` and `run resume` of other processes, and       *)
(* processes that die.                                                     *)
(*                                                                         *)
(* A run has one agent task here.  The lock is a session-scoped PostgreSQL *)
(* advisory lock: it belongs to a connection, and the connection's end     *)
(* releases it.  A process takes its connections from an asyncpg pool,     *)
(* which resets a connection that comes back: its locks are dropped.       *)
(***************************************************************************)
EXTENDS TaskStates, Naturals, FiniteSets

CONSTANTS
    Runs,
    Procs,       \* processes; a run is started in one of them
    HostOf,      \* the process that executes a run
    Conns,       \* pooled connections
    PoolOf,      \* the process whose pool holds a connection
    NoConn,
    NoRun,
    Commands,    \* statuses that operators request with `run ...`
    Commanded,   \* bound: the runs they request them of
    MaxCrash     \* bound: processes that die

ASSUME RunRecoveryAssumption ==
    /\ HostOf \in [Runs -> Procs]
    /\ PoolOf \in [Conns -> Procs]
    /\ NoConn \notin Conns
    /\ NoRun \notin Runs
    /\ Commands \subseteq {"aborted", "paused", "running"}
    /\ Commanded \subseteq Runs
    /\ MaxCrash \in Nat

VARIABLES
    status,      \* runs.status; "none": no row
    traced,      \* tasks.status of the run's task; "none": no row
    state,       \* the scheduler's _task_states entry for it
    lock,        \* connection that holds the run lock, or NoConn
    pc,
    rows,        \* clean_orphaned: selected runs not visited yet
    conn,        \* the connection clean_orphaned or the listener occupies
    prey,        \* clean_orphaned: the run whose lock was just taken
    dead,        \* processes that died
    deadTasks,   \* observation: runs dead when a recovery reclaimed tasks
    deadRuns     \* observation: runs started and dead when it selected rows

cleaning == <<rows, conn, prey>>
seen == <<deadTasks, deadRuns>>
vars == <<status, traced, state, lock, pc, cleaning, dead, seen>>

Working == {"subscribe", "register", "work", "complete", "fail"}
Pc == {"new", "created", "lock", "reclaim", "select", "clean", "mark",
       "unlock", "ended"} \cup Working

\* Connections the pool of r's process has to give.
FreeConns(r) ==
    {c \in Conns : PoolOf[c] = HostOf[r] /\ \A q \in Runs : conn[q] # c}

\* The runs whose process died under them.
Crashed == {r \in Runs : HostOf[r] \in dead /\ pc[r] \notin {"new", "ended"}}

\* The statuses an agent task goes through when nothing fails.
Successor == [s \in {"created", "prechecking", "active", "postchecking"} |->
                CASE s = "created" -> "prechecking"
                  [] s = "prechecking" -> "active"
                  [] s = "active" -> "postchecking"
                  [] s = "postchecking" -> "completed"]

Init ==
    /\ status = [r \in Runs |-> "none"]
    /\ traced = [r \in Runs |-> "none"]
    /\ state = [r \in Runs |-> "none"]
    /\ lock = [r \in Runs |-> NoConn]
    /\ pc = [r \in Runs |-> "new"]
    /\ rows = [r \in Runs |-> {}]
    /\ conn = [r \in Runs |-> NoConn]
    /\ prey = [r \in Runs |-> NoRun]
    /\ dead = {}
    /\ deadTasks = [r \in Runs |-> {}]
    /\ deadRuns = [r \in Runs |-> {}]

\* The coroutine of start_run for r runs from label l to label m.
Step(r, l, m) ==
    /\ HostOf[r] \notin dead
    /\ pc[r] = l
    /\ pc' = [pc EXCEPT ![r] = m]

-----------------------------------------------------------------------------
(* start_run and execute_workflow                                          *)

\* create_run.
CreateRun(r) ==
    /\ Step(r, "new", "created")
    /\ status' = [status EXCEPT ![r] = "created"]
    /\ UNCHANGED <<traced, state, lock, cleaning, dead, seen>>

\* transition_run "running"; refused when an operator's `run resume` was
\* faster, it goes to the except clause.
RunStarts(r) ==
    /\ \/ /\ ValidRunTransition(status[r], "running")
          /\ Step(r, "created", "lock")
          /\ status' = [status EXCEPT ![r] = "running"]
       \/ /\ ~ValidRunTransition(status[r], "running")
          /\ Step(r, "created", "fail")
          /\ UNCHANGED status
    /\ UNCHANGED <<traced, state, lock, cleaning, dead, seen>>

\* acquire_run_lock: pool.fetchval takes the lock on some connection, and
\* gives it up with the connection, which goes straight back to the pool.
AcquireRunLock(r) ==
    /\ Step(r, "lock", "reclaim")
    /\ lock[r] = NoConn
    /\ FreeConns(r) # {}
    /\ UNCHANGED <<status, traced, state, lock, cleaning, dead, seen>>

\* A cleaner holds the lock: RunLockError.
RunLockError(r) ==
    /\ Step(r, "lock", "fail")
    /\ lock[r] # NoConn
    /\ FreeConns(r) # {}
    /\ UNCHANGED <<status, traced, state, lock, cleaning, dead, seen>>

\* Mutant: only tasks whose agent was at work are looked for.
OnlyActive == {"active"}

\* The statuses reclaim_interrupted selects, in every run.
Interrupted == {"active", "prechecking", "postchecking"}

\* The status an interrupted task gets.
ReclaimedStatus == "cancelled"

\* reclaim_interrupted, one transaction; reevaluate_blocked only reads.
ReclaimInterrupted(r) ==
    /\ Step(r, "reclaim", "select")
    /\ traced' = [q \in Runs |->
                    IF traced[q] \in Interrupted THEN ReclaimedStatus
                    ELSE traced[q]]
    /\ deadTasks' = [deadTasks EXCEPT ![r] = Crashed]
    /\ UNCHANGED <<status, state, lock, cleaning, dead, deadRuns>>

\* The statuses clean_orphaned selects.
Unfinished == {"running", "paused"}

\* The SELECT of clean_orphaned.
SelectUnfinished(r) ==
    /\ Step(r, "select", "clean")
    /\ rows' = [rows EXCEPT ![r] = {q \in Runs : status[q] \in Unfinished}]
    /\ deadRuns' = [deadRuns EXCEPT ![r] = {q \in Crashed : status[q] # "created"}]
    /\ UNCHANGED <<status, traced, state, lock, conn, prey, dead,
                   deadTasks>>

\* Mutant: the answer of pg_try_advisory_lock is not looked at.
TryLockBlindly(r, q, c) ==
    /\ c \in FreeConns(r)
    /\ rows' = [rows EXCEPT ![r] = @ \ {q}]
    /\ Step(r, "clean", "mark")
    /\ lock' = IF lock[q] = NoConn THEN [lock EXCEPT ![q] = c] ELSE lock
    /\ conn' = [conn EXCEPT ![r] = c]
    /\ prey' = [prey EXCEPT ![r] = q]
    /\ UNCHANGED <<status, traced, state, dead, seen>>

\* pg_try_advisory_lock on the next row's run: got it, or skip the row.
TryLock(r, q, c) ==
    /\ c \in FreeConns(r)
    /\ rows' = [rows EXCEPT ![r] = @ \ {q}]
    /\ \/ /\ lock[q] = NoConn
          /\ lock' = [lock EXCEPT ![q] = c]
          /\ Step(r, "clean", "mark")
          /\ conn' = [conn EXCEPT ![r] = c]
          /\ prey' = [prey EXCEPT ![r] = q]
       \/ /\ lock[q] # NoConn
          /\ Step(r, "clean", "clean")
          /\ UNCHANGED <<lock, conn, prey>>
    /\ UNCHANGED <<status, traced, state, dead, seen>>

\* UPDATE runs SET status = 'failed': the row's status is not read again.
MarkFailed(r) ==
    /\ Step(r, "mark", "unlock")
    /\ status' = [status EXCEPT ![prey[r]] = "failed"]
    /\ UNCHANGED <<traced, state, lock, cleaning, dead, seen>>

\* pg_advisory_unlock, and the connection returns to the pool.
Unlock(r) ==
    /\ Step(r, "unlock", "clean")
    /\ lock' = [lock EXCEPT ![prey[r]] = NoConn]
    /\ prey' = [prey EXCEPT ![r] = NoRun]
    /\ conn' = [conn EXCEPT ![r] = NoConn]
    /\ UNCHANGED <<status, traced, state, rows, dead, seen>>

RecoveryDone(r) ==
    /\ rows[r] = {}
    /\ Step(r, "clean", "subscribe")
    /\ UNCHANGED <<status, traced, state, lock, cleaning, dead, seen>>

\* subscribe_run_control: abort() finds nothing to cancel yet, and the
\* workflow goes on; pause() writes "paused" again, which is refused.  Then
\* _setup_pg_listener keeps a connection for LISTEN.
Subscribe(r, c) ==
    /\ \/ /\ Step(r, "subscribe", "register")
          /\ status[r] # "paused"
          /\ conn' = [conn EXCEPT ![r] = c]
       \/ /\ Step(r, "subscribe", "fail")
          /\ status[r] = "paused"
          /\ UNCHANGED conn
    /\ c \in FreeConns(r)
    /\ UNCHANGED <<status, traced, state, lock, rows, prey, dead, seen>>

\* _register_workflow_tasks.
RegisterTask(r) ==
    /\ Step(r, "register", "work")
    /\ traced' = [traced EXCEPT ![r] = "created"]
    /\ state' = [state EXCEPT ![r] = "created"]
    /\ UNCHANGED <<status, lock, cleaning, dead, seen>>

\* The task takes its next status; a refused write ends, once the attempts
\* are used up, in an InvalidTransitionError that leaves execute_workflow.
TaskAdvances(r) ==
    LET s == Successor[state[r]]
    IN  /\ state[r] \in DOMAIN Successor
        /\ state' = [state EXCEPT ![r] = s]
        /\ \/ /\ ValidTaskTransition(traced[r], s)
              /\ Step(r, "work", "work")
              /\ traced' = [traced EXCEPT ![r] = s]
           \/ /\ ~ValidTaskTransition(traced[r], s)
              /\ Step(r, "work", "fail")
              /\ UNCHANGED traced
    /\ UNCHANGED <<status, lock, cleaning, dead, seen>>

\* execute_workflow returns; an error passes by its _cleanup_pg_listener.
WorkflowDone(r) ==
    /\ state[r] = "completed"
    /\ Step(r, "work", "complete")
    /\ conn' = [conn EXCEPT ![r] = NoConn]
    /\ UNCHANGED <<status, traced, state, lock, rows, prey, dead, seen>>

\* transition_run "completed"; refused, it goes to the except clause.
CompleteRun(r) ==
    /\ \/ /\ ValidRunTransition(status[r], "completed")
          /\ Step(r, "complete", "ended")
          /\ status' = [status EXCEPT ![r] = "completed"]
       \/ /\ ~ValidRunTransition(status[r], "completed")
          /\ Step(r, "complete", "fail")
          /\ UNCHANGED status
    /\ UNCHANGED <<traced, state, lock, cleaning, dead, seen>>

\* The except clause: transition_run "failed", itself refused or not.
FailRun(r) ==
    /\ Step(r, "fail", "ended")
    /\ status' = IF ValidRunTransition(status[r], "failed")
                 THEN [status EXCEPT ![r] = "failed"] ELSE status
    /\ UNCHANGED <<traced, state, lock, cleaning, dead, seen>>

-----------------------------------------------------------------------------
(* Other processes                                                         *)

\* abort_run, pause_run, resume_run: a TraceWriter of their own, on which no
\* scheduler has subscribed; its event is not the one the listener expects.
Command(r, s) ==
    /\ status[r] # "none"
    /\ ValidRunTransition(status[r], s)
    /\ status' = [status EXCEPT ![r] = s]
    /\ UNCHANGED <<traced, state, lock, pc, cleaning, dead, seen>>

\* A process dies with its memory and its connections, and PostgreSQL drops
\* their locks.  pc and prey of its runs stay as a record of where they died.
Crash(p) ==
    /\ p \notin dead
    /\ Cardinality(dead) < MaxCrash
    /\ dead' = dead \cup {p}
    /\ lock' = [r \in Runs |->
                  IF lock[r] # NoConn /\ PoolOf[lock[r]] = p THEN NoConn
                  ELSE lock[r]]
    /\ state' = [r \in Runs |-> IF HostOf[r] = p THEN "none" ELSE state[r]]
    /\ rows' = [r \in Runs |-> IF HostOf[r] = p THEN {} ELSE rows[r]]
    /\ conn' = [r \in Runs |-> IF HostOf[r] = p THEN NoConn ELSE conn[r]]
    /\ UNCHANGED <<status, traced, pc, prey, seen>>

\* Every run was executed or lost with its process.
AllOver ==
    /\ \A r \in Runs : pc[r] = "ended" \/ HostOf[r] \in dead
    /\ UNCHANGED vars

Next ==
    \/ \E r \in Runs :
          \/ CreateRun(r)
          \/ RunStarts(r)
          \/ AcquireRunLock(r)
          \/ RunLockError(r)
          \/ ReclaimInterrupted(r)
          \/ SelectUnfinished(r)
          \/ \E q \in rows[r] : \E c \in Conns : TryLock(r, q, c)
          \/ MarkFailed(r)
          \/ Unlock(r)
          \/ RecoveryDone(r)
          \/ \E c \in Conns : Subscribe(r, c)
          \/ RegisterTask(r)
          \/ TaskAdvances(r)
          \/ WorkflowDone(r)
          \/ CompleteRun(r)
          \/ FailRun(r)
    \/ \E r \in Commanded : \E s \in Commands : Command(r, s)
    \/ \E p \in Procs : Crash(p)
    \/ AllOver

Spec == Init /\ [][Next]_vars

-----------------------------------------------------------------------------
(* Properties                                                              *)

\* Every variable has its type.
TypeOK ==
    /\ status \in [Runs -> RunState \cup {"none"}]
    /\ traced \in [Runs -> TaskState \cup {"none"}]
    /\ state \in [Runs -> TaskState \cup {"none"}]
    /\ lock \in [Runs -> Conns \cup {NoConn}]
    /\ pc \in [Runs -> Pc]
    /\ rows \in [Runs -> SUBSET Runs]
    /\ conn \in [Runs -> Conns \cup {NoConn}]
    /\ prey \in [Runs -> Runs \cup {NoRun}]
    /\ dead \subseteq Procs
    /\ deadTasks \in [Runs -> SUBSET Runs]
    /\ deadRuns \in [Runs -> SUBSET Runs]

\* Once a run has reclaimed, no task of a run that had crashed by then is
\* left active, in its prechecks or in its postchecks (reclaim_interrupted).
DeadTasksReclaimed ==
    \A r \in Runs : \A q \in deadTasks[r] :
        traced[q] \notin {"active", "prechecking", "postchecking"}

\* Once a run is past clean_orphaned, no run that was started and had
\* crashed before its SELECT is left running or paused, unless another
\* cleaner had taken its lock and is about to mark it, or died before it did.
DeadRunsCleaned ==
    \A r \in Runs : pc[r] \in Working =>
        \A q \in deadRuns[r] :
            \/ status[q] \notin {"running", "paused"}
            \/ \E x \in Runs : prey[x] = q /\ pc[x] = "mark"

\* From pg_try_advisory_lock to pg_advisory_unlock the cleaner's connection
\* holds the lock of the run it marks, whatever other runs of its process do
\* with the pool: two cleaners never mark one run at the same time.
CleanerHoldsLock ==
    \A r \in Runs : (HostOf[r] \notin dead /\ pc[r] \in {"mark", "unlock"}) =>
        lock[prey[r]] = conn[r]

\* A run that clean_orphaned marks has lost its process (_recovery.py: "Lock
\* acquired means the original holder crashed").
CleanedMeansCrashed ==
    [][\A r \in Runs : (pc[r] = "mark" /\ pc'[r] = "unlock") =>
          HostOf[prey[r]] \in dead]_vars

\* What a start leaves of the runs that had crashed before it: no interrupted task
\* and no run that still looks alive.
DeadReclaimed == TypeOK /\ DeadTasksReclaimed /\ DeadRunsCleaned
=============================================================================
