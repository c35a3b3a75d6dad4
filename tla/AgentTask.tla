----------------------------- MODULE AgentTask ------------------------------
(***************************************************************************)
(* Agent tasks of the scheduler: the attempt loop of each task's coroutine *)
(* and the lifecycle tools its model calls in a session.                   *)
(*                                                                         *)
(* The scheduler keeps every task's state twice: in memory (_task_states)  *)
(* and in the trace store.  Everywhere it first assigns the memory and     *)
(* then awaits transition_task, which may refuse; between the two, and     *)
(* between any two awaits, other coroutines run, the session's timeout can *)
(* strike and abort() can cancel.  A step here runs from one await to the  *)
(* next; Persist is the awaited transaction.                               *)
(***************************************************************************)
EXTENDS TaskStates, Integers, FiniteSets

CONSTANTS
    Roots,       \* tasks of one parallel group, a coroutine each
    Kids,        \* task ids that create_* tools may allocate
    WritePaths,  \* the write_paths of a kid that create_task makes
    Paths,
    Overlap,     \* pairs of paths that _paths_overlap holds for
    NoTask,
    Retry,       \* the "retry" field: Retry + 1 attempts
    HasSchema,   \* roots with an output_schema
    HasPreRetry, \* roots with a pre_retry callback
    HasTimeout,  \* roots with a timeout, their own or their agent's
    Policy,      \* budget_exhaustion_policy
    Shared,      \* bound: whether a model may name tasks of other sessions
    MaxFault     \* bound: database errors in one behaviour

Tasks == Roots \cup Kids

ASSUME AgentTaskAssumption ==
    /\ Roots \cap Kids = {}
    /\ NoTask \notin Tasks
    /\ WritePaths \in [Kids -> SUBSET Paths]
    /\ Overlap \subseteq Paths \X Paths
    /\ \A p, q \in Paths : <<p, q>> \in Overlap => <<q, p>> \in Overlap
    /\ Retry \in Nat
    /\ HasSchema \subseteq Roots
    /\ HasPreRetry \subseteq Roots
    /\ HasTimeout \subseteq Roots
    /\ Policy \in {"block_new", "cancel_all", "timeout_grace", "unlimited"}
    /\ Shared \in BOOLEAN
    /\ MaxFault \in Nat

VARIABLES
    state,       \* _task_states; "none": not registered
    traced,      \* tasks.status in the trace store; "none": no row
    parent,      \* _task_parents of the kids
    creator,     \* the root whose session created a kid
    claims,      \* FileLockRegistry._claims
    active,      \* _active_tasks: per session id, a root and an attempt
    pc,
    attempt,
    sess,        \* attempt number in the id of the current session
    target,      \* the task the tool in progress works on
    write,       \* the status awaited by transition_task, of target
    blocked,     \* _budget_blocked
    aborting,    \* abort(): "no", "due", "running", "done"
    toCancel,    \* tasks abort() found active and has not cancelled yet
    faults

task == <<state, traced, parent, creator, claims>>
coroutine == <<pc, attempt, sess, target, write>>
budget == <<blocked, aborting, toCancel>>
vars == <<task, active, coroutine, budget, faults>>

ActiveStates == {"active", "prechecking", "postchecking"}
Attempts == 1..(Retry + 1)

\* The labels at which a coroutine awaits, inside session.send or outside.
InSession == {"idle", "prechecks", "activate", "postchecks", "finish",
              "creating", "adding"}
Outside == {"attempt", "open", "ended", "judge", "failing", "timedout",
            "leave"}
Over == {"returned", "raised", "cancelled"}

NoWrite == "-"

-----------------------------------------------------------------------------
(* Operators                                                               *)

\* check_active_task, for the session of t's coroutine.
ActiveTask(t) == active[t][sess[t]]

\* Ids the model of t's session may pass to a tool.
Named(t) ==
    IF Shared THEN {u \in Tasks : state[u] # "none"}
    ELSE {t} \cup {k \in Kids : creator[k] = t}

\* _task_children: a kid is a child once it is registered.
Children(u) == {k \in Kids : parent[k] = u /\ state[k] # "none"}

\* The incomplete subtasks end_task refuses to leave behind.
Incomplete(u) == {k \in Children(u) : state[k] # "completed"}

\* FileLockRegistry.check_conflict.
Conflict(P) ==
    \E u \in Tasks : \E p \in P, q \in claims[u] : <<p, q>> \in Overlap

\* await transition_task(u, s), then go on at label l.
Await(t, u, s, l) ==
    /\ target' = [target EXCEPT ![t] = u]
    /\ write' = [write EXCEPT ![t] = s]
    /\ pc' = [pc EXCEPT ![t] = l]

\* The coroutine of t runs again at label l.
At(t, l) == pc[t] = l /\ write[t] = NoWrite

Goto(t, l) ==
    /\ pc' = [pc EXCEPT ![t] = l]
    /\ UNCHANGED <<attempt, sess, target, write>>

-----------------------------------------------------------------------------
Init ==
    /\ state = [u \in Tasks |-> IF u \in Roots THEN "created" ELSE "none"]
    /\ traced = state
    /\ parent = [k \in Kids |-> NoTask]
    /\ creator = [k \in Kids |-> NoTask]
    /\ claims = [u \in Tasks |-> {}]
    /\ active = [t \in Roots |-> [n \in Attempts |-> NoTask]]
    /\ pc = [t \in Roots |-> "attempt"]
    /\ attempt = [t \in Roots |-> 0]
    /\ sess = [t \in Roots |-> 1]
    /\ target = [t \in Roots |-> NoTask]
    /\ write = [t \in Roots |-> NoWrite]
    /\ blocked = FALSE
    /\ aborting = "no"
    /\ toCancel = {}
    /\ faults = 0

-----------------------------------------------------------------------------
(* transition_task                                                         *)

\* An exception leaves the await: inside session.send it fails the attempt,
\* elsewhere it ends the coroutine.  The memory keeps what was assigned.
Raise(t) ==
    /\ write' = [write EXCEPT ![t] = NoWrite]
    /\ pc' = [pc EXCEPT ![t] =
                IF @ \in InSession THEN "failing" ELSE "raised"]
    /\ UNCHANGED <<attempt, sess, target>>

\* Mutant: a refused transition is only logged.
PersistSilently(t) ==
    /\ write[t] # NoWrite
    /\ traced' = IF ValidTaskTransition(traced[target[t]], write[t])
                 THEN [traced EXCEPT ![target[t]] = write[t]]
                 ELSE traced
    /\ write' = [write EXCEPT ![t] = NoWrite]
    /\ UNCHANGED <<state, parent, creator, claims, active, pc, attempt, sess,
                   target, budget, faults>>

\* The transaction commits, or validate_task_transition raises in it.
Persist(t) ==
    /\ write[t] # NoWrite
    /\ \/ /\ ValidTaskTransition(traced[target[t]], write[t])
          /\ traced' = [traced EXCEPT ![target[t]] = write[t]]
          /\ write' = [write EXCEPT ![t] = NoWrite]
          /\ UNCHANGED <<pc, attempt, sess, target>>
       \/ /\ ~ValidTaskTransition(traced[target[t]], write[t])
          /\ UNCHANGED traced
          /\ Raise(t)
    /\ UNCHANGED <<state, parent, creator, claims, active, budget, faults>>

\* The database fails the transaction.
DatabaseError(t) ==
    /\ write[t] # NoWrite
    /\ faults < MaxFault
    /\ faults' = faults + 1
    /\ Raise(t)
    /\ UNCHANGED <<task, active, budget>>

-----------------------------------------------------------------------------
(* The attempt loop, up to the session                                     *)

\* Mutant: the attempt number is not advanced.
BeginSameAttempt(t) ==
    /\ At(t, "attempt")
    /\ attempt' = [attempt EXCEPT ![t] = 1]
    /\ pc' = [pc EXCEPT ![t] = "open"]
    /\ UNCHANGED <<task, active, sess, target, write, budget, faults>>

\* create_task_attempt; from the second attempt on, pre_retry may veto.
BeginAttempt(t) ==
    /\ At(t, "attempt")
    /\ attempt' = [attempt EXCEPT ![t] = @ + 1]
    /\ pc' = [pc EXCEPT ![t] = "open"]
    /\ UNCHANGED <<task, active, sess, target, write, budget, faults>>

\* pre_retry raises: the task is escalated without releasing anything.
PreRetryAborts(t) ==
    /\ At(t, "open")
    /\ attempt[t] > 1
    /\ t \in HasPreRetry
    /\ state' = [state EXCEPT ![t] = "escalated"]
    /\ Await(t, t, "escalated", "leave")
    /\ UNCHANGED <<traced, parent, creator, claims, active, attempt, sess,
                   budget, faults>>

\* _create_agent_session: the id is made of the task and the attempt.
OpenSession(t) ==
    /\ At(t, "open")
    /\ sess' = [sess EXCEPT ![t] = attempt[t]]
    /\ pc' = [pc EXCEPT ![t] = "idle"]
    /\ UNCHANGED <<task, active, attempt, target, write, budget, faults>>

\* _create_agent_session raises (no worker is registered for the task's
\* execution target): nothing around it catches.
CannotOpenSession(t) ==
    /\ At(t, "open")
    /\ Goto(t, "raised")
    /\ UNCHANGED <<task, active, budget, faults>>

\* _agent_handoff: the fresh session gets the id of attempt 1.
Handoff(t) ==
    /\ At(t, "idle")
    /\ sess[t] # 1
    /\ sess' = [sess EXCEPT ![t] = 1]
    /\ UNCHANGED <<task, active, pc, attempt, target, write, budget, faults>>
-----------------------------------------------------------------------------
(* Lifecycle tools, called by the model between two awaits of its session  *)

\* handle_start_task up to its first await.
StartTask(t, u) ==
    /\ At(t, "idle")
    /\ u \in Named(t)
    /\ state[u] = "created"
    /\ state' = [state EXCEPT ![u] = "prechecking"]
    /\ Await(t, u, "prechecking", "prechecks")
    /\ UNCHANGED <<traced, parent, creator, claims, active, attempt, sess,
                   budget, faults>>

\* The prechecks pass or fail.
RunPrechecks(t) ==
    LET u == target[t]
    IN  /\ At(t, "prechecks")
        /\ \/ /\ state' = [state EXCEPT ![u] = "active"]
              /\ Await(t, u, "active", "activate")
           \/ /\ state' = [state EXCEPT ![u] = "precheck_failed"]
              /\ Await(t, u, "precheck_failed", "idle")
        /\ UNCHANGED <<traced, parent, creator, claims, active, attempt, sess,
                       budget, faults>>

\* The session's active task is replaced by the one just started.
Activate(t) ==
    /\ At(t, "activate")
    /\ active' = [active EXCEPT ![t][sess[t]] = target[t]]
    /\ Goto(t, "idle")
    /\ UNCHANGED <<task, budget, faults>>

\* handle_end_task up to its first await.
EndTask(t) ==
    LET u == ActiveTask(t)
    IN  /\ At(t, "idle")
        /\ u # NoTask
        /\ Incomplete(u) = {}
        /\ state' = [state EXCEPT ![u] = "postchecking"]
        /\ Await(t, u, "postchecking", "postchecks")
        /\ UNCHANGED <<traced, parent, creator, claims, active, attempt, sess,
                       budget, faults>>

\* _auto_commit, the postchecks and the mechanical constraints; on success
\* _complete_task marks the task and releases its paths.
RunPostchecks(t) ==
    LET u == target[t]
    IN  /\ At(t, "postchecks")
        /\ \/ /\ state' = [state EXCEPT ![u] = "completed"]
              /\ claims' = [claims EXCEPT ![u] = {}]
              /\ Await(t, u, "completed", "finish")
           \/ /\ state' = [state EXCEPT ![u] = "postcheck_failed"]
              /\ Await(t, u, "postcheck_failed", "idle")
              /\ UNCHANGED claims
        /\ UNCHANGED <<traced, parent, creator, active, attempt, sess, budget,
                       faults>>

\* The end of handle_end_task for a completed task.
Finish(t) ==
    /\ At(t, "finish")
    /\ active' = [active EXCEPT ![t][sess[t]] = NoTask]
    /\ Goto(t, "idle")
    /\ UNCHANGED <<task, budget, faults>>

\* The INSERT of a row for k under the session's active task.
InsertTask(t, k, l) ==
    /\ At(t, "idle")
    /\ ActiveTask(t) # NoTask
    /\ traced[k] = "none"
    /\ traced' = [traced EXCEPT ![k] = "created"]
    /\ parent' = [parent EXCEPT ![k] = ActiveTask(t)]
    /\ target' = [target EXCEPT ![t] = k]
    /\ pc' = [pc EXCEPT ![t] = l]
    /\ UNCHANGED <<state, creator, claims, active, attempt, sess, write,
                   budget, faults>>

\* handle_create_task up to its await.
CreateTask(t, k) == ~blocked /\ InsertTask(t, k, "creating")

\* handle_create_workflow up to its await.
CreateWorkflow(t, k) == ~blocked /\ InsertTask(t, k, "adding")

\* handle_create_wait_for up to its await: it has no budget guard.
CreateWaitFor(t, k) == InsertTask(t, k, "adding")

\* The rest of them: the kid is registered before its paths are claimed, and
\* a conflict is only reported to the model.
RegisterTask(t) ==
    LET k == target[t]
        P == IF pc[t] = "creating" THEN WritePaths[k] ELSE {}
    IN  /\ At(t, "creating") \/ At(t, "adding")
        /\ state' = [state EXCEPT ![k] = "created"]
        /\ creator' = [creator EXCEPT ![k] = t]
        /\ claims' = IF Conflict(P) THEN claims
                     ELSE [claims EXCEPT ![k] = P]
        /\ Goto(t, "idle")
        /\ UNCHANGED <<traced, parent, active, budget, faults>>

-----------------------------------------------------------------------------
(* How a session ends, and what the attempt loop makes of it               *)

\* The model's last message, or await_task, which suspends a plain session
\* for good.
SessionEnds(t) ==
    /\ At(t, "idle")
    /\ Goto(t, "ended")
    /\ UNCHANGED <<task, active, budget, faults>>

\* The transport raises.
SessionFails(t) ==
    /\ At(t, "idle")
    /\ Goto(t, "failing")
    /\ UNCHANGED <<task, active, budget, faults>>

\* asyncio.wait_for gives up anywhere in the session; what its transaction
\* had not committed is rolled back.
Timeout(t) ==
    /\ t \in HasTimeout
    /\ pc[t] \in InSession
    /\ pc' = [pc EXCEPT ![t] = "timedout"]
    /\ write' = [write EXCEPT ![t] = NoWrite]
    /\ UNCHANGED <<task, active, attempt, sess, target, budget, faults>>

\* _fail_attempt_timeout: no further attempt.
CancelTimedOut(t) ==
    /\ At(t, "timedout")
    /\ state' = [state EXCEPT ![t] = "cancelled"]
    /\ Await(t, t, "cancelled", "leave")
    /\ UNCHANGED <<traced, parent, creator, claims, active, attempt, sess,
                   budget, faults>>

\* _accumulate_cost: the attempt's usage may exhaust the task's budget.
Charge(t) ==
    /\ At(t, "ended")
    /\ \/ UNCHANGED <<blocked, aborting>>
       \/ /\ blocked' = (blocked \/ Policy \in {"block_new", "timeout_grace"})
          /\ aborting' = IF /\ aborting = "no"
                            /\ Policy \in {"cancel_all", "timeout_grace"}
                         THEN "due" ELSE aborting
    /\ Goto(t, "judge")
    /\ UNCHANGED <<task, active, toCancel, faults>>

\* The state the session left decides; an output_schema may reject it still.
Judge(t) ==
    /\ At(t, "judge")
    /\ \/ state[t] = "completed" /\ Goto(t, "returned")
       \/ /\ state[t] # "completed" \/ t \in HasSchema
          /\ Goto(t, "failing")
    /\ UNCHANGED <<task, active, budget, faults>>

\* After _complete_attempt: the memory is reset for the next attempt, the
\* trace is not; after the last attempt the task escalates.
FailAttempt(t) ==
    /\ At(t, "failing")
    /\ \/ /\ attempt[t] <= Retry
          /\ state' = [state EXCEPT ![t] = "created"]
          /\ Goto(t, "attempt")
          /\ UNCHANGED claims
       \/ /\ attempt[t] > Retry
          /\ state' = [state EXCEPT ![t] = "escalated"]
          /\ claims' = [claims EXCEPT ![t] = {}]
          /\ Await(t, t, "escalated", "leave")
          /\ UNCHANGED <<attempt, sess>>
    /\ UNCHANGED <<traced, parent, creator, active, budget, faults>>

\* The final transition is written (the Overseer is told): TaskResult.
Return(t) ==
    /\ At(t, "leave")
    /\ Goto(t, "returned")
    /\ UNCHANGED <<task, active, budget, faults>>

-----------------------------------------------------------------------------
(* abort(), scheduled by the budget policy                                 *)

\* Every running coroutine is cancelled; the loop's snapshot of the states.
Abort ==
    /\ aborting = "due"
    /\ aborting' = "running"
    /\ pc' = [t \in Roots |-> IF pc[t] \in Over THEN pc[t] ELSE "cancelled"]
    /\ write' = [t \in Roots |-> NoWrite]
    /\ toCancel' = {u \in Tasks : state[u] \in ActiveStates}
    /\ UNCHANGED <<task, active, attempt, sess, target, blocked,
                   faults>>

\* One task of abort()'s loop.
CancelTask(u) ==
    /\ aborting = "running"
    /\ u \in toCancel
    /\ toCancel' = toCancel \ {u}
    /\ state' = [state EXCEPT ![u] = "cancelled"]
    /\ claims' = [claims EXCEPT ![u] = {}]
    /\ traced' = [traced EXCEPT ![u] = "cancelled"]
    /\ UNCHANGED <<parent, creator, active, coroutine, blocked, aborting,
                   faults>>

AbortReturns ==
    /\ aborting = "running"
    /\ toCancel = {}
    /\ aborting' = "done"
    /\ UNCHANGED <<task, active, coroutine, blocked, toCancel,
                   faults>>

\* The group is over, and no abort is under way.
GroupOver ==
    /\ \A t \in Roots : pc[t] \in Over
    /\ aborting \in {"no", "done"}
    /\ UNCHANGED vars

-----------------------------------------------------------------------------
\* What the event loop runs of t's coroutine without the model's doing.
Step(t) ==
    \/ Persist(t)
    \/ BeginAttempt(t)
    \/ OpenSession(t)
    \/ RunPrechecks(t)
    \/ Activate(t)
    \/ RunPostchecks(t)
    \/ Finish(t)
    \/ RegisterTask(t)
    \/ CancelTimedOut(t)
    \/ Charge(t)
    \/ Judge(t)
    \/ FailAttempt(t)
    \/ Return(t)

Next ==
    \/ \E t \in Roots :
          \/ Step(t)
          \/ DatabaseError(t)
          \/ PreRetryAborts(t)
          \/ CannotOpenSession(t)
          \/ Handoff(t)
          \/ \E u \in Tasks : StartTask(t, u)
          \/ EndTask(t)
          \/ \E k \in Kids :
                CreateTask(t, k) \/ CreateWorkflow(t, k) \/ CreateWaitFor(t, k)
          \/ SessionEnds(t)
          \/ SessionFails(t)
          \/ Timeout(t)
    \/ Abort
    \/ \E u \in Tasks : CancelTask(u)
    \/ AbortReturns
    \/ GroupOver

Spec == Init /\ [][Next]_vars

\* The event loop runs a ready coroutine, and asyncio.wait_for's timer
\* expires; the model owes nothing.
FairSpec ==
    /\ Spec
    /\ \A t \in Roots : WF_vars(Step(t)) /\ WF_vars(Timeout(t))

-----------------------------------------------------------------------------
(* Properties                                                              *)

\* Every variable has its type, and an awaited status belongs to a task that
\* has a row in the trace store.
TypeOK ==
    /\ state \in [Tasks -> TaskState \cup {"none"}]
    /\ traced \in [Tasks -> TaskState \cup {"none"}]
    /\ parent \in [Kids -> Tasks \cup {NoTask}]
    /\ creator \in [Kids -> Roots \cup {NoTask}]
    /\ claims \in [Tasks -> SUBSET Paths]
    /\ active \in [Roots -> [Attempts -> Tasks \cup {NoTask}]]
    /\ pc \in [Roots -> InSession \cup Outside \cup Over]
    /\ attempt \in [Roots -> 0..(Retry + 1)]
    /\ sess \in [Roots -> Attempts]
    /\ target \in [Roots -> Tasks \cup {NoTask}]
    /\ write \in [Roots -> TaskState \cup {NoWrite}]
    /\ blocked \in BOOLEAN
    /\ aborting \in {"no", "due", "running", "done"}
    /\ toCancel \subseteq Tasks
    /\ faults \in 0..MaxFault

\* A task is the active task of at most one session, although start_task takes
\* any id and two sessions may both see it "created": only one of them gets
\* past the trace store.
OneActivation ==
    \A s, t \in Roots : \A m, n \in Attempts :
        (active[s][m] # NoTask /\ active[s][m] = active[t][n])
            => s = t /\ m = n

\* A task is recorded as completed only when every subtask that was created
\* under it is complete, whichever session completed it and whatever timed
\* out, failed or was retried in between (handle_end_task).
CompletedSubtree ==
    \A u \in Tasks : \A k \in Kids :
        (traced[u] = "completed" /\ parent[k] = u) => state[k] = "completed"

\* A coroutine that returns a TaskResult leaves a final state, and the same
\* one in memory and in the trace: the caller reads the memory to apply the
\* escalation policy (_execute_task_groups).
ReturnedAgrees ==
    \A t \in Roots : pc[t] = "returned" =>
        /\ state[t] = traced[t]
        /\ state[t] \in {"completed", "escalated", "cancelled"}

\* Two tasks never hold overlapping write paths.
ClaimsDisjoint ==
    \A u, v \in Tasks : \A p \in claims[u], q \in claims[v] :
        <<p, q>> \in Overlap => u = v

\* Nothing is worked on twice: no two tasks hold overlapping paths, and no task is
\* active in two sessions.
ClaimsExclusive == ClaimsDisjoint /\ OneActivation

\* When abort() has returned, no coroutine of the group runs and no task is
\* active, in its prechecks or in its postchecks as far as the scheduler knows.
AbortStops ==
    aborting = "done" =>
        /\ \A t \in Roots : pc[t] \in Over
        /\ \A u \in Tasks : state[u] \notin ActiveStates

\* The coroutine of a task with a timeout ends, however long its models keep
\* calling tools and whatever its neighbour without one does.
TaskEnds == \A t \in HasTimeout : <>(pc[t] \in Over)

\* A task whose next attempt may begin can be started by it (concepts.md:
\* "Failed post-checks allow the agent to retry").
RetryCanStart ==
    \A t \in Roots : (At(t, "idle") /\ state[t] = "created") =>
        ValidTaskTransition(traced[t], "prechecking")
=============================================================================
