----------------------------- MODULE WorkflowRun -----------------------------
(***************************************************************************)
(* A workflow run of orxtra.scheduler: execute_workflow walks the parallel *)
(* groups of the dependency graph, each task is a coroutine of its own,    *)
(* composite and for_each tasks gather coroutines of theirs, and pause,    *)
(* resume and abort act on all of them.  A step of a coroutine runs from   *)
(* one await to the next: pc names the await it is suspended at, and mem   *)
(* (the scheduler's _task_states) is assigned before the trace is written. *)
(*                                                                         *)
(* An agent's work inside its task is the subject of module AgentTask;     *)
(* here it is entered, and left with a result or an exception.             *)
(***************************************************************************)
EXTENDS Integers, FiniteSets, FiniteSetsExt, TaskStates

CONSTANTS
    Tasks,           \* every task the run can have, iterations included
    Root,            \* the workflow itself, the parent of its tasks
    Parent,
    Kind,            \* the execution mode of a task
    DependsOn,       \* depends_on: the siblings a task depends on
    InMap,           \* tasks listed in the workflow's [dependencies] table
    MaxConcurrency,  \* of the for_each tasks
    AbortOnFailure,  \* for_each tasks with for_each_abort_on_failure
    Policies,        \* escalation policies to consider
    Signals,         \* which of "pause", "resume", "abort", "budget" may come
    MaxSignals       \* bound: signals in one behaviour

Kinds == {"agent", "function", "decision", "wait_for", "composite", "for_each"}

ASSUME WorkflowAssumption ==
    /\ Root \notin Tasks
    /\ Parent \in [Tasks -> Tasks \cup {Root}]
    /\ Kind \in [Tasks -> Kinds]
    /\ DependsOn \in [Tasks -> SUBSET Tasks]
    /\ \A t \in Tasks : \A d \in DependsOn[t] : Parent[d] = Parent[t]
    /\ InMap \subseteq Tasks
    /\ \A t \in Tasks : Parent[t] # Root =>
          Kind[Parent[t]] \in {"composite", "for_each"}
    /\ MaxConcurrency \in Nat \ {0}
    /\ AbortOnFailure \subseteq {t \in Tasks : Kind[t] = "for_each"}
    /\ Policies \subseteq {"continue_independent", "halt", "abort_all"}
    /\ Signals \subseteq {"pause", "resume", "abort", "budget"}
    /\ MaxSignals \in Nat

\* A workflow is finite, its tasks hang from the workflow, the iterations of a
\* for_each do not depend on each other, and a cyclic depends_on is refused
\* (_validate_dependencies, topological_sort).
ASSUME TreeAssumption ==
    /\ IsFiniteSet(Tasks)
    /\ \A S \in SUBSET Tasks : S # {} => \E t \in S : Parent[t] \notin S
    /\ \A S \in SUBSET Tasks : S # {} => \E t \in S : DependsOn[t] \cap S = {}
    /\ \A t \in Tasks : (Parent[t] # Root /\ Kind[Parent[t]] = "for_each") =>
          DependsOn[t] = {}

VARIABLES
    policy,     \* the workflow's escalation_policy
    status,     \* runs.status
    main,       \* where start_run and execute_workflow are
    mem,        \* _task_states
    trace,      \* tasks.status, "none" before the row exists
    iteration,  \* task_iterations.status of an iteration, "none" before
    pc,         \* the await each coroutine is suspended at
    stage,      \* the parallel group a gatherer is waiting for
    fault,      \* the exception a gatherer will see: its first child's
    aborting,   \* for_each tasks whose local abort flag is set
    heard,      \* what resolved the future of a wait_for task
    open,       \* _paused is set: coroutines pass
    doomed,     \* coroutines with a cancellation not delivered yet
    abortLeft,  \* tasks abort() has still to cancel in the trace
    aborter,    \* who is running abort()
    signals     \* signals so far

vars == <<policy, status, main, mem, trace, iteration, pc, stage, fault,
          aborting, heard, open, doomed, abortLeft, aborter, signals>>
run == <<policy, status, main, open, abortLeft, aborter, signals>>
loops == <<iteration, aborting, heard>>

Ended == {"returned", "raised", "cancelled"}
Writes == {"pre", "act", "post", "prefail", "postfail", "done", "timedout"}
Pc == {"idle", "queued", "begin", "gate", "insert", "prechecks", "work",
       "postchecks", "settle", "fail"} \cup Writes \cup Ended

Working(t) == pc[t] \notin {"idle"} \cup Ended
Children(o) == {t \in Tasks : Parent[t] = o}
IsIteration(t) == Parent[t] # Root /\ Kind[Parent[t]] = "for_each"

\* The graph that is built: load_workflow keeps the [dependencies] table for
\* the workflow and writes it into depends_on, but a depends_on of the task's
\* own reaches the graph of a composite only.
Deps == [t \in Tasks |->
           IF Parent[t] = Root /\ t \notin InMap THEN {} ELSE DependsOn[t]]

\* Mutant: the depth of the shallowest dependency.
ShallowLevel[t \in Tasks] ==
    IF Deps[t] = {} THEN 0 ELSE 1 + Min({ShallowLevel[d] : d \in Deps[t]})

\* find_parallel_groups: the depth of a task in the dependency graph.
Level[t \in Tasks] ==
    IF Deps[t] = {} THEN 0 ELSE 1 + Max({Level[d] : d \in Deps[t]})

\* Mutant: a task joins the group after its first dependency's.
ShallowGroup(o, k) == {t \in Children(o) : ShallowLevel[t] = k}

\* One of the parallel groups of o's tasks.
Group(o, k) == {t \in Children(o) : Level[t] = k}

\* _ACTIVE_STATES.
ActiveStates == {"prechecking", "active", "postchecking"}

\* all(cr.passed for cr in result.check_results)
Passed(t) == mem[t] = "completed"

Init ==
    /\ policy \in Policies
    /\ status = "running"
    /\ main = "register"
    /\ mem = [t \in Tasks |-> "none"]
    /\ trace = [t \in Tasks |-> "none"]
    /\ iteration = [t \in Tasks |-> "none"]
    /\ pc = [t \in Tasks |-> "idle"]
    /\ stage = [o \in Tasks \cup {Root} |-> 0]
    /\ fault = [o \in Tasks \cup {Root} |-> "none"]
    /\ aborting = {}
    /\ heard = [t \in Tasks |-> "no"]
    /\ open = TRUE
    /\ doomed = {}
    /\ abortLeft = {}
    /\ aborter = "none"
    /\ signals = 0

-----------------------------------------------------------------------------
(* The workflow's own coroutine                                            *)

\* _register_workflow_tasks.
RegisterTasks ==
    /\ main = "register"
    /\ mem' = [t \in Tasks |-> IF Parent[t] = Root THEN "created" ELSE "none"]
    /\ trace' = mem'
    /\ main' = "gate"
    /\ UNCHANGED <<policy, status, loops, pc, stage, fault, open, doomed,
                   abortLeft, aborter, signals>>

\* The next group, once _paused is set; after the last one the run is over.
OpenGroup ==
    /\ main = "gate"
    /\ \/ /\ Group(Root, stage[Root]) # {}
          /\ open
          /\ pc' = [t \in Tasks |->
                      IF t \in Group(Root, stage[Root]) THEN "gate" ELSE pc[t]]
          /\ main' = "gather"
       \/ /\ Group(Root, stage[Root]) = {}
          /\ main' = "finish"
          /\ UNCHANGED pc
    /\ UNCHANGED <<policy, status, mem, trace, loops, stage, fault, open,
                   doomed, abortLeft, aborter, signals>>

\* _running_tasks: every coroutine that has not ended, nested ones too.
RunningTasks == {t \in Tasks : Working(t)}

\* abort(): cancel every coroutine, then the tasks whose state, as read now,
\* is an active one.
BeginAbort(who) ==
    /\ doomed' = RunningTasks
    /\ abortLeft' = {t \in Tasks : mem[t] \in ActiveStates}
    /\ aborter' = who

\* escalated_in_group is not empty.
EscalatedInGroup == \E t \in Group(Root, stage[Root]) : mem[t] = "escalated"

\* gather has every result: the escalation policy decides what follows.
GroupDone ==
    /\ main = "gather"
    /\ fault[Root] = "none"
    /\ \A t \in Group(Root, stage[Root]) : pc[t] = "returned"
    /\ \/ /\ EscalatedInGroup /\ policy = "halt"
          /\ open' = FALSE
          /\ main' = "finish"
          /\ UNCHANGED <<stage, doomed, abortLeft, aborter>>
       \/ /\ EscalatedInGroup /\ policy = "abort_all"
          /\ main' = "abort"
          /\ BeginAbort("main")
          /\ UNCHANGED <<stage, open>>
       \/ /\ EscalatedInGroup => policy = "continue_independent"
          /\ stage' = [stage EXCEPT ![Root] = @ + 1]
          /\ main' = "gate"
          /\ UNCHANGED <<open, doomed, abortLeft, aborter>>
    /\ UNCHANGED <<policy, status, mem, trace, loops, pc, fault, signals>>

\* gather raises its first exception; a CancelledError is no Exception, so
\* start_run does not write "failed" for it.
WorkflowFaults ==
    /\ main = "gather"
    /\ \/ fault[Root] = "raised" /\ main' = "fail"
       \/ fault[Root] = "cancelled" /\ main' = "gone"
    /\ UNCHANGED <<policy, status, mem, trace, loops, pc, stage, fault, open,
                   doomed, abortLeft, aborter, signals>>

\* start_run writes "completed"; when the table refuses, "failed" follows.
CompleteRun ==
    /\ main = "finish"
    /\ \/ /\ ValidRunTransition(status, "completed")
          /\ status' = "completed"
          /\ main' = "over"
       \/ /\ ~ValidRunTransition(status, "completed")
          /\ main' = "fail"
          /\ UNCHANGED status
    /\ UNCHANGED <<policy, mem, trace, loops, pc, stage, fault, open, doomed,
                   abortLeft, aborter, signals>>

\* The except clause of start_run.
FailRun ==
    /\ main = "fail"
    /\ status' = IF ValidRunTransition(status, "failed") THEN "failed" ELSE status
    /\ main' = "over"
    /\ UNCHANGED <<policy, mem, trace, loops, pc, stage, fault, open, doomed,
                   abortLeft, aborter, signals>>

-----------------------------------------------------------------------------
(* How a coroutine ends                                                    *)

\* A gatherer keeps the first exception of its children, and its other
\* children keep running.
Ends(t, how) ==
    /\ pc' = [pc EXCEPT ![t] = how]
    /\ fault' = IF how = "returned" \/ fault[Parent[t]] # "none"
                THEN fault ELSE [fault EXCEPT ![Parent[t]] = how]

\* A result: run_iteration has its row to complete first.
Return(t) ==
    IF IsIteration(t)
    THEN pc' = [pc EXCEPT ![t] = "settle"] /\ UNCHANGED fault
    ELSE Ends(t, "returned")

\* An exception: run_iteration catches it.
Raise(t) ==
    IF IsIteration(t)
    THEN pc' = [pc EXCEPT ![t] = "fail"] /\ UNCHANGED fault
    ELSE Ends(t, "raised")

\* The next segment assigns the state and awaits the write of it.
Assign(t, state, write) ==
    /\ mem' = [mem EXCEPT ![t] = state]
    /\ pc' = [pc EXCEPT ![t] = write]
    /\ UNCHANGED fault

\* t runs its next segment: it waits at w and is not to be cancelled.
At(t, w) == pc[t] = w /\ t \notin doomed

-----------------------------------------------------------------------------
(* One task                                                                *)

\* execute_task passes _paused.wait(); a task without a row gets one.
PassGate(t) ==
    /\ At(t, "gate")
    /\ open
    /\ pc' = [pc EXCEPT ![t] = IF Parent[t] = Root THEN "begin" ELSE "insert"]
    /\ UNCHANGED <<run, mem, trace, loops, stage, fault, doomed>>

\* create_task and _init_task_state.
InsertTask(t) ==
    /\ At(t, "insert")
    /\ trace' = [trace EXCEPT ![t] = "created"]
    /\ Assign(t, "created", "begin")
    /\ UNCHANGED <<run, loops, stage, doomed>>

\* Mutant: a for_each whose variable holds no list yet looks again.
BeginWhenListed(t) ==
    /\ At(t, "begin")
    /\ \/ Kind[t] # "agent" /\ Assign(t, "prechecking", "pre") /\ UNCHANGED trace
       \/ Kind[t] = "for_each" /\ Assign(t, mem[t], "gate") /\ UNCHANGED trace
       \/ /\ Kind[t] = "agent"
          /\ Assign(t, "active", "work")
          /\ trace' = [trace EXCEPT ![t] = "active"]
    /\ UNCHANGED <<run, loops, stage, doomed>>

\* The dispatch on the execution mode, up to the first write.  A for_each
\* variable that holds no list raises; an agent's session begins.
BeginTask(t) ==
    /\ At(t, "begin")
    /\ \/ Kind[t] # "agent" /\ Assign(t, "prechecking", "pre") /\ UNCHANGED trace
       \/ Kind[t] = "for_each" /\ Raise(t) /\ UNCHANGED <<mem, trace>>
       \/ /\ Kind[t] = "agent"
          /\ Assign(t, "active", "work")
          /\ trace' = [trace EXCEPT ![t] = "active"]
    /\ UNCHANGED <<run, loops, stage, doomed>>

\* The write the coroutine awaits commits.
Commit(t) ==
    /\ ValidTaskTransition(trace[t], mem[t])
    /\ trace' = [trace EXCEPT ![t] = mem[t]]

\* transition_task refuses: InvalidTransitionError in the coroutine.
RefuseWrite(t) ==
    /\ pc[t] \in Writes /\ t \notin doomed
    /\ ~ValidTaskTransition(trace[t], mem[t])
    /\ Raise(t)
    /\ UNCHANGED <<run, mem, trace, loops, stage, doomed>>

\* transition_task(prechecking): only a composite task runs prechecks.
WritePrechecking(t) ==
    /\ At(t, "pre")
    /\ Commit(t)
    /\ \/ /\ Kind[t] = "composite"
          /\ pc' = [pc EXCEPT ![t] = "prechecks"]
          /\ UNCHANGED <<mem, fault>>
       \/ /\ Kind[t] # "composite"
          /\ Assign(t, "active", "act")
    /\ UNCHANGED <<run, loops, stage, doomed>>

\* _run_prechecks passes, fails, or raises.
RunPrechecks(t) ==
    /\ At(t, "prechecks")
    /\ \/ Assign(t, "active", "act")
       \/ Assign(t, "precheck_failed", "prefail")
       \/ Raise(t) /\ UNCHANGED mem
    /\ UNCHANGED <<run, trace, loops, stage, doomed>>

\* The coroutines a task creates when it becomes active: a composite's first
\* group, all iterations of a for_each.
Spawned(t) ==
    CASE Kind[t] = "composite" -> [c \in Group(t, 0) |-> "gate"]
      [] Kind[t] = "for_each" -> [c \in Children(t) |-> "queued"]
      [] OTHER -> [c \in {} |-> "idle"]

\* transition_task(active), up to the await of the task's own work.
WriteActive(t) ==
    /\ At(t, "act")
    /\ Commit(t)
    /\ LET new == Spawned(t)
       IN  pc' = [c \in Tasks |->
                    IF c \in DOMAIN new THEN new[c]
                    ELSE IF c = t THEN "work" ELSE pc[c]]
    /\ UNCHANGED <<run, mem, loops, stage, fault, doomed>>

\* Mutant: the result is returned and the final state not written.
ReturnUnwritten(t) ==
    /\ pc[t] \in {"prefail", "postfail", "done", "timedout"}
    /\ t \notin doomed
    /\ Return(t)
    /\ UNCHANGED <<run, mem, trace, loops, stage, doomed>>

\* The final write of a task; then it returns its result.
WriteEnd(t) ==
    /\ pc[t] \in {"prefail", "postfail", "done", "timedout"}
    /\ t \notin doomed
    /\ Commit(t)
    /\ Return(t)
    /\ UNCHANGED <<run, mem, loops, stage, doomed>>

\* _execute_agent_task: done, escalated, or escalated in memory alone when
\* the trace refuses (module AgentTask).
AgentEnds(t) ==
    /\ At(t, "work")
    /\ Kind[t] = "agent"
    /\ \/ /\ \E s \in {"completed", "escalated"} :
                /\ mem' = [mem EXCEPT ![t] = s]
                /\ trace' = [trace EXCEPT ![t] = s]
          /\ Return(t)
       \/ /\ mem' = [mem EXCEPT ![t] = "escalated"]
          /\ Raise(t)
          /\ UNCHANGED trace
    /\ UNCHANGED <<run, loops, stage, doomed>>

\* The callable returns; an exception leaves the task active.
FunctionEnds(t) ==
    /\ At(t, "work")
    /\ Kind[t] = "function"
    /\ \/ Assign(t, "completed", "done")
       \/ Raise(t) /\ UNCHANGED mem
    /\ UNCHANGED <<run, trace, loops, stage, doomed>>

\* The Overseer has answered the decision point, or its session failed.
DecisionEnds(t) ==
    /\ At(t, "work")
    /\ Kind[t] = "decision"
    /\ \/ Assign(t, "completed", "done")
       \/ Raise(t) /\ UNCHANGED mem
    /\ UNCHANGED <<run, trace, loops, stage, doomed>>

-----------------------------------------------------------------------------
(* wait_for                                                                *)

\* fire: every future registered now is resolved, with a payload or None.
Fire(payload) ==
    /\ \E t \in Tasks : Kind[t] = "wait_for" /\ pc[t] = "work" /\ heard[t] = "no"
    /\ heard' = [t \in Tasks |->
                   IF Kind[t] = "wait_for" /\ pc[t] = "work" /\ heard[t] = "no"
                   THEN payload ELSE heard[t]]
    /\ UNCHANGED <<run, mem, trace, iteration, aborting, pc, stage, fault,
                   doomed>>

\* The event arrived; a payload of None is taken for a timeout.
HearEvent(t) ==
    /\ At(t, "work")
    /\ heard[t] # "no"
    /\ \/ heard[t] = "payload" /\ Assign(t, "completed", "done")
       \/ heard[t] = "None" /\ Assign(t, "cancelled", "timedout")
    /\ UNCHANGED <<run, trace, loops, stage, doomed>>

\* The deadline; it also wins over an event of the same loop turn.
WaitTimesOut(t) ==
    /\ At(t, "work")
    /\ Kind[t] = "wait_for"
    /\ Assign(t, "cancelled", "timedout")
    /\ UNCHANGED <<run, trace, loops, stage, doomed>>

-----------------------------------------------------------------------------
(* Composite tasks                                                         *)

\* A group has returned, whatever its results were: the next group, or the
\* postchecks.
SubgroupDone(t) ==
    /\ At(t, "work")
    /\ Kind[t] = "composite"
    /\ fault[t] = "none"
    /\ \A c \in Group(t, stage[t]) : pc[c] = "returned"
    /\ stage' = [stage EXCEPT ![t] = @ + 1]
    /\ \/ /\ Group(t, stage[t] + 1) # {}
          /\ pc' = [c \in Tasks |->
                      IF c \in Group(t, stage[t] + 1) THEN "gate" ELSE pc[c]]
          /\ UNCHANGED <<mem, fault>>
       \/ /\ Group(t, stage[t] + 1) = {}
          /\ Assign(t, "postchecking", "post")
    /\ UNCHANGED <<run, trace, loops, doomed>>

\* transition_task(postchecking).
WritePostchecking(t) ==
    /\ At(t, "post")
    /\ Commit(t)
    /\ pc' = [pc EXCEPT ![t] = "postchecks"]
    /\ UNCHANGED <<run, mem, loops, stage, fault, doomed>>

\* _run_postchecks passes, fails, or raises.
RunPostchecks(t) ==
    /\ At(t, "postchecks")
    /\ \/ Assign(t, "completed", "done")
       \/ Assign(t, "postcheck_failed", "postfail")
       \/ Raise(t) /\ UNCHANGED mem
    /\ UNCHANGED <<run, trace, loops, stage, doomed>>

\* gather raises in a composite or a for_each task.
GatherFaults(t) ==
    /\ At(t, "work")
    /\ fault[t] # "none"
    /\ \/ fault[t] = "raised" /\ Raise(t)
       \/ fault[t] = "cancelled" /\ Ends(t, "cancelled")
    /\ UNCHANGED <<run, mem, trace, loops, stage, doomed>>

-----------------------------------------------------------------------------
(* for_each                                                                *)

\* The iterations inside "async with semaphore".
Holding(o) == {t \in Children(o) : Working(t) /\ pc[t] # "queued"}

\* The semaphore has a permit.
Permit(o) == Cardinality(Holding(o)) < MaxConcurrency

\* run_iteration enters the semaphore: after an abort it leaves at once, else
\* create_iteration.
EnterIteration(t) ==
    /\ At(t, "queued")
    /\ Permit(Parent[t])
    /\ \/ /\ Parent[t] \in aborting
          /\ Ends(t, "returned")
          /\ UNCHANGED iteration
       \/ /\ Parent[t] \notin aborting
          /\ iteration' = [iteration EXCEPT ![t] = "running"]
          /\ pc' = [pc EXCEPT ![t] = "gate"]
          /\ UNCHANGED fault
    /\ UNCHANGED <<run, mem, trace, aborting, heard, stage, doomed>>

\* complete_iteration or fail_iteration, then the abort flag.
SettleIteration(t) ==
    /\ pc[t] \in {"settle", "fail"} /\ t \notin doomed
    /\ iteration' = [iteration EXCEPT ![t] =
                       IF pc[t] = "settle" THEN "completed" ELSE "failed"]
    /\ aborting' = aborting \cup
           (IF Parent[t] \in AbortOnFailure /\ (pc[t] = "fail" \/ ~Passed(t))
            THEN {Parent[t]} ELSE {})
    /\ Ends(t, "returned")
    /\ UNCHANGED <<run, mem, trace, heard, stage, doomed>>

\* Every iteration has returned.
LoopDone(t) ==
    /\ At(t, "work")
    /\ Kind[t] = "for_each"
    /\ fault[t] = "none"
    /\ \A c \in Children(t) : pc[c] = "returned"
    /\ \/ t \in aborting /\ Assign(t, "postcheck_failed", "postfail")
       \/ t \notin aborting /\ Assign(t, "completed", "done")
    /\ UNCHANGED <<run, trace, loops, stage, doomed>>

-----------------------------------------------------------------------------
(* Control                                                                 *)

\* CancelledError is raised at the await; a write in flight may have
\* committed.
DeliverCancel(t) ==
    /\ t \in doomed
    /\ doomed' = doomed \ {t}
    /\ Ends(t, "cancelled")
    /\ \/ UNCHANGED trace
       \/ pc[t] \in Writes /\ Commit(t)
    /\ UNCHANGED <<run, mem, loops, stage>>

\* The scheduler listens to control signals until execute_workflow is left.
Listening == main \in {"register", "gate", "gather", "abort"}

Signal(s) ==
    /\ s \in Signals
    /\ signals < MaxSignals
    /\ signals' = signals + 1

\* pause(): its own transition_run comes back as a control signal, whose
\* second transition_run is refused.
Pause ==
    /\ Signal("pause")
    /\ Listening
    /\ ValidRunTransition(status, "paused")
    /\ status' = "paused"
    /\ open' = FALSE
    /\ doomed' = RunningTasks
    /\ UNCHANGED <<policy, main, mem, trace, loops, pc, stage, fault,
                   abortLeft, aborter>>

\* resume().
Resume ==
    /\ Signal("resume")
    /\ ValidRunTransition(status, "running")
    /\ status' = "running"
    /\ open' = TRUE
    /\ UNCHANGED <<policy, main, mem, trace, loops, pc, stage, fault, doomed,
                   abortLeft, aborter>>

\* abort(), for a control signal (the run is "aborted" by then) or for an
\* exhausted budget (the run's status is left alone).
Abort ==
    /\ aborter = "none"
    /\ Listening
    /\ \/ /\ Signal("abort")
          /\ ValidRunTransition(status, "aborted")
          /\ status' = "aborted"
       \/ /\ Signal("budget")
          /\ UNCHANGED status
    /\ BeginAbort("signal")
    /\ UNCHANGED <<policy, main, mem, trace, loops, pc, stage, fault, open>>

\* One task of abort()'s loop: any state may become cancelled.
AbortTask(t) ==
    /\ t \in abortLeft
    /\ abortLeft' = abortLeft \ {t}
    /\ mem' = [mem EXCEPT ![t] = "cancelled"]
    /\ trace' = [trace EXCEPT ![t] = "cancelled"]
    /\ UNCHANGED <<policy, status, main, loops, pc, stage, fault, open,
                   doomed, aborter, signals>>

\* abort() returns.
AbortDone ==
    /\ aborter # "none"
    /\ abortLeft = {}
    /\ main' = IF aborter = "main" THEN "finish" ELSE main
    /\ aborter' = "none"
    /\ UNCHANGED <<policy, status, mem, trace, loops, pc, stage, fault, open,
                   doomed, abortLeft, signals>>

\* Nothing is left to run.
Rest ==
    /\ main \in {"over", "gone"} \/ (main = "gate" /\ ~open)
    /\ aborter = "none"
    /\ \A t \in Tasks : ~Working(t) \/ (pc[t] = "gate" /\ ~open)
    /\ UNCHANGED vars

-----------------------------------------------------------------------------
\* One segment of the coroutine of task t.
TaskStep(t) ==
    \/ PassGate(t)
    \/ InsertTask(t)
    \/ BeginTask(t)
    \/ RefuseWrite(t)
    \/ WritePrechecking(t)
    \/ RunPrechecks(t)
    \/ WriteActive(t)
    \/ WriteEnd(t)
    \/ AgentEnds(t)
    \/ FunctionEnds(t)
    \/ DecisionEnds(t)
    \/ HearEvent(t)
    \/ WaitTimesOut(t)
    \/ SubgroupDone(t)
    \/ WritePostchecking(t)
    \/ RunPostchecks(t)
    \/ GatherFaults(t)
    \/ EnterIteration(t)
    \/ SettleIteration(t)
    \/ LoopDone(t)
    \/ DeliverCancel(t)
    \/ AbortTask(t)

\* One segment of start_run and execute_workflow.
MainStep ==
    \/ RegisterTasks
    \/ OpenGroup
    \/ GroupDone
    \/ WorkflowFaults
    \/ CompleteRun
    \/ FailRun
    \/ AbortDone

Next ==
    \/ MainStep
    \/ \E t \in Tasks : TaskStep(t)
    \/ \E payload \in {"payload", "None"} : Fire(payload)
    \/ Pause
    \/ Resume
    \/ Abort
    \/ Rest

Spec == Init /\ [][Next]_vars

\* One segment of any coroutine of the run.
Step == MainStep \/ \E t \in Tasks : TaskStep(t)

\* While some coroutine is ready the event loop runs one; callables, agents and
\* checks return, and a wait has a deadline.
FairSpec == Spec /\ WF_vars(Step)
-----------------------------------------------------------------------------
(* Properties                                                              *)

\* The rows of the trace, the scheduler's states and the coroutines have
\* their types.
TypeOK ==
    /\ policy \in Policies
    /\ status \in RunState
    /\ main \in {"register", "gate", "gather", "abort", "finish", "fail",
                 "over", "gone"}
    /\ mem \in [Tasks -> TaskState \cup {"none"}]
    /\ trace \in [Tasks -> TaskState \cup {"none"}]
    /\ iteration \in [Tasks -> {"none", "running", "completed", "failed"}]
    /\ pc \in [Tasks -> Pc]
    /\ stage \in [Tasks \cup {Root} -> Nat]
    /\ fault \in [Tasks \cup {Root} -> {"none", "raised", "cancelled"}]
    /\ aborting \subseteq Tasks
    /\ heard \in [Tasks -> {"no", "payload", "None"}]
    /\ open \in BOOLEAN
    /\ doomed \subseteq Tasks
    /\ abortLeft \subseteq Tasks
    /\ aborter \in {"none", "main", "signal"}
    /\ signals \in 0..MaxSignals

\* A task's coroutine exists only once every task before it in the graph has
\* returned a result: parallel groups respect the dependencies at every level
\* of the tree, and an exception stops what depends on it.
GraphRespected ==
    \A t \in Tasks :
        pc[t] # "idle" => \A d \in Deps[t] : pc[d] = "returned"

\* The same of depends_on (configuration.md, depends_on: "Names of sibling
\* tasks that must complete before this task starts").
DependenciesReturned ==
    \A t \in Tasks :
        pc[t] # "idle" => \A d \in DependsOn[t] : pc[d] = "returned"

\* A task that returned a result has its final state in the trace: memory
\* and trace agree whatever was cancelled or refused on the way.  (A failed
\* iteration returned no result: run_iteration took its exception.)
ReturnedRecorded ==
    \A t \in Tasks :
        (pc[t] = "returned" /\ iteration[t] # "failed") => trace[t] = mem[t]

\* A composite task is past its gather only when each of its subtasks
\* returned (_execute_composite_task).
CompositeWaits ==
    \A t \in Tasks :
        (Kind[t] = "composite" /\ mem[t] \in {"postchecking", "completed"})
            => \A c \in Children(t) : pc[c] = "returned"

\* Under "halt" and "abort_all" no task behind the group of an escalated
\* task is ever begun (_execute_task_groups).
EscalationStops ==
    policy # "continue_independent" =>
        \A t \in Children(Root) : mem[t] = "escalated" =>
            \A u \in Children(Root) : Level[u] > Level[t] => pc[u] = "idle"

\* Iterations without subtasks.  An iteration that is a composite may end
\* with an exception while its other subtasks run: run_iteration takes the
\* exception, and nobody waits for them any more.
FlatIterations == \A t \in Tasks : IsIteration(t) => Children(t) = {}

\* When the run is completed no coroutine of it is left (start_run).
CompletedRunQuiet ==
    status = "completed" /\ FlatIterations => \A t \in Tasks : ~Working(t)

\* Once a pause or an abort has ended the workflow's coroutine, no coroutine
\* of the run goes on: each has ended or is about to see its cancellation
\* (_running_tasks holds nested coroutines too).
CancelReachesAll ==
    main = "gone" /\ FlatIterations => \A t \in Tasks : Working(t) => t \in doomed

\* At most max_concurrency iterations have begun and not ended, whatever
\* fails, raises or is cancelled.
ConcurrencyBounded ==
    \A t \in Tasks : Kind[t] = "for_each" =>
        Cardinality(Holding(t)) <= MaxConcurrency

\* A for_each task that is past its gather has settled every row of
\* task_iterations, failed iterations included, and none is begun later.
IterationsSettled ==
    \A t \in Tasks :
        (Kind[t] = "for_each" /\ mem[t] \in {"completed", "postcheck_failed"})
            => \A c \in Children(t) :
                  iteration[c] # "running" /\ pc[c] = "returned"

\* A for_each task never reports success over a failed iteration when it was
\* told to abort on failure.
LoopFailureSeen ==
    \A t \in AbortOnFailure :
        mem[t] = "completed" => \A c \in Children(t) :
            iteration[c] = "completed" /\ mem[c] = "completed"

\* Tasks run in their order and in their numbers: a task starts when what it
\* depends on has returned, a composite ends after its subtasks, a for_each
\* settles every iteration and never runs more at a time than it may.
OrderKept ==
    /\ TypeOK
    /\ GraphRespected
    /\ CompositeWaits
    /\ ConcurrencyBounded
    /\ IterationsSettled

\* What happened is recorded and acted upon: a returned task's row, an
\* escalation that stops what follows, a cancellation that reaches every task,
\* the failure of an iteration, and nothing still running in a completed run.
OutcomesRecorded ==
    /\ ReturnedRecorded
    /\ EscalationStops
    /\ CompletedRunQuiet
    /\ CancelReachesAll
    /\ LoopFailureSeen

\* Without a signal the run reaches a final status, whichever tasks fail,
\* raise or time out, and none waits for another for ever.
RunEnds == <>(status \in RUN_TERMINAL_STATES \/ signals > 0)
=============================================================================
