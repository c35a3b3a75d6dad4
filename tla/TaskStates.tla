----------------------------- MODULE TaskStates -----------------------------
(***************************************************************************)
(* The transition tables of orxtra.trace: which status a task or a run may *)
(* take in the trace store.  A write the table refuses raises              *)
(* InvalidTransitionError in the caller and changes nothing.               *)
(***************************************************************************)

TaskState == {"created", "prechecking", "precheck_failed", "active",
              "suspended", "postchecking", "postcheck_failed", "completed",
              "escalated", "cancelled"}

TASK_TRANSITIONS ==
    {<<"created", "prechecking">>,
     <<"prechecking", "active">>, <<"prechecking", "precheck_failed">>,
     <<"active", "postchecking">>, <<"active", "suspended">>,
     <<"active", "completed">>,
     <<"postchecking", "completed">>, <<"postchecking", "postcheck_failed">>,
     <<"postcheck_failed", "active">>, <<"postcheck_failed", "escalated">>,
     <<"suspended", "active">>}

TASK_TERMINAL_STATES ==
    {"completed", "cancelled", "escalated", "precheck_failed"}

RunState == {"created", "running", "paused", "completed", "failed", "aborted"}

RUN_TRANSITIONS ==
    {<<"created", "running">>,
     <<"running", "paused">>, <<"running", "completed">>,
     <<"running", "failed">>, <<"running", "aborted">>,
     <<"paused", "running">>, <<"paused", "aborted">>}

RUN_TERMINAL_STATES == {"completed", "failed", "aborted"}

\* Mutant: no table, the last writer wins.
AnyTransition(old, new) == TRUE

\* validate_task_transition: any state may be cancelled, a terminal one too.
ValidTaskTransition(old, new) ==
    \/ new = "cancelled"
    \/ /\ old \notin TASK_TERMINAL_STATES
       /\ <<old, new>> \in TASK_TRANSITIONS

\* validate_run_transition.
ValidRunTransition(old, new) ==
    /\ old \notin RUN_TERMINAL_STATES
    /\ <<old, new>> \in RUN_TRANSITIONS
=============================================================================
