---------------------------- MODULE MCAgentTask -----------------------------
(***************************************************************************)
(* Instances of AgentTask: "one", an agent task with two kids whose write  *)
(* paths overlap, scheduled fairly; and "two", a group of two tasks whose  *)
(* sessions may name each other's ids.  And "library": what decides which  *)
(* tools an attempt gets and whether it may end, on every input.           *)
(***************************************************************************)
EXTENDS AgentTask, Checks, Toolset, TLC

CONSTANTS r1, r2, k1, k2

VARIABLE scenario

MCWritePaths == [k \in Kids |-> IF k = k1 THEN {"/src"} ELSE {"/src/x"}]
MCPaths == {"/src", "/src/x"}
MCOverlap == MCPaths \X MCPaths

Two == INSTANCE AgentTask WITH
           Roots <- {r1, r2}, HasSchema <- {}, HasPreRetry <- {},
           HasTimeout <- {r1}, Policy <- "cancel_all", Shared <- TRUE,
           MaxFault <- 0

agentVars == <<vars, case, scenario>>

MCInit == \/ scenario = "one" /\ Init /\ case = [on |-> "none"]
          \/ scenario = "two" /\ Two!Init /\ case = [on |-> "none"]
          \/ scenario = "library" /\ Init /\ (ChecksInit \/ ToolsetInit)

Part(A) == A /\ UNCHANGED <<case, scenario>>

MCNext == \/ Part(scenario = "one" /\ Next)
          \/ Part(scenario = "two" /\ Two!Next /\ UNCHANGED parent)
          \/ scenario = "library" /\ Done /\ UNCHANGED <<vars, scenario>>

MCSpec == MCInit /\ [][MCNext]_agentVars

MCFairSpec ==
    /\ MCSpec
    /\ \A t \in Roots :
          /\ WF_agentVars(Part(scenario = "one" /\ Step(t)))
          /\ WF_agentVars(Part(scenario = "one" /\ Timeout(t)))

\* What the scheduler, the trace and the caller say of a task agree, whatever times
\* out, fails or is cancelled: see the parts in AgentTask.  In "two" no subtasks are
\* created, and no task is active in both sessions.
OutcomesAgree ==
    /\ scenario = "one" => TypeOK /\ CompletedSubtree /\ ReturnedAgrees /\ AbortStops
    /\ scenario = "two" => Two!AbortStops /\ Two!ClaimsExclusive

\* The coroutine of a task with a timeout ends, although its model may call tools for
\* ever.
AgentTaskEnds == (scenario = "one") => TaskEnds

\* A task whose next attempt may begin can be started by it.
RetriesStart == scenario = "one" => RetryCanStart
=============================================================================
