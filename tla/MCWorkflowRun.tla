--------------------------- MODULE MCWorkflowRun ---------------------------
(***************************************************************************)
(* An instance of WorkflowRun: an agent task beside a decision point, then *)
(* a composite of a function and a wait_for, then a for_each over          *)
(* functions that depends on the agent and on the composite.               *)
(* And the conversation of an agent with its model, of AgentSession, which *)
(* shares nothing with it.                                                 *)
(***************************************************************************)
EXTENDS WorkflowRun, AgentSession, TLC

CONSTANTS a, b, c, d, e, f, g, k

VARIABLE scenario

TreeParent == [t \in Tasks |-> CASE t \in {c, d} -> b [] t \in {g, k} -> f [] OTHER -> Root]
TreeKind == (a :> "agent") @@ (b :> "composite") @@ (d :> "wait_for")
            @@ (e :> "decision") @@ (f :> "for_each")
            @@ [t \in {c, g, k} |-> "function"]
TreeDeps == [t \in Tasks |-> CASE t = b -> {a} [] t = d -> {c} [] t = f -> {a, b}
                               [] OTHER -> {}]

flowVars == <<vars, sessionVars, scenario>>

MCInit ==
    /\ scenario \in {"tree", "session"}
    /\ Init /\ SessionInit
    /\ scenario = "session" => policy = CHOOSE p \in Policies : TRUE
    /\ scenario # "session" => maxTurns = CHOOSE n \in TurnLimits : TRUE

Part(A) == scenario = "tree" /\ A /\ UNCHANGED <<sessionVars, scenario>>

MCNext == \/ Part(Next)
          \/ scenario = "session" /\ SessionNext /\ UNCHANGED <<vars, scenario>>

MCSpec == MCInit /\ [][MCNext]_flowVars

\* While some coroutine of the run is ready, one is scheduled.
MCFairSpec == MCSpec /\ WF_flowVars(Part(Step))

\* A run that nobody interrupts ends: nothing it waits for stays out for ever.
WorkflowEnds == (scenario # "session") => RunEnds
=============================================================================
