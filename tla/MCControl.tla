----------------------------- MODULE MCControl ------------------------------
(***************************************************************************)
(* How a run is controlled, for TLC: the store of statuses, events and     *)
(* inbox items, and the events of tasks on their way to the Overseer.  The *)
(* two share nothing; a behaviour is one of them.                          *)
(***************************************************************************)
EXTENDS TraceStore, OverseerLink

VARIABLE part

controlVars == <<vars, ovVars, part>>

MCInit ==
    /\ part \in {"store", "overseer"}
    /\ Init /\ OvInit
    /\ part # "store" => backend = "memory"
    /\ part # "overseer" => headless

StorePart(A) == part = "store" /\ A /\ UNCHANGED <<ovVars, part>>
OverseerPart(A) == part = "overseer" /\ A /\ UNCHANGED <<vars, part>>

MCNext == StorePart(Next) \/ OverseerPart(OvNext)

\* The coroutines keep being scheduled.
MCSpec ==
    /\ MCInit /\ [][MCNext]_controlVars
    /\ \A c \in Client : WF_controlVars(StorePart(Step(c)))
    /\ \A t \in Task : WF_controlVars(OverseerPart(OvStep(t)))

\* The tasks that send events end: the verification loop and the retries are bounded.
TasksOver == <>[](part = "overseer" => Over)
=============================================================================
