--------------------------- MODULE MCDispatchMore ---------------------------
(***************************************************************************)
(* Three more instances of DispatchWorker in one specification: "live",    *)
(* one worker whose loop is scheduled fairly while subscriptions are       *)
(* edited under it; "two", two workers that share the database; and        *)
(* "crashed", a worker that dies once in a log of more than one batch.     *)
(***************************************************************************)
EXTENDS MCDispatch

CONSTANTS w1, w2

VARIABLE scenario

Two == INSTANCE DispatchWorker WITH
           Workers <- {w1, w2}, MaxCrash <- 0, MayStop <- FALSE, MayEdit <- FALSE,
           EventTypes <- {"t"}, Fires <- [a \in MCActions |-> NoEvent]

Crashed == INSTANCE DispatchWorker WITH
               MaxEvent <- 3, MaxCrash <- 1, MayStop <- FALSE, MayEdit <- FALSE,
               EventTypes <- {"t"}, Fires <- [a \in MCActions |-> NoEvent]

MCInit == \/ scenario = "live" /\ Init
          \/ scenario = "two" /\ Two!Init
          \/ scenario = "crashed" /\ Crashed!Init

MCNext == /\ UNCHANGED scenario
          /\ \/ scenario = "live" /\ Next
             \/ scenario = "two" /\ Two!Next
             \/ scenario = "crashed" /\ Crashed!Next

MCSpec ==
    /\ MCInit /\ [][MCNext]_<<vars, scenario>>
    /\ \A w \in Workers :
          /\ WF_<<vars, scenario>>(scenario = "live" /\ StartWorker(w) /\ UNCHANGED scenario)
          /\ WF_<<vars, scenario>>(scenario = "live" /\ LoopStep(w) /\ UNCHANGED scenario)

\* Every event that becomes visible is eventually behind the worker's cursor, even if
\* each NOTIFY is lost and subscriptions are deleted under its hands, unless it is
\* told to stop first.
EventsPassed == (scenario = "live") => EveryEventPassed

\* Two workers that poll the same events and claim from the same buffer: an entry is
\* in the buffer or in the hands of one of them, a completed action is not run again,
\* and what is behind a cursor was handed to every action.
WorkersShare ==
    scenario = "two" =>
        Two!EntryInOnePlace /\ Two!RunsBoundedByCrashes /\ Two!AttemptedBehindCursor

\* A worker that dies between any two awaits and starts again from its cursor: what is
\* behind the cursor was handed to every immediate action, nothing visible in time was
\* skipped, only the crash explains a second run, and what was left to the accumulating
\* actions never piles up beyond their thresholds.
HandedOnAfterCrash ==
    scenario = "crashed" =>
        /\ Crashed!NothingSkipped /\ Crashed!RunsBoundedByCrashes
        /\ Crashed!BufferBounded /\ Crashed!AttemptedBehindCursor
=============================================================================
