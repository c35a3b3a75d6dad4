----------------------------- MODULE MCDispatch -----------------------------
(***************************************************************************)
(* Instances of DispatchWorker: one immediate EventAction on type "t" that *)
(* fires "u", and one accumulating action that counts to two or waits for  *)
(* its timer, on both types.                                               *)
(***************************************************************************)
EXTENDS DispatchWorker, TLC

CONSTANTS run, sum, sRun, sSum

MCActions == {run, sum}
MCSubs == {sRun, sSum}
MCSubOf == (run :> sRun) @@ (sum :> sSum)
MCWants == (sRun :> {"t"}) @@ (sSum :> {"t", "u"})
MCAccumulating == {sum}
MCThreshold == (run :> 0) @@ (sum :> 2)
MCTimed == {sum}
MCFires == (run :> "u") @@ (sum :> NoEvent)
=============================================================================
