-------------------------------- MODULE Case --------------------------------
(***************************************************************************)
(* The input on which the algorithms of the library modules are evaluated. *)
(* Every state of their run is one input; nothing happens after it.        *)
(***************************************************************************)
VARIABLE case

\* The input has been looked at.
Done == UNCHANGED case
=============================================================================
