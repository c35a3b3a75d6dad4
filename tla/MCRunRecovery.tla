--------------------------- MODULE MCRunRecovery ----------------------------
(***************************************************************************)
(* The instance of RunRecovery: a server process srv with two runs over a  *)
(* pool of two connections, and a CLI process cli with a run of its own.   *)
(***************************************************************************)
EXTENDS RunRecovery, TLC

CONSTANTS a, b, d, srv, cli, c1, c2, c3

MCHost == (a :> srv) @@ (b :> srv) @@ (d :> cli)
MCPool == (c1 :> srv) @@ (c2 :> srv) @@ (c3 :> cli)

\* The runs of the server, and the connections of its pool, are alike.
ServerSymmetry == Permutations({a, b}) \cup Permutations({c1, c2})
=============================================================================
