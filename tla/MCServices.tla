----------------------------- MODULE MCServices -----------------------------
(***************************************************************************)
(* What the services keep in the database, for TLC, in one run: the        *)
(* recovery of crashed runs, the directory of principals, the stores that  *)
(* come twice, and, with every input as an initial state, the readers of   *)
(* the trace, the schema, who gets in, and what the read tools show.  The  *)
(* parts share nothing; a behaviour is one of them.                        *)
(***************************************************************************)
EXTENDS MCRunRecovery, Directory, StoragePairs, TraceQueries, Schema, Access,
        ReadTools

VARIABLE part

others == <<vars, dirVars, pairVars>>

MCInit ==
    /\ part \in {"recovery", "directory", "stores", "library"}
    /\ Init /\ DirectoryInit /\ PairsInit
    /\ part # "stores" => store = "principals"
    /\ IF part = "library" THEN QueryInit \/ SchemaInit \/ AccessInit \/ ReadInit ELSE case = [on |-> part]

MCNext ==
    /\ UNCHANGED part
    /\ \/ part = "recovery" /\ Next /\ UNCHANGED <<dirVars, pairVars, case>>
       \/ part = "directory" /\ DirectoryNext /\ UNCHANGED <<vars, pairVars, case>>
       \/ part = "stores" /\ PairsNext /\ UNCHANGED <<vars, dirVars, case>>
       \/ part = "library" /\ Done /\ UNCHANGED others

MCSpec == MCInit /\ [][MCNext]_<<others, case, part>>
=============================================================================
