------------------------------ MODULE MCEdges -------------------------------
(***************************************************************************)
(* Where the program meets its clients, its workers and the file system,   *)
(* for TLC: the streams on the event bus, the AG-UI endpoint, the calls to *)
(* remote workers, the file tools of a process.  The parts share nothing;  *)
(* a behaviour is one of them.                                             *)
(***************************************************************************)
EXTENDS EventStream, AguiServer, WorkerBridge, FileTools

VARIABLE part

edgeVars == <<vars, aguiVars, bridgeVars, fileVars, part>>

\* The consumers are interchangeable, and so are the files: one of each is fixed.
MCInit ==
    /\ part \in {"bus", "agui", "bridge", "files"}
    /\ Init /\ AguiInit /\ BridgeInit /\ FileInit
    /\ part # "bus" => kind = "events"
    /\ LET first == CHOOSE w \in Worker : TRUE
           fixed == IF part = "bridge" THEN {first} ELSE Worker
       IN  \A w \in fixed : key[w] = CHOOSE k \in Consumer : TRUE
    /\ LET first == CHOOSE f \in File : TRUE
       IN  \A f \in File : file[f].exists <=> part = "files" /\ f = first

BusPart(Act) == part = "bus" /\ Act /\ UNCHANGED <<aguiVars, bridgeVars, fileVars, part>>
AguiPart(Act) == part = "agui" /\ Act /\ UNCHANGED <<vars, bridgeVars, fileVars, part>>
BridgePart(Act) == part = "bridge" /\ Act /\ UNCHANGED <<vars, aguiVars, fileVars, part>>
FilesPart(Act) == part = "files" /\ Act /\ UNCHANGED <<vars, aguiVars, bridgeVars, part>>

MCNext ==
    \/ BusPart(Next)
    \/ AguiPart(AguiNext)
    \/ BridgePart(BridgeNext)
    \/ FilesPart(FileNext)

\* The generators of the streams and the heartbeat tasks keep being scheduled.
MCSpec ==
    /\ MCInit /\ [][MCNext]_edgeVars
    /\ \A s \in Stream : WF_edgeVars(BusPart(Step(s)))
    /\ \A c \in 1 .. MaxLinks :
          /\ WF_edgeVars(BridgePart(c \in Link /\ Heartbeat(c)))
          /\ WF_edgeVars(BridgePart(c \in Link /\ HeartbeatDue(c)))
=============================================================================
