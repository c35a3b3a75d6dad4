---------------------------- MODULE WorkerBridge ----------------------------
(***************************************************************************)
(* Remote tool execution: worker processes that connect to the brain over  *)
(* a WebSocket, register for one project root and execute the tool calls   *)
(* of the sessions.                                                        *)
(*                                                                         *)
(* A connection has a handler on the brain (workers_ws_handler) that       *)
(* registers the worker, runs a BrainWorkerBridge and unregisters when the *)
(* bridge's receive loop ends.  The bridge has the receive loop, the       *)
(* heartbeat loop and the futures of the calls in flight.  A session keeps *)
(* the bridge it found when it was created.  The worker handles one        *)
(* message at a time, so while a tool runs it answers no heartbeat.        *)
(***************************************************************************)
EXTENDS Naturals, Sequences

CONSTANTS
    Worker,       \* worker processes, all started for the same root
    Consumer,     \* the consumers whose keys the workers present
    Session,      \* agent sessions whose task has the root as its target
    MaxLinks,     \* bound: connections made in all
    MaxCalls      \* bound: tool calls of a session

ASSUME WorkerBridgeAssumption == MaxLinks \in Nat /\ MaxCalls \in Nat

VARIABLES
    key,       \* the consumer of each worker
    link,      \* the connections, in the order they are made
    bridge,    \* the BrainWorkerBridge of each, and its handler
    registry,  \* WorkerRegistry: _workers, and _root_to_worker of the root
    worker,    \* each NativeWorker: its connection and the call it executes
    session,   \* each session: its bridge, its call number and its state
    ran        \* observation: how often each call's tool was executed

bridgeVars == <<key, link, bridge, registry, worker, session, ran>>

Link == 1 .. Len(link)
CallOf(s) == <<s, session[s].calls>>
NoCall == <<>>

NewBridge(w) ==
    [worker |-> w, handler |-> "first message", connected |-> TRUE,
     pending |-> {}, receiving |-> TRUE, beat |-> "sleep", acked |-> TRUE]

BridgeInit ==
    /\ key \in [Worker -> Consumer]
    /\ link = <<>>
    /\ bridge = <<>>
    /\ registry = [workers |-> {}, root |-> 0]
    /\ worker = [w \in Worker |-> [pc |-> "down", link |-> 0, call |-> NoCall]]
    /\ session = [s \in Session |->
                    [bridge |-> 0, calls |-> 0, state |-> "new"]]
    /\ ran = [s \in Session |-> [k \in 1 .. MaxCalls |-> 0]]

\* A message put on a connection that is down is lost.
ToWorker(c, m) ==
    IF link[c].state = "up" THEN [link EXCEPT ![c].down = Append(@, m)] ELSE link
ToBrain(c, m) ==
    IF link[c].state = "up" THEN [link EXCEPT ![c].up = Append(@, m)] ELSE link

-----------------------------------------------------------------------------
(* The network.  A connection that is "cut" raises on both sides; one that *)
(* is "dead" is noticed by the worker only, the brain keeps waiting.       *)

Cut(c) ==
    /\ link[c].state = "up"
    /\ \E state \in {"cut", "dead"} :
          link' = [link EXCEPT ![c].state = state, ![c].down = <<>>]
    /\ UNCHANGED <<key, bridge, registry, worker, session, ran>>

-----------------------------------------------------------------------------
(* NativeWorker                                                            *)

\* _connect_and_run: connect, and send the registration.
Connect(w) ==
    /\ worker[w].pc = "down"
    /\ Len(link) < MaxLinks
    /\ link' = Append(link, [state |-> "up", down |-> <<>>,
                             up |-> <<[type |-> "registration"]>>])
    /\ bridge' = Append(bridge, NewBridge(w))
    /\ worker' = [worker EXCEPT ![w] =
                    [pc |-> "open", link |-> Len(link) + 1, call |-> NoCall]]
    /\ UNCHANGED <<key, registry, session, ran>>

\* The message loop meets a closed connection.  An exception leads back to
\* run's loop, which reconnects; a clean close ends the process.
Lost(w) ==
    LET state == link[worker[w].link].state
    IN  /\ worker[w].pc = "open" /\ worker[w].call = NoCall
        /\ state # "up"
        /\ worker' = [worker EXCEPT ![w].pc =
                        IF state = "closed" THEN "exited" ELSE "down"]
        /\ UNCHANGED <<key, link, bridge, registry, session, ran>>

\* _handle_message: a heartbeat is acknowledged with its own timestamp; a call
\* starts its tool.
HandleMessage(w) ==
    LET c == worker[w].link
        m == Head(link[c].down)
    IN  /\ worker[w].pc = "open" /\ worker[w].call = NoCall
        /\ link[c].state = "up" /\ link[c].down # <<>>
        /\ IF m.type = "heartbeat"
           THEN /\ link' = [link EXCEPT ![c].down = Tail(@),
                                        ![c].up = Append(@, [type |-> "ack"])]
                /\ UNCHANGED worker
           ELSE /\ link' = [link EXCEPT ![c].down = Tail(@)]
                /\ worker' = [worker EXCEPT ![w].call = m.call]
        /\ UNCHANGED <<key, bridge, registry, session, ran>>

\* _execute_tool returns a result for whatever happens, and sends it; sending
\* on a connection that has gone raises, whichever way it went.
FinishTool(w) ==
    LET c == worker[w].link
        k == worker[w].call
    IN  /\ worker[w].pc = "open" /\ k # NoCall
        /\ ran' = [ran EXCEPT ![k[1]][k[2]] = @ + 1]
        /\ link' = ToBrain(c, [type |-> "result", call |-> k])
        /\ worker' = [worker EXCEPT ![w].call = NoCall,
                        ![w].pc = IF link[c].state = "up" THEN @ ELSE "down"]
        /\ UNCHANGED <<key, bridge, registry, session>>

-----------------------------------------------------------------------------
(* WorkerRegistry                                                          *)

RegisteredFor(reg, c) ==
    [workers |-> (reg.workers \ {reg.root}) \cup {c}, root |-> c]

\* register replaces a worker of the same consumer, and refuses another's.
Refused(c) ==
    /\ registry.root # 0
    /\ key[bridge[registry.root].worker] # key[bridge[c].worker]

\* unregister: a worker that has been replaced is not known any more, and the
\* root belongs to its successor.
Unregister(reg, c) ==
    IF c \notin reg.workers THEN reg
    ELSE [workers |-> reg.workers \ {c}, root |-> 0]

-----------------------------------------------------------------------------
(* BrainWorkerBridge and its handler                                       *)

\* The sessions whose call fails with WorkerDisconnectedError.
FailPending(c) ==
    [s \in Session |->
        IF session[s].state = "waiting" /\ CallOf(s) \in bridge[c].pending
        THEN [session[s] EXCEPT !.state = "failed"] ELSE session[s]]

Disconnected(b) == [b EXCEPT !.connected = FALSE, !.pending = {}]

\* Mutant: the futures of a lost worker are dropped without an exception.
MarkDropsFutures(c, rec) ==
    /\ bridge' = [bridge EXCEPT ![c] = Disconnected(rec)]
    /\ UNCHANGED session

\* _mark_disconnected: once, and every call in flight fails.
MarkDisconnected(c, rec) ==
    IF ~bridge[c].connected
    THEN bridge' = [bridge EXCEPT ![c] = rec] /\ UNCHANGED session
    ELSE /\ bridge' = [bridge EXCEPT ![c] = Disconnected(rec)]
         /\ session' = FailPending(c)

\* workers_ws_handler: the first message registers the worker and starts the
\* loops.  A refusal or a connection that is lost first ends the handler.
Register(c) ==
    /\ bridge[c].handler = "first message"
    /\ \/ /\ link[c].up # <<>> /\ ~Refused(c)
          /\ registry' = RegisteredFor(registry, c)
          /\ bridge' = [bridge EXCEPT ![c].handler = "running"]
          /\ link' = [link EXCEPT ![c].up = Tail(@)]
       \/ /\ \/ link[c].up # <<>> /\ Refused(c)
             \/ link[c].up = <<>> /\ link[c].state = "cut"
          /\ bridge' = [bridge EXCEPT ![c].handler = "done"]
          /\ link' = [link EXCEPT ![c].state = "closed"]
          /\ UNCHANGED registry
    /\ UNCHANGED <<key, worker, session, ran>>

\* _dispatch_message: a result resolves its future; a late one is only
\* cached, under an id that is not used again.  Afterwards the loop goes on only while the bridge is connected.
Receive(c) ==
    LET m == Head(link[c].up)
        b == bridge[c]
        next == [b EXCEPT !.receiving = b.connected]
    IN  /\ b.handler = "running" /\ b.receiving /\ link[c].up # <<>>
        /\ link' = [link EXCEPT ![c].up = Tail(@)]
        /\ \/ /\ m.type = "ack"
              /\ bridge' = [bridge EXCEPT ![c] = [next EXCEPT !.acked = TRUE]]
              /\ UNCHANGED session
           \/ /\ m.type = "result" /\ m.call \in b.pending
              /\ bridge' = [bridge EXCEPT ![c] =
                    [next EXCEPT !.pending = @ \ {m.call}]]
              /\ session' = [session EXCEPT ![m.call[1]].state = "returned"]
           \/ /\ m.type = "result" /\ m.call \notin b.pending
              /\ bridge' = [bridge EXCEPT ![c] = next]
              /\ UNCHANGED session
        /\ UNCHANGED <<key, registry, worker, ran>>

\* receive_text raises once the connection is gone.
ReceiveFails(c) ==
    /\ bridge[c].handler = "running" /\ bridge[c].receiving
    /\ link[c].state = "cut" /\ link[c].up = <<>>
    /\ MarkDisconnected(c, [bridge[c] EXCEPT !.receiving = FALSE])
    /\ UNCHANGED <<key, link, registry, worker, ran>>

\* _heartbeat_loop: a heartbeat is sent; a send that raises is a disconnect.
Heartbeat(c) ==
    LET b == bridge[c]
    IN  /\ b.handler = "running" /\ b.beat = "sleep"
        /\ IF ~b.connected
           THEN bridge' = [bridge EXCEPT ![c].beat = "ended"]
                /\ UNCHANGED <<link, session>>
           ELSE IF link[c].state = "cut"
           THEN /\ MarkDisconnected(c, [b EXCEPT !.beat = "ended"])
                /\ UNCHANGED link
           ELSE /\ bridge' = [bridge EXCEPT ![c].beat = "wait",
                                            ![c].acked = FALSE]
                /\ link' = ToWorker(c, [type |-> "heartbeat"])
                /\ UNCHANGED session
        /\ UNCHANGED <<key, registry, worker, ran>>

\* Ten seconds later: without the acknowledgement the worker is given up.
HeartbeatDue(c) ==
    LET b == bridge[c]
    IN  /\ b.handler = "running" /\ b.beat = "wait"
        /\ IF b.connected /\ ~b.acked
           THEN MarkDisconnected(c, [b EXCEPT !.beat = "ended"])
           ELSE /\ bridge' = [bridge EXCEPT ![c].beat =
                                IF b.connected THEN "sleep" ELSE "ended"]
                /\ UNCHANGED session
        /\ UNCHANGED <<key, link, registry, worker, ran>>

\* The handler's finally: unregister, stop the loops, fail what is pending; the
\* connection closes as the handler returns.
HandlerEnds(c) ==
    /\ bridge[c].handler = "running" /\ ~bridge[c].receiving
    /\ registry' = Unregister(registry, c)
    /\ MarkDisconnected(c, [bridge[c] EXCEPT !.handler = "done",
                                             !.beat = "ended"])
    /\ link' = [link EXCEPT ![c].state = IF @ = "up" THEN "closed" ELSE @]
    /\ UNCHANGED <<key, worker, ran>>

-----------------------------------------------------------------------------
(* The sessions                                                            *)

\* _create_agent_session: the bridge registered for the root is kept for good;
\* without one the session is not created.
Open(s) ==
    /\ session[s].state = "new"
    /\ session' = [session EXCEPT ![s] =
          IF registry.root = 0 THEN [@ EXCEPT !.state = "refused"]
          ELSE [@ EXCEPT !.bridge = registry.root, !.state = "idle"]]
    /\ UNCHANGED <<key, link, bridge, registry, worker, ran>>

\* send_tool_call raises on a disconnected bridge, and when the message cannot
\* be sent; else the call's future is pending.
SendToolCall(s, c, k) ==
    IF ~bridge[c].connected \/ link[c].state = "cut"
    THEN /\ session' = [session EXCEPT ![s].calls = k[2], ![s].state = "failed"]
         /\ UNCHANGED <<bridge, link>>
    ELSE /\ session' = [session EXCEPT ![s].calls = k[2], ![s].state = "waiting"]
         /\ bridge' = [bridge EXCEPT ![c].pending = @ \cup {k}]
         /\ link' = ToWorker(c, [type |-> "call", call |-> k])

\* remote_execute: every call has a new id, and nothing is tried again.
RemoteExecute(s) ==
    /\ session[s].state \in {"idle", "returned", "failed"}
    /\ session[s].calls < MaxCalls
    /\ SendToolCall(s, session[s].bridge, <<s, session[s].calls + 1>>)
    /\ UNCHANGED <<key, registry, worker, ran>>

\* Mutant: the caller sends a call that timed out once more.
TimeOutRetries(s) ==
    LET c == session[s].bridge
    IN  /\ session[s].state = "waiting"
        /\ link' = ToWorker(c, [type |-> "call", call |-> CallOf(s)])
        /\ UNCHANGED <<key, bridge, registry, worker, ran, session>>

\* A caller with a timeout gives up.
TimeOut(s) ==
    /\ session[s].state = "waiting"
    /\ bridge' = [bridge EXCEPT ![session[s].bridge].pending = @ \ {CallOf(s)}]
    /\ session' = [session EXCEPT ![s].state = "failed"]
    /\ UNCHANGED <<key, link, registry, worker, ran>>

-----------------------------------------------------------------------------

WorkerStep(w) == Connect(w) \/ Lost(w) \/ HandleMessage(w) \/ FinishTool(w)
BrainStep(c) ==
    \/ Register(c) \/ Receive(c) \/ ReceiveFails(c)
    \/ Heartbeat(c) \/ HeartbeatDue(c) \/ HandlerEnds(c)

BridgeNext ==
    \/ \E w \in Worker : WorkerStep(w)
    \/ \E c \in Link : BrainStep(c) \/ Cut(c)
    \/ \E s \in Session : Open(s) \/ RemoteExecute(s) \/ TimeOut(s)

\* The loops of the brain run for ever.  Nothing is assumed of the workers.
BridgeFairness ==
    \A c \in 1 .. MaxLinks :
        /\ WF_bridgeVars(c \in Link /\ Heartbeat(c))
        /\ WF_bridgeVars(c \in Link /\ HeartbeatDue(c))

BridgeSpec == BridgeInit /\ [][BridgeNext]_bridgeVars /\ BridgeFairness

-----------------------------------------------------------------------------
(* Properties                                                              *)

\* The registry's two tables agree: the worker registered for the root is the
\* only one known, in particular after a worker has been replaced and the
\* handler of the old connection unregisters it late; and its handler is there
\* to take it out again.
RegistryAgrees ==
    /\ registry.workers = IF registry.root = 0 THEN {} ELSE {registry.root}
    /\ registry.root # 0 => bridge[registry.root].handler = "running"

\* Nobody waits at a disconnected bridge: a call that is waiting has its future
\* among the pending ones of a connected bridge.
WaitsOnConnected ==
    \A s \in Session :
        session[s].state = "waiting" =>
            /\ bridge[session[s].bridge].connected
            /\ CallOf(s) \in bridge[session[s].bridge].pending

\* Whatever connections are lost, replaced and made again, no tool call is
\* executed twice.
ExecutedOnce == \A s \in Session, k \in 1 .. MaxCalls : ran[s][k] <= 1

\* Every remote call ends, also when the worker dies without a trace or hangs
\* in its tool: the heartbeat gives it up (MaxCalls bounds the calls).
CallsEnd == <>[](\A s \in Session : session[s].state # "waiting")

\* Workers that come, go and replace each other: the registry knows the one that is
\* there, no call waits for another, and none is executed twice.
BridgeSafe == RegistryAgrees /\ WaitsOnConnected /\ ExecutedOnce
=============================================================================
