----------------------------- MODULE AguiServer -----------------------------
(***************************************************************************)
(* The AG-UI endpoint: SSE clients that follow the runs of this process.   *)
(* The RunManager knows the active runs; the _BroadcasterRegistry keeps a  *)
(* broadcaster per run, counts its clients and drops it when the run is    *)
(* over and nobody listens.  Every client has its own translator and its   *)
(* own sinks on the run's scheduler, and all the clients of a run push to  *)
(* and read from the one broadcaster.                                      *)
(***************************************************************************)
EXTENDS Naturals, Sequences, FiniteSets, Functions

CONSTANTS Client, Run,
    MaxEvents   \* bound: events the schedulers emit

ASSUME AguiAssumption == Run # {} /\ MaxEvents \in Nat

VARIABLES
    active,    \* RunManager._schedulers: the runs registered
    finished,  \* the runs whose status is completed, failed or aborted
    channels,  \* _BroadcasterRegistry._channels
    created,   \* broadcasters created so far, which also names them
    sinks,     \* the clients whose sinks are on the run's scheduler
    client,    \* each request, from the handler to the end of its generator
    emitted    \* observation: the runs of the events emitted, in order

aguiVars == <<active, finished, channels, created, sinks, client, emitted>>

None == [broadcaster |-> 0, count |-> 0, terminal |-> FALSE]
NewClient == [pc |-> "new", run |-> CHOOSE r \in Run : TRUE, broadcaster |-> 0,
              live |-> FALSE, inbox |-> <<>>, since |-> 0]

AguiInit ==
    /\ active = Run
    /\ finished = {}
    /\ channels = [r \in Run |-> None]
    /\ created = 0
    /\ sinks = [r \in Run |-> {}]
    /\ client = [c \in Client |-> NewClient]
    /\ emitted = <<>>

SetClient(c, rec) == client' = [client EXCEPT ![c] = rec]

-----------------------------------------------------------------------------
(* The registry.  Each operator maps a table of channels to the next.      *)

Exists(chans, r) == chans[r].broadcaster # 0

Evict(chans, r) == [chans EXCEPT ![r] = None]

Sweep(chans) ==
    [r \in Run |-> IF chans[r].terminal /\ chans[r].count = 0
                   THEN None ELSE chans[r]]

GetOrCreate(chans, r) ==
    IF Exists(chans, r) THEN chans
    ELSE [chans EXCEPT ![r] =
             [broadcaster |-> created + 1, count |-> 0, terminal |-> FALSE]]

SubscribeClient(r) ==
    LET chans == GetOrCreate(Sweep(channels), r)
    IN  [chans EXCEPT ![r].count = @ + 1]

\* unsubscribe: the count never falls below zero, and the last client of a
\* finished run takes the channel with it.
UnsubscribeClient(chans, r) ==
    LET n == IF chans[r].count = 0 THEN 0 ELSE chans[r].count - 1
    IN  IF ~Exists(chans, r) THEN chans
        ELSE IF n = 0 /\ chans[r].terminal THEN Evict(chans, r)
        ELSE [chans EXCEPT ![r].count = n]

MarkTerminal(chans, r) ==
    IF ~Exists(chans, r) THEN chans
    ELSE IF chans[r].count = 0 THEN Evict(chans, r)
    ELSE [chans EXCEPT ![r].terminal = TRUE]

-----------------------------------------------------------------------------
(* The request handler and its generator                                   *)

\* events_handler up to its first await: the client is counted and, when the
\* run is active, its sinks are added.  (Requests it refuses: AccessChecks.)
AguiConnect(c, r) ==
    LET chans == SubscribeClient(r)
    IN  /\ client[c].pc = "new"
        /\ channels' = chans
        /\ created' = IF chans[r].broadcaster > created THEN created + 1
                      ELSE created
        /\ sinks' = IF r \in active THEN [sinks EXCEPT ![r] = @ \cup {c}]
                    ELSE sinks
        /\ SetClient(c, [client[c] EXCEPT
              !.pc = "opening", !.run = r, !.live = r \in active,
              !.broadcaster = chans[r].broadcaster])
        /\ UNCHANGED <<active, finished, emitted>>

\* broadcaster.stream: from now on the client receives what is broadcast.
OpenResponse(c) ==
    /\ client[c].pc = "opening"
    /\ SetClient(c, [client[c] EXCEPT !.pc = "open", !.since = Len(emitted)])
    /\ UNCHANGED <<active, finished, channels, created, sinks, emitted>>

\* The snapshot is sent.  With terminal events the generator is over, else it
\* follows the broadcaster.
Start(c) ==
    /\ client[c].pc = "open"
    /\ SetClient(c, [client[c] EXCEPT
          !.pc = IF client[c].live THEN "streaming" ELSE "leaving"])
    /\ UNCHANGED <<active, finished, channels, created, sinks, emitted>>

\* The client goes away before the generator is started: its finally never
\* runs.
Abandon(c) ==
    /\ client[c].pc = "open"
    /\ SetClient(c, [client[c] EXCEPT !.pc = "abandoned"])
    /\ UNCHANGED <<active, finished, channels, created, sinks, emitted>>

\* Mutant: the scheduler's sinks are cleared.
LeaveForAll(c) ==
    LET r == client[c].run
    IN  /\ client[c].pc \in {"streaming", "leaving"}
        /\ sinks' = [sinks EXCEPT ![r] = {}]
        /\ SetClient(c, [client[c] EXCEPT !.pc = "reading status"])
        /\ UNCHANGED <<active, finished, channels, created, emitted>>

\* The finally, up to its await: the client's own sinks are removed.
Leave(c) ==
    LET r == client[c].run
    IN  /\ client[c].pc \in {"streaming", "leaving"}
        /\ sinks' = [sinks EXCEPT ![r] = @ \ {c}]
        /\ SetClient(c, [client[c] EXCEPT !.pc = "reading status"])
        /\ UNCHANGED <<active, finished, channels, created, emitted>>

\* ... and after it: the channel of a finished run is marked, unless the
\* query failed, and the client is no longer counted.
Close(c) ==
    LET r == client[c].run
    IN  /\ client[c].pc = "reading status"
        /\ \E fails \in BOOLEAN :
              channels' = UnsubscribeClient(
                  IF r \in finished /\ ~fails THEN MarkTerminal(channels, r)
                  ELSE channels, r)
        /\ SetClient(c, [client[c] EXCEPT !.pc = "closed"])
        /\ UNCHANGED <<active, finished, created, sinks, emitted>>

-----------------------------------------------------------------------------
(* The runs                                                                *)

\* A scheduler hands an event to each of its sinks; each translates it and
\* broadcasts it to everyone who reads from its broadcaster.
Emit(r) ==
    LET Copies(d) == {c \in sinks[r] :
                         client[c].broadcaster = client[d].broadcaster}
    IN  /\ r \in active /\ Len(emitted) < MaxEvents
        /\ emitted' = Append(emitted, r)
        /\ client' = [d \in Client |->
              IF client[d].pc \in {"open", "streaming"}
              THEN [client[d] EXCEPT !.inbox =
                       @ \o [i \in 1 .. Cardinality(Copies(d)) |->
                                Len(emitted) + 1]]
              ELSE client[d]]
        /\ UNCHANGED <<active, finished, channels, created, sinks>>

\* transition_run to a terminal status, then deregister_run.
FinishRun(r) ==
    /\ r \in active \ finished
    /\ finished' = finished \cup {r}
    /\ UNCHANGED <<active, channels, created, sinks, client, emitted>>

Deregister(r) ==
    /\ r \in active \cap finished
    /\ active' = active \ {r}
    /\ UNCHANGED <<finished, channels, created, sinks, client, emitted>>

AguiQuiet ==
    /\ \A c \in Client : client[c].pc \in {"closed", "abandoned"}
    /\ UNCHANGED aguiVars

AguiNext ==
    \/ \E c \in Client, r \in Run : AguiConnect(c, r)
    \/ \E c \in Client : OpenResponse(c)
    \/ \E c \in Client : Start(c)
    \/ \E c \in Client : Abandon(c)
    \/ \E c \in Client : Leave(c)
    \/ \E c \in Client : Close(c)
    \/ \E r \in Run : Emit(r)
    \/ \E r \in Run : FinishRun(r)
    \/ \E r \in Run : Deregister(r)
    \/ AguiQuiet

AguiSpec == AguiInit /\ [][AguiNext]_aguiVars

-----------------------------------------------------------------------------
(* Properties                                                              *)

Counted(r) ==
    {c \in Client : client[c].run = r /\ client[c].pc \notin {"new", "closed"}}

\* A channel outlives its clients: while a request is open the registry has
\* the very broadcaster the request streams from, and counts exactly the
\* requests that are open, however they overlap with the end of the run.
ChannelKept ==
    \A r \in Run :
        /\ channels[r].count = Cardinality(Counted(r))
        /\ \A c \in Counted(r) : channels[r].broadcaster = client[c].broadcaster

\* A channel that is marked terminal has a client: the last one to leave
\* evicts it, so that _sweep has nothing to do.
TerminalHasClient ==
    \A r \in Run : channels[r].terminal => channels[r].count > 0

\* A client that follows a live run receives every event its run emits from
\* the moment it is attached, in the order they are emitted (as many times as
\* the run has clients), and nothing of another run.
FollowsItsRun ==
    \A c \in Client :
        LET box == client[c].inbox
        IN  /\ \A i \in DOMAIN box : emitted[box[i]] = client[c].run
            /\ \A i, j \in DOMAIN box : i < j => box[i] <= box[j]
            /\ client[c].pc = "streaming" =>
                  \A n \in client[c].since + 1 .. Len(emitted) :
                      emitted[n] = client[c].run => n \in Range(box)

\* A request that ends leaves no sink on a scheduler; only one whose
\* generator was never started does.
SinksReturned ==
    \A r \in Run : \A c \in sinks[r] :
        client[c].run = r /\ client[c].pc \notin {"new", "closed"}

\* The channels, clients and sinks of the AG-UI endpoint follow the runs they serve.
ChannelsFollowRuns ==
    ChannelKept /\ TerminalHasClient /\ FollowsItsRun /\ SinksReturned
=============================================================================
