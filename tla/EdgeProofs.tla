----------------------------- MODULE EdgeProofs -----------------------------
(***************************************************************************)
(* Proofs about what is attached to the runs from outside: WorkerBridge,   *)
(* for every set of workers, consumers and sessions and however often      *)
(* connections are lost and made again, AguiServer, for every set of       *)
(* clients and runs and any number of events, and EventStream, for any     *)
(* number of streams, rows and connections.                                *)
(***************************************************************************)
EXTENDS WorkerBridge, AguiServer, EventStream, FiniteSetTheorems, TLAPS

-----------------------------------------------------------------------------
(* WorkerBridge: the inductive invariant                                   *)

Call == Session \X (1 .. MaxCalls)
DownMessage == [type : {"heartbeat"}] \cup [type : {"call"}, call : Call]
UpMessage ==
    [type : {"registration", "ack"}] \cup [type : {"result"}, call : Call]
LinkRow == [state : {"up", "cut", "dead", "closed"}, down : Seq(DownMessage),
            up : Seq(UpMessage)]
BridgeRow ==
    [worker : Worker, handler : {"first message", "running", "done"},
     connected : BOOLEAN, pending : SUBSET Call, receiving : BOOLEAN,
     beat : {"sleep", "wait", "ended"}, acked : BOOLEAN]
WorkerRow == [pc : {"down", "open", "exited"}, link : Nat,
              call : Call \cup {NoCall}]
SessionRow ==
    [bridge : Nat, calls : 0 .. MaxCalls,
     state : {"new", "refused", "idle", "waiting", "returned", "failed"}]

\* Every variable has its type.
BridgeTypes ==
    /\ link \in Seq(LinkRow)
    /\ bridge \in Seq(BridgeRow) /\ Len(bridge) = Len(link)
    /\ registry \in [workers : SUBSET Link, root : Link \cup {0}]
    /\ worker \in [Worker -> WorkerRow]
    /\ session \in [Session -> SessionRow]
    /\ ran \in [Session -> [1 .. MaxCalls -> Nat]]

\* An open worker has a connection, and a session that was created a bridge.
LinksExist ==
    /\ \A w \in Worker : worker[w].pc = "open" => worker[w].link \in Link
    /\ \A s \in Session :
          session[s].state \notin {"new", "refused"} => session[s].bridge \in Link

\* A future that is pending is the one its session waits for.
PendingAwaited ==
    \A c \in Link : \A k \in bridge[c].pending :
        /\ session[k[1]].state = "waiting" /\ session[k[1]].bridge = c
        /\ session[k[1]].calls = k[2]

\* A call that nobody has executed: it has been made.
Unexecuted(k) == k[2] <= session[k[1]].calls /\ ran[k[1]][k[2]] = 0

Calls(c) == {i \in DOMAIN link[c].down : link[c].down[i].type = "call"}

\* A call on its way to a worker is there once, no worker executes it and none
\* has.
InFlightOnce ==
    /\ \A c, d \in Link : \A i \in Calls(c), j \in Calls(d) :
          link[c].down[i].call = link[d].down[j].call => c = d /\ i = j
    /\ \A c \in Link : \A i \in Calls(c) : \A k \in Call :
          link[c].down[i].call = k =>
              Unexecuted(k) /\ \A w \in Worker : worker[w].call # k

\* A call that a worker executes no other one does, and none has.
ExecutingOnce ==
    \A w \in Worker : \A k \in Call :
        worker[w].call = k =>
            Unexecuted(k) /\ \A v \in Worker : worker[v].call = k => v = w

\* Only calls that were made have been executed.
RanWereMade ==
    \A s \in Session : \A n \in 1 .. MaxCalls :
        n > session[s].calls => ran[s][n] = 0

TypeInv == BridgeTypes /\ LinksExist
WaitInv == WaitsOnConnected /\ PendingAwaited
FlightInv == InFlightOnce /\ ExecutingOnce /\ RanWereMade /\ ExecutedOnce
Inductive == TypeInv /\ RegistryAgrees /\ WaitInv /\ FlightInv

-----------------------------------------------------------------------------
(* Rows of sequences                                                       *)

LEMMA RowChange ==
    ASSUME NEW S, NEW q \in Seq(S), NEW c \in 1 .. Len(q), NEW r \in S
    PROVE  /\ [q EXCEPT ![c] = r] \in Seq(S)
           /\ Len([q EXCEPT ![c] = r]) = Len(q)
           /\ [q EXCEPT ![c] = r][c] = r
           /\ \A d \in 1 .. Len(q) : d # c => [q EXCEPT ![c] = r][d] = q[d]
  OBVIOUS

LEMMA RowAdded ==
    ASSUME NEW S, NEW q \in Seq(S), NEW r \in S
    PROVE  /\ Append(q, r) \in Seq(S) /\ Len(Append(q, r)) = Len(q) + 1
           /\ Append(q, r)[Len(q) + 1] = r
           /\ \A d \in 1 .. Len(q) : Append(q, r)[d] = q[d]
  OBVIOUS

\* The connections after one of them took a new row.
LinkChanged(c) ==
    /\ link' \in Seq(LinkRow) /\ Len(link') = Len(link)
    /\ \A d \in Link : d # c => link'[d] = link[d]

LEMMA LinkRowChange ==
    ASSUME link \in Seq(LinkRow), NEW c \in Link, NEW r \in LinkRow,
           link' = [link EXCEPT ![c] = r]
    PROVE  LinkChanged(c) /\ link'[c] = r
  BY RowChange DEF LinkChanged, Link

\* What a connection's row holds after one of its parts changed.
LEMMA LinkParts ==
    ASSUME NEW r \in LinkRow
    PROVE  /\ r.down \in Seq(DownMessage) /\ r.up \in Seq(UpMessage)
           /\ \A st \in {"up", "cut", "dead", "closed"} :
                 /\ [r EXCEPT !.state = st] \in LinkRow
                 /\ [r EXCEPT !.state = st].down = r.down
                 /\ [r EXCEPT !.state = st, !.down = <<>>] \in LinkRow
                 /\ [r EXCEPT !.state = st, !.down = <<>>].down = <<>>
           /\ \A u \in Seq(UpMessage) :
                 /\ [r EXCEPT !.up = u] \in LinkRow
                 /\ [r EXCEPT !.up = u].down = r.down
           /\ \A q \in Seq(DownMessage) :
                 /\ [r EXCEPT !.down = q] \in LinkRow
                 /\ [r EXCEPT !.down = q].down = q
           /\ \A q \in Seq(DownMessage), u \in Seq(UpMessage) :
                 /\ [r EXCEPT !.down = q, !.up = u] \in LinkRow
                 /\ [r EXCEPT !.down = q, !.up = u].down = q
<1>1. <<>> \in Seq(DownMessage)
  OBVIOUS
<1> QED
  BY <1>1 DEF LinkRow

\* A message to a worker is added to its connection or lost.
LEMMA ToWorkerLink ==
    ASSUME link \in Seq(LinkRow), NEW c \in Link, NEW m \in DownMessage,
           link' = ToWorker(c, m)
    PROVE  /\ LinkChanged(c)
           /\ link'[c].down \in {link[c].down, Append(link[c].down, m)}
<1>0. link[c] \in LinkRow
  BY DEF Link
<1>1. CASE link[c].state = "up"
  <2> DEFINE r == [link[c] EXCEPT !.down = Append(@, m)]
  <2>1. Append(link[c].down, m) \in Seq(DownMessage)
    <3>1. link[c].down \in Seq(DownMessage)
      BY <1>0, LinkParts
    <3> QED
      BY <3>1
  <2>2. r \in LinkRow /\ r.down = Append(link[c].down, m)
    BY <1>0, <2>1, LinkParts
  <2>3. link' = [link EXCEPT ![c] = r]
    BY <1>1 DEF ToWorker
  <2> HIDE DEF r
  <2> QED
    BY <2>2, <2>3, LinkRowChange
<1>2. CASE link[c].state # "up"
  BY <1>2 DEF ToWorker, LinkChanged
<1> QED
  BY <1>1, <1>2

\* A message to the brain changes nothing that is on its way to a worker.
LEMMA ToBrainLink ==
    ASSUME link \in Seq(LinkRow), NEW c \in Link, NEW m \in UpMessage,
           link' = ToBrain(c, m)
    PROVE  LinkChanged(c) /\ link'[c].down = link[c].down
<1>0. link[c] \in LinkRow
  BY DEF Link
<1>1. CASE link[c].state = "up"
  <2> DEFINE r == [link[c] EXCEPT !.up = Append(@, m)]
  <2>1. Append(link[c].up, m) \in Seq(UpMessage)
    <3>1. link[c].up \in Seq(UpMessage)
      BY <1>0, LinkParts
    <3> QED
      BY <3>1
  <2>2. r \in LinkRow /\ r.down = link[c].down
    BY <1>0, <2>1, LinkParts
  <2>3. link' = [link EXCEPT ![c] = r]
    BY <1>1 DEF ToBrain
  <2> HIDE DEF r
  <2> QED
    BY <2>2, <2>3, LinkRowChange
<1>2. CASE link[c].state # "up"
  BY <1>2 DEF ToBrain, LinkChanged
<1> QED
  BY <1>1, <1>2

\* The bridges after one of them took a new row.
BridgeChanged(c) ==
    /\ bridge' \in Seq(BridgeRow) /\ Len(bridge') = Len(bridge)
    /\ \A d \in Link : d # c => bridge'[d] = bridge[d]

LEMMA BridgeRowChange ==
    ASSUME BridgeTypes, NEW c \in Link, NEW r \in BridgeRow,
           bridge' = [bridge EXCEPT ![c] = r]
    PROVE  BridgeChanged(c) /\ bridge'[c] = r
  BY RowChange DEF BridgeTypes, BridgeChanged, Link

\* NoCall is no call.
LEMMA NoCallIsNone == NoCall \notin Call
  BY DEF NoCall, Call

-----------------------------------------------------------------------------
(* Frames: what a step has to leave alone for each part to be kept         *)

LEMMA Rows ==
    ASSUME TypeInv
    PROVE  /\ Len(link) \in Nat /\ Link = 1 .. Len(link)
           /\ \A c \in Link : link[c] \in LinkRow /\ bridge[c] \in BridgeRow
           /\ \A w \in Worker : worker[w] \in WorkerRow
           /\ \A s \in Session : session[s] \in SessionRow
  BY DEF TypeInv, BridgeTypes, Link

LEMMA PendingCalls ==
    ASSUME TypeInv, NEW c \in Link, NEW k \in bridge[c].pending
    PROVE  k \in Call /\ k = <<k[1], k[2]>> /\ k[1] \in Session
<1>1. bridge[c] \in BridgeRow
  BY Rows
<1>2. k \in Call
  BY <1>1 DEF BridgeRow
<1> QED
  BY <1>2 DEF Call

\* A step that makes no connection keeps the types when what it writes has them.
LEMMA TypesKept ==
    ASSUME TypeInv,
           link' \in Seq(LinkRow), Len(link') = Len(link),
           bridge' \in Seq(BridgeRow), Len(bridge') = Len(bridge),
           registry' \in [workers : SUBSET Link, root : Link \cup {0}],
           worker' \in [Worker -> WorkerRow], session' \in [Session -> SessionRow],
           ran' \in [Session -> [1 .. MaxCalls -> Nat]],
           \A w \in Worker :
               worker'[w].pc = "open" => /\ worker[w].pc = "open"
                                         /\ worker'[w].link = worker[w].link,
           \A s \in Session : session'[s].state \notin {"new", "refused"} =>
                                   session'[s].bridge \in Link
    PROVE  TypeInv' /\ Link' = Link
<1>1. Link' = Link
  BY DEF Link
<1>2. BridgeTypes'
  BY <1>1 DEF TypeInv, BridgeTypes
<1>3. \A w \in Worker : worker'[w].pc = "open" => worker'[w].link \in Link
  BY DEF TypeInv, LinksExist
<1> QED
  BY <1>1, <1>2, <1>3 DEF TypeInv, LinksExist

LEMMA RegistryFrame ==
    ASSUME TypeInv, RegistryAgrees, UNCHANGED registry,
           \A c \in Link : bridge'[c].handler = bridge[c].handler
    PROVE  RegistryAgrees'
  BY DEF TypeInv, BridgeTypes, RegistryAgrees

LEMMA WaitFrame ==
    ASSUME TypeInv, WaitInv, Link \subseteq Link',
           \A s \in Session : session'[s] = session[s] \/
               (/\ session'[s].state # "waiting" /\ session[s].state # "waiting"),
           \A c \in Link' :
               \/ c \notin Link /\ bridge'[c].pending = {}
               \/ /\ c \in Link /\ bridge'[c].pending = bridge[c].pending
                  /\ bridge'[c].connected <=> bridge[c].connected
    PROVE  WaitInv'
<1>1. WaitsOnConnected'
  <2> SUFFICES ASSUME NEW s \in Session, session'[s].state = "waiting"
               PROVE  /\ bridge'[session'[s].bridge].connected
                      /\ CallOf(s)' \in bridge'[session'[s].bridge].pending
    BY DEF WaitsOnConnected
  <2>1. session'[s] = session[s]
    OBVIOUS
  <2>2. /\ session[s].bridge \in Link /\ bridge[session[s].bridge].connected
        /\ CallOf(s) \in bridge[session[s].bridge].pending
    BY <2>1 DEF WaitInv, WaitsOnConnected, TypeInv, LinksExist
  <2> QED
    BY <2>1, <2>2 DEF CallOf
<1>2. PendingAwaited'
  <2> SUFFICES ASSUME NEW c \in Link', NEW k \in bridge'[c].pending
               PROVE  /\ session'[k[1]].state = "waiting"
                      /\ session'[k[1]].bridge = c /\ session'[k[1]].calls = k[2]
    BY DEF PendingAwaited
  <2>1. c \in Link /\ k \in bridge[c].pending
    OBVIOUS
  <2>2. /\ session[k[1]].state = "waiting" /\ session[k[1]].bridge = c
        /\ session[k[1]].calls = k[2]
    BY <2>1 DEF WaitInv, PendingAwaited
  <2>3. k[1] \in Session
    BY <2>1, Rows DEF BridgeRow, Call
  <2> QED
    BY <2>2, <2>3
<1> QED
  BY <1>1, <1>2 DEF WaitInv

\* The calls that are on their way were there before.
CallsWere(c) ==
    \A i \in Calls(c)' : /\ c \in Link /\ i \in Calls(c)
                         /\ link'[c].down[i].call = link[c].down[i].call

LEMMA CallType ==
    ASSUME TypeInv, NEW c \in Link, NEW i \in Calls(c)
    PROVE  link[c].down[i].call \in Call
<1>1. link[c].down \in Seq(DownMessage) /\ i \in DOMAIN link[c].down
  BY Rows, LinkParts DEF Calls
<1>2. link[c].down[i] \in DownMessage /\ link[c].down[i].type = "call"
  BY <1>1 DEF Calls
<1> QED
  BY <1>2 DEF DownMessage

LEMMA FlightFrame ==
    ASSUME TypeInv, FlightInv, \A c \in Link' : CallsWere(c),
           \A w \in Worker : worker'[w].call \in {worker[w].call, NoCall},
           \A s \in Session : session'[s].calls = session[s].calls,
           UNCHANGED ran
    PROVE  FlightInv'
<1>0. \A k \in Call : Unexecuted(k) => Unexecuted(k)'
  BY DEF Unexecuted, Call
<1>1. ASSUME NEW c \in Link', NEW i \in Calls(c)'
      PROVE  /\ c \in Link /\ i \in Calls(c) /\ link[c].down[i].call \in Call
             /\ link'[c].down[i].call = link[c].down[i].call
  BY <1>1, CallType DEF CallsWere
<1>2. InFlightOnce'
  <2>1. ASSUME NEW c \in Link', NEW d \in Link', NEW i \in Calls(c)',
               NEW j \in Calls(d)',
               link'[c].down[i].call = link'[d].down[j].call
        PROVE  c = d /\ i = j
    BY <1>1, <2>1 DEF FlightInv, InFlightOnce
  <2>2. ASSUME NEW c \in Link', NEW i \in Calls(c)', NEW k \in Call,
               link'[c].down[i].call = k
        PROVE  Unexecuted(k)' /\ \A w \in Worker : worker'[w].call # k
    BY <1>0, <1>1, <2>2, NoCallIsNone DEF FlightInv, InFlightOnce
  <2> QED
    BY <2>1, <2>2 DEF InFlightOnce
<1>3. ExecutingOnce'
  BY <1>0, NoCallIsNone DEF FlightInv, ExecutingOnce
<1>4. RanWereMade' /\ ExecutedOnce'
  BY DEF FlightInv, RanWereMade, ExecutedOnce
<1> QED
  BY <1>2, <1>3, <1>4 DEF FlightInv

\* A connection whose part that leads to the worker is empty, the same or one
\* heartbeat longer has no new call on its way.
LEMMA NoNewCalls ==
    ASSUME TypeInv, NEW c \in Link, LinkChanged(c), NEW m \in [type : {"heartbeat"}],
           link'[c].down \in {<<>>, link[c].down, Append(link[c].down, m)}
    PROVE  \A d \in Link' : CallsWere(d)
<1>0. link[c].down \in Seq(DownMessage) /\ Link' = Link
  BY Rows, LinkParts DEF LinkChanged, Link
<1>1. ASSUME NEW d \in Link, d # c PROVE CallsWere(d)
  BY <1>1 DEF LinkChanged, CallsWere, Calls
<1>2. CallsWere(c)
  <2>1. CASE link'[c].down = <<>>
    BY <2>1 DEF CallsWere, Calls
  <2>2. CASE link'[c].down = link[c].down
    BY <2>2 DEF CallsWere, Calls
  <2>3. CASE link'[c].down = Append(link[c].down, m)
    <3> DEFINE q == link[c].down
    <3>1. /\ DOMAIN Append(q, m) = 1 .. Len(q) + 1 /\ DOMAIN q = 1 .. Len(q)
          /\ Append(q, m)[Len(q) + 1] = m /\ Len(q) \in Nat
          /\ \A i \in 1 .. Len(q) : Append(q, m)[i] = q[i]
      BY <1>0
    <3>2. m.type # "call"
      OBVIOUS
    <3>3. ASSUME NEW i \in Calls(c)'
          PROVE  i \in Calls(c) /\ link'[c].down[i].call = link[c].down[i].call
      <4>1. i \in 1 .. Len(q) + 1 /\ Append(q, m)[i].type = "call"
        BY <2>3, <3>1, <3>3 DEF Calls
      <4>2. i \in 1 .. Len(q)
        BY <3>1, <3>2, <4>1
      <4> QED
        BY <2>3, <3>1, <4>1, <4>2 DEF Calls
    <3> QED
      BY <3>3 DEF CallsWere
  <2> QED
    BY <2>1, <2>2, <2>3
<1> QED
  BY <1>0, <1>1, <1>2

\* The same, when nothing on its way to a worker changes at all.
LEMMA SameCalls ==
    ASSUME TypeInv, Len(link') = Len(link),
           \A d \in Link : link'[d].down = link[d].down
    PROVE  \A d \in Link' : CallsWere(d)
  BY DEF Link, CallsWere, Calls

-----------------------------------------------------------------------------
(* The network and the workers                                             *)

LEMMA CutStep ==
    ASSUME Inductive, NEW c \in Link, Cut(c)
    PROVE  Inductive'
<1>0. TypeInv /\ link \in Seq(LinkRow) /\ link[c] \in LinkRow
  BY Rows DEF Inductive, TypeInv, BridgeTypes
<1>1. PICK st \in {"cut", "dead"} :
          link' = [link EXCEPT ![c].state = st, ![c].down = <<>>]
  BY DEF Cut
<1> DEFINE r == [link[c] EXCEPT !.state = st, !.down = <<>>]
<1>2. r \in LinkRow /\ r.down = <<>>
  BY <1>0, LinkParts
<1>3. link' = [link EXCEPT ![c] = r]
  BY <1>1
<1> HIDE DEF r
<1>4. LinkChanged(c) /\ link'[c].down = <<>>
  BY <1>0, <1>2, <1>3, LinkRowChange
<1>5. UNCHANGED <<bridge, registry, worker, session, ran>> /\ Link' = Link
  BY <1>4 DEF Cut, LinkChanged, Link
<1>6. TypeInv'
  BY <1>0, <1>4, <1>5 DEF TypeInv, BridgeTypes, LinksExist, LinkChanged
<1>7. RegistryAgrees' /\ WaitInv'
  BY <1>0, <1>5, RegistryFrame, WaitFrame DEF Inductive
<1>8. \A d \in Link' : CallsWere(d)
  <2>1. [type |-> "heartbeat"] \in [type : {"heartbeat"}]
    OBVIOUS
  <2> QED
    BY <1>0, <1>4, <2>1, NoNewCalls
<1>9. FlightInv'
  BY <1>0, <1>5, <1>8, FlightFrame DEF Inductive
<1> QED
  BY <1>6, <1>7, <1>9 DEF Inductive

LEMMA ConnectStep ==
    ASSUME Inductive, NEW w \in Worker, Connect(w)
    PROVE  Inductive'
<1>0. TypeInv /\ link \in Seq(LinkRow) /\ bridge \in Seq(BridgeRow)
      /\ Len(bridge) = Len(link) /\ Len(link) \in Nat
  BY DEF Inductive, TypeInv, BridgeTypes
<1> DEFINE r == [state |-> "up", down |-> <<>>,
                 up |-> <<[type |-> "registration"]>>]
           b == NewBridge(w)
           v == [pc |-> "open", link |-> Len(link) + 1, call |-> NoCall]
<1>1. r \in LinkRow /\ r.down = <<>>
  <2>1. [type |-> "registration"] \in UpMessage
    BY DEF UpMessage
  <2>2. <<[type |-> "registration"]>> \in Seq(UpMessage)
    BY <2>1
  <2> QED
    BY <2>2 DEF LinkRow
<1>2. b \in BridgeRow /\ b.pending = {}
  BY DEF NewBridge, BridgeRow
<1>3. v \in WorkerRow /\ v.call = NoCall /\ v.link = Len(link) + 1
  BY <1>0 DEF WorkerRow
<1>4. /\ link' = Append(link, r) /\ bridge' = Append(bridge, b)
      /\ worker' = [worker EXCEPT ![w] = v]
      /\ UNCHANGED <<registry, session, ran>>
  BY DEF Connect
<1> HIDE DEF r, b, v
<1>5. /\ link' \in Seq(LinkRow) /\ Len(link') = Len(link) + 1
      /\ link'[Len(link) + 1] = r /\ \A d \in Link : link'[d] = link[d]
  BY <1>0, <1>1, <1>4, RowAdded DEF Link
<1>6. /\ bridge' \in Seq(BridgeRow) /\ Len(bridge') = Len(link')
      /\ bridge'[Len(link) + 1] = b /\ \A d \in Link : bridge'[d] = bridge[d]
  BY <1>0, <1>2, <1>4, <1>5, RowAdded DEF Link
<1>7. /\ worker' \in [Worker -> WorkerRow] /\ worker'[w] = v
      /\ \A x \in Worker : x # w => worker'[x] = worker[x]
  BY <1>0, <1>3, <1>4 DEF TypeInv, BridgeTypes
<1>8. /\ Link \subseteq Link' /\ Len(link) + 1 \in Link'
      /\ \A d \in Link' : d \in Link \/ (d \notin Link /\ d = Len(link) + 1)
  BY <1>0, <1>5 DEF Link
<1>9. TypeInv'
  BY <1>0, <1>3, <1>4, <1>5, <1>6, <1>7, <1>8
     DEF TypeInv, BridgeTypes, LinksExist
<1>10. RegistryAgrees'
  BY <1>0, <1>4, <1>6, RegistryFrame DEF Inductive
<1>11. WaitInv'
  BY <1>0, <1>2, <1>4, <1>6, <1>8, WaitFrame DEF Inductive
<1>12. \A d \in Link' : CallsWere(d)
  BY <1>1, <1>5, <1>8 DEF CallsWere, Calls
<1>13. FlightInv'
  BY <1>0, <1>3, <1>4, <1>7, <1>12, FlightFrame DEF Inductive
<1> QED
  BY <1>9, <1>10, <1>11, <1>13 DEF Inductive

LEMMA LostStep ==
    ASSUME Inductive, NEW w \in Worker, Lost(w)
    PROVE  Inductive'
<1>0. TypeInv /\ worker \in [Worker -> WorkerRow]
  BY DEF Inductive, TypeInv, BridgeTypes
<1>1. UNCHANGED <<link, bridge, registry, session, ran>>
  BY DEF Lost
<1>2. PICK pc \in {"down", "exited"} : worker' = [worker EXCEPT ![w].pc = pc]
  BY DEF Lost
<1>3. /\ worker' \in [Worker -> WorkerRow]
      /\ worker'[w].pc = pc /\ worker'[w].call = worker[w].call
      /\ \A x \in Worker : x # w => worker'[x] = worker[x]
  BY <1>0, <1>2 DEF WorkerRow
<1>4. TypeInv'
  BY <1>0, <1>1, <1>3 DEF TypeInv, BridgeTypes, LinksExist, Link
<1>5. RegistryAgrees' /\ WaitInv'
  BY <1>0, <1>1, RegistryFrame, WaitFrame DEF Inductive, Link
<1>6. \A d \in Link' : CallsWere(d)
  BY <1>0, <1>1, SameCalls
<1>7. FlightInv'
  BY <1>0, <1>1, <1>3, <1>6, FlightFrame DEF Inductive
<1> QED
  BY <1>4, <1>5, <1>7 DEF Inductive

\* What is left of a connection after its first message was taken.
LEMMA TailCalls ==
    ASSUME TypeInv, NEW c \in Link, link[c].down # <<>>,
           link'[c].down = Tail(link[c].down)
    PROVE  \A i \in Calls(c)' :
               /\ i + 1 \in Calls(c) /\ i + 1 # 1
               /\ link'[c].down[i].call = link[c].down[i + 1].call
<1> DEFINE q == link[c].down
<1>1. q \in Seq(DownMessage)
  BY Rows, LinkParts
<1>2. /\ DOMAIN q = 1 .. Len(q) /\ Len(q) \in Nat \ {0}
      /\ DOMAIN Tail(q) = 1 .. Len(q) - 1
      /\ \A i \in 1 .. Len(q) - 1 : Tail(q)[i] = q[i + 1]
  BY <1>1
<1>3. ASSUME NEW i \in 1 .. Len(q) - 1
      PROVE  i + 1 \in 1 .. Len(q) /\ i + 1 # 1
  BY <1>2
<1> HIDE DEF q
<1> QED
  BY <1>2, <1>3 DEF Calls, q

LEMMA HandleStep ==
    ASSUME Inductive, NEW w \in Worker, HandleMessage(w)
    PROVE  Inductive'
<1> DEFINE c == worker[w].link
           q == link[c].down
           m == Head(q)
<1>0. /\ TypeInv /\ link \in Seq(LinkRow) /\ c \in Link /\ link[c] \in LinkRow
      /\ worker \in [Worker -> WorkerRow]
  BY Rows DEF Inductive, TypeInv, BridgeTypes, LinksExist, HandleMessage
<1>1. /\ q \in Seq(DownMessage) /\ q # <<>> /\ link[c].up \in Seq(UpMessage)
      /\ worker[w].call = NoCall
      /\ UNCHANGED <<bridge, registry, session, ran>>
  BY <1>0, LinkParts DEF HandleMessage
<1>2. /\ Tail(q) \in Seq(DownMessage) /\ m \in DownMessage /\ 1 \in DOMAIN q
      /\ m = q[1] /\ Append(link[c].up, [type |-> "ack"]) \in Seq(UpMessage)
  <2>1. [type |-> "ack"] \in UpMessage
    BY DEF UpMessage
  <2> QED
    BY <1>1, <2>1
<1>3. LinkChanged(c) /\ link'[c].down = Tail(q)
  <2>1. CASE m.type = "heartbeat"
    <3> DEFINE r == [link[c] EXCEPT !.down = Tail(@),
                                    !.up = Append(@, [type |-> "ack"])]
    <3>1. r \in LinkRow /\ r.down = Tail(q)
      <4> DEFINE row == link[c]
                 t == Tail(q)
                 u == Append(link[c].up, [type |-> "ack"])
      <4>1. row \in LinkRow /\ t \in Seq(DownMessage) /\ u \in Seq(UpMessage)
        BY <1>0, <1>2
      <4> HIDE DEF row, t, u
      <4>2. /\ [row EXCEPT !.down = t, !.up = u] \in LinkRow
            /\ [row EXCEPT !.down = t, !.up = u].down = t
        BY <4>1 DEF LinkRow
      <4> QED
        BY <4>2 DEF row, t, u
    <3>2. link' = [link EXCEPT ![c] = r]
      BY <2>1 DEF HandleMessage
    <3> HIDE DEF r
    <3> QED
      BY <1>0, <3>1, <3>2, LinkRowChange
  <2>2. CASE m.type # "heartbeat"
    <3> DEFINE r == [link[c] EXCEPT !.down = Tail(@)]
    <3>1. r \in LinkRow /\ r.down = Tail(q)
      BY <1>0, <1>2, LinkParts
    <3>2. link' = [link EXCEPT ![c] = r]
      BY <2>2 DEF HandleMessage
    <3> HIDE DEF r
    <3> QED
      BY <1>0, <3>1, <3>2, LinkRowChange
  <2> QED
    BY <2>1, <2>2
<1>4. \/ UNCHANGED worker
      \/ /\ 1 \in Calls(c) /\ q[1].call \in Call
         /\ worker' = [worker EXCEPT ![w].call = q[1].call]
  <2>1. CASE m.type = "heartbeat"
    BY <2>1 DEF HandleMessage
  <2>2. CASE m.type # "heartbeat"
    <3>1. 1 \in Calls(c)
      BY <1>2, <2>2 DEF Calls, DownMessage
    <3>2. q[1].call \in Call
      BY <1>0, <3>1, CallType
    <3> QED
      BY <1>2, <2>2, <3>1, <3>2 DEF HandleMessage
  <2> QED
    BY <2>1, <2>2
<1> HIDE DEF c, q, m
<1>5. /\ worker' \in [Worker -> WorkerRow]
      /\ \A x \in Worker : /\ x # w => worker'[x] = worker[x]
                           /\ worker'[x].pc = worker[x].pc
                           /\ worker'[x].link = worker[x].link
  <2>1. CASE UNCHANGED worker
    BY <1>0, <2>1
  <2>2. CASE /\ q[1].call \in Call
             /\ worker' = [worker EXCEPT ![w].call = q[1].call]
    <3>1. worker[w] \in WorkerRow
      BY <1>0
    <3>2. /\ [worker[w] EXCEPT !.call = q[1].call] \in WorkerRow
          /\ [worker[w] EXCEPT !.call = q[1].call].pc = worker[w].pc
          /\ [worker[w] EXCEPT !.call = q[1].call].link = worker[w].link
      BY <2>2, <3>1 DEF WorkerRow
    <3> QED
      BY <1>0, <2>2, <3>2
  <2> QED
    BY <1>4, <2>1, <2>2
<1>6. Link' = Link
  BY <1>3 DEF LinkChanged, Link
<1>7. TypeInv'
  <2>1. BridgeTypes /\ UNCHANGED <<bridge, registry, session, ran>>
    BY <1>0, <1>1 DEF TypeInv
  <2>2. \A s \in Session : session'[s].state \notin {"new", "refused"} =>
                               session'[s].bridge \in Link
    BY <1>0, <2>1 DEF TypeInv, LinksExist
  <2>3. /\ link' \in Seq(LinkRow) /\ Len(link') = Len(link)
        /\ bridge' \in Seq(BridgeRow) /\ Len(bridge') = Len(bridge)
        /\ registry' \in [workers : SUBSET Link, root : Link \cup {0}]
        /\ session' \in [Session -> SessionRow]
        /\ ran' \in [Session -> [1 .. MaxCalls -> Nat]]
    BY <1>3, <2>1 DEF BridgeTypes, LinkChanged
  <2>4. \A x \in Worker :
            worker'[x].pc = "open" => /\ worker[x].pc = "open"
                                      /\ worker'[x].link = worker[x].link
    BY <1>5
  <2>5. TypeInv /\ worker' \in [Worker -> WorkerRow]
    BY <1>0, <1>5
  <2> QED
    BY <2>2, <2>3, <2>4, <2>5, TypesKept
<1>8. RegistryAgrees' /\ WaitInv'
  BY <1>0, <1>1, <1>6, RegistryFrame, WaitFrame DEF Inductive
<1>9. ASSUME NEW d \in Link', NEW i \in Calls(d)'
      PROVE  \E j \in Calls(d) :
                /\ link'[d].down[i].call = link[d].down[j].call
                /\ d = c => j = i + 1
                /\ d # c => j = i
  <2>1. CASE d = c
    BY <1>0, <1>1, <1>3, <1>9, <2>1, TailCalls DEF q
  <2>2. CASE d # c
    BY <1>3, <1>6, <1>9, <2>2 DEF LinkChanged, Calls
  <2> QED
    BY <2>1, <2>2
<1>10. InFlightOnce'
  <2>1. ASSUME NEW d \in Link', NEW e \in Link', NEW i \in Calls(d)',
               NEW j \in Calls(e)',
               link'[d].down[i].call = link'[e].down[j].call
        PROVE  d = e /\ i = j
    <3>1. i \in Nat /\ j \in Nat
      <4>1. link'[d] \in LinkRow /\ link'[e] \in LinkRow
        BY <1>3 DEF LinkChanged, Link
      <4>2. link'[d].down \in Seq(DownMessage) /\ link'[e].down \in Seq(DownMessage)
        BY <4>1, LinkParts
      <4> QED
        BY <4>2 DEF Calls
    <3> QED
      BY <1>6, <1>9, <2>1, <3>1 DEF Inductive, FlightInv, InFlightOnce
  <2>2. ASSUME NEW d \in Link', NEW i \in Calls(d)', NEW k \in Call,
               link'[d].down[i].call = k
        PROVE  Unexecuted(k)' /\ \A x \in Worker : worker'[x].call # k
    <3>1. PICK j \in Calls(d) : /\ link[d].down[j].call = k
                                /\ d = c => j = i + 1 /\ j # 1
      <4>1. CASE d = c
        BY <1>0, <1>1, <1>3, <2>2, <4>1, TailCalls DEF q
      <4>2. CASE d # c
        BY <1>9, <2>2, <4>2
      <4> QED
        BY <4>1, <4>2
    <3>2. Unexecuted(k) /\ \A x \in Worker : worker[x].call # k
      BY <1>6, <3>1 DEF Inductive, FlightInv, InFlightOnce
    <3>3. Unexecuted(k)'
      BY <1>1, <3>2 DEF Unexecuted
    <3>4. \A x \in Worker : worker'[x].call # k
      <4>1. CASE UNCHANGED worker
        BY <3>2, <4>1
      <4>2. CASE /\ 1 \in Calls(c) /\ q[1].call \in Call
                 /\ worker' = [worker EXCEPT ![w].call = q[1].call]
        <5>1. worker'[w].call = q[1].call
          BY <1>0, <4>2 DEF WorkerRow
        <5>2. q[1].call # k
          BY <1>0, <1>6, <3>1, <4>2 DEF Inductive, FlightInv, InFlightOnce, q
        <5> QED
          BY <1>5, <3>2, <5>1, <5>2
      <4> QED
        BY <1>4, <4>1, <4>2
    <3> QED
      BY <3>3, <3>4
  <2> QED
    BY <2>1, <2>2 DEF InFlightOnce
<1>11. ExecutingOnce'
  <2>0. \A k : Unexecuted(k) => Unexecuted(k)'
    BY <1>1 DEF Unexecuted
  <2>1. CASE UNCHANGED worker
    BY <2>0, <2>1 DEF Inductive, FlightInv, ExecutingOnce
  <2>2. CASE /\ 1 \in Calls(c) /\ q[1].call \in Call
             /\ worker' = [worker EXCEPT ![w].call = q[1].call]
    <3>1. worker'[w].call = q[1].call
      BY <1>0, <2>2 DEF WorkerRow
    <3>2. Unexecuted(q[1].call) /\ \A x \in Worker : worker[x].call # q[1].call
      BY <1>0, <2>2 DEF Inductive, FlightInv, InFlightOnce, q
    <3> QED
      BY <1>5, <2>0, <2>2, <3>1, <3>2 DEF Inductive, FlightInv, ExecutingOnce
  <2> QED
    BY <1>4, <2>1, <2>2
<1>12. RanWereMade' /\ ExecutedOnce'
  BY <1>1 DEF Inductive, FlightInv, RanWereMade, ExecutedOnce
<1> QED
  BY <1>7, <1>8, <1>10, <1>11, <1>12 DEF Inductive, FlightInv
LEMMA FinishStep ==
    ASSUME Inductive, NEW w \in Worker, FinishTool(w)
    PROVE  Inductive'
<1> DEFINE c == worker[w].link
           k == worker[w].call
<1>0. /\ TypeInv /\ BridgeTypes /\ link \in Seq(LinkRow) /\ c \in Link
      /\ worker \in [Worker -> WorkerRow] /\ worker[w] \in WorkerRow
  BY Rows DEF Inductive, TypeInv, BridgeTypes, LinksExist, FinishTool
<1>1. k \in Call /\ k = <<k[1], k[2]>> /\ k[1] \in Session /\ k[2] \in 1 .. MaxCalls
  BY <1>0 DEF FinishTool, WorkerRow, Call
<1>2. [type |-> "result", call |-> k] \in UpMessage
  BY <1>1 DEF UpMessage
<1>3. LinkChanged(c) /\ link'[c].down = link[c].down
  BY <1>0, <1>2, ToBrainLink DEF FinishTool
<1>4. UNCHANGED <<bridge, registry, session>>
  BY DEF FinishTool
<1>5. ran' = [ran EXCEPT ![k[1]][k[2]] = @ + 1]
  BY DEF FinishTool
<1>6. PICK pc \in {"open", "down"} :
          worker' = [worker EXCEPT ![w].call = NoCall, ![w].pc = pc]
  BY DEF FinishTool
<1>7. /\ worker' \in [Worker -> WorkerRow] /\ worker'[w].call = NoCall
      /\ worker'[w].link = worker[w].link
      /\ \A x \in Worker : x # w => worker'[x] = worker[x]
  BY <1>0, <1>6 DEF WorkerRow
<1>8. worker[w].pc = "open" /\ ran \in [Session -> [1 .. MaxCalls -> Nat]]
  BY <1>0 DEF BridgeTypes, FinishTool
<1> HIDE DEF c, k
<1>9. /\ ran' \in [Session -> [1 .. MaxCalls -> Nat]]
      /\ ran'[k[1]][k[2]] = ran[k[1]][k[2]] + 1
      /\ \A s \in Session, n \in 1 .. MaxCalls :
             s # k[1] \/ n # k[2] => ran'[s][n] = ran[s][n]
  <2> DEFINE s == k[1]
             t == k[2]
             N == 1 .. MaxCalls
  <2>1. s \in Session /\ t \in N /\ ran \in [Session -> [N -> Nat]]
    BY <1>1, <1>8
  <2>2. ran' = [ran EXCEPT ![s][t] = @ + 1]
    BY <1>5
  <2> HIDE DEF s, t, N
  <2>3. /\ ran' \in [Session -> [N -> Nat]] /\ ran'[s][t] = ran[s][t] + 1
        /\ \A x \in Session, n \in N : x # s \/ n # t => ran'[x][n] = ran[x][n]
    BY ONLY <2>1, <2>2
  <2> QED
    BY <2>3 DEF s, t, N
<1>10. TypeInv' /\ Link' = Link
  <2>1. \A s \in Session : session'[s].state \notin {"new", "refused"} =>
                               session'[s].bridge \in Link
    BY <1>0, <1>4 DEF TypeInv, LinksExist
  <2> QED
    BY <1>0, <1>3, <1>4, <1>7, <1>8, <1>9, <2>1, TypesKept
       DEF BridgeTypes, LinkChanged
<1>11. RegistryAgrees' /\ WaitInv'
  BY <1>0, <1>4, <1>10, RegistryFrame, WaitFrame DEF Inductive
<1>12. \A d \in Link' : CallsWere(d)
  BY <1>0, <1>3, SameCalls DEF LinkChanged
<1>13. Unexecuted(k) /\ \A v \in Worker : worker[v].call = k => v = w
  BY <1>1 DEF Inductive, FlightInv, ExecutingOnce, k
<1>14. ASSUME NEW n \in Call, n # k, Unexecuted(n) PROVE Unexecuted(n)'
  <2>1. n = <<n[1], n[2]>> /\ n[1] \in Session /\ n[2] \in 1 .. MaxCalls
    BY DEF Call
  <2>2. n[1] # k[1] \/ n[2] # k[2]
    BY <1>1, <1>14, <2>1
  <2> QED
    BY <1>4, <1>9, <1>14, <2>1, <2>2 DEF Unexecuted
<1>15. InFlightOnce'
  <2>0. ASSUME NEW d \in Link', NEW i \in Calls(d)'
        PROVE  /\ d \in Link /\ i \in Calls(d)
               /\ link'[d].down[i].call = link[d].down[i].call
    BY <1>12 DEF CallsWere
  <2>1. ASSUME NEW d \in Link', NEW e \in Link', NEW i \in Calls(d)',
               NEW j \in Calls(e)',
               link'[d].down[i].call = link'[e].down[j].call
        PROVE  d = e /\ i = j
    BY <2>0, <2>1 DEF Inductive, FlightInv, InFlightOnce
  <2>2. ASSUME NEW d \in Link', NEW i \in Calls(d)', NEW n \in Call,
               link'[d].down[i].call = n
        PROVE  Unexecuted(n)' /\ \A x \in Worker : worker'[x].call # n
    <3>1. Unexecuted(n) /\ \A x \in Worker : worker[x].call # n
      BY <2>0, <2>2 DEF Inductive, FlightInv, InFlightOnce
    <3>2. n # k
      BY <3>1 DEF k
    <3> QED
      BY <1>7, <1>14, <3>1, <3>2, NoCallIsNone
  <2> QED
    BY <2>1, <2>2 DEF InFlightOnce
<1>16. ExecutingOnce'
  <2> SUFFICES ASSUME NEW x \in Worker, NEW n \in Call, worker'[x].call = n
               PROVE  /\ Unexecuted(n)'
                      /\ \A v \in Worker : worker'[v].call = n => v = x
    BY DEF ExecutingOnce
  <2>1. x # w /\ worker[x].call = n
    BY <1>7, NoCallIsNone
  <2>2. n # k
    BY <1>13, <2>1
  <2> QED
    BY <1>7, <1>14, <2>1, <2>2, NoCallIsNone DEF Inductive, FlightInv, ExecutingOnce
<1>17. RanWereMade' /\ ExecutedOnce'
  <2>1. k[2] <= session[k[1]].calls /\ ran[k[1]][k[2]] = 0
    BY <1>13 DEF Unexecuted
  <2>2. session[k[1]].calls \in Nat
    BY <1>0, <1>1, Rows DEF SessionRow
  <2>3. ExecutedOnce'
    BY <1>9, <2>1 DEF Inductive, FlightInv, ExecutedOnce
  <2>4. RanWereMade'
    <3> SUFFICES ASSUME NEW s \in Session, NEW n \in 1 .. MaxCalls,
                        n > session[s].calls
                 PROVE  ran'[s][n] = 0
      BY <1>4 DEF RanWereMade
    <3>1. s # k[1] \/ n # k[2]
      BY <1>1, <2>1, <2>2
    <3> QED
      BY <1>9, <3>1 DEF Inductive, FlightInv, RanWereMade
  <2> QED
    BY <2>3, <2>4
<1> QED
  BY <1>10, <1>11, <1>15, <1>16, <1>17 DEF Inductive, FlightInv

-----------------------------------------------------------------------------
(* The brain                                                               *)

\* The sessions' tables between two steps of the brain: only the state changes,
\* and only of a session that waited.
SessionsSettle ==
    /\ session' \in [Session -> SessionRow]
    /\ \A s \in Session :
          /\ session'[s].calls = session[s].calls
          /\ session'[s].bridge = session[s].bridge
          /\ session'[s].state # session[s].state => session[s].state = "waiting"

\* What the steps of the brain have in common: nothing that is on its way to a
\* worker is a new call, and the workers go on.
LEMMA BrainFrame ==
    ASSUME Inductive, NEW c \in Link, LinkChanged(c), BridgeChanged(c),
           \A d \in Link' : CallsWere(d), SessionsSettle,
           registry' \in [workers : SUBSET Link, root : Link \cup {0}],
           UNCHANGED <<worker, ran>>
    PROVE  TypeInv' /\ Link' = Link /\ FlightInv'
<1>0. TypeInv /\ BridgeTypes
  BY DEF Inductive, TypeInv
<1>1. \A s \in Session : session'[s].state \notin {"new", "refused"} =>
                             session'[s].bridge \in Link
  BY <1>0 DEF SessionsSettle, TypeInv, LinksExist
<1>2. TypeInv' /\ Link' = Link
  BY <1>0, <1>1, TypesKept DEF BridgeTypes, LinkChanged, BridgeChanged, SessionsSettle
<1>3. FlightInv'
  BY <1>0, FlightFrame DEF Inductive, SessionsSettle
<1> QED
  BY <1>2, <1>3

\* A call that was pending ends: its future goes, and its session waits no more.
LEMMA SettleWait ==
    ASSUME TypeInv, WaitInv, Link' = Link, NEW c \in Link,
           NEW k \in bridge[c].pending,
           \A d \in Link : d # c => bridge'[d] = bridge[d],
           bridge'[c].pending = bridge[c].pending \ {k},
           bridge'[c].connected <=> bridge[c].connected,
           NEW st \in {"returned", "failed"},
           session' = [session EXCEPT ![k[1]].state = st]
    PROVE  WaitInv' /\ SessionsSettle
<1>0. session \in [Session -> SessionRow]
  BY DEF TypeInv, BridgeTypes
<1>1. k \in Call /\ k = <<k[1], k[2]>> /\ k[1] \in Session
  BY PendingCalls
<1>2. /\ session[k[1]].state = "waiting" /\ session[k[1]].bridge = c
      /\ session[k[1]].calls = k[2]
  BY DEF WaitInv, PendingAwaited
<1>3. /\ session' \in [Session -> SessionRow]
      /\ session'[k[1]] = [session[k[1]] EXCEPT !.state = st]
      /\ \A s \in Session : s # k[1] => session'[s] = session[s]
  BY <1>0, <1>1 DEF SessionRow
<1>4. /\ session'[k[1]].state = st /\ session'[k[1]].calls = session[k[1]].calls
      /\ session'[k[1]].bridge = session[k[1]].bridge
  BY <1>0, <1>1, <1>3 DEF SessionRow
<1>5. SessionsSettle
  BY <1>2, <1>3, <1>4 DEF SessionsSettle
<1>6. WaitsOnConnected'
  <2> SUFFICES ASSUME NEW s \in Session, session'[s].state = "waiting"
               PROVE  /\ bridge'[session'[s].bridge].connected
                      /\ CallOf(s)' \in bridge'[session'[s].bridge].pending
    BY DEF WaitsOnConnected
  <2>1. s # k[1] /\ session'[s] = session[s]
    BY <1>3, <1>4
  <2>2. /\ session[s].bridge \in Link /\ bridge[session[s].bridge].connected
        /\ CallOf(s) \in bridge[session[s].bridge].pending
    BY <2>1 DEF WaitInv, WaitsOnConnected, TypeInv, LinksExist
  <2>3. CallOf(s) # k /\ CallOf(s)' = CallOf(s)
    BY <1>1, <2>1 DEF CallOf
  <2> QED
    BY <2>1, <2>2, <2>3
<1>7. PendingAwaited'
  <2> SUFFICES ASSUME NEW d \in Link, NEW n \in bridge'[d].pending
               PROVE  /\ session'[n[1]].state = "waiting"
                      /\ session'[n[1]].bridge = d /\ session'[n[1]].calls = n[2]
    BY DEF PendingAwaited
  <2>1. n \in bridge[d].pending /\ (d = c => n # k)
    OBVIOUS
  <2>2. /\ session[n[1]].state = "waiting" /\ session[n[1]].bridge = d
        /\ session[n[1]].calls = n[2]
    BY <2>1 DEF WaitInv, PendingAwaited
  <2>3. n = <<n[1], n[2]>> /\ n[1] \in Session
    BY <2>1, PendingCalls
  <2>4. n[1] # k[1]
    BY <1>1, <1>2, <2>1, <2>2, <2>3
  <2> QED
    BY <1>3, <2>2, <2>3, <2>4
<1> QED
  BY <1>5, <1>6, <1>7 DEF WaitInv
\* _mark_disconnected: the bridge takes a row that differs in what is not about
\* calls, and whoever waits there waits no more.
LEMMA MarkEffect ==
    ASSUME TypeInv, WaitInv, Link' = Link, NEW c \in Link, NEW rec \in BridgeRow,
           rec.pending = bridge[c].pending, rec.connected = bridge[c].connected,
           MarkDisconnected(c, rec)
    PROVE  /\ BridgeChanged(c) /\ bridge'[c].handler = rec.handler
           /\ SessionsSettle /\ WaitInv'
<1>0. BridgeTypes /\ session \in [Session -> SessionRow]
  BY DEF TypeInv, BridgeTypes
<1>1. CASE ~bridge[c].connected
  <2>1. bridge' = [bridge EXCEPT ![c] = rec] /\ session' = session
    BY <1>1 DEF MarkDisconnected
  <2>2. BridgeChanged(c) /\ bridge'[c] = rec
    BY <1>0, <2>1, BridgeRowChange
  <2>3. SessionsSettle
    BY <1>0, <2>1 DEF SessionsSettle
  <2>4. \A d \in Link' : /\ d \in Link /\ bridge'[d].pending = bridge[d].pending
                         /\ bridge'[d].connected <=> bridge[d].connected
    BY <2>2 DEF BridgeChanged
  <2>5. WaitInv'
    BY <2>1, <2>4, WaitFrame
  <2> QED
    BY <2>2, <2>3, <2>5
<1>2. CASE bridge[c].connected
  <2> DEFINE b == Disconnected(rec)
  <2>1. bridge' = [bridge EXCEPT ![c] = b] /\ session' = FailPending(c)
    BY <1>2 DEF MarkDisconnected
  <2>2. b \in BridgeRow /\ b.pending = {} /\ b.handler = rec.handler
    BY DEF Disconnected, BridgeRow
  <2> HIDE DEF b
  <2>3. BridgeChanged(c) /\ bridge'[c] = b
    BY <1>0, <2>1, <2>2, BridgeRowChange
  <2>4. ASSUME NEW s \in Session
        PROVE  \/ /\ session[s].state = "waiting" /\ CallOf(s) \in bridge[c].pending
                  /\ session'[s] = [session[s] EXCEPT !.state = "failed"]
               \/ /\ ~(session[s].state = "waiting" /\ CallOf(s) \in bridge[c].pending)
                  /\ session'[s] = session[s]
    BY <2>1 DEF FailPending
  <2>5. ASSUME NEW s \in Session
        PROVE  /\ session'[s] \in SessionRow
               /\ session'[s].calls = session[s].calls
               /\ session'[s].bridge = session[s].bridge
               /\ \/ /\ session'[s] = session[s]
                     /\ \/ session[s].state # "waiting"
                        \/ CallOf(s) \notin bridge[c].pending
                  \/ /\ session[s].state = "waiting" /\ session'[s].state = "failed"
                     /\ CallOf(s) \in bridge[c].pending
    <3>1. session[s] \in SessionRow
      BY <1>0
    <3> QED
      BY <2>4, <3>1 DEF SessionRow
  <2>6. SessionsSettle
    <3>1. session' = [s \in Session |-> session'[s]]
      BY <2>1 DEF FailPending
    <3>2. session' \in [Session -> SessionRow]
      BY <2>5, <3>1
    <3> QED
      BY <2>5, <3>2 DEF SessionsSettle
  <2>7. WaitsOnConnected'
    <3> SUFFICES ASSUME NEW s \in Session, session'[s].state = "waiting"
                 PROVE  /\ bridge'[session'[s].bridge].connected
                        /\ CallOf(s)' \in bridge'[session'[s].bridge].pending
      BY DEF WaitsOnConnected
    <3>1. /\ session'[s] = session[s] /\ session[s].state = "waiting"
          /\ CallOf(s) \notin bridge[c].pending
      BY <2>5
    <3>2. /\ session[s].bridge \in Link /\ bridge[session[s].bridge].connected
          /\ CallOf(s) \in bridge[session[s].bridge].pending
      BY <3>1 DEF WaitInv, WaitsOnConnected, TypeInv, LinksExist
    <3>3. session[s].bridge # c /\ CallOf(s)' = CallOf(s)
      BY <3>1, <3>2 DEF CallOf
    <3> QED
      BY <2>3, <3>1, <3>2, <3>3 DEF BridgeChanged
  <2>8. PendingAwaited'
    <3> SUFFICES ASSUME NEW d \in Link, NEW n \in bridge'[d].pending
                 PROVE  /\ session'[n[1]].state = "waiting"
                        /\ session'[n[1]].bridge = d /\ session'[n[1]].calls = n[2]
      BY DEF PendingAwaited
    <3>1. d # c /\ n \in bridge[d].pending
      BY <2>2, <2>3 DEF BridgeChanged
    <3>2. /\ session[n[1]].state = "waiting" /\ session[n[1]].bridge = d
          /\ session[n[1]].calls = n[2]
      BY <3>1 DEF WaitInv, PendingAwaited
    <3>3. n = <<n[1], n[2]>> /\ n[1] \in Session
      BY <3>1, PendingCalls
    <3>4. n \notin bridge[c].pending
      BY <3>1, <3>2 DEF WaitInv, PendingAwaited
    <3>5. CallOf(n[1]) = n
      BY <3>2, <3>3 DEF CallOf
    <3> QED
      BY <2>5, <3>2, <3>3, <3>4, <3>5
  <2> QED
    BY <2>2, <2>3, <2>6, <2>7, <2>8 DEF WaitInv
<1> QED
  BY <1>1, <1>2
LEMMA RegisterStep ==
    ASSUME Inductive, NEW c \in Link, Register(c)
    PROVE  Inductive'
<1>0. /\ TypeInv /\ BridgeTypes /\ link \in Seq(LinkRow) /\ link[c] \in LinkRow
      /\ bridge[c] \in BridgeRow /\ link[c].up \in Seq(UpMessage) /\ 0 \notin Link
      /\ registry \in [workers : SUBSET Link, root : Link \cup {0}]
  <2>1. TypeInv /\ BridgeTypes
    BY DEF Inductive, TypeInv
  <2>2. link[c] \in LinkRow /\ bridge[c] \in BridgeRow /\ 0 \notin Link
    BY <2>1, Rows
  <2>3. link[c].up \in Seq(UpMessage)
    BY <2>2, LinkParts
  <2> QED
    BY <2>1, <2>2, <2>3 DEF BridgeTypes
<1>1. UNCHANGED <<worker, session, ran>> /\ bridge[c].handler = "first message"
  BY DEF Register
<1>2. \/ /\ link[c].up # <<>> /\ registry' = RegisteredFor(registry, c)
         /\ bridge' = [bridge EXCEPT ![c].handler = "running"]
         /\ link' = [link EXCEPT ![c].up = Tail(@)]
      \/ /\ registry' = registry
         /\ bridge' = [bridge EXCEPT ![c].handler = "done"]
         /\ link' = [link EXCEPT ![c].state = "closed"]
  BY DEF Register
<1>3. LinkChanged(c) /\ link'[c].down = link[c].down
  <2>1. CASE link[c].up # <<>> /\ link' = [link EXCEPT ![c].up = Tail(@)]
    <3> DEFINE r == [link[c] EXCEPT !.up = Tail(@)]
    <3>1. Tail(link[c].up) \in Seq(UpMessage)
      BY <1>0, <2>1
    <3>2. r \in LinkRow /\ r.down = link[c].down
      BY <1>0, <3>1, LinkParts
    <3>3. link' = [link EXCEPT ![c] = r]
      BY <2>1
    <3> HIDE DEF r
    <3> QED
      BY <1>0, <3>2, <3>3, LinkRowChange
  <2>2. CASE link' = [link EXCEPT ![c].state = "closed"]
    <3> DEFINE r == [link[c] EXCEPT !.state = "closed"]
    <3>1. r \in LinkRow /\ r.down = link[c].down
      BY <1>0, LinkParts
    <3>2. link' = [link EXCEPT ![c] = r]
      BY <2>2
    <3> HIDE DEF r
    <3> QED
      BY <1>0, <3>1, <3>2, LinkRowChange
  <2> QED
    BY <1>2, <2>1, <2>2
<1>4. PICK h \in {"running", "done"} :
          /\ bridge' = [bridge EXCEPT ![c].handler = h]
          /\ h = "running" => registry' = RegisteredFor(registry, c)
          /\ h = "done" => registry' = registry
  BY <1>2
<1>5. /\ BridgeChanged(c) /\ bridge'[c].handler = h
      /\ bridge'[c].pending = bridge[c].pending
      /\ bridge'[c].connected <=> bridge[c].connected
  <2> DEFINE r == [bridge[c] EXCEPT !.handler = h]
  <2>1. /\ r \in BridgeRow /\ r.handler = h /\ r.pending = bridge[c].pending
        /\ r.connected = bridge[c].connected
    BY <1>0 DEF BridgeRow
  <2>2. bridge' = [bridge EXCEPT ![c] = r]
    BY <1>4
  <2> HIDE DEF r
  <2>3. BridgeChanged(c) /\ bridge'[c] = r
    BY <1>0, <2>1, <2>2, BridgeRowChange
  <2> QED
    BY <2>1, <2>3
<1>6. SessionsSettle
  BY <1>0, <1>1 DEF SessionsSettle, BridgeTypes
<1>7. \A d \in Link' : CallsWere(d)
  BY <1>0, <1>3, SameCalls DEF LinkChanged
<1>8. registry' \in [workers : SUBSET Link, root : Link \cup {0}]
  BY <1>0, <1>2 DEF RegisteredFor
<1>9. TypeInv' /\ Link' = Link /\ FlightInv'
  BY <1>1, <1>3, <1>5, <1>6, <1>7, <1>8, BrainFrame
<1>10. WaitInv'
  <2>1. \A d \in Link' : /\ d \in Link /\ bridge'[d].pending = bridge[d].pending
                         /\ bridge'[d].connected <=> bridge[d].connected
    BY <1>5, <1>9 DEF BridgeChanged
  <2> QED
    BY <1>0, <1>1, <1>9, <2>1, WaitFrame DEF Inductive
<1>11. RegistryAgrees'
  <2>1. /\ registry.workers = IF registry.root = 0 THEN {} ELSE {registry.root}
        /\ registry.root # 0 => bridge[registry.root].handler = "running"
    BY DEF Inductive, RegistryAgrees
  <2>2. CASE h = "running"
    <3>1. registry'.workers = {c} /\ registry'.root = c
      BY <1>4, <2>1, <2>2 DEF RegisteredFor
    <3> QED
      BY <1>0, <1>5, <2>2, <3>1 DEF RegistryAgrees
  <2>3. CASE h = "done"
    <3>1. registry.root # c /\ registry' = registry
      BY <1>0, <1>1, <1>4, <2>1, <2>3
    <3> QED
      BY <1>0, <1>5, <2>1, <3>1 DEF RegistryAgrees, BridgeChanged
  <2> QED
    BY <2>2, <2>3
<1> QED
  BY <1>9, <1>10, <1>11 DEF Inductive

LEMMA ReceiveStep ==
    ASSUME Inductive, NEW c \in Link, Receive(c)
    PROVE  Inductive'
<1> DEFINE m == Head(link[c].up)
           b == bridge[c]
           next == [b EXCEPT !.receiving = b.connected]
<1>0. /\ TypeInv /\ BridgeTypes /\ WaitInv /\ link \in Seq(LinkRow)
      /\ link[c] \in LinkRow /\ b \in BridgeRow /\ link[c].up \in Seq(UpMessage)
  BY Rows, LinkParts DEF Inductive, TypeInv, BridgeTypes
<1>1. /\ UNCHANGED <<registry, worker, ran>> /\ link[c].up # <<>>
      /\ link' = [link EXCEPT ![c].up = Tail(@)]
  BY DEF Receive
<1>2. LinkChanged(c) /\ link'[c].down = link[c].down /\ Link' = Link
  <2> DEFINE r == [link[c] EXCEPT !.up = Tail(@)]
  <2>1. Tail(link[c].up) \in Seq(UpMessage)
    BY <1>0, <1>1
  <2>2. r \in LinkRow /\ r.down = link[c].down
    BY <1>0, <2>1, LinkParts
  <2>3. link' = [link EXCEPT ![c] = r]
    BY <1>1
  <2> HIDE DEF r
  <2>4. LinkChanged(c) /\ link'[c] = r
    BY <1>0, <2>2, <2>3, LinkRowChange
  <2> QED
    BY <2>2, <2>4 DEF LinkChanged, Link
<1>3. /\ next \in BridgeRow /\ next.pending = b.pending
      /\ next.handler = b.handler /\ next.connected = b.connected
  BY <1>0 DEF BridgeRow
<1>4. \/ /\ bridge' \in {[bridge EXCEPT ![c] = [next EXCEPT !.acked = TRUE]],
                         [bridge EXCEPT ![c] = next]}
         /\ session' = session
      \/ /\ m.call \in b.pending
         /\ bridge' = [bridge EXCEPT ![c] = [next EXCEPT !.pending = @ \ {m.call}]]
         /\ session' = [session EXCEPT ![m.call[1]].state = "returned"]
  BY DEF Receive
<1> HIDE DEF next, m
<1>5. /\ BridgeChanged(c) /\ bridge'[c].handler = bridge[c].handler
      /\ SessionsSettle /\ WaitInv'
  <2>1. CASE /\ bridge' \in {[bridge EXCEPT ![c] = [next EXCEPT !.acked = TRUE]],
                             [bridge EXCEPT ![c] = next]}
             /\ session' = session
    <3>1. PICK r \in {[next EXCEPT !.acked = TRUE], next} :
              bridge' = [bridge EXCEPT ![c] = r]
      BY <2>1
    <3>2. /\ r \in BridgeRow /\ r.pending = b.pending /\ r.handler = b.handler
          /\ r.connected = b.connected
      BY <1>3, <3>1 DEF BridgeRow
    <3>3. BridgeChanged(c) /\ bridge'[c] = r
      BY <1>0, <3>1, <3>2, BridgeRowChange
    <3>4. SessionsSettle
      BY <1>0, <2>1 DEF SessionsSettle, BridgeTypes
    <3>5. \A d \in Link' : /\ d \in Link /\ bridge'[d].pending = bridge[d].pending
                           /\ bridge'[d].connected <=> bridge[d].connected
      BY <1>2, <3>2, <3>3 DEF BridgeChanged
    <3>6. WaitInv'
      BY <1>0, <1>2, <2>1, <3>5, WaitFrame
    <3> QED
      BY <3>2, <3>3, <3>4, <3>6
  <2>2. CASE /\ m.call \in b.pending
             /\ bridge' = [bridge EXCEPT ![c] =
                              [next EXCEPT !.pending = @ \ {m.call}]]
             /\ session' = [session EXCEPT ![m.call[1]].state = "returned"]
    <3> DEFINE k == m.call
               r == [next EXCEPT !.pending = @ \ {m.call}]
    <3>1. /\ r \in BridgeRow /\ r.pending = b.pending \ {k}
          /\ r.handler = b.handler /\ r.connected = b.connected
      BY <1>3 DEF BridgeRow
    <3>2. /\ bridge' = [bridge EXCEPT ![c] = r] /\ k \in bridge[c].pending
          /\ session' = [session EXCEPT ![k[1]].state = "returned"]
      BY <2>2
    <3> HIDE DEF r, k
    <3>3. BridgeChanged(c) /\ bridge'[c] = r
      BY <1>0, <3>1, <3>2, BridgeRowChange
    <3>4. /\ \A d \in Link : d # c => bridge'[d] = bridge[d]
          /\ bridge'[c].pending = bridge[c].pending \ {k}
          /\ bridge'[c].connected <=> bridge[c].connected
      BY <3>1, <3>3 DEF BridgeChanged
    <3>5. WaitInv' /\ SessionsSettle
      BY <1>0, <1>2, <3>2, <3>4, SettleWait
    <3> QED
      BY <3>1, <3>3, <3>5
  <2> QED
    BY <1>4, <2>1, <2>2
<1>6. \A d \in Link' : CallsWere(d)
  BY <1>0, <1>2, SameCalls DEF LinkChanged
<1>7. TypeInv' /\ FlightInv'
  BY <1>0, <1>1, <1>2, <1>5, <1>6, BrainFrame DEF BridgeTypes
<1>8. RegistryAgrees'
  BY <1>0, <1>1, <1>5, RegistryFrame DEF Inductive, BridgeChanged
<1> QED
  BY <1>5, <1>7, <1>8 DEF Inductive
\* A step of the brain that touches no connection and no handler.
LEMMA QuietBrain ==
    ASSUME Inductive, NEW c \in Link, BridgeChanged(c),
           bridge'[c].handler = bridge[c].handler, SessionsSettle, WaitInv',
           UNCHANGED <<link, registry, worker, ran>>
    PROVE  Inductive'
<1>0. TypeInv /\ BridgeTypes
  BY DEF Inductive, TypeInv
<1>1. LinkChanged(c) /\ \A d \in Link' : CallsWere(d)
  BY <1>0, SameCalls DEF LinkChanged, BridgeTypes
<1>2. TypeInv' /\ FlightInv'
  BY <1>0, <1>1, BrainFrame DEF BridgeTypes
<1>3. RegistryAgrees'
  BY <1>0, RegistryFrame DEF Inductive, BridgeChanged
<1> QED
  BY <1>2, <1>3 DEF Inductive

\* The heartbeat loop goes on or ends.
LEMMA BeatStep ==
    ASSUME Inductive, NEW c \in Link, NEW beat \in {"sleep", "ended"},
           bridge' = [bridge EXCEPT ![c].beat = beat],
           UNCHANGED <<link, registry, worker, session, ran>>
    PROVE  Inductive'
<1> DEFINE r == [bridge[c] EXCEPT !.beat = beat]
<1>0. TypeInv /\ BridgeTypes /\ WaitInv /\ bridge[c] \in BridgeRow /\ Link' = Link
  BY Rows DEF Inductive, TypeInv, Link
<1>1. /\ r \in BridgeRow /\ r.pending = bridge[c].pending
      /\ r.connected = bridge[c].connected /\ r.handler = bridge[c].handler
  BY <1>0 DEF BridgeRow
<1>2. bridge' = [bridge EXCEPT ![c] = r]
  OBVIOUS
<1> HIDE DEF r
<1>3. BridgeChanged(c) /\ bridge'[c] = r
  BY <1>0, <1>1, <1>2, BridgeRowChange
<1>4. SessionsSettle
  BY <1>0 DEF SessionsSettle, BridgeTypes
<1>5. \A d \in Link' : /\ d \in Link /\ bridge'[d].pending = bridge[d].pending
                       /\ bridge'[d].connected <=> bridge[d].connected
  BY <1>0, <1>1, <1>3 DEF BridgeChanged
<1>6. WaitInv'
  BY <1>0, <1>5, WaitFrame
<1> QED
  BY <1>1, <1>3, <1>4, <1>6, QuietBrain

\* The heartbeat loop gives the worker up.
LEMMA GiveUpStep ==
    ASSUME Inductive, NEW c \in Link,
           MarkDisconnected(c, [bridge[c] EXCEPT !.beat = "ended"]),
           UNCHANGED <<link, registry, worker, ran>>
    PROVE  Inductive'
<1> DEFINE r == [bridge[c] EXCEPT !.beat = "ended"]
<1>0. TypeInv /\ WaitInv /\ bridge[c] \in BridgeRow /\ Link' = Link
  BY Rows DEF Inductive, Link
<1>1. /\ r \in BridgeRow /\ r.pending = bridge[c].pending
      /\ r.connected = bridge[c].connected /\ r.handler = bridge[c].handler
  BY <1>0 DEF BridgeRow
<1>2. MarkDisconnected(c, r)
  OBVIOUS
<1> HIDE DEF r
<1>3. /\ BridgeChanged(c) /\ bridge'[c].handler = bridge[c].handler
      /\ SessionsSettle /\ WaitInv'
  BY <1>0, <1>1, <1>2, MarkEffect
<1> QED
  BY <1>3, QuietBrain

LEMMA ReceiveFailsStep ==
    ASSUME Inductive, NEW c \in Link, ReceiveFails(c)
    PROVE  Inductive'
<1> DEFINE r == [bridge[c] EXCEPT !.receiving = FALSE]
<1>0. TypeInv /\ BridgeTypes /\ WaitInv /\ bridge[c] \in BridgeRow
  BY Rows DEF Inductive, TypeInv
<1>1. UNCHANGED <<link, registry, worker, ran>> /\ Link' = Link
  BY DEF ReceiveFails, Link
<1>2. /\ r \in BridgeRow /\ r.pending = bridge[c].pending
      /\ r.connected = bridge[c].connected /\ r.handler = bridge[c].handler
  BY <1>0 DEF BridgeRow
<1>3. MarkDisconnected(c, r)
  BY DEF ReceiveFails
<1> HIDE DEF r
<1>4. /\ BridgeChanged(c) /\ bridge'[c].handler = bridge[c].handler
      /\ SessionsSettle /\ WaitInv'
  BY <1>0, <1>1, <1>2, <1>3, MarkEffect
<1> QED
  BY <1>1, <1>4, QuietBrain

LEMMA HeartbeatStep ==
    ASSUME Inductive, NEW c \in Link, Heartbeat(c)
    PROVE  Inductive'
<1>0. /\ TypeInv /\ BridgeTypes /\ WaitInv /\ bridge[c] \in BridgeRow
      /\ link \in Seq(LinkRow)
  BY Rows DEF Inductive, TypeInv, BridgeTypes
<1>1. UNCHANGED <<registry, worker, ran>>
  BY DEF Heartbeat
<1>2. CASE ~bridge[c].connected
  <2>1. /\ bridge' = [bridge EXCEPT ![c].beat = "ended"]
        /\ UNCHANGED <<link, session>>
    BY <1>2 DEF Heartbeat
  <2> QED
    BY <1>1, <2>1, BeatStep
<1>3. CASE bridge[c].connected /\ link[c].state = "cut"
  <2>1. MarkDisconnected(c, [bridge[c] EXCEPT !.beat = "ended"]) /\ UNCHANGED link
    BY <1>3 DEF Heartbeat
  <2> QED
    BY <1>1, <2>1, GiveUpStep
<1>4. CASE bridge[c].connected /\ link[c].state # "cut"
  <2> DEFINE r == [bridge[c] EXCEPT !.beat = "wait", !.acked = FALSE]
             m == [type |-> "heartbeat"]
  <2>1. /\ r \in BridgeRow /\ r.pending = bridge[c].pending
        /\ r.connected = bridge[c].connected /\ r.handler = bridge[c].handler
    BY <1>0 DEF BridgeRow
  <2>2. /\ bridge' = [bridge EXCEPT ![c] = r] /\ session' = session
        /\ link' = ToWorker(c, m)
    BY <1>4 DEF Heartbeat
  <2>3. m \in [type : {"heartbeat"}] /\ m \in DownMessage
    BY DEF DownMessage
  <2> HIDE DEF r, m
  <2>4. BridgeChanged(c) /\ bridge'[c] = r
    BY <1>0, <2>1, <2>2, BridgeRowChange
  <2>5. LinkChanged(c) /\ link'[c].down \in {link[c].down, Append(link[c].down, m)}
    BY <1>0, <2>2, <2>3, ToWorkerLink
  <2>6. \A d \in Link' : CallsWere(d)
    BY <1>0, <2>3, <2>5, NoNewCalls
  <2>7. SessionsSettle
    BY <1>0, <2>2 DEF SessionsSettle, BridgeTypes
  <2>8. TypeInv' /\ Link' = Link /\ FlightInv'
    BY <1>0, <1>1, <2>4, <2>5, <2>6, <2>7, BrainFrame DEF BridgeTypes
  <2>9. \A d \in Link' : /\ d \in Link /\ bridge'[d].pending = bridge[d].pending
                         /\ bridge'[d].connected <=> bridge[d].connected
                         /\ bridge'[d].handler = bridge[d].handler
    BY <2>1, <2>4, <2>8 DEF BridgeChanged
  <2>10. WaitInv'
    BY <1>0, <2>2, <2>8, <2>9, WaitFrame
  <2>11. RegistryAgrees'
    BY <1>0, <1>1, <2>8, <2>9, RegistryFrame DEF Inductive
  <2> QED
    BY <2>8, <2>10, <2>11 DEF Inductive
<1> QED
  BY <1>2, <1>3, <1>4

LEMMA HeartbeatDueStep ==
    ASSUME Inductive, NEW c \in Link, HeartbeatDue(c)
    PROVE  Inductive'
<1>1. UNCHANGED <<link, registry, worker, ran>>
  BY DEF HeartbeatDue
<1>2. CASE bridge[c].connected /\ ~bridge[c].acked
  <2>1. MarkDisconnected(c, [bridge[c] EXCEPT !.beat = "ended"])
    BY <1>2 DEF HeartbeatDue
  <2> QED
    BY <1>1, <2>1, GiveUpStep
<1>3. CASE ~(bridge[c].connected /\ ~bridge[c].acked)
  <2>1. PICK beat \in {"sleep", "ended"} :
            bridge' = [bridge EXCEPT ![c].beat = beat] /\ session' = session
    BY <1>3 DEF HeartbeatDue
  <2> QED
    BY <1>1, <2>1, BeatStep
<1> QED
  BY <1>2, <1>3

LEMMA HandlerEndsStep ==
    ASSUME Inductive, NEW c \in Link, HandlerEnds(c)
    PROVE  Inductive'
<1> DEFINE r == [bridge[c] EXCEPT !.handler = "done", !.beat = "ended"]
<1>0. /\ TypeInv /\ BridgeTypes /\ WaitInv /\ bridge[c] \in BridgeRow
      /\ link \in Seq(LinkRow) /\ link[c] \in LinkRow /\ 0 \notin Link
  <2>1. TypeInv /\ BridgeTypes /\ WaitInv
    BY DEF Inductive, TypeInv
  <2> QED
    BY <2>1, Rows DEF BridgeTypes
<1>1. UNCHANGED <<worker, ran>> /\ registry' = Unregister(registry, c)
  BY DEF HandlerEnds
<1>2. LinkChanged(c) /\ link'[c].down = link[c].down /\ Link' = Link
  <2>1. PICK st \in {"up", "cut", "dead", "closed"} :
            link' = [link EXCEPT ![c].state = st]
    BY <1>0 DEF HandlerEnds, LinkRow
  <2> DEFINE row == [link[c] EXCEPT !.state = st]
  <2>2. row \in LinkRow /\ row.down = link[c].down
    BY <1>0, LinkParts
  <2>3. link' = [link EXCEPT ![c] = row]
    BY <2>1
  <2> HIDE DEF row
  <2>4. LinkChanged(c) /\ link'[c] = row
    BY <1>0, <2>2, <2>3, LinkRowChange
  <2> QED
    BY <2>2, <2>4 DEF LinkChanged, Link
<1>3. /\ r \in BridgeRow /\ r.pending = bridge[c].pending
      /\ r.connected = bridge[c].connected
  BY <1>0 DEF BridgeRow
<1>4. MarkDisconnected(c, r)
  BY DEF HandlerEnds
<1> HIDE DEF r
<1>5. BridgeChanged(c) /\ SessionsSettle /\ WaitInv'
  BY <1>0, <1>2, <1>3, <1>4, MarkEffect
<1>6. registry \in [workers : SUBSET Link, root : Link \cup {0}]
  BY <1>0 DEF BridgeTypes
<1>7. registry' \in [workers : SUBSET Link, root : Link \cup {0}]
  BY <1>1, <1>6 DEF Unregister
<1>8. \A d \in Link' : CallsWere(d)
  BY <1>0, <1>2, SameCalls DEF LinkChanged
<1>9. TypeInv' /\ FlightInv'
  BY <1>1, <1>2, <1>5, <1>7, <1>8, BrainFrame
<1>10. RegistryAgrees'
  <2>1. /\ registry.workers = IF registry.root = 0 THEN {} ELSE {registry.root}
        /\ registry.root # 0 => bridge[registry.root].handler = "running"
    BY DEF Inductive, RegistryAgrees
  <2>2. CASE c \in registry.workers
    <3>1. registry'.workers = {} /\ registry'.root = 0
      BY <1>1, <2>1, <2>2 DEF Unregister
    <3> QED
      BY <3>1 DEF RegistryAgrees
  <2>3. CASE c \notin registry.workers
    <3>1. registry' = registry /\ registry.root # c
      BY <1>0, <1>1, <2>1, <2>3 DEF Unregister
    <3> QED
      BY <1>5, <1>6, <2>1, <3>1 DEF RegistryAgrees, BridgeChanged
  <2> QED
    BY <2>2, <2>3
<1> QED
  BY <1>5, <1>9, <1>10 DEF Inductive
-----------------------------------------------------------------------------
(* The sessions                                                            *)

LEMMA OpenStep ==
    ASSUME Inductive, NEW s \in Session, Open(s)
    PROVE  Inductive'
<1>0. /\ TypeInv /\ BridgeTypes /\ session \in [Session -> SessionRow]
      /\ registry.root \in Link \cup {0} /\ Link' = Link
      /\ UNCHANGED <<link, bridge, registry, worker, ran>>
  BY DEF Inductive, TypeInv, BridgeTypes, Open, Link
<1>1. /\ session[s].state = "new" /\ session[s] \in SessionRow
      /\ Link \subseteq Nat
  BY <1>0, Rows DEF Open
<1> DEFINE r == IF registry.root = 0 THEN [session[s] EXCEPT !.state = "refused"]
                ELSE [session[s] EXCEPT !.bridge = registry.root, !.state = "idle"]
<1>2. /\ r \in SessionRow /\ r.calls = session[s].calls
      /\ r.state \in {"refused", "idle"}
      /\ r.state = "idle" => r.bridge \in Link
  BY <1>0, <1>1 DEF SessionRow
<1>3. session' = [session EXCEPT ![s] = r]
  BY DEF Open
<1> HIDE DEF r
<1>4. /\ session' \in [Session -> SessionRow] /\ session'[s] = r
      /\ \A x \in Session : x # s => session'[x] = session[x]
  BY <1>0, <1>2, <1>3
<1>5. TypeInv'
  <2>1. \A x \in Session : session'[x].state \notin {"new", "refused"} =>
                               session'[x].bridge \in Link
    BY <1>0, <1>2, <1>4 DEF TypeInv, LinksExist
  <2> QED
    BY <1>0, <1>4, <2>1, TypesKept DEF BridgeTypes
<1>6. RegistryAgrees'
  BY <1>0, RegistryFrame DEF Inductive
<1>7. WaitInv'
  BY <1>0, <1>1, <1>2, <1>4, WaitFrame DEF Inductive
<1>8. \A d \in Link' : CallsWere(d)
  BY <1>0, SameCalls
<1>9. FlightInv'
  BY <1>0, <1>2, <1>4, <1>8, FlightFrame DEF Inductive
<1> QED
  BY <1>5, <1>6, <1>7, <1>9 DEF Inductive

LEMMA TimeOutStep ==
    ASSUME Inductive, NEW s \in Session, TimeOut(s)
    PROVE  Inductive'
<1> DEFINE c == session[s].bridge
           k == CallOf(s)
           r == [bridge[c] EXCEPT !.pending = @ \ {k}]
<1>0. /\ TypeInv /\ BridgeTypes /\ WaitInv
      /\ session[s].state = "waiting" /\ c \in Link
  BY DEF Inductive, TypeInv, LinksExist, TimeOut
<1>1. k \in bridge[c].pending /\ k[1] = s
  BY <1>0 DEF WaitInv, WaitsOnConnected, CallOf
<1>2. bridge[c] \in BridgeRow
  BY <1>0, Rows
<1>3. /\ r \in BridgeRow /\ r.pending = bridge[c].pending \ {k}
      /\ r.connected = bridge[c].connected /\ r.handler = bridge[c].handler
  BY <1>2 DEF BridgeRow
<1>4. /\ bridge' = [bridge EXCEPT ![c] = r]
      /\ session' = [session EXCEPT ![k[1]].state = "failed"]
      /\ UNCHANGED <<link, registry, worker, ran>> /\ Link' = Link
  BY <1>1 DEF TimeOut, Link
<1> HIDE DEF c, k, r
<1>5. BridgeChanged(c) /\ bridge'[c] = r
  BY <1>0, <1>3, <1>4, BridgeRowChange
<1>6. /\ \A d \in Link : d # c => bridge'[d] = bridge[d]
      /\ bridge'[c].pending = bridge[c].pending \ {k}
      /\ bridge'[c].connected <=> bridge[c].connected
      /\ bridge'[c].handler = bridge[c].handler
  BY <1>3, <1>5 DEF BridgeChanged
<1>7. WaitInv' /\ SessionsSettle
  BY <1>0, <1>1, <1>4, <1>6, SettleWait
<1> QED
  BY <1>0, <1>4, <1>5, <1>6, <1>7, QuietBrain

\* A session takes the number of a new call.
NewCallMade(s) ==
    /\ session' \in [Session -> SessionRow]
    /\ session'[s].calls = session[s].calls + 1
    /\ session'[s].bridge = session[s].bridge
    /\ \A x \in Session : x # s => session'[x] = session[x]

\* A call is new: it is on no connection, no worker has it and none had it.
LEMMA NewCallNowhere ==
    ASSUME Inductive, NEW s \in Session, NEW k \in Call, NewCallMade(s),
           k = <<s, session[s].calls + 1>>, ran' = ran
    PROVE  /\ Unexecuted(k)'
           /\ \A w \in Worker : worker[w].call # k
           /\ \A d \in Link : \A i \in Calls(d) : link[d].down[i].call # k
           /\ \A n \in Call : Unexecuted(n) => Unexecuted(n)'
           /\ RanWereMade' /\ ExecutedOnce'
<1>0. /\ session[s].calls \in Nat /\ k[1] = s /\ k[2] = session[s].calls + 1
      /\ k[2] \in 1 .. MaxCalls
      /\ \A x \in Session : session[x].calls \in Nat
  BY Rows DEF Inductive, SessionRow, Call
<1>1. ~Unexecuted(k)
  BY <1>0 DEF Unexecuted
<1>2. Unexecuted(k)'
  <2>1. ran[s][k[2]] = 0
    BY <1>0 DEF Inductive, FlightInv, RanWereMade
  <2> QED
    BY <1>0, <2>1 DEF Unexecuted, NewCallMade
<1>3. \A w \in Worker : worker[w].call # k
  BY <1>1 DEF Inductive, FlightInv, ExecutingOnce
<1>4. \A d \in Link : \A i \in Calls(d) : link[d].down[i].call # k
  BY <1>1 DEF Inductive, FlightInv, InFlightOnce
<1>5. ASSUME NEW n \in Call, Unexecuted(n) PROVE Unexecuted(n)'
  <2>1. n[1] \in Session /\ n[2] \in Nat
    BY DEF Call
  <2> QED
    BY <1>0, <1>5, <2>1 DEF Unexecuted, NewCallMade
<1>6. RanWereMade'
  BY <1>0 DEF Inductive, FlightInv, RanWereMade, NewCallMade
<1>7. ExecutedOnce'
  BY DEF Inductive, FlightInv, ExecutedOnce
<1> QED
  BY <1>2, <1>3, <1>4, <1>5, <1>6, <1>7

\* The calls on their way are the ones that were and at most one new one.
LEMMA CallAdded ==
    ASSUME Inductive, NEW s \in Session, NEW k \in Call, NewCallMade(s),
           k = <<s, session[s].calls + 1>>, ran' = ran, worker' = worker,
           NEW c \in Link, LinkChanged(c),
           link'[c].down \in {link[c].down,
                              Append(link[c].down, [type |-> "call", call |-> k])}
    PROVE  FlightInv'
<1> DEFINE q == link[c].down
           m == [type |-> "call", call |-> k]
           new == Len(q) + 1
<1>0. TypeInv /\ q \in Seq(DownMessage) /\ Link' = Link
  BY Rows, LinkParts DEF Inductive, LinkChanged, Link
<1>1. /\ DOMAIN Append(q, m) = 1 .. new /\ DOMAIN q = 1 .. Len(q)
      /\ Append(q, m)[new] = m /\ Len(q) \in Nat
      /\ \A i \in 1 .. Len(q) : Append(q, m)[i] = q[i]
  BY <1>0
<1>2. m.call = k
  OBVIOUS
<1>3. link'[c].down = q \/ link'[c].down = Append(q, m)
  OBVIOUS
<1> HIDE DEF m, q, new
<1>4. ASSUME NEW d \in Link, NEW i \in Calls(d)'
      PROVE  \/ /\ i \in Calls(d) /\ link[d].down[i].call \in Call
                /\ link'[d].down[i].call = link[d].down[i].call
             \/ d = c /\ i = new /\ link'[d].down[i].call = k
  <2>1. CASE d # c \/ link'[c].down = q
    <3>1. link'[d].down = link[d].down
      BY <2>1 DEF LinkChanged, q
    <3> QED
      BY <1>0, <1>4, <3>1, CallType DEF Calls
  <2>2. CASE d = c /\ link'[c].down = Append(q, m)
    <3>1. i \in 1 .. new /\ link'[d].down[i] = Append(q, m)[i]
          /\ link'[d].down[i].type = "call"
      BY <1>1, <1>4, <2>2 DEF Calls
    <3>2. CASE i = new
      BY <1>1, <1>2, <2>2, <3>1, <3>2
    <3>3. CASE i # new
      <4>1. i \in 1 .. Len(q)
        BY <1>1, <3>1, <3>3 DEF new
      <4>2. i \in Calls(d) /\ link'[d].down[i].call = link[d].down[i].call
        BY <1>1, <2>2, <3>1, <4>1 DEF Calls, q
      <4> QED
        BY <1>0, <4>2, CallType
    <3> QED
      BY <3>2, <3>3
  <2> QED
    BY <1>3, <2>1, <2>2
<1>5. /\ Unexecuted(k)' /\ \A w \in Worker : worker[w].call # k
      /\ \A d \in Link : \A i \in Calls(d) : link[d].down[i].call # k
      /\ \A n \in Call : Unexecuted(n) => Unexecuted(n)'
      /\ RanWereMade' /\ ExecutedOnce'
  BY NewCallNowhere
<1>6. InFlightOnce'
  <2>1. ASSUME NEW d \in Link', NEW e \in Link', NEW i \in Calls(d)',
               NEW j \in Calls(e)',
               link'[d].down[i].call = link'[e].down[j].call
        PROVE  d = e /\ i = j
    <3>0. d \in Link /\ e \in Link /\ InFlightOnce
      BY <1>0 DEF Inductive, FlightInv
    <3>1. \/ /\ i \in Calls(d) /\ link[d].down[i].call # k
             /\ link'[d].down[i].call = link[d].down[i].call
          \/ d = c /\ i = new /\ link'[d].down[i].call = k
      BY <1>4, <1>5, <3>0
    <3>2. \/ /\ j \in Calls(e) /\ link[e].down[j].call # k
             /\ link'[e].down[j].call = link[e].down[j].call
          \/ e = c /\ j = new /\ link'[e].down[j].call = k
      BY <1>4, <1>5, <3>0
    <3> QED
      BY ONLY <2>1, <3>0, <3>1, <3>2 DEF InFlightOnce
  <2>2. ASSUME NEW d \in Link', NEW i \in Calls(d)', NEW n \in Call,
               link'[d].down[i].call = n
        PROVE  Unexecuted(n)' /\ \A x \in Worker : worker'[x].call # n
    <3>0. d \in Link /\ InFlightOnce
      BY <1>0 DEF Inductive, FlightInv
    <3>1. CASE n = k
      BY <1>5, <3>1
    <3>2. CASE n # k
      <4>1. i \in Calls(d) /\ link[d].down[i].call = n
        BY <1>4, <2>2, <3>0, <3>2
      <4>2. Unexecuted(n) /\ \A x \in Worker : worker[x].call # n
        BY ONLY <2>2, <3>0, <4>1 DEF InFlightOnce
      <4> QED
        BY <1>5, <4>2
    <3> QED
      BY <3>1, <3>2
  <2> QED
    BY <2>1, <2>2 DEF InFlightOnce
<1>7. ExecutingOnce'
  BY <1>5 DEF Inductive, FlightInv, ExecutingOnce
<1> QED
  BY <1>5, <1>6, <1>7 DEF FlightInv

LEMMA RemoteExecuteStep ==
    ASSUME Inductive, NEW s \in Session, RemoteExecute(s)
    PROVE  Inductive'
<1> DEFINE c == session[s].bridge
           k == <<s, session[s].calls + 1>>
<1>0. /\ TypeInv /\ BridgeTypes /\ WaitInv /\ c \in Link
      /\ session \in [Session -> SessionRow] /\ session[s] \in SessionRow
      /\ link \in Seq(LinkRow) /\ bridge[c] \in BridgeRow
      /\ session[s].state \in {"idle", "returned", "failed"}
  <2>1. /\ TypeInv /\ BridgeTypes /\ WaitInv
        /\ session[s].state \in {"idle", "returned", "failed"}
    BY DEF Inductive, TypeInv, RemoteExecute
  <2>2. c \in Link
    BY <2>1 DEF TypeInv, LinksExist
  <2> QED
    BY <2>1, <2>2, Rows DEF BridgeTypes
<1>1. /\ k \in Call /\ k[1] = s /\ k[2] = session[s].calls + 1
      /\ k[2] \in 0 .. MaxCalls
  BY <1>0, WorkerBridgeAssumption DEF RemoteExecute, SessionRow, Call
<1>2. UNCHANGED <<registry, worker, ran>> /\ SendToolCall(s, c, k)
  BY DEF RemoteExecute
<1>3. PICK st \in {"failed", "waiting"} :
          /\ session' = [session EXCEPT ![s].calls = k[2], ![s].state = st]
          /\ st = "failed" => UNCHANGED <<bridge, link>>
          /\ st = "waiting" =>
                /\ bridge[c].connected
                /\ bridge' = [bridge EXCEPT ![c].pending = @ \cup {k}]
                /\ link' = ToWorker(c, [type |-> "call", call |-> k])
  BY <1>2 DEF SendToolCall
<1> HIDE DEF c
<1>4. /\ NewCallMade(s) /\ session'[s].state = st
  <2> DEFINE r == [session[s] EXCEPT !.calls = k[2], !.state = st]
  <2>1. /\ r \in SessionRow /\ r.calls = session[s].calls + 1 /\ r.state = st
        /\ r.bridge = session[s].bridge
    BY <1>0, <1>1 DEF SessionRow
  <2>2. session' = [session EXCEPT ![s] = r]
    BY <1>3
  <2> HIDE DEF r
  <2> QED
    BY <1>0, <2>1, <2>2 DEF NewCallMade
<1>5. \A x \in Session : session'[x].state \notin {"new", "refused"} =>
                             session'[x].bridge \in Link
  BY <1>0, <1>4 DEF TypeInv, LinksExist, NewCallMade, c
<1>6. CASE st = "failed"
  <2>1. UNCHANGED <<bridge, link>> /\ Link' = Link /\ LinkChanged(c)
    BY <1>0, <1>3, <1>6 DEF Link, LinkChanged
  <2>2. TypeInv'
    BY <1>0, <1>2, <1>4, <1>5, <2>1, TypesKept DEF BridgeTypes, NewCallMade
  <2>3. RegistryAgrees'
    BY <1>0, <1>2, <2>1, RegistryFrame DEF Inductive
  <2>4. WaitInv'
    BY <1>0, <1>4, <1>6, <2>1, WaitFrame DEF NewCallMade
  <2>5. FlightInv'
    BY <1>0, <1>1, <1>2, <1>4, <2>1, CallAdded
  <2> QED
    BY <2>2, <2>3, <2>4, <2>5 DEF Inductive
<1>7. CASE st = "waiting"
  <2> DEFINE r == [bridge[c] EXCEPT !.pending = @ \cup {k}]
             m == [type |-> "call", call |-> k]
  <2>1. /\ bridge[c].connected /\ bridge' = [bridge EXCEPT ![c] = r]
        /\ link' = ToWorker(c, m)
    BY <1>3, <1>7
  <2>2. /\ r \in BridgeRow /\ r.pending = bridge[c].pending \cup {k}
        /\ r.connected = bridge[c].connected /\ r.handler = bridge[c].handler
    BY <1>0, <1>1 DEF BridgeRow
  <2>3. m \in DownMessage
    BY <1>1 DEF DownMessage
  <2> HIDE DEF r, m
  <2>4. BridgeChanged(c) /\ bridge'[c] = r
    BY <1>0, <2>1, <2>2, BridgeRowChange
  <2>5. LinkChanged(c) /\ link'[c].down \in {link[c].down, Append(link[c].down, m)}
    BY <1>0, <2>1, <2>3, ToWorkerLink
  <2>6. TypeInv' /\ Link' = Link
    BY <1>0, <1>2, <1>4, <1>5, <2>4, <2>5, TypesKept
       DEF BridgeTypes, NewCallMade, BridgeChanged, LinkChanged
  <2>7. RegistryAgrees'
    BY <1>0, <1>2, <2>2, <2>4, RegistryFrame DEF Inductive, BridgeChanged
  <2>8. FlightInv'
    BY <1>0, <1>1, <1>2, <1>4, <2>5, CallAdded DEF m
  <2>9. WaitsOnConnected'
    <3> SUFFICES ASSUME NEW x \in Session, session'[x].state = "waiting"
                 PROVE  /\ bridge'[session'[x].bridge].connected
                        /\ CallOf(x)' \in bridge'[session'[x].bridge].pending
      BY DEF WaitsOnConnected
    <3>1. CASE x = s
      <4>1. session'[x].bridge = c /\ CallOf(x)' = k
        BY <1>4, <3>1 DEF NewCallMade, CallOf, c
      <4> QED
        BY <2>1, <2>2, <2>4, <4>1
    <3>2. CASE x # s
      <4>1. session'[x] = session[x] /\ CallOf(x)' = CallOf(x)
        BY <1>4, <3>2 DEF NewCallMade, CallOf
      <4>2. /\ session[x].bridge \in Link /\ bridge[session[x].bridge].connected
            /\ CallOf(x) \in bridge[session[x].bridge].pending
        BY <1>0, <4>1 DEF WaitInv, WaitsOnConnected, TypeInv, LinksExist
      <4> QED
        BY <2>2, <2>4, <4>1, <4>2 DEF BridgeChanged
    <3> QED
      BY <3>1, <3>2
  <2>10. PendingAwaited'
    <3> SUFFICES ASSUME NEW d \in Link, NEW n \in bridge'[d].pending
                 PROVE  /\ session'[n[1]].state = "waiting"
                        /\ session'[n[1]].bridge = d /\ session'[n[1]].calls = n[2]
      BY <2>6 DEF PendingAwaited
    <3>1. CASE n \in bridge[d].pending
      <4>1. /\ session[n[1]].state = "waiting" /\ session[n[1]].bridge = d
            /\ session[n[1]].calls = n[2]
        BY <1>0, <3>1 DEF WaitInv, PendingAwaited
      <4>2. n[1] \in Session
        BY <1>0, <3>1, PendingCalls
      <4> QED
        BY <1>0, <1>4, <4>1, <4>2 DEF NewCallMade
    <3>2. CASE n \notin bridge[d].pending
      <4>1. d = c /\ n = k
        BY <2>2, <2>4, <3>2 DEF BridgeChanged
      <4> QED
        BY <1>1, <1>4, <1>7, <4>1 DEF NewCallMade, c
    <3> QED
      BY <3>1, <3>2
  <2> QED
    BY <2>6, <2>7, <2>8, <2>9, <2>10 DEF Inductive, WaitInv
<1> QED
  BY <1>6, <1>7

-----------------------------------------------------------------------------
(* The theorem                                                             *)

LEMMA InductiveInit == BridgeInit => Inductive
<1> SUFFICES ASSUME BridgeInit PROVE Inductive
  OBVIOUS
<1>0. Link = {} /\ link = <<>> /\ bridge = <<>>
  BY DEF BridgeInit, Link
<1>1. TypeInv
  <2>1. BridgeTypes
    BY <1>0, WorkerBridgeAssumption
       DEF BridgeInit, BridgeTypes, WorkerRow, SessionRow
  <2>2. LinksExist
    BY DEF BridgeInit, LinksExist
  <2> QED
    BY <2>1, <2>2 DEF TypeInv
<1>2. RegistryAgrees
  BY DEF BridgeInit, RegistryAgrees
<1>3. WaitInv
  BY <1>0 DEF BridgeInit, WaitInv, WaitsOnConnected, PendingAwaited
<1>4. FlightInv
  <2>1. InFlightOnce
    BY <1>0 DEF InFlightOnce
  <2>2. ExecutingOnce
    BY NoCallIsNone DEF BridgeInit, ExecutingOnce
  <2>3. RanWereMade /\ ExecutedOnce
    BY DEF BridgeInit, RanWereMade, ExecutedOnce
  <2> QED
    BY <2>1, <2>2, <2>3 DEF FlightInv
<1> QED
  BY <1>1, <1>2, <1>3, <1>4 DEF Inductive

LEMMA StutterStep ==
    ASSUME Inductive, UNCHANGED bridgeVars
    PROVE  Inductive'
<1>0. /\ TypeInv /\ BridgeTypes
      /\ UNCHANGED <<link, bridge, registry, worker, session, ran>> /\ Link' = Link
  BY DEF Inductive, TypeInv, bridgeVars, Link
<1>1. TypeInv'
  BY <1>0, TypesKept DEF BridgeTypes, TypeInv, LinksExist
<1>2. RegistryAgrees' /\ WaitInv'
  BY <1>0, RegistryFrame, WaitFrame DEF Inductive
<1>3. \A d \in Link' : CallsWere(d)
  BY <1>0, SameCalls
<1>4. FlightInv'
  BY <1>0, <1>3, FlightFrame DEF Inductive
<1> QED
  BY <1>1, <1>2, <1>4 DEF Inductive

LEMMA InductiveNext == Inductive /\ [BridgeNext]_bridgeVars => Inductive'
<1> SUFFICES ASSUME Inductive, [BridgeNext]_bridgeVars PROVE Inductive'
  OBVIOUS
<1>1. ASSUME NEW w \in Worker, WorkerStep(w) PROVE Inductive'
  BY <1>1, ConnectStep, LostStep, HandleStep, FinishStep DEF WorkerStep
<1>2. ASSUME NEW c \in Link, BrainStep(c) PROVE Inductive'
  BY <1>2, RegisterStep, ReceiveStep, ReceiveFailsStep, HeartbeatStep,
     HeartbeatDueStep, HandlerEndsStep DEF BrainStep
<1>3. ASSUME NEW c \in Link, Cut(c) PROVE Inductive'
  BY <1>3, CutStep
<1>4. ASSUME NEW s \in Session, Open(s) \/ RemoteExecute(s) \/ TimeOut(s)
      PROVE  Inductive'
  BY <1>4, OpenStep, RemoteExecuteStep, TimeOutStep
<1>5. CASE UNCHANGED bridgeVars
  BY <1>5, StutterStep
<1> QED
  BY <1>1, <1>2, <1>3, <1>4, <1>5 DEF BridgeNext

\* However many workers connect, are lost, replace each other and come back, for
\* however many sessions and calls: the registry's two tables agree, whoever
\* waits for a call waits for a future of a connected bridge, and no tool call
\* is executed twice.
THEOREM BridgeIsSafe == BridgeSpec => []BridgeSafe
<1>1. Inductive => BridgeSafe
  BY DEF Inductive, WaitInv, FlightInv, BridgeSafe
<1> QED
  BY <1>1, InductiveInit, InductiveNext, PTL DEF BridgeSpec

-----------------------------------------------------------------------------
(* AguiServer: the inductive invariant                                     *)

ChannelRow == [broadcaster : Nat, count : Nat, terminal : BOOLEAN]
ClientRow ==
    [pc : {"new", "opening", "open", "streaming", "leaving", "reading status",
           "closed", "abandoned"},
     run : Run, broadcaster : Nat, live : BOOLEAN, inbox : Seq(Nat), since : Nat]

AguiTypes ==
    /\ active \subseteq Run
    /\ finished \subseteq Run
    /\ channels \in [Run -> ChannelRow]
    /\ created \in Nat
    /\ sinks \in [Run -> SUBSET Client]
    /\ client \in [Client -> ClientRow]
    /\ emitted \in Seq(Run)

\* The registry counts the requests that are open, all of which stream from
\* the one broadcaster of their run, and no two runs share one.
ChannelsStand ==
    /\ \A r \in Run : IsFiniteSet(Counted(r))
    /\ ChannelKept /\ TerminalHasClient
    /\ \A r \in Run : channels[r].broadcaster <= created
    /\ \A r \in Run : channels[r].count > 0 => channels[r].broadcaster # 0
    /\ \A r, q \in Run :
          (r # q /\ channels[r].broadcaster # 0)
              => channels[r].broadcaster # channels[q].broadcaster

\* A live client has its sinks on the scheduler of its run until it leaves, and
\* none after that.
SinksOK(c) ==
    /\ \A r \in Run : c \in sinks[r] =>
          client[c].run = r /\ client[c].pc \notin {"new", "closed"}
    /\ client[c].pc \in {"new", "reading status", "closed"} =>
          \A r \in Run : c \notin sinks[r]
    /\ (client[c].live /\ client[c].pc \in {"opening", "open", "streaming"})
          => c \in sinks[client[c].run]
    /\ client[c].pc = "streaming" => client[c].live

\* What a client has received: events of its run, in order, and every one since
\* it was attached.
Received(c) ==
    LET box == client[c].inbox
    IN  /\ \A i \in DOMAIN box :
              /\ box[i] \in 1 .. Len(emitted)
              /\ emitted[box[i]] = client[c].run
        /\ \A i, j \in DOMAIN box : i < j => box[i] <= box[j]
        /\ client[c].since <= Len(emitted)
        /\ (client[c].live /\ client[c].pc \in {"open", "streaming"}) =>
              \A n \in client[c].since + 1 .. Len(emitted) :
                  emitted[n] = client[c].run => n \in Range(box)

\* A request that does not stream has received nothing.
NotYet(c) == client[c].pc \in {"new", "opening"} => client[c].inbox = <<>>

AguiInv ==
    /\ AguiTypes /\ ChannelsStand
    /\ \A c \in Client : SinksOK(c) /\ Received(c) /\ NotYet(c)

LEMMA AguiInvInit == AguiInit => AguiInv
<1> SUFFICES ASSUME AguiInit PROVE AguiInv
  OBVIOUS
<1>1. (CHOOSE r \in Run : TRUE) \in Run
  BY AguiAssumption
<1>2. NewClient \in ClientRow
  BY <1>1 DEF NewClient, ClientRow
<1>3. AguiTypes
  BY <1>2 DEF AguiInit, AguiTypes, None, ChannelRow
<1>4. \A r \in Run : Counted(r) = {}
  BY DEF AguiInit, Counted, NewClient
<1>5. ChannelsStand
  <2>1. \A r \in Run : /\ channels[r].count = 0 /\ channels[r].broadcaster = 0
                       /\ ~channels[r].terminal
    BY DEF AguiInit, None
  <2>2. \A r \in Run : IsFiniteSet(Counted(r)) /\ Cardinality(Counted(r)) = 0
    BY <1>4, FS_EmptySet
  <2>3. ChannelKept /\ TerminalHasClient
    BY <1>4, <2>1, <2>2 DEF ChannelKept, TerminalHasClient
  <2>4. created = 0
    BY DEF AguiInit
  <2> QED
    BY <2>1, <2>2, <2>3, <2>4 DEF ChannelsStand
<1>6. \A c \in Client : SinksOK(c)
  BY DEF AguiInit, SinksOK, NewClient
<1>7. \A c \in Client : Received(c) /\ NotYet(c)
  BY DEF AguiInit, Received, NotYet, NewClient
<1> QED
  BY <1>3, <1>5, <1>6, <1>7 DEF AguiInv

\* _sweep finds nothing: the last client of a finished run evicts its channel.
LEMMA SweepIdle ==
    ASSUME AguiTypes, TerminalHasClient
    PROVE  Sweep(channels) = channels
<1>1. \A r \in Run : ~(channels[r].terminal /\ channels[r].count = 0)
  BY DEF TerminalHasClient, AguiTypes, ChannelRow
<1> QED
  BY <1>1 DEF Sweep, AguiTypes

\* What the registry does when a client of r comes.
LEMMA SubscribeFacts ==
    ASSUME AguiTypes, TerminalHasClient, NEW r \in Run
    PROVE  LET chans == SubscribeClient(r)
           IN  /\ chans \in [Run -> ChannelRow]
               /\ \A q \in Run \ {r} : chans[q] = channels[q]
               /\ channels[r].broadcaster # 0 =>
                     /\ chans[r].broadcaster = channels[r].broadcaster
                     /\ chans[r].count = channels[r].count + 1
                     /\ chans[r].terminal = channels[r].terminal
               /\ channels[r].broadcaster = 0 =>
                     /\ chans[r].broadcaster = created + 1
                     /\ chans[r].count = 1
                     /\ chans[r].terminal = FALSE
<1>1. SubscribeClient(r) =
        [GetOrCreate(channels, r) EXCEPT ![r].count = @ + 1]
  BY SweepIdle DEF SubscribeClient
<1>2. CASE channels[r].broadcaster # 0
  <2> DEFINE row == [channels[r] EXCEPT !.count = channels[r].count + 1]
  <2>1. SubscribeClient(r) = [channels EXCEPT ![r] = row]
    BY <1>1, <1>2 DEF GetOrCreate, Exists
  <2>2. /\ row \in ChannelRow
        /\ row.broadcaster = channels[r].broadcaster
        /\ row.count = channels[r].count + 1
        /\ row.terminal = channels[r].terminal
    <3>1. channels[r] \in ChannelRow
      BY DEF AguiTypes
    <3>2. row \in ChannelRow
      BY <3>1 DEF ChannelRow
    <3>3. row.broadcaster = channels[r].broadcaster /\ row.count = channels[r].count + 1
      BY <3>1 DEF ChannelRow
    <3>4. row.terminal = channels[r].terminal
      BY <3>1 DEF ChannelRow
    <3> QED
      BY <3>2, <3>3, <3>4
  <2> HIDE DEF row
  <2> QED
    BY <1>2, <2>1, <2>2 DEF AguiTypes
<1>3. CASE channels[r].broadcaster = 0
  <2> DEFINE fresh == [broadcaster |-> created + 1, count |-> 0, terminal |-> FALSE]
             row == [fresh EXCEPT !.count = fresh.count + 1]
  <2>1. GetOrCreate(channels, r) = [channels EXCEPT ![r] = fresh]
    BY <1>3 DEF GetOrCreate, Exists
  <2>2. /\ row \in ChannelRow
        /\ row.broadcaster = created + 1
        /\ row.count = 1
        /\ row.terminal = FALSE
    <3>1. /\ fresh \in ChannelRow /\ fresh.broadcaster = created + 1
          /\ fresh.count = 0 /\ fresh.terminal = FALSE
      BY DEF AguiTypes, ChannelRow
    <3> HIDE DEF fresh
    <3>2. row \in ChannelRow
      BY <3>1 DEF ChannelRow
    <3>3. row.broadcaster = created + 1 /\ row.count = 1
      BY <3>1 DEF ChannelRow
    <3>4. row.terminal = FALSE
      BY <3>1 DEF ChannelRow
    <3> QED
      BY <3>2, <3>3, <3>4
  <2> HIDE DEF fresh
  <2>3. SubscribeClient(r) = [channels EXCEPT ![r] = row]
    BY <1>1, <2>1 DEF AguiTypes
  <2> HIDE DEF row
  <2> QED
    BY <1>3, <2>2, <2>3 DEF AguiTypes
<1> QED
  BY <1>2, <1>3

\* What the registry does when a client of r, which it counts, leaves.
LEMMA UnsubscribeFacts ==
    ASSUME AguiTypes, NEW r \in Run, channels[r].count > 0,
           channels[r].broadcaster # 0, NEW mark \in BOOLEAN
    PROVE  LET chans == UnsubscribeClient(
                            IF mark THEN MarkTerminal(channels, r) ELSE channels, r)
           IN  /\ chans \in [Run -> ChannelRow]
               /\ \A q \in Run \ {r} : chans[q] = channels[q]
               /\ chans[r].count = channels[r].count - 1
               /\ \/ chans[r].broadcaster = channels[r].broadcaster
                  \/ chans[r].broadcaster = 0 /\ chans[r].count = 0
               /\ chans[r].terminal => chans[r].count > 0
<1> DEFINE marked == IF mark THEN MarkTerminal(channels, r) ELSE channels
<1>1. /\ marked \in [Run -> ChannelRow]
      /\ \A q \in Run \ {r} : marked[q] = channels[q]
      /\ marked[r].count = channels[r].count
      /\ marked[r].broadcaster = channels[r].broadcaster
  <2>1. CASE mark
    <3>1. marked = [channels EXCEPT ![r].terminal = TRUE]
      BY <2>1 DEF MarkTerminal, Exists, AguiTypes, ChannelRow
    <3> HIDE DEF marked
    <3> QED
      BY <3>1 DEF AguiTypes, ChannelRow
  <2>2. CASE ~mark
    BY <2>2 DEF AguiTypes
  <2> QED
    BY <2>1, <2>2
<1> HIDE DEF marked
<1> DEFINE n == marked[r].count - 1
<1>2. marked[r].count \in Nat /\ marked[r].count > 0 /\ n \in Nat
  BY <1>1 DEF AguiTypes, ChannelRow
<1>3. CASE n = 0 /\ marked[r].terminal
  <2>1. UnsubscribeClient(marked, r) = [marked EXCEPT ![r] = None]
    BY <1>1, <1>2, <1>3 DEF UnsubscribeClient, Exists, Evict
  <2> HIDE DEF n
  <2>2. None \in ChannelRow /\ None.count = 0 /\ None.broadcaster = 0 /\ ~None.terminal
    BY DEF None, ChannelRow
  <2>3. channels[r].count - 1 = 0
    BY <1>1, <1>3 DEF n
  <2> QED
    BY <1>1, <2>1, <2>2, <2>3 DEF marked
<1>4. CASE ~(n = 0 /\ marked[r].terminal)
  <2>0. (IF marked[r].count = 0 THEN 0 ELSE marked[r].count - 1) = n
    BY <1>2
  <2>1. UnsubscribeClient(marked, r) = [marked EXCEPT ![r].count = n]
    BY <1>1, <1>4, <2>0, Zenon DEF UnsubscribeClient, Exists
  <2>2. [marked EXCEPT ![r].count = n] \in [Run -> ChannelRow]
    BY <1>1, <1>2 DEF ChannelRow
  <2>3. n > 0 \/ ~marked[r].terminal
    BY <1>2, <1>4
  <2> QED
    BY <1>1, <1>2, <2>1, <2>2, <2>3 DEF marked, ChannelRow
<1> QED
  BY <1>3, <1>4

\* What a step does to the request c; the others are as they were.
LEMMA RowSet ==
    ASSUME AguiTypes, NEW c \in Client, NEW row \in ClientRow, SetClient(c, row)
    PROVE  /\ client' \in [Client -> ClientRow]
           /\ client'[c] = row
           /\ \A d \in Client \ {c} : client'[d] = client[d]
  BY DEF AguiTypes, SetClient

\* The steps of a request that the registry does not see.
LEMMA MoveFacts ==
    ASSUME AguiTypes, NEW c \in Client,
           OpenResponse(c) \/ Start(c) \/ Abandon(c) \/ Leave(c)
    PROVE  /\ client' \in [Client -> ClientRow]
           /\ \A d \in Client \ {c} : client'[d] = client[d]
           /\ client'[c].run = client[c].run
           /\ client'[c].broadcaster = client[c].broadcaster
           /\ client'[c].live = client[c].live
           /\ client'[c].inbox = client[c].inbox
           /\ client[c].pc \notin {"new", "closed"}
           /\ client'[c].pc \notin {"new", "closed"}
<1>0. client[c] \in ClientRow
  BY DEF AguiTypes
<1>1. CASE OpenResponse(c)
  <2> DEFINE row == [client[c] EXCEPT !.pc = "open", !.since = Len(emitted)]
  <2>1. SetClient(c, row) /\ client[c].pc = "opening"
    BY <1>1 DEF OpenResponse
  <2>2. row \in ClientRow
    <3>1. Len(emitted) \in Nat
      BY DEF AguiTypes
    <3> QED
      BY <1>0, <3>1 DEF ClientRow
  <2>3. /\ row.run = client[c].run /\ row.broadcaster = client[c].broadcaster
        /\ row.inbox = client[c].inbox /\ row.pc = "open"
    BY <1>0 DEF ClientRow
  <2>4. row.live = client[c].live
    BY <1>0 DEF ClientRow
  <2> HIDE DEF row
  <2> QED
    BY <2>1, <2>2, <2>3, <2>4, RowSet
<1>2. ASSUME NEW l \in {"streaming", "leaving", "abandoned", "reading status"},
             SetClient(c, [client[c] EXCEPT !.pc = l]),
             client[c].pc \notin {"new", "closed"}
      PROVE  /\ client' \in [Client -> ClientRow]
             /\ \A d \in Client \ {c} : client'[d] = client[d]
             /\ client'[c].run = client[c].run
             /\ client'[c].broadcaster = client[c].broadcaster
             /\ client'[c].live = client[c].live
             /\ client'[c].inbox = client[c].inbox
             /\ client[c].pc \notin {"new", "closed"}
             /\ client'[c].pc \notin {"new", "closed"}
  <2> DEFINE row == [client[c] EXCEPT !.pc = l]
  <2>2. row \in ClientRow
    BY <1>0, <1>2 DEF ClientRow
  <2>3. /\ row.run = client[c].run /\ row.broadcaster = client[c].broadcaster
        /\ row.inbox = client[c].inbox /\ row.pc = l
    BY <1>0 DEF ClientRow
  <2>4. row.live = client[c].live
    BY <1>0 DEF ClientRow
  <2>5. SetClient(c, row)
    BY <1>2
  <2> HIDE DEF row
  <2> QED
    BY <1>2, <2>2, <2>3, <2>4, <2>5, RowSet
<1>3. CASE Start(c)
  BY <1>2, <1>3 DEF Start
<1>4. CASE Abandon(c)
  BY <1>2, <1>4 DEF Abandon
<1>5. CASE Leave(c)
  BY <1>2, <1>5 DEF Leave
<1> QED
  BY <1>1, <1>3, <1>4, <1>5

\* events_handler: the request is entered with the broadcaster of its run.
LEMMA ConnectFacts ==
    ASSUME AguiTypes, NEW c \in Client, NEW r \in Run, AguiConnect(c, r),
           SubscribeClient(r) \in [Run -> ChannelRow]
    PROVE  /\ client' \in [Client -> ClientRow]
           /\ \A d \in Client \ {c} : client'[d] = client[d]
           /\ client[c].pc = "new"
           /\ client'[c].pc = "opening"
           /\ client'[c].run = r
           /\ client'[c].broadcaster = SubscribeClient(r)[r].broadcaster
           /\ client'[c].live <=> r \in active
           /\ client'[c].inbox = client[c].inbox
           /\ client'[c].since = client[c].since
<1> DEFINE chans == SubscribeClient(r)
           on == r \in active
           row == [client[c] EXCEPT
              !.pc = "opening", !.run = r, !.live = on,
              !.broadcaster = chans[r].broadcaster]
<1>0. client[c] \in ClientRow /\ chans[r].broadcaster \in Nat
  BY DEF AguiTypes, ChannelRow
<1>1. SetClient(c, row) /\ client[c].pc = "new"
  BY DEF AguiConnect
<1>6. on \in BOOLEAN
  OBVIOUS
<1> HIDE DEF chans, on
<1>2. row \in ClientRow
  BY <1>0, <1>6 DEF ClientRow
<1>3. /\ row.run = r /\ row.broadcaster = chans[r].broadcaster
      /\ row.inbox = client[c].inbox /\ row.pc = "opening"
      /\ row.since = client[c].since
  BY <1>0 DEF ClientRow
<1>4. row.live = on
  BY <1>0 DEF ClientRow
<1> HIDE DEF row
<1>5. /\ client' \in [Client -> ClientRow]
      /\ client'[c] = row
      /\ \A d \in Client \ {c} : client'[d] = client[d]
  BY <1>1, <1>2, RowSet
<1> QED
  BY <1>1, <1>3, <1>4, <1>5 DEF chans, on

LEMMA CloseFacts ==
    ASSUME AguiTypes, NEW c \in Client, Close(c)
    PROVE  /\ client' \in [Client -> ClientRow]
           /\ \A d \in Client \ {c} : client'[d] = client[d]
           /\ client[c].pc = "reading status"
           /\ client'[c].pc = "closed"
           /\ client'[c].run = client[c].run
           /\ client'[c].inbox = client[c].inbox
           /\ client'[c].since = client[c].since
<1> DEFINE row == [client[c] EXCEPT !.pc = "closed"]
<1>0. client[c] \in ClientRow
  BY DEF AguiTypes
<1>1. SetClient(c, row) /\ client[c].pc = "reading status"
  BY DEF Close
<1>2. row \in ClientRow
  BY <1>0 DEF ClientRow
<1>3. /\ row.run = client[c].run /\ row.inbox = client[c].inbox
      /\ row.pc = "closed" /\ row.since = client[c].since
  BY <1>0 DEF ClientRow
<1> HIDE DEF row
<1> QED
  BY <1>1, <1>2, <1>3, RowSet

\* A scheduler's event goes to those who read from a broadcaster of one of its
\* sinks, once for each of these sinks.
Copies(r, d) == {c \in sinks[r] : client[c].broadcaster = client[d].broadcaster}

LEMMA EmitFacts ==
    ASSUME AguiTypes, NEW r \in Run, Emit(r),
           \A d \in Client : IsFiniteSet(Copies(r, d))
    PROVE  /\ client' \in [Client -> ClientRow]
           /\ emitted' = Append(emitted, r)
           /\ \A d \in Client :
                 /\ client'[d].pc = client[d].pc
                 /\ client'[d].run = client[d].run
                 /\ client'[d].broadcaster = client[d].broadcaster
                 /\ client'[d].live = client[d].live
                 /\ client'[d].since = client[d].since
                 /\ client[d].pc \in {"open", "streaming"} =>
                       client'[d].inbox = client[d].inbox \o
                           [i \in 1 .. Cardinality(Copies(r, d)) |-> Len(emitted) + 1]
                 /\ client[d].pc \notin {"open", "streaming"} =>
                       client'[d].inbox = client[d].inbox
<1> DEFINE more(d) == [i \in 1 .. Cardinality(Copies(r, d)) |-> Len(emitted) + 1]
           row(d) == [client[d] EXCEPT !.inbox = client[d].inbox \o more(d)]
<1>1. /\ emitted' = Append(emitted, r)
      /\ client' = [d \in Client |-> IF client[d].pc \in {"open", "streaming"}
                                     THEN row(d) ELSE client[d]]
  BY DEF Emit, Copies
<1>2. \A d \in Client : client[d] \in ClientRow
  BY DEF AguiTypes
<1>3. ASSUME NEW d \in Client PROVE client[d].inbox \o more(d) \in Seq(Nat)
  <2>1. Cardinality(Copies(r, d)) \in Nat /\ Len(emitted) + 1 \in Nat
    BY FS_CardinalityType DEF AguiTypes
  <2>2. more(d) \in Seq(Nat)
    BY <2>1
  <2>3. client[d].inbox \in Seq(Nat)
    BY <1>2 DEF ClientRow
  <2> HIDE DEF more
  <2> QED
    BY <2>2, <2>3
<1> HIDE DEF more
<1>4. ASSUME NEW d \in Client
      PROVE  /\ row(d) \in ClientRow
             /\ row(d).pc = client[d].pc
             /\ row(d).run = client[d].run
             /\ row(d).broadcaster = client[d].broadcaster
             /\ row(d).live = client[d].live
             /\ row(d).since = client[d].since
             /\ row(d).inbox = client[d].inbox \o more(d)
  <2>1. row(d) \in ClientRow
    BY <1>2, <1>3 DEF ClientRow
  <2>2. /\ row(d).pc = client[d].pc
        /\ row(d).run = client[d].run
        /\ row(d).broadcaster = client[d].broadcaster
        /\ row(d).since = client[d].since
        /\ row(d).inbox = client[d].inbox \o more(d)
    BY <1>2 DEF ClientRow
  <2>3. row(d).live = client[d].live
    BY <1>2 DEF ClientRow
  <2> QED
    BY <2>1, <2>2, <2>3
<1> HIDE DEF row
<1> QED
  BY <1>1, <1>2, <1>4 DEF more

\* A step that opens and closes no request leaves the registry in order.
LEMMA ChannelsKept ==
    ASSUME ChannelsStand, UNCHANGED <<channels, created>>,
           \A d \in Client :
              /\ client'[d].run = client[d].run
              /\ client'[d].broadcaster = client[d].broadcaster
              /\ client'[d].pc \in {"new", "closed"} <=> client[d].pc \in {"new", "closed"}
    PROVE  ChannelsStand'
<1>1. \A r \in Run : Counted(r)' = Counted(r)
  BY DEF Counted
<1>2. \A r \in Run : \A c \in Counted(r) : client'[c].broadcaster = client[c].broadcaster
  BY DEF Counted
<1> QED
  BY <1>1, <1>2 DEF ChannelsStand, ChannelKept, TerminalHasClient

LEMMA ChannelsConnect ==
    ASSUME AguiTypes, ChannelsStand, NEW c \in Client, NEW r \in Run, AguiConnect(c, r)
    PROVE  AguiTypes' /\ ChannelsStand'
<1> DEFINE chans == SubscribeClient(r)
           C == Counted(r)
           k == channels[r].broadcaster
<1>1. /\ chans \in [Run -> ChannelRow]
      /\ \A q \in Run \ {r} : chans[q] = channels[q]
      /\ k # 0 => /\ chans[r].broadcaster = k
                  /\ chans[r].count = channels[r].count + 1
                  /\ chans[r].terminal = channels[r].terminal
      /\ k = 0 => /\ chans[r].broadcaster = created + 1
                  /\ chans[r].count = 1
                  /\ chans[r].terminal = FALSE
  BY SubscribeFacts DEF ChannelsStand
<1>2. /\ channels' = chans
      /\ created' = IF chans[r].broadcaster > created THEN created + 1 ELSE created
      /\ sinks' = IF r \in active THEN [sinks EXCEPT ![r] = @ \cup {c}] ELSE sinks
      /\ UNCHANGED <<active, finished, emitted>>
  BY DEF AguiConnect
<1>3. /\ client' \in [Client -> ClientRow]
      /\ \A d \in Client \ {c} : client'[d] = client[d]
      /\ client[c].pc = "new" /\ client'[c].pc = "opening" /\ client'[c].run = r
      /\ client'[c].broadcaster = chans[r].broadcaster
  BY <1>1, ConnectFacts
<1> HIDE DEF chans
<1>4. AguiTypes'
  BY <1>1, <1>2, <1>3 DEF AguiTypes
<1>5. /\ Counted(r)' = C \cup {c} /\ c \notin C
      /\ \A q \in Run \ {r} : Counted(q)' = Counted(q)
  BY <1>3 DEF Counted
<1>6. /\ channels[r].count \in Nat /\ k \in Nat /\ k <= created /\ created \in Nat
      /\ IsFiniteSet(C) /\ Cardinality(C) = channels[r].count
      /\ channels[r].count > 0 => k # 0
      /\ \A d \in C : client[d].broadcaster = k
  BY DEF ChannelsStand, ChannelKept, AguiTypes, ChannelRow
<1>7. k = 0 => C = {} /\ channels[r].count = 0
  BY <1>6, FS_EmptySet
<1>8. IsFiniteSet(C \cup {c}) /\ Cardinality(C \cup {c}) = channels[r].count + 1
  BY <1>5, <1>6, FS_AddElement
<1> HIDE DEF C
<1>9. chans[r].count = Cardinality(C \cup {c}) /\ chans[r].count > 0
  BY <1>1, <1>6, <1>7, <1>8
<1>10. \A d \in C \cup {c} : client'[d].broadcaster = chans[r].broadcaster
  BY <1>1, <1>3, <1>5, <1>6, <1>7 DEF C, Counted
<1>11. ChannelKept'
  <2>1. ASSUME NEW q \in Run, q # r
        PROVE  /\ channels'[q].count = Cardinality(Counted(q)')
               /\ \A d \in Counted(q)' : channels'[q].broadcaster = client'[d].broadcaster
    <3>1. /\ channels[q].count = Cardinality(Counted(q))
          /\ \A d \in Counted(q) : channels[q].broadcaster = client[d].broadcaster
      BY DEF ChannelsStand, ChannelKept
    <3>2. \A d \in Counted(q) : client'[d] = client[d]
      BY <1>3, <2>1 DEF Counted
    <3> QED
      BY <1>1, <1>2, <1>5, <2>1, <3>1, <3>2
  <2> QED
    BY <1>2, <1>5, <1>9, <1>10, <2>1 DEF ChannelKept
<1>12. TerminalHasClient'
  BY <1>1, <1>2, <1>9 DEF TerminalHasClient, ChannelsStand
<1>13. created' >= created /\ chans[r].broadcaster <= created'
       /\ chans[r].broadcaster # 0 /\ created' \in Nat
  BY <1>1, <1>2, <1>6
<1>14. \A q \in Run : channels'[q].broadcaster <= created'
  <2>1. \A q \in Run : channels[q].broadcaster \in Nat /\ channels[q].broadcaster <= created
    BY DEF ChannelsStand, AguiTypes, ChannelRow
  <2> QED
    BY <1>1, <1>2, <1>6, <1>13, <2>1
<1>15. \A q \in Run \ {r} : channels[q].broadcaster # chans[r].broadcaster
  <2>1. \A q \in Run : channels[q].broadcaster \in Nat /\ channels[q].broadcaster <= created
    BY DEF ChannelsStand, AguiTypes, ChannelRow
  <2>2. CASE k = 0
    BY <1>1, <1>6, <2>1, <2>2
  <2>3. CASE k # 0
    BY <1>1, <2>3 DEF ChannelsStand
  <2> QED
    BY <2>2, <2>3
<1>16. \A p, q \in Run : (p # q /\ channels'[p].broadcaster # 0)
                            => channels'[p].broadcaster # channels'[q].broadcaster
  BY <1>1, <1>2, <1>15 DEF ChannelsStand
<1>17. \A q \in Run : channels'[q].count > 0 => channels'[q].broadcaster # 0
  BY <1>1, <1>2, <1>13 DEF ChannelsStand
<1>18. \A q \in Run : IsFiniteSet(Counted(q)')
  BY <1>5, <1>8 DEF ChannelsStand
<1> QED
  BY <1>4, <1>11, <1>12, <1>14, <1>16, <1>17, <1>18 DEF ChannelsStand

LEMMA ChannelsClose ==
    ASSUME AguiTypes, ChannelsStand, NEW c \in Client, Close(c)
    PROVE  AguiTypes' /\ ChannelsStand'
<1>0. PICK r \in Run : r = client[c].run
  BY DEF AguiTypes, ClientRow
<1> DEFINE C == Counted(r)
<1>1. /\ client' \in [Client -> ClientRow]
      /\ \A d \in Client \ {c} : client'[d] = client[d]
      /\ client[c].pc = "reading status" /\ client'[c].pc = "closed"
      /\ client'[c].run = r
  BY <1>0, CloseFacts
<1>2. c \in C /\ Counted(r)' = C \ {c}
      /\ \A q \in Run \ {r} : Counted(q)' = Counted(q)
  BY <1>0, <1>1 DEF Counted
<1>3. /\ IsFiniteSet(C) /\ Cardinality(C) = channels[r].count
      /\ channels[r].count \in Nat
      /\ \A d \in C : client[d].broadcaster = channels[r].broadcaster
  BY <1>0 DEF ChannelsStand, ChannelKept, AguiTypes, ChannelRow
<1> HIDE DEF C
<1>4. IsFiniteSet(C \ {c}) /\ Cardinality(C \ {c}) = channels[r].count - 1
  BY <1>2, <1>3, FS_RemoveElement
<1>5. channels[r].count > 0
  BY <1>2, <1>3, FS_EmptySet
<1>6. channels[r].broadcaster # 0
  BY <1>0, <1>5 DEF ChannelsStand
<1>7. PICK mark \in BOOLEAN : channels' =
          UnsubscribeClient(IF mark THEN MarkTerminal(channels, r) ELSE channels, r)
  <2>1. PICK fails \in BOOLEAN : channels' =
            UnsubscribeClient(IF r \in finished /\ ~fails THEN MarkTerminal(channels, r)
                              ELSE channels, r)
    BY <1>0 DEF Close
  <2>2. CASE r \in finished /\ ~fails
    BY <2>1, <2>2
  <2>3. CASE ~(r \in finished /\ ~fails)
    BY <2>1, <2>3
  <2> QED
    BY <2>2, <2>3
<1>8. /\ channels' \in [Run -> ChannelRow]
      /\ \A q \in Run \ {r} : channels'[q] = channels[q]
      /\ channels'[r].count = channels[r].count - 1
      /\ \/ channels'[r].broadcaster = channels[r].broadcaster
         \/ channels'[r].broadcaster = 0 /\ channels'[r].count = 0
      /\ channels'[r].terminal => channels'[r].count > 0
  BY <1>0, <1>5, <1>6, <1>7, UnsubscribeFacts
<1>9. UNCHANGED <<active, finished, created, sinks, emitted>>
  BY DEF Close
<1>10. AguiTypes'
  BY <1>1, <1>8, <1>9 DEF AguiTypes
<1>11. \A d \in C \ {c} : client'[d].broadcaster = channels'[r].broadcaster
  <2> SUFFICES ASSUME NEW d \in C \ {c}
               PROVE  client'[d].broadcaster = channels'[r].broadcaster
    OBVIOUS
  <2>1. Cardinality(C \ {c}) # 0
    BY <1>4, FS_EmptySet
  <2>2. channels'[r].broadcaster = channels[r].broadcaster
    BY <1>4, <1>8, <2>1
  <2>3. client'[d] = client[d]
    BY <1>1 DEF C, Counted
  <2> QED
    BY <1>3, <2>2, <2>3
<1>12. ChannelKept'
  <2>1. ASSUME NEW q \in Run, q # r
        PROVE  /\ channels'[q].count = Cardinality(Counted(q)')
               /\ \A d \in Counted(q)' : channels'[q].broadcaster = client'[d].broadcaster
    <3>1. /\ channels[q].count = Cardinality(Counted(q))
          /\ \A d \in Counted(q) : channels[q].broadcaster = client[d].broadcaster
      BY DEF ChannelsStand, ChannelKept
    <3>2. \A d \in Counted(q) : client'[d] = client[d]
      BY <1>0, <1>1, <2>1 DEF Counted
    <3> QED
      BY <1>2, <1>8, <2>1, <3>1, <3>2
  <2> QED
    BY <1>2, <1>4, <1>8, <1>11, <2>1 DEF ChannelKept
<1>13. TerminalHasClient'
  BY <1>8 DEF TerminalHasClient, ChannelsStand
<1>14. \A q \in Run : channels'[q].broadcaster <= created'
  <2>1. created \in Nat /\ channels[r].broadcaster <= created /\ 0 <= created
    BY DEF ChannelsStand, AguiTypes
  <2> QED
    BY <1>8, <1>9, <2>1 DEF ChannelsStand
<1>15. \A q \in Run : channels'[q].count > 0 => channels'[q].broadcaster # 0
  <2>1. channels'[r].count > 0 => channels'[r].broadcaster # 0
    BY <1>6, <1>8
  <2> QED
    BY <1>8, <2>1 DEF ChannelsStand
<1>16. \A p, q \in Run : (p # q /\ channels'[p].broadcaster # 0)
                            => channels'[p].broadcaster # channels'[q].broadcaster
  BY <1>0, <1>8 DEF ChannelsStand
<1>17. \A q \in Run : IsFiniteSet(Counted(q)')
  BY <1>2, <1>4 DEF ChannelsStand
<1> QED
  BY <1>10, <1>12, <1>13, <1>14, <1>15, <1>16, <1>17 DEF ChannelsStand

\* The sinks of a run are those of requests it counts.
LEMMA CopiesFinite ==
    ASSUME ChannelsStand, SinksReturned, AguiTypes, NEW r \in Run, NEW d \in Client
    PROVE  IsFiniteSet(Copies(r, d))
<1>1. Copies(r, d) \in SUBSET Counted(r)
  BY DEF Copies, SinksReturned, Counted, AguiTypes
<1> QED
  BY <1>1, FS_Subset DEF ChannelsStand

LEMMA RegistryNext ==
    ASSUME AguiTypes, ChannelsStand, SinksReturned, AguiNext
    PROVE  AguiTypes' /\ ChannelsStand'
<1>1. ASSUME NEW c \in Client, NEW r \in Run, AguiConnect(c, r)
      PROVE  AguiTypes' /\ ChannelsStand'
  BY <1>1, ChannelsConnect
<1>2. ASSUME NEW c \in Client, Close(c)
      PROVE  AguiTypes' /\ ChannelsStand'
  BY <1>2, ChannelsClose
<1>3. ASSUME NEW c \in Client, OpenResponse(c) \/ Start(c) \/ Abandon(c) \/ Leave(c)
      PROVE  AguiTypes' /\ ChannelsStand'
  <2>1. /\ UNCHANGED <<active, finished, channels, created, emitted>>
        /\ sinks' = sinks \/ sinks' = [sinks EXCEPT ![client[c].run] = @ \ {c}]
    BY <1>3 DEF OpenResponse, Start, Abandon, Leave
  <2>2. AguiTypes'
    BY <1>3, <2>1, MoveFacts DEF AguiTypes
  <2>3. \A d \in Client :
          /\ client'[d].run = client[d].run
          /\ client'[d].broadcaster = client[d].broadcaster
          /\ client'[d].pc \in {"new", "closed"} <=> client[d].pc \in {"new", "closed"}
    BY <1>3, MoveFacts
  <2> QED
    BY <2>1, <2>2, <2>3, ChannelsKept
<1>4. ASSUME NEW r \in Run, Emit(r)
      PROVE  AguiTypes' /\ ChannelsStand'
  <2>1. UNCHANGED <<active, finished, channels, created, sinks>>
    BY <1>4 DEF Emit
  <2>2. /\ client' \in [Client -> ClientRow]
        /\ emitted' = Append(emitted, r)
        /\ \A d \in Client : /\ client'[d].pc = client[d].pc
                             /\ client'[d].run = client[d].run
                             /\ client'[d].broadcaster = client[d].broadcaster
    BY <1>4, CopiesFinite, EmitFacts
  <2>3. AguiTypes'
    BY <2>1, <2>2 DEF AguiTypes
  <2> QED
    BY <2>1, <2>2, <2>3, ChannelsKept
<1>5. ASSUME NEW r \in Run, FinishRun(r) \/ Deregister(r)
      PROVE  AguiTypes' /\ ChannelsStand'
  <2>1. /\ UNCHANGED <<channels, created, sinks, client, emitted>>
        /\ active' \subseteq Run /\ finished' \subseteq Run
    BY <1>5 DEF FinishRun, Deregister, AguiTypes
  <2>2. AguiTypes'
    BY <2>1 DEF AguiTypes
  <2> QED
    BY <2>1, <2>2, ChannelsKept
<1>6. CASE AguiQuiet
  <2>1. UNCHANGED aguiVars
    BY <1>6 DEF AguiQuiet
  <2> QED
    BY <2>1, ChannelsKept DEF aguiVars, AguiTypes
<1> QED
  BY <1>1, <1>2, <1>3, <1>4, <1>5, <1>6 DEF AguiNext

LEMMA SinksKept ==
    ASSUME NEW d \in Client, SinksOK(d),
           \A r \in Run : d \in sinks'[r] <=> d \in sinks[r],
           client[d].run \in Run,
           client'[d].pc = client[d].pc, client'[d].run = client[d].run,
           client'[d].live = client[d].live
    PROVE  SinksOK(d)'
  BY DEF SinksOK

\* What a client's request is when it has been opened, started or given up.
LEMMA OpenFacts ==
    ASSUME AguiTypes, NEW c \in Client, OpenResponse(c) \/ Start(c) \/ Abandon(c)
    PROVE  /\ client[c].pc \in {"opening", "open"}
           /\ client'[c].pc \in {"open", "streaming", "leaving", "abandoned"}
           /\ client'[c].pc = "streaming" => client[c].live /\ client[c].pc = "open"
           /\ client'[c].pc = "open" => client'[c].since = Len(emitted)
           /\ client'[c].pc # "open" => client'[c].since = client[c].since
<1>0. client[c] \in ClientRow
  BY DEF AguiTypes
<1>1. CASE OpenResponse(c)
  <2>1. client'[c] = [client[c] EXCEPT !.pc = "open", !.since = Len(emitted)]
    BY <1>1 DEF OpenResponse, SetClient, AguiTypes
  <2>2. client'[c].pc = "open" /\ client'[c].since = Len(emitted)
    BY <1>0, <2>1 DEF ClientRow
  <2> QED
    BY <1>1, <2>2 DEF OpenResponse
<1>2. CASE Start(c) /\ client[c].live
  <2>1. client'[c] = [client[c] EXCEPT !.pc = "streaming"]
    BY <1>2 DEF Start, SetClient, AguiTypes
  <2>2. client'[c].pc = "streaming" /\ client'[c].since = client[c].since
    BY <1>0, <2>1 DEF ClientRow
  <2> QED
    BY <1>2, <2>2 DEF Start
<1>3. CASE Start(c) /\ ~client[c].live
  <2>1. client'[c] = [client[c] EXCEPT !.pc = "leaving"]
    BY <1>3 DEF Start, SetClient, AguiTypes
  <2>2. client'[c].pc = "leaving" /\ client'[c].since = client[c].since
    BY <1>0, <2>1 DEF ClientRow
  <2> QED
    BY <1>3, <2>2 DEF Start
<1>4. CASE Abandon(c)
  <2>1. client'[c] = [client[c] EXCEPT !.pc = "abandoned"]
    BY <1>4 DEF Abandon, SetClient, AguiTypes
  <2>2. client'[c].pc = "abandoned" /\ client'[c].since = client[c].since
    BY <1>0, <2>1 DEF ClientRow
  <2> QED
    BY <1>4, <2>2 DEF Abandon
<1> QED
  BY <1>1, <1>2, <1>3, <1>4

LEMMA LeaveFacts ==
    ASSUME AguiTypes, NEW c \in Client, Leave(c)
    PROVE  client'[c].pc = "reading status" /\ client'[c].since = client[c].since
<1>0. client[c] \in ClientRow
  BY DEF AguiTypes
<1>1. client'[c] = [client[c] EXCEPT !.pc = "reading status"]
  BY DEF Leave, SetClient, AguiTypes
<1> QED
  BY <1>0, <1>1 DEF ClientRow

LEMMA SinksNext ==
    ASSUME AguiTypes, ChannelsStand, AguiNext,
           \A d \in Client : SinksOK(d),
           NEW d \in Client
    PROVE  SinksOK(d)'
<1>0. /\ SinksOK(d) /\ sinks \in [Run -> SUBSET Client] /\ client[d].run \in Run
      /\ SinksReturned
  BY DEF AguiTypes, ClientRow, SinksOK, SinksReturned
<1>1. ASSUME NEW c \in Client, NEW r \in Run, AguiConnect(c, r)
      PROVE  SinksOK(d)'
  <2>1. SubscribeClient(r) \in [Run -> ChannelRow]
    BY SubscribeFacts DEF ChannelsStand
  <2>2. /\ d # c => client'[d] = client[d]
        /\ client[c].pc = "new" /\ client'[c].pc = "opening"
        /\ client'[c].run = r /\ (client'[c].live <=> r \in active)
    BY <1>1, <2>1, ConnectFacts
  <2>3. sinks' = IF r \in active THEN [sinks EXCEPT ![r] = @ \cup {c}] ELSE sinks
    BY <1>1 DEF AguiConnect
  <2>4. CASE d # c
    <3>1. \A q \in Run : d \in sinks'[q] <=> d \in sinks[q]
      BY <1>0, <2>3, <2>4
    <3> QED
      BY <1>0, <2>2, <2>4, <3>1, SinksKept
  <2>5. CASE d = c
    <3>1. \A q \in Run : d \notin sinks[q]
      BY <1>0, <2>2, <2>5 DEF SinksOK
    <3>2. \A q \in Run : d \in sinks'[q] <=> q = r /\ r \in active
      BY <1>0, <2>3, <2>5, <3>1
    <3> QED
      BY <2>2, <2>5, <3>2 DEF SinksOK
  <2> QED
    BY <2>4, <2>5
<1>2. ASSUME NEW c \in Client, Close(c)
      PROVE  SinksOK(d)'
  <2>1. /\ d # c => client'[d] = client[d]
        /\ client[c].pc = "reading status" /\ client'[c].pc = "closed"
        /\ UNCHANGED sinks
    BY <1>2, CloseFacts DEF Close
  <2>2. CASE d # c
    BY <1>0, <2>1, <2>2, SinksKept
  <2>3. CASE d = c
    BY <1>0, <2>1, <2>3 DEF SinksOK
  <2> QED
    BY <2>2, <2>3
<1>3. ASSUME NEW c \in Client, OpenResponse(c) \/ Start(c) \/ Abandon(c)
      PROVE  SinksOK(d)'
  <2>1. /\ UNCHANGED sinks
        /\ d # c => client'[d] = client[d]
        /\ client'[c].run = client[c].run /\ client'[c].live = client[c].live
    BY <1>3, MoveFacts DEF OpenResponse, Start, Abandon
  <2>2. CASE d # c
    BY <1>0, <2>1, <2>2, SinksKept
  <2>3. CASE d = c
    BY <1>0, <1>3, <2>1, <2>3, OpenFacts DEF SinksOK
  <2> QED
    BY <2>2, <2>3
<1>4. ASSUME NEW c \in Client, Leave(c)
      PROVE  SinksOK(d)'
  <2>1. /\ d # c => client'[d] = client[d]
        /\ client'[c].run = client[c].run /\ client'[c].pc = "reading status"
        /\ sinks' = [sinks EXCEPT ![client[c].run] = @ \ {c}]
    BY <1>4, MoveFacts, LeaveFacts DEF Leave
  <2>2. CASE d # c
    <3>1. \A q \in Run : d \in sinks'[q] <=> d \in sinks[q]
      BY <1>0, <2>1, <2>2
    <3> QED
      BY <1>0, <2>1, <2>2, <3>1, SinksKept
  <2>3. CASE d = c
    <3>1. \A q \in Run : d \notin sinks'[q]
      BY <1>0, <2>1, <2>3 DEF SinksOK
    <3> QED
      BY <2>1, <2>3, <3>1 DEF SinksOK
  <2> QED
    BY <2>2, <2>3
<1>5. ASSUME NEW r \in Run, Emit(r)
      PROVE  SinksOK(d)'
  <2>1. /\ UNCHANGED sinks
        /\ client'[d].pc = client[d].pc
        /\ client'[d].run = client[d].run
        /\ client'[d].live = client[d].live
    BY <1>0, <1>5, CopiesFinite, EmitFacts DEF Emit
  <2> QED
    BY <1>0, <2>1, SinksKept
<1>6. CASE (\E r \in Run : FinishRun(r) \/ Deregister(r)) \/ AguiQuiet
  <2>1. UNCHANGED <<sinks, client>>
    BY <1>6 DEF FinishRun, Deregister, AguiQuiet, aguiVars
  <2> QED
    BY <1>0, <2>1, SinksKept
<1> QED
  BY <1>1, <1>2, <1>3, <1>4, <1>5, <1>6 DEF AguiNext

\* A request that is no further than before has received no more than before.
LEMMA ReceivedKept ==
    ASSUME NEW d \in Client, Received(d), NotYet(d), UNCHANGED emitted,
           client'[d].inbox = client[d].inbox,
           \/ client'[d].run = client[d].run
           \/ client[d].inbox = <<>>,
           client'[d].since <= Len(emitted),
           client'[d].pc \in {"new", "opening"} => client[d].pc \in {"new", "opening"},
           (client'[d].live /\ client'[d].pc \in {"open", "streaming"}) =>
              \/ client'[d].since = Len(emitted)
              \/ /\ client[d].live /\ client[d].pc \in {"open", "streaming"}
                 /\ client'[d].since = client[d].since
                 /\ client'[d].run = client[d].run,
           Len(emitted) \in Nat
    PROVE  Received(d)' /\ NotYet(d)'
<1>1. NotYet(d)'
  BY DEF NotYet
<1>2. \A i \in DOMAIN client'[d].inbox :
          /\ client'[d].inbox[i] \in 1 .. Len(emitted')
          /\ emitted'[client'[d].inbox[i]] = client'[d].run
  <2>1. CASE client'[d].run = client[d].run
    BY <2>1 DEF Received
  <2>2. CASE client[d].inbox = <<>>
    BY <2>2
  <2> QED
    BY <2>1, <2>2
<1>3. \A i, j \in DOMAIN client'[d].inbox :
          i < j => client'[d].inbox[i] <= client'[d].inbox[j]
  BY DEF Received
<1>4. (client'[d].live /\ client'[d].pc \in {"open", "streaming"}) =>
          \A n \in client'[d].since + 1 .. Len(emitted') :
              emitted'[n] = client'[d].run => n \in Range(client'[d].inbox)
  <2>1. ASSUME client'[d].since = Len(emitted),
               NEW n \in client'[d].since + 1 .. Len(emitted)
        PROVE  FALSE
    BY <2>1
  <2>2. CASE /\ client[d].live /\ client[d].pc \in {"open", "streaming"}
             /\ client'[d].since = client[d].since
             /\ client'[d].run = client[d].run
    BY <2>2 DEF Received
  <2> QED
    BY <2>1, <2>2
<1> QED
  BY <1>1, <1>2, <1>3, <1>4 DEF Received

\* Appending m times k to a box.
LEMMA AppendCopies ==
    ASSUME NEW box \in Seq(Nat), NEW m \in Nat, NEW k \in Nat
    PROVE  LET new == box \o [i \in 1 .. m |-> k]
           IN  /\ \A i \in DOMAIN new :
                     \/ i \in DOMAIN box /\ new[i] = box[i]
                     \/ i \notin DOMAIN box /\ new[i] = k
               /\ \A i, j \in DOMAIN new : (i < j /\ j \in DOMAIN box) => i \in DOMAIN box
               /\ Range(box) \subseteq Range(new)
               /\ m > 0 => k \in Range(new)
               /\ m = 0 => \A i \in DOMAIN new : i \in DOMAIN box
<1> DEFINE more == [i \in 1 .. m |-> k]
           new == box \o more
<1>1. more \in Seq(Nat) /\ Len(more) = m /\ \A i \in 1 .. m : more[i] = k
  OBVIOUS
<1> HIDE DEF more
<1>2. /\ new \in Seq(Nat) /\ Len(new) = Len(box) + m
      /\ \A i \in 1 .. Len(box) : new[i] = box[i]
      /\ \A i \in 1 .. m : new[Len(box) + i] = k
  BY <1>1
<1> HIDE DEF new
<1>3. DOMAIN new = 1 .. Len(new) /\ DOMAIN box = 1 .. Len(box) /\ Len(box) \in Nat
  BY <1>2
<1>4. ASSUME NEW i \in DOMAIN new
      PROVE  \/ i \in DOMAIN box /\ new[i] = box[i]
             \/ i \notin DOMAIN box /\ new[i] = k
  <2>1. CASE i <= Len(box)
    BY <1>2, <1>3, <2>1
  <2>2. CASE i > Len(box)
    <3>1. i - Len(box) \in 1 .. m /\ Len(box) + (i - Len(box)) = i
      BY <1>2, <1>3, <2>2
    <3>2. new[Len(box) + (i - Len(box))] = k
      BY <1>2, <3>1
    <3> QED
      BY <1>3, <2>2, <3>1, <3>2
  <2> QED
    BY <1>3, <2>1, <2>2
<1>5. \A i, j \in DOMAIN new : (i < j /\ j \in DOMAIN box) => i \in DOMAIN box
  BY <1>3
<1>6. Range(box) \subseteq Range(new)
  BY <1>2, <1>3 DEF Range
<1>7. m > 0 => k \in Range(new)
  <2> SUFFICES ASSUME m > 0 PROVE k \in Range(new)
    OBVIOUS
  <2>1. 1 \in 1 .. m /\ Len(box) + 1 \in DOMAIN new
    BY <1>2, <1>3
  <2> QED
    BY <1>2, <2>1 DEF Range
<1>8. m = 0 => \A i \in DOMAIN new : i \in DOMAIN box
  BY <1>2, <1>3
<1> QED
  BY <1>4, <1>5, <1>6, <1>7, <1>8 DEF new, more

LEMMA EmitReceived ==
    ASSUME AguiInv, NEW r \in Run, Emit(r), NEW d \in Client
    PROVE  Received(d)' /\ NotYet(d)'
<1>0. /\ AguiTypes /\ ChannelsStand /\ SinksReturned
      /\ Received(d) /\ NotYet(d) /\ SinksOK(d)
      /\ \A c \in Client : SinksOK(c)
  BY DEF AguiInv, SinksOK, SinksReturned, AguiTypes
<1>1. /\ emitted' = Append(emitted, r)
      /\ client'[d].pc = client[d].pc
      /\ client'[d].run = client[d].run
      /\ client'[d].live = client[d].live
      /\ client'[d].since = client[d].since
      /\ client[d].pc \in {"open", "streaming"} =>
            client'[d].inbox = client[d].inbox \o
                [i \in 1 .. Cardinality(Copies(r, d)) |-> Len(emitted) + 1]
      /\ client[d].pc \notin {"open", "streaming"} =>
            client'[d].inbox = client[d].inbox
  BY <1>0, CopiesFinite, EmitFacts
<1>2. /\ emitted \in Seq(Run) /\ Len(emitted) \in Nat
      /\ Len(emitted') = Len(emitted) + 1
      /\ emitted'[Len(emitted) + 1] = r
      /\ \A n \in 1 .. Len(emitted) : emitted'[n] = emitted[n]
      /\ client[d].inbox \in Seq(Nat) /\ client[d].since \in Nat
  <2>1. emitted \in Seq(Run) /\ client[d] \in ClientRow
    BY <1>0 DEF AguiTypes
  <2>2. client[d].inbox \in Seq(Nat) /\ client[d].since \in Nat
    BY <2>1 DEF ClientRow
  <2>3. /\ Len(emitted) \in Nat
        /\ Len(emitted') = Len(emitted) + 1
        /\ emitted'[Len(emitted) + 1] = r
        /\ \A n \in 1 .. Len(emitted) : emitted'[n] = emitted[n]
    BY <1>1, <2>1
  <2> QED
    BY <2>1, <2>2, <2>3
<1>3. /\ \A i \in DOMAIN client[d].inbox :
            /\ client[d].inbox[i] \in 1 .. Len(emitted)
            /\ emitted[client[d].inbox[i]] = client[d].run
      /\ \A i, j \in DOMAIN client[d].inbox :
            i < j => client[d].inbox[i] <= client[d].inbox[j]
      /\ client[d].since <= Len(emitted)
  BY <1>0 DEF Received
<1>4. CASE client[d].pc \notin {"open", "streaming"}
  <2>1. NotYet(d)'
    BY <1>0, <1>1, <1>4 DEF NotYet
  <2> QED
    BY <1>1, <1>2, <1>3, <1>4, <2>1, SMTT(30) DEF Received
<1>5. CASE client[d].pc \in {"open", "streaming"}
  <2> DEFINE m == Cardinality(Copies(r, d))
             k == Len(emitted) + 1
             box == client[d].inbox
             new == box \o [i \in 1 .. m |-> k]
  <2>1. m \in Nat /\ k \in Nat
    BY <1>0, <1>2, CopiesFinite, FS_CardinalityType
  <2>2. client'[d].inbox = new
    BY <1>1, <1>5
  <2>3. /\ \A i \in DOMAIN new :
              \/ i \in DOMAIN box /\ new[i] = box[i]
              \/ i \notin DOMAIN box /\ new[i] = k
        /\ \A i, j \in DOMAIN new : (i < j /\ j \in DOMAIN box) => i \in DOMAIN box
        /\ Range(box) \subseteq Range(new)
        /\ m > 0 => k \in Range(new)
        /\ m = 0 => \A i \in DOMAIN new : i \in DOMAIN box
    <3>1. box \in Seq(Nat)
      BY <1>2
    <3> HIDE DEF m, k, box
    <3> QED
      BY <2>1, <3>1, AppendCopies
  <2> HIDE DEF new
  \* An event of another run does not reach the client: no two runs share a
  \* broadcaster.
  <2>4. client[d].run # r => m = 0
    <3> SUFFICES ASSUME client[d].run # r, Copies(r, d) # {} PROVE FALSE
      BY <1>0, CopiesFinite, FS_EmptySet
    <3>1. PICK c \in sinks[r] : client[c].broadcaster = client[d].broadcaster
      BY DEF Copies
    <3>2. c \in Client /\ c \in Counted(r)
      BY <1>0, <3>1 DEF SinksReturned, Counted, AguiTypes
    <3>3. d \in Counted(client[d].run) /\ client[d].run \in Run
      BY <1>0, <1>5 DEF Counted, AguiTypes, ClientRow
    <3>4. channels[r].broadcaster = channels[client[d].run].broadcaster
      BY <1>0, <3>1, <3>2, <3>3 DEF ChannelsStand, ChannelKept
    <3>5. channels[r].broadcaster # 0
      <4>1. Cardinality(Counted(r)) # 0 /\ channels[r].count \in Nat
        BY <1>0, <3>2, FS_EmptySet DEF ChannelsStand, AguiTypes, ChannelRow
      <4>2. channels[r].count > 0
        BY <1>0, <4>1 DEF ChannelsStand, ChannelKept
      <4> QED
        BY <1>0, <4>2 DEF ChannelsStand
    <3> QED
      BY <1>0, <3>3, <3>4, <3>5 DEF ChannelsStand
  \* An event of its own run does, as long as its sinks are on.
  <2>5. (client[d].run = r /\ client[d].live) => m > 0
    <3> SUFFICES ASSUME client[d].run = r, client[d].live PROVE m > 0
      OBVIOUS
    <3>1. d \in Copies(r, d)
      BY <1>0, <1>5 DEF SinksOK, Copies
    <3>2. m # 0
      BY <1>0, <3>1, CopiesFinite, FS_EmptySet
    <3> QED
      BY <2>1, <3>2
  <2> HIDE DEF m
  <2>6. \A i \in DOMAIN new : new[i] \in 1 .. k /\ emitted'[new[i]] = client[d].run
    <3> SUFFICES ASSUME NEW i \in DOMAIN new
                 PROVE  new[i] \in 1 .. k /\ emitted'[new[i]] = client[d].run
      OBVIOUS
    <3>1. CASE i \in DOMAIN box
      BY <1>2, <1>3, <2>3, <3>1
    <3>2. CASE i \notin DOMAIN box
      BY <1>2, <2>1, <2>3, <2>4, <3>2
    <3> QED
      BY <3>1, <3>2
  <2>7. \A i, j \in DOMAIN new : i < j => new[i] <= new[j]
    <3> SUFFICES ASSUME NEW i \in DOMAIN new, NEW j \in DOMAIN new, i < j
                 PROVE  new[i] <= new[j]
      OBVIOUS
    <3>1. CASE j \in DOMAIN box
      BY <1>3, <2>3, <3>1
    <3>2. CASE j \notin DOMAIN box
      BY <2>1, <2>3, <2>6, <3>2
    <3> QED
      BY <3>1, <3>2
  <2>8. client[d].live =>
            \A n \in client[d].since + 1 .. k :
                emitted'[n] = client[d].run => n \in Range(new)
    <3> SUFFICES ASSUME client[d].live, NEW n \in client[d].since + 1 .. k,
                        emitted'[n] = client[d].run
                 PROVE  n \in Range(new)
      OBVIOUS
    <3>1. CASE n = k
      BY <1>2, <2>3, <2>5, <3>1
    <3>2. CASE n # k
      <4>1. n \in client[d].since + 1 .. Len(emitted) /\ n \in 1 .. Len(emitted)
        BY <1>2, <3>2
      <4>2. n \in Range(box)
        BY <1>0, <1>2, <1>5, <4>1 DEF Received
      <4> QED
        BY <2>3, <4>2
    <3> QED
      BY <3>1, <3>2
  <2>9. NotYet(d)'
    BY <1>1, <1>5 DEF NotYet
  <2>10. client'[d].since <= Len(emitted')
    BY <1>1, <1>2, <1>3
  <2> QED
    BY <1>1, <1>2, <2>2, <2>6, <2>7, <2>8, <2>9, <2>10 DEF Received
<1> QED
  BY <1>4, <1>5

LEMMA ReceivedNext ==
    ASSUME AguiInv, AguiNext, NEW d \in Client
    PROVE  Received(d)' /\ NotYet(d)'
<1>0. /\ AguiTypes /\ ChannelsStand /\ Received(d) /\ NotYet(d)
      /\ Len(emitted) \in Nat
      /\ client[d].since <= Len(emitted)
  BY DEF AguiInv, AguiTypes, Received
<1>1. ASSUME NEW c \in Client, NEW r \in Run, AguiConnect(c, r)
      PROVE  Received(d)' /\ NotYet(d)'
  <2>1. SubscribeClient(r) \in [Run -> ChannelRow]
    BY <1>0, SubscribeFacts DEF ChannelsStand
  <2>2. /\ d # c => client'[d] = client[d]
        /\ client[c].pc = "new" /\ client'[c].pc = "opening"
        /\ client'[c].inbox = client[c].inbox /\ client'[c].since = client[c].since
        /\ UNCHANGED emitted
    BY <1>0, <1>1, <2>1, ConnectFacts DEF AguiConnect
  <2>3. CASE d # c
    BY <1>0, <2>2, <2>3, ReceivedKept
  <2>4. CASE d = c
    <3>1. client[d].inbox = <<>>
      BY <1>0, <2>2, <2>4 DEF NotYet
    <3> QED
      BY <1>0, <2>2, <2>4, <3>1, ReceivedKept
  <2> QED
    BY <2>3, <2>4
<1>2. ASSUME NEW c \in Client, Close(c)
      PROVE  Received(d)' /\ NotYet(d)'
  <2>1. /\ d # c => client'[d] = client[d]
        /\ client'[c].pc = "closed" /\ client'[c].run = client[c].run
        /\ client'[c].inbox = client[c].inbox /\ client'[c].since = client[c].since
        /\ UNCHANGED emitted
    BY <1>0, <1>2, CloseFacts DEF Close
  <2> QED
    BY <1>0, <2>1, ReceivedKept
<1>3. ASSUME NEW c \in Client, OpenResponse(c) \/ Start(c) \/ Abandon(c)
      PROVE  Received(d)' /\ NotYet(d)'
  <2>1. /\ d # c => client'[d] = client[d]
        /\ client'[c].run = client[c].run /\ client'[c].live = client[c].live
        /\ client'[c].inbox = client[c].inbox
        /\ UNCHANGED emitted
    BY <1>0, <1>3, MoveFacts DEF OpenResponse, Start, Abandon
  <2>2. CASE d # c
    BY <1>0, <2>1, <2>2, ReceivedKept
  <2>3. CASE d = c
    <3>1. /\ client'[d].pc \in {"open", "streaming", "leaving", "abandoned"}
          /\ client'[d].pc = "streaming" => client[d].live /\ client[d].pc = "open"
          /\ client'[d].pc = "open" => client'[d].since = Len(emitted)
          /\ client'[d].pc # "open" => client'[d].since = client[d].since
      BY <1>0, <1>3, <2>3, OpenFacts
    <3>2. client'[d].since <= Len(emitted)
      BY <1>0, <3>1
    <3> QED
      BY <1>0, <2>1, <2>3, <3>1, <3>2, ReceivedKept
  <2> QED
    BY <2>2, <2>3
<1>4. ASSUME NEW c \in Client, Leave(c)
      PROVE  Received(d)' /\ NotYet(d)'
  <2>1. /\ d # c => client'[d] = client[d]
        /\ client'[c].pc = "reading status" /\ client'[c].run = client[c].run
        /\ client'[c].inbox = client[c].inbox /\ client'[c].since = client[c].since
        /\ UNCHANGED emitted
    BY <1>0, <1>4, MoveFacts, LeaveFacts DEF Leave
  <2> QED
    BY <1>0, <2>1, ReceivedKept
<1>5. ASSUME NEW r \in Run, Emit(r)
      PROVE  Received(d)' /\ NotYet(d)'
  BY <1>5, EmitReceived
<1>6. CASE (\E r \in Run : FinishRun(r) \/ Deregister(r)) \/ AguiQuiet
  <2>1. UNCHANGED <<client, emitted>>
    BY <1>6 DEF FinishRun, Deregister, AguiQuiet, aguiVars
  <2> QED
    BY <1>0, <2>1, ReceivedKept
<1> QED
  BY <1>1, <1>2, <1>3, <1>4, <1>5, <1>6 DEF AguiNext

LEMMA AguiInvNext == AguiInv /\ [AguiNext]_aguiVars => AguiInv'
<1> SUFFICES ASSUME AguiInv, [AguiNext]_aguiVars PROVE AguiInv'
  OBVIOUS
<1>1. CASE AguiNext
  <2>1. AguiTypes /\ ChannelsStand /\ \A c \in Client : SinksOK(c)
    BY DEF AguiInv
  <2>2. SinksReturned
    BY <2>1 DEF SinksReturned, SinksOK, AguiTypes
  <2>3. AguiTypes' /\ ChannelsStand'
    BY <1>1, <2>1, <2>2, RegistryNext
  <2>4. \A d \in Client : SinksOK(d)'
    BY <1>1, <2>1, SinksNext
  <2>5. \A d \in Client : Received(d)' /\ NotYet(d)'
    BY <1>1, ReceivedNext
  <2> QED
    BY <2>3, <2>4, <2>5 DEF AguiInv
<1>2. CASE UNCHANGED aguiVars
  <2>1. UNCHANGED <<active, finished, channels, created, sinks, client, emitted>>
    BY <1>2 DEF aguiVars
  <2>2. AguiTypes' /\ ChannelsStand'
    BY <2>1, ChannelsKept DEF AguiInv, AguiTypes
  <2>3. ASSUME NEW d \in Client PROVE SinksOK(d)' /\ Received(d)' /\ NotYet(d)'
    <3>1. SinksOK(d) /\ Received(d) /\ NotYet(d) /\ client[d] \in ClientRow
      BY DEF AguiInv, AguiTypes
    <3>2. client[d].run \in Run
      BY <3>1 DEF ClientRow
    <3>3. Len(emitted) \in Nat
      BY DEF AguiInv, AguiTypes
    <3>4. client[d].since <= Len(emitted)
      BY <3>1 DEF Received
    <3> QED
      BY <2>1, <3>1, <3>2, <3>3, <3>4, SinksKept, ReceivedKept
  <2> QED
    BY <2>2, <2>3 DEF AguiInv
<1> QED
  BY <1>1, <1>2

\* For any clients, runs and events: the registry keeps the broadcaster every
\* open request streams from and counts these requests exactly; a channel that
\* is marked terminal has a client, so that the last to leave evicts it; a
\* client receives the events of its own run only, in order, and all of them
\* while it streams; and a request that ends leaves no sink on a scheduler.
THEOREM ChannelsStayWithRuns == AguiSpec => []ChannelsFollowRuns
<1>1. AguiInv => ChannelsFollowRuns
  <2> SUFFICES ASSUME AguiInv PROVE ChannelsFollowRuns
    OBVIOUS
  <2>1. ChannelKept /\ TerminalHasClient
    BY DEF AguiInv, ChannelsStand
  <2>2. SinksReturned
    BY DEF AguiInv, SinksReturned, SinksOK, AguiTypes
  <2>3. FollowsItsRun
    <3> SUFFICES ASSUME NEW c \in Client
                 PROVE  LET box == client[c].inbox
                        IN  /\ \A i \in DOMAIN box : emitted[box[i]] = client[c].run
                            /\ \A i, j \in DOMAIN box : i < j => box[i] <= box[j]
                            /\ client[c].pc = "streaming" =>
                                  \A n \in client[c].since + 1 .. Len(emitted) :
                                      emitted[n] = client[c].run => n \in Range(box)
      BY DEF FollowsItsRun
    <3>1. Received(c) /\ (client[c].pc = "streaming" => client[c].live)
      BY DEF AguiInv, SinksOK
    <3> QED
      BY <3>1 DEF Received
  <2> QED
    BY <2>1, <2>2, <2>3 DEF ChannelsFollowRuns
<1> QED
  BY <1>1, AguiInvInit, AguiInvNext, PTL DEF AguiSpec

-----------------------------------------------------------------------------
(* EventStream: the queries and the order of the replay                    *)

LEMMA IsSeq ==
    ASSUME NEW S, NEW n \in Nat, NEW q \in [1 .. n -> S]
    PROVE  q \in Seq(S)
OBVIOUS

\* How many rows of S come before i.
Before(S, i) == {j \in S : j < i}

LEMMA BeforeFinite ==
    ASSUME NEW S \in SUBSET Nat, IsFiniteSet(S), NEW i \in Nat
    PROVE  /\ IsFiniteSet(Before(S, i)) /\ Cardinality(Before(S, i)) \in Nat
           /\ i \in S => Cardinality(Before(S, i)) < Cardinality(S)
<1>1. Before(S, i) \in SUBSET S /\ i \notin Before(S, i)
  BY DEF Before
<1>2. /\ IsFiniteSet(Before(S, i))
      /\ Cardinality(Before(S, i)) <= Cardinality(S)
      /\ Cardinality(S) = Cardinality(Before(S, i)) => S = Before(S, i)
  BY <1>1, FS_Subset
<1>3. Cardinality(Before(S, i)) \in Nat /\ Cardinality(S) \in Nat
  BY <1>2, FS_CardinalityType
<1> QED
  BY <1>1, <1>2, <1>3

LEMMA BeforeGrows ==
    ASSUME NEW S \in SUBSET Nat, IsFiniteSet(S), NEW i \in S, NEW j \in Nat, i < j
    PROVE  Cardinality(Before(S, i)) < Cardinality(Before(S, j))
<1>1. Before(S, i) \in SUBSET Before(S, j) /\ i \in Before(S, j) \ Before(S, i)
  <2>1. i \in Nat /\ \A x \in S : x \in Nat /\ (x < i => x < j)
    OBVIOUS
  <2>2. ~(i < i)
    BY <2>1
  <2>3. \A x \in Before(S, i) : x \in Before(S, j)
    BY <2>1 DEF Before
  <2>4. i \in Before(S, j)
    BY DEF Before
  <2>5. i \notin Before(S, i)
    BY <2>2 DEF Before
  <2> QED
    BY <2>3, <2>4, <2>5
<1>2. /\ IsFiniteSet(Before(S, j)) /\ Cardinality(Before(S, j)) \in Nat
      /\ Cardinality(Before(S, i)) \in Nat
  BY BeforeFinite
<1>3. /\ Cardinality(Before(S, i)) <= Cardinality(Before(S, j))
      /\ Cardinality(Before(S, j)) = Cardinality(Before(S, i))
            => Before(S, j) = Before(S, i)
  BY <1>1, <1>2, FS_Subset
<1> QED
  BY <1>1, <1>2, <1>3

\* A LIMIT that is not reached cuts nothing off.
LEMMA SmallestAll ==
    ASSUME NEW S \in SUBSET Nat, IsFiniteSet(S), NEW limit \in Nat,
           Cardinality(S) <= limit
    PROVE  Smallest(S, limit) = S
<1>1. Cardinality(S) \in Nat
  BY FS_CardinalityType
<1>2. ASSUME NEW i \in S
      PROVE  Cardinality({j \in S : j < i}) < limit
  <2>1. Cardinality(Before(S, i)) < Cardinality(S) /\ Cardinality(Before(S, i)) \in Nat
    BY BeforeFinite
  <2> QED
    BY <1>1, <2>1 DEF Before
<1> QED
  BY <1>2 DEF Smallest

\* What a LIMIT cuts off comes after what it leaves.
LEMMA SmallestFirst ==
    ASSUME NEW S \in SUBSET Nat, IsFiniteSet(S), NEW limit \in Nat,
           NEW i \in Smallest(S, limit), NEW j \in S \ Smallest(S, limit)
    PROVE  i < j
<1>1. i \in S /\ Cardinality(Before(S, i)) < limit
  BY DEF Smallest, Before
<1>2. ~(Cardinality(Before(S, j)) < limit)
  BY DEF Smallest, Before
<1>3. Cardinality(Before(S, i)) \in Nat /\ Cardinality(Before(S, j)) \in Nat
  BY <1>1, BeforeFinite
<1>4. ASSUME j < i PROVE FALSE
  BY <1>1, <1>2, <1>3, <1>4, BeforeGrows
<1> QED
  BY <1>1, <1>2, <1>4

LEMMA RanksHit ==
    ASSUME NEW S \in SUBSET Nat, IsFiniteSet(S), NEW n \in 1 .. Cardinality(S)
    PROVE  \E x \in S : Cardinality(Before(S, x)) = n - 1
<1> DEFINE T == 0 .. (Cardinality(S) - 1)
           rank == [x \in S |-> Cardinality(Before(S, x))]
<1>1. Cardinality(S) \in Nat
  BY FS_CardinalityType
<1>2. IsFiniteSet(T) /\ Cardinality(T) = Cardinality(S)
  <2>1. Cardinality(S) - 1 \in Int /\ 0 \in Int
    BY <1>1
  <2> QED
    BY <1>1, <2>1, FS_Interval
<1>3. \A x \in S : rank[x] \in T
  BY <1>1, BeforeFinite
<1>4. \A x, y \in S : x # y => rank[x] # rank[y]
  <2> SUFFICES ASSUME NEW x \in S, NEW y \in S, x < y PROVE rank[x] # rank[y]
    OBVIOUS
  <2>1. Cardinality(Before(S, x)) < Cardinality(Before(S, y))
    BY BeforeGrows
  <2>2. Cardinality(Before(S, x)) \in Nat /\ Cardinality(Before(S, y)) \in Nat
    BY BeforeFinite
  <2> QED
    BY <2>1, <2>2
<1>5. rank \in [S -> T]
  BY <1>3
<1> HIDE DEF rank, T
<1>6. rank \in Injection(S, T)
  BY <1>4, <1>5 DEF Injection, IsInjective
<1>7. rank \in Surjection(S, T)
  BY <1>2, <1>6, FS_Injection
<1>8. n - 1 \in T
  BY <1>1 DEF T
<1>9. \E x \in S : rank[x] = n - 1
  BY <1>7, <1>8 DEF Surjection
<1> QED
  BY <1>9 DEF rank

\* The replay sends every row of S once, in the order of the ids.
LEMMA AscendingFacts ==
    ASSUME NEW S \in SUBSET Nat, IsFiniteSet(S)
    PROVE  /\ Ascending(S) \in Seq(Nat) /\ Range(Ascending(S)) = S
           /\ \A i, j \in DOMAIN Ascending(S) :
                 i < j => Ascending(S)[i] < Ascending(S)[j]
<1> DEFINE q == Ascending(S)
<1>1. Cardinality(S) \in Nat
  BY FS_CardinalityType
<1>2. DOMAIN q = 1 .. Cardinality(S)
  BY DEF Ascending
<1>3. \A n \in 1 .. Cardinality(S) : q[n] \in S /\ Cardinality(Before(S, q[n])) = n - 1
  BY RanksHit DEF Ascending, Before
<1>4. \A i, j \in DOMAIN q : i < j => q[i] < q[j]
  <2> SUFFICES ASSUME NEW i \in 1 .. Cardinality(S), NEW j \in 1 .. Cardinality(S),
                      i < j, ~(q[i] < q[j])
               PROVE  FALSE
    BY <1>2
  <2>1. q[i] \in S /\ q[j] \in S
    BY <1>3
  <2>2. Cardinality(Before(S, q[i])) = i - 1 /\ Cardinality(Before(S, q[j])) = j - 1
    BY <1>3
  <2>3. i \in Nat /\ j \in Nat /\ i - 1 < j - 1 /\ i - 1 # j - 1
    BY <1>1
  <2>4. CASE q[i] = q[j]
    BY <2>2, <2>3, <2>4
  <2>5. CASE q[j] < q[i]
    <3>1. Cardinality(Before(S, q[j])) < Cardinality(Before(S, q[i]))
      BY <2>1, <2>5, BeforeGrows
    <3> QED
      BY <2>2, <2>3, <3>1
  <2>6. q[i] \in Nat /\ q[j] \in Nat
    BY <2>1
  <2> QED
    BY <2>4, <2>5, <2>6
<1>5. \A x \in S : \E n \in 1 .. Cardinality(S) : q[n] = x
  <2> SUFFICES ASSUME NEW x \in S PROVE \E n \in 1 .. Cardinality(S) : q[n] = x
    OBVIOUS
  <2> DEFINE n == Cardinality(Before(S, x)) + 1
  <2>1. Cardinality(Before(S, x)) \in Nat /\ Cardinality(Before(S, x)) < Cardinality(S)
    BY BeforeFinite
  <2>2. n \in 1 .. Cardinality(S)
    BY <1>1, <2>1
  <2>3. q[n] \in S /\ Cardinality(Before(S, q[n])) = n - 1 /\ n - 1 = Cardinality(Before(S, x))
    BY <1>3, <2>1, <2>2
  <2>4. ASSUME q[n] < x PROVE FALSE
    <3>1. Cardinality(Before(S, q[n])) < Cardinality(Before(S, x))
      BY <2>3, <2>4, BeforeGrows
    <3> QED
      BY <2>1, <2>3, <3>1
  <2>5. ASSUME x < q[n] PROVE FALSE
    <3>1. Cardinality(Before(S, x)) < Cardinality(Before(S, q[n]))
      BY <2>3, <2>5, BeforeGrows
    <3> QED
      BY <2>1, <2>3, <3>1
  <2>6. q[n] = x
    <3>1. q[n] \in Nat /\ x \in Nat
      BY <2>3
    <3> HIDE DEF n, q
    <3> QED
      BY <2>4, <2>5, <3>1
  <2> QED
    BY <2>2, <2>6
<1>6. q \in [1 .. Cardinality(S) -> S]
  <2>1. q = [n \in 1 .. Cardinality(S) |-> q[n]]
    BY SMTT(30) DEF Ascending
  <2> QED
    BY <1>3, <2>1
<1>7. q \in Seq(Nat)
  <2>1. q \in [1 .. Cardinality(S) -> Nat]
    BY <1>6
  <2> HIDE DEF q
  <2> QED
    BY <1>1, <2>1, IsSeq
<1>8. Range(q) = S
  BY <1>2, <1>3, <1>5 DEF Range
<1> QED
  BY <1>4, <1>7, <1>8

-----------------------------------------------------------------------------
(* EventStream: the inductive invariant                                    *)

StreamPc == {"new", "acquire", "listen", "replay", "live", "unlisten",
             "release", "closed"}
StreamRow ==
    [pc : StreamPc, conn : 0 .. MaxStreams, queue : Seq(Nat), seen : SUBSET Nat,
     sent : Seq(Nat), cursor : Nat, from : Nat, lost : SUBSET Nat]

\* Every variable has its type.
BusTypes ==
    /\ kind \in {"events", "notifications"}
    /\ table \in Seq(BOOLEAN) /\ Len(table) <= MaxRows
    /\ channel \in 0 .. MaxStreams
    /\ callbacks \in [Stream -> SUBSET Stream]
    /\ listening \subseteq Stream
    /\ taken \subseteq Stream
    /\ stream \in [Stream -> StreamRow]

\* The subscription of s is not in effect yet.
Fresh(s) == stream[s].pc \in {"new", "acquire", "listen"}
Joined(s) == <<"joined a closing channel", s>> \in mishaps

\* A connection nobody listens on yet is not known to any other stream.
FreshApart ==
    \A s \in Stream : Fresh(s) =>
        /\ callbacks[s] = {} /\ channel # s
        /\ stream[s].pc = "listen" => stream[s].conn = s
        /\ \A t \in Stream : s \notin callbacks[t] /\ (t # s => stream[t].conn # s)

\* What is queued are own rows, committed after the subscription, in order.
QueueOK(s) ==
    LET r == stream[s]
    IN  /\ r.cursor <= Len(table) /\ r.from <= Len(table)
        /\ Fresh(s) => r.queue = <<>>
        /\ r.pc = "replay" => r.cursor <= r.from
        /\ \A i \in DOMAIN r.queue : r.queue[i] \in Own /\ r.from < r.queue[i]
        /\ \A i, j \in DOMAIN r.queue : i < j => r.queue[i] < r.queue[j]

\* What was sent is remembered, and what is queued behind it comes later.
SentOK(s) ==
    LET r == stream[s]
    IN  /\ Fresh(s) \/ r.pc = "replay" => r.sent = <<>>
        /\ r.seen = Range(r.sent) /\ r.seen \subseteq Id
        /\ \A i, j \in DOMAIN r.sent :
              i < j => IF kind = "events" THEN r.sent[i] < r.sent[j]
                       ELSE r.sent[i] # r.sent[j]
        /\ \A i \in DOMAIN r.sent : \A j \in DOMAIN r.queue :
              kind = "events" => r.sent[i] < r.queue[j] \/ r.queue[j] \in r.seen

\* A channel that can be joined is listened to, or is being torn down.
ChannelHeard == channel # 0 => channel \in listening \/ Closing(channel)

\* Notifications reach a subscribed stream.
Heard(s) ==
    stream[s].pc \in {"replay", "live"} /\ ~Joined(s) =>
        LET k == stream[s].conn
        IN  k \in listening /\ s \in callbacks[k] /\ ~Closing(k)

\* What s owes its client is sent, lost to a heartbeat or still queued; before
\* the replay this is what was committed since it subscribed.
Covered(s) ==
    LET r == stream[s]
        kept == Range(r.queue) \cup Range(r.sent) \cup r.lost
    IN  ~Joined(s) =>
            /\ r.pc = "replay" => {i \in Own : r.from < i} \subseteq kept
            /\ r.pc = "live" => Owed(s) \subseteq kept

\* While nothing has gone wrong, the channel's connection is the only one
\* that is listened to or held by an open stream, and at most one stream
\* tears it down.
Tidy ==
    mishaps = {} =>
        /\ \A k \in taken : channel = k \/ stream[k].pc = "listen"
        /\ \A k \in listening : channel = k
        /\ channel # 0 => Closing(channel) \/ callbacks[channel] # {}
        /\ channel # 0 => \A s \in callbacks[channel] : stream[s].pc \in {"replay", "live"}
        /\ \A s \in Stream : stream[s].pc \in {"unlisten", "release"} =>
              /\ channel # 0 /\ stream[s].conn = channel /\ callbacks[channel] = {}
              /\ stream[s].pc = "release" => channel \notin listening
              /\ \A t \in Stream : stream[t].pc \in {"unlisten", "release"} => s = t

BusPart == FreshApart /\ ChannelHeard /\ Tidy /\ \A s \in Stream : Heard(s)
RowOK(s) == QueueOK(s) /\ SentOK(s)
BusInv == BusTypes /\ BusPart /\ \A s \in Stream : RowOK(s)

LEMMA SetRow ==
    ASSUME BusTypes, NEW s \in Stream, NEW r \in StreamRow, Set(s, r)
    PROVE  /\ stream' \in [Stream -> StreamRow] /\ stream'[s] = r
           /\ \A t \in Stream : t # s => stream'[t] = stream[t]
BY DEF BusTypes, Set

LEMMA RowType ==
    ASSUME BusTypes, NEW s \in Stream
    PROVE  /\ stream[s] \in StreamRow /\ stream[s].pc \in StreamPc
           /\ stream[s].conn \in 0 .. MaxStreams
           /\ stream[s].queue \in Seq(Nat) /\ stream[s].sent \in Seq(Nat)
           /\ stream[s].seen \in SUBSET Nat /\ stream[s].lost \in SUBSET Nat
           /\ stream[s].cursor \in Nat /\ stream[s].from \in Nat
<1>1. stream[s] \in StreamRow
  BY DEF BusTypes
<1> QED
  BY <1>1 DEF StreamRow

LEMMA StreamNat == MaxStreams \in Nat /\ \A s \in Stream : s \in Nat /\ s # 0 /\ s \in 0 .. MaxStreams
BY EventStreamAssumption DEF Stream

LEMMA PcType ==
    \A w \in {"new", "acquire", "listen", "replay", "live", "unlisten",
              "release", "closed"} : w \in StreamPc
BY DEF StreamPc

\* The rows of each step of a stream.
LEMMA AcquireRow ==
    ASSUME BusTypes, NEW s \in Stream, Acquire(s)
    PROVE  /\ stream' \in [Stream -> StreamRow]
           /\ stream'[s] = [stream[s] EXCEPT !.pc = "listen", !.conn = s]
           /\ \A t \in Stream : t # s => stream'[t] = stream[t]
<1>1. [stream[s] EXCEPT !.pc = "listen", !.conn = s] \in StreamRow
  BY RowType, StreamNat DEF StreamRow, StreamPc
<1> QED
  BY <1>1, SetRow DEF Acquire

LEMMA ListenRow ==
    ASSUME BusTypes, NEW s \in Stream, Listen(s)
    PROVE  /\ stream' \in [Stream -> StreamRow]
           /\ stream'[s] = [stream[s] EXCEPT !.pc = "replay", !.from = Len(table)]
           /\ \A t \in Stream : t # s => stream'[t] = stream[t]
<1>0. Len(table) \in Nat
  BY DEF BusTypes
<1>1. [stream[s] EXCEPT !.pc = "replay", !.from = Len(table)] \in StreamRow
  BY <1>0, RowType DEF StreamRow, StreamPc
<1> QED
  BY <1>1, SetRow DEF Listen

LEMMA CancelRow ==
    ASSUME BusTypes, NEW s \in Stream, CancelSubscribe(s)
    PROVE  /\ stream' \in [Stream -> StreamRow]
           /\ stream'[s] = [stream[s] EXCEPT !.pc = "closed"]
           /\ \A t \in Stream : t # s => stream'[t] = stream[t]
<1>1. [stream[s] EXCEPT !.pc = "closed"] \in StreamRow
  BY RowType DEF StreamRow, StreamPc
<1> QED
  BY <1>1, SetRow DEF CancelSubscribe

LEMMA DisconnectRow ==
    ASSUME BusTypes, NEW s \in Stream, Disconnect(s)
    PROVE  /\ stream' \in [Stream -> StreamRow]
           /\ stream'[s] = IF channel # 0 /\ callbacks[channel] = {s}
                           THEN [stream[s] EXCEPT !.pc = "unlisten", !.conn = channel]
                           ELSE [stream[s] EXCEPT !.pc = "closed"]
           /\ \A t \in Stream : t # s => stream'[t] = stream[t]
           /\ callbacks' = IF channel # 0 /\ s \in callbacks[channel]
                           THEN [callbacks EXCEPT ![channel] = @ \ {s}] ELSE callbacks
<1>1. [stream[s] EXCEPT !.pc = "closed"] \in StreamRow
  BY RowType DEF StreamRow, StreamPc
<1>2. [stream[s] EXCEPT !.pc = "unlisten", !.conn = channel] \in StreamRow
  BY RowType DEF StreamRow, StreamPc, BusTypes
<1>3. (s \in callbacks[channel] /\ callbacks[channel] \ {s} = {}) <=> callbacks[channel] = {s}
  OBVIOUS
<1>4. channel # 0 => channel \in Stream
  BY EventStreamAssumption DEF BusTypes, Stream
<1>5. \E r \in StreamRow :
         /\ Set(s, r)
         /\ r = IF channel # 0 /\ callbacks[channel] = {s}
                THEN [stream[s] EXCEPT !.pc = "unlisten", !.conn = channel]
                ELSE [stream[s] EXCEPT !.pc = "closed"]
  BY <1>1, <1>2, <1>3 DEF Disconnect
<1>6. callbacks' = IF channel # 0 /\ s \in callbacks[channel]
                   THEN [callbacks EXCEPT ![channel] = @ \ {s}] ELSE callbacks
  BY <1>4 DEF Disconnect, BusTypes
<1> QED
  BY <1>5, <1>6, SetRow

LEMMA UnlistenRow ==
    ASSUME BusTypes, NEW s \in Stream, Unlisten(s)
    PROVE  /\ stream' \in [Stream -> StreamRow]
           /\ stream'[s] = [stream[s] EXCEPT !.pc = "release"]
           /\ \A t \in Stream : t # s => stream'[t] = stream[t]
<1>1. [stream[s] EXCEPT !.pc = "release"] \in StreamRow
  BY RowType DEF StreamRow, StreamPc
<1> QED
  BY <1>1, SetRow DEF Unlisten

LEMMA ReleaseRow ==
    ASSUME BusTypes, NEW s \in Stream, Release(s)
    PROVE  /\ stream' \in [Stream -> StreamRow]
           /\ stream'[s] = [stream[s] EXCEPT !.pc = "closed"]
           /\ \A t \in Stream : t # s => stream'[t] = stream[t]
<1>1. [stream[s] EXCEPT !.pc = "closed"] \in StreamRow
  BY RowType DEF StreamRow, StreamPc
<1> QED
  BY <1>1, SetRow DEF Release

LEMMA HeartbeatRow ==
    ASSUME BusTypes, NEW s \in Stream, HeartbeatRace(s)
    PROVE  /\ stream' \in [Stream -> StreamRow]
           /\ stream'[s] = [stream[s] EXCEPT !.queue = Tail(@),
                                             !.lost = @ \cup {Head(stream[s].queue)}]
           /\ \A t \in Stream : t # s => stream'[t] = stream[t]
<1>0. stream[s].queue # <<>> /\ stream[s].queue \in Seq(Nat)
  BY RowType DEF HeartbeatRace
<1>1. Head(stream[s].queue) \in Nat /\ Tail(stream[s].queue) \in Seq(Nat)
  BY <1>0
<1>2. [stream[s] EXCEPT !.queue = Tail(@), !.lost = @ \cup {Head(stream[s].queue)}] \in StreamRow
  BY <1>1, RowType DEF StreamRow
<1> QED
  BY <1>2, SetRow DEF HeartbeatRace

LEMMA TakeRow ==
    ASSUME BusTypes, NEW s \in Stream, Take(s)
    PROVE  LET id == Head(stream[s].queue)
           IN  /\ stream' \in [Stream -> StreamRow]
               /\ stream'[s] = IF id \in stream[s].seen \/ ~Found(id)
                               THEN [stream[s] EXCEPT !.queue = Tail(@)]
                               ELSE [stream[s] EXCEPT !.queue = Tail(@), !.seen = @ \cup {id},
                                                      !.sent = Append(@, id)]
               /\ \A t \in Stream : t # s => stream'[t] = stream[t]
<1> DEFINE id == Head(stream[s].queue)
<1>0. stream[s].queue # <<>> /\ stream[s].queue \in Seq(Nat)
  BY RowType DEF Take
<1>1. id \in Nat /\ Tail(stream[s].queue) \in Seq(Nat)
  BY <1>0
<1> DEFINE r == IF id \in stream[s].seen \/ ~Found(id)
                THEN [stream[s] EXCEPT !.queue = Tail(@)]
                ELSE [stream[s] EXCEPT !.queue = Tail(@), !.seen = @ \cup {id},
                                       !.sent = Append(@, id)]
<1>2. [stream[s] EXCEPT !.queue = Tail(@)] \in StreamRow
  BY <1>1, RowType DEF StreamRow
<1>3. [stream[s] EXCEPT !.queue = Tail(@), !.seen = @ \cup {id},
                        !.sent = Append(@, id)] \in StreamRow
  <2>1. Append(stream[s].sent, id) \in Seq(Nat)
    BY <1>1, RowType
  <2> QED
    BY <1>1, <2>1, RowType DEF StreamRow
<1>4. r \in StreamRow
  BY <1>2, <1>3
<1>5. Set(s, r)
  BY DEF Take
<1> HIDE DEF r
<1>6. stream' \in [Stream -> StreamRow] /\ stream'[s] = r
      /\ \A t \in Stream : t # s => stream'[t] = stream[t]
  BY <1>4, <1>5, SetRow
<1> QED
  BY <1>6 DEF r

LEMMA IdFacts ==
    ASSUME BusTypes
    PROVE  /\ Id = 1 .. Len(table) /\ Len(table) \in Nat /\ Id \in SUBSET Nat
           /\ IsFiniteSet(Id) /\ Cardinality(Id) = Len(table)
           /\ Own \in SUBSET Id
<1>1. Id = 1 .. Len(table) /\ Len(table) \in Nat
  BY DEF BusTypes, Id
<1>2. IsFiniteSet(1 .. Len(table)) /\ Cardinality(1 .. Len(table)) = Len(table)
  BY <1>1, FS_Interval, SMTT(30)
<1>3. Own \in SUBSET Id
  BY DEF Own
<1> QED
  BY <1>1, <1>2, <1>3

LEMMA IdSubsets ==
    ASSUME BusTypes, NEW S \in SUBSET Id
    PROVE  S \in SUBSET Nat /\ IsFiniteSet(S) /\ Cardinality(S) \in Nat
           /\ Cardinality(S) <= MaxRows
<1>1. IsFiniteSet(S) /\ Cardinality(S) <= Cardinality(Id)
  BY IdFacts, FS_Subset
<1>2. Cardinality(S) \in Nat
  BY <1>1, FS_CardinalityType
<1> QED
  BY <1>1, <1>2, IdFacts, EventStreamAssumption DEF BusTypes

\* What the replay query selects from, before its LIMIT.
Selected(s) ==
    IF kind = "events" THEN {i \in Own : stream[s].cursor # 0 /\ i > stream[s].cursor}
    ELSE {i \in Own \ acked : i > stream[s].cursor}

LEMMA MissedFacts ==
    ASSUME BusTypes, NEW s \in Stream
    PROVE  /\ Missed(s) = Smallest(Selected(s), ReplayLimit)
           /\ Selected(s) \in SUBSET Own /\ Missed(s) \in SUBSET Selected(s)
           /\ Missed(s) \in SUBSET Id /\ IsFiniteSet(Missed(s)) /\ Missed(s) \in SUBSET Nat
<1>1. Missed(s) = Smallest(Selected(s), ReplayLimit)
  BY DEF Missed, Selected
<1>2. Selected(s) \in SUBSET Own
  BY DEF Selected
<1>3. Missed(s) \in SUBSET Selected(s)
  BY <1>1 DEF Smallest
<1>4. Missed(s) \in SUBSET Id
  BY <1>2, <1>3, IdFacts
<1> QED
  BY <1>1, <1>2, <1>3, <1>4, IdSubsets

LEMMA ReplayRow ==
    ASSUME BusTypes, NEW s \in Stream, Replay(s)
    PROVE  /\ stream' \in [Stream -> StreamRow]
           /\ stream'[s] = [stream[s] EXCEPT !.pc = "live", !.sent = Ascending(Missed(s)),
                                             !.seen = Missed(s)]
           /\ \A t \in Stream : t # s => stream'[t] = stream[t]
<1>1. Ascending(Missed(s)) \in Seq(Nat) /\ Missed(s) \in SUBSET Nat
  BY MissedFacts, AscendingFacts
<1>2. [stream[s] EXCEPT !.pc = "live", !.sent = Ascending(Missed(s)),
                        !.seen = Missed(s)] \in StreamRow
  BY <1>1, RowType DEF StreamRow, StreamPc
<1> QED
  BY <1>2, SetRow DEF Replay

\* The row of a new subscription: its cursor is an id of the table.
LEMMA SubscribeRow ==
    ASSUME BusTypes, \A t \in Stream : SentOK(t), NEW s \in Stream, Subscribe(s)
    PROVE  /\ stream' \in [Stream -> StreamRow]
           /\ stream'[s].pc = IF channel = 0 THEN "acquire" ELSE "replay"
           /\ stream'[s].conn = channel /\ stream'[s].queue = <<>>
           /\ stream'[s].sent = <<>> /\ stream'[s].seen = {} /\ stream'[s].lost = {}
           /\ stream'[s].from = IF channel = 0 THEN 0 ELSE Len(table)
           /\ stream'[s].cursor <= Len(table)
           /\ \A t \in Stream : t # s => stream'[t] = stream[t]
<1> DEFINE last == IF s = 1 THEN <<>> ELSE stream[s - 1].sent
           c == IF last = <<>> THEN 0 ELSE last[Len(last)]
           r == [New EXCEPT
                    !.pc = IF channel = 0 THEN "acquire" ELSE "replay",
                    !.cursor = c,
                    !.from = IF channel = 0 THEN 0 ELSE Len(table),
                    !.conn = channel]
<1>1. c \in Nat /\ c <= Len(table)
  <2>1. CASE last = <<>>
    BY <2>1, IdFacts
  <2>2. CASE last # <<>>
    <3>1. s # 1 /\ s - 1 \in Stream
      BY <2>2, EventStreamAssumption DEF Stream
    <3>2. last = stream[s - 1].sent /\ last \in Seq(Nat)
      BY <3>1, RowType
    <3> HIDE DEF last
    <3>3. Len(last) \in DOMAIN last
      BY <2>2, <3>2
    <3>4. last[Len(last)] \in Range(stream[s - 1].sent)
      BY <3>2, <3>3 DEF Range
    <3>5. last[Len(last)] \in Id
      BY <3>1, <3>4 DEF SentOK
    <3> QED
      BY <2>2, <3>5, IdFacts
  <2> QED
    BY <2>1, <2>2
<1> HIDE DEF c, last
<1>2. r \in StreamRow
  <2>1. <<>> \in Seq(Nat) /\ channel \in 0 .. MaxStreams /\ Len(table) \in Nat
    BY IdFacts DEF BusTypes
  <2>2. CASE channel = 0
    BY <1>1, <2>1, <2>2 DEF New, StreamRow, StreamPc
  <2>3. CASE channel # 0
    BY <1>1, <2>1, <2>3 DEF New, StreamRow, StreamPc
  <2> QED
    BY <2>2, <2>3
<1>3. Set(s, r)
  BY DEF Subscribe, c, last
<1>4. /\ r.pc = IF channel = 0 THEN "acquire" ELSE "replay"
      /\ r.conn = channel /\ r.queue = <<>>
      /\ r.sent = <<>> /\ r.seen = {} /\ r.lost = {}
      /\ r.from = IF channel = 0 THEN 0 ELSE Len(table)
      /\ r.cursor = c
  BY DEF New
<1> HIDE DEF r
<1>5. /\ stream' \in [Stream -> StreamRow] /\ stream'[s] = r
      /\ \A t \in Stream : t # s => stream'[t] = stream[t]
  BY <1>2, <1>3, SetRow
<1> QED
  BY <1>1, <1>4, <1>5

\* A committed row is queued for the streams that are listened for.
LEMMA CommitRows ==
    ASSUME BusTypes, NEW own \in BOOLEAN, CommitRow(own)
    PROVE  /\ stream' \in [Stream -> StreamRow]
           /\ table' \in Seq(BOOLEAN) /\ Len(table') = Len(table) + 1
           /\ Id' = Id \cup {Len(table) + 1}
           /\ Own' = IF own THEN Own \cup {Len(table) + 1} ELSE Own
           /\ \A t \in Stream :
                 /\ stream'[t] = [stream[t] EXCEPT !.queue = stream'[t].queue]
                 /\ stream'[t].queue =
                       IF own /\ \E k \in listening : t \in callbacks[k]
                       THEN Append(stream[t].queue, Len(table) + 1) ELSE stream[t].queue
<1>0. table \in Seq(BOOLEAN) /\ Len(table) \in Nat /\ table' = Append(table, own)
  BY DEF BusTypes, CommitRow
<1>1. table' \in Seq(BOOLEAN) /\ Len(table') = Len(table) + 1
      /\ table'[Len(table) + 1] = own /\ \A i \in 1 .. Len(table) : table'[i] = table[i]
  BY <1>0
<1>2. DOMAIN table' = (DOMAIN table) \cup {Len(table) + 1} /\ DOMAIN table = 1 .. Len(table)
  BY <1>0, <1>1
<1>3. Own' = IF own THEN Own \cup {Len(table) + 1} ELSE Own
  BY <1>1, <1>2 DEF Own, Id
<1>4. ASSUME NEW t \in Stream
      PROVE  /\ stream'[t] \in StreamRow
             /\ stream'[t] = [stream[t] EXCEPT !.queue = stream'[t].queue]
             /\ stream'[t].queue =
                   IF own /\ \E k \in listening : t \in callbacks[k]
                   THEN Append(stream[t].queue, Len(table) + 1) ELSE stream[t].queue
  <2>0. stream' = [s \in Stream |->
                     IF own /\ \E k \in listening : s \in callbacks[k]
                     THEN [stream[s] EXCEPT !.queue = Append(@, Len(table) + 1)]
                     ELSE stream[s]]
    BY DEF CommitRow, Announce
  <2>1. stream[t] \in StreamRow /\ Append(stream[t].queue, Len(table) + 1) \in Seq(Nat)
    BY <1>0, RowType
  <2>2. CASE own /\ \E k \in listening : t \in callbacks[k]
    <3>1. stream'[t] = [stream[t] EXCEPT !.queue = Append(@, Len(table) + 1)]
      BY <2>0, <2>2
    <3> QED
      BY <2>1, <2>2, <3>1 DEF StreamRow
  <2>3. CASE ~(own /\ \E k \in listening : t \in callbacks[k])
    <3>1. stream'[t] = stream[t]
      BY <2>0, <2>3
    <3> QED
      BY <2>1, <2>3, <3>1 DEF StreamRow
  <2> QED
    BY <2>2, <2>3
<1>5. stream' \in [Stream -> StreamRow]
  <2>1. stream' = [t \in Stream |-> stream'[t]]
    BY DEF CommitRow, Announce
  <2> QED
    BY <1>4, <2>1
<1> QED
  BY <1>1, <1>2, <1>3, <1>4, <1>5 DEF Id

LEMMA BusTypesNext ==
    ASSUME BusTypes, \A t \in Stream : SentOK(t), [Next]_vars
    PROVE  BusTypes'
<1> USE DEF BusTypes
<1>1. CASE UNCHANGED vars
  BY <1>1 DEF vars, bus, StreamRow, Stream
<1>2. ASSUME NEW own \in BOOLEAN, CommitRow(own) PROVE BusTypes'
  <2>1. Len(table) + 1 <= MaxRows
    BY <1>2, EventStreamAssumption, IdFacts DEF CommitRow
  <2> QED
    BY <1>2, <2>1, CommitRows DEF CommitRow, bus
<1>3. ASSUME NEW id \in Id, Acknowledge(id) PROVE BusTypes'
  BY <1>3 DEF Acknowledge, bus
<1>4. ASSUME NEW s \in Stream, Subscribe(s) PROVE BusTypes'
  <2>1. callbacks' \in [Stream -> SUBSET Stream]
    BY <1>4 DEF Subscribe
  <2> QED
    BY <1>4, <2>1, SubscribeRow DEF Subscribe
<1>5. ASSUME NEW s \in Stream, CancelSubscribe(s) PROVE BusTypes'
  BY <1>5, CancelRow DEF CancelSubscribe, bus
<1>6. ASSUME NEW s \in Stream, Disconnect(s) PROVE BusTypes'
  <2>1. callbacks' \in [Stream -> SUBSET Stream]
    <3>1. callbacks' = IF channel # 0 /\ s \in callbacks[channel]
                       THEN [callbacks EXCEPT ![channel] = @ \ {s}] ELSE callbacks
      BY <1>6, DisconnectRow
    <3>2. channel # 0 => channel \in Stream
      BY EventStreamAssumption DEF Stream
    <3> QED
      BY <3>1, <3>2
  <2> QED
    BY <1>6, <2>1, DisconnectRow DEF Disconnect
<1>7. ASSUME NEW s \in Stream, HeartbeatRace(s) PROVE BusTypes'
  BY <1>7, HeartbeatRow DEF HeartbeatRace, bus
<1>8. ASSUME NEW s \in Stream, Step(s) PROVE BusTypes'
  <2>1. CASE Acquire(s)
    BY <2>1, AcquireRow DEF Acquire
  <2>2. CASE Listen(s)
    BY <2>2, ListenRow, StreamNat DEF Listen
  <2>3. CASE Unlisten(s)
    BY <2>3, UnlistenRow DEF Unlisten
  <2>4. CASE Release(s)
    BY <2>4, ReleaseRow, StreamNat DEF Release
  <2>5. CASE Replay(s)
    BY <2>5, ReplayRow DEF Replay, bus
  <2>6. CASE Take(s)
    BY <2>6, TakeRow DEF Take, bus
  <2> QED
    BY <1>8, <2>1, <2>2, <2>3, <2>4, <2>5, <2>6 DEF Step
<1>9. CASE Quiet \/ Exhausted
  BY <1>9, <1>1 DEF Quiet, Exhausted
<1> QED
  BY <1>1, <1>2, <1>3, <1>4, <1>5, <1>6, <1>7, <1>8, <1>9 DEF Next

-----------------------------------------------------------------------------
(* EventStream: the bus                                                    *)

LEMMA ChannelType ==
    ASSUME BusTypes
    PROVE  /\ channel # 0 => channel \in Stream
           /\ 0 \notin Stream
           /\ \A s \in Stream : stream[s].conn # 0 => stream[s].conn \in Stream
<1>1. \A s \in Stream : stream[s].conn \in 0 .. MaxStreams
  BY RowType
<1> QED
  BY <1>1, EventStreamAssumption DEF BusTypes, Stream

\* Steps of the generators and of the writers leave the bus alone.
LEMMA BusKept ==
    ASSUME BusTypes, BusPart, UNCHANGED <<bus, mishaps>>,
           \A t \in Stream :
              /\ stream'[t].conn = stream[t].conn
              /\ \/ stream'[t].pc = stream[t].pc
                 \/ stream[t].pc = "replay" /\ stream'[t].pc = "live"
    PROVE  BusPart'
<1>1. \A t \in Stream : Fresh(t)' <=> Fresh(t)
  BY DEF Fresh
<1>2. \A k : Closing(k)' <=> Closing(k)
  BY DEF Closing
<1>3. FreshApart'
  BY <1>1 DEF BusPart, FreshApart, bus
<1>4. ChannelHeard'
  BY <1>2 DEF BusPart, ChannelHeard, bus
<1>5. \A s \in Stream : Heard(s)'
  BY <1>2 DEF BusPart, Heard, Joined, bus
<1>6. Tidy'
  <2>1. /\ mishaps' = mishaps /\ channel' = channel /\ callbacks' = callbacks
        /\ listening' = listening /\ taken' = taken
    BY DEF bus
  <2>2. \A t \in Stream : /\ stream'[t].pc = "listen" <=> stream[t].pc = "listen"
                          /\ stream'[t].pc = "unlisten" <=> stream[t].pc = "unlisten"
                          /\ stream'[t].pc = "release" <=> stream[t].pc = "release"
                          /\ stream[t].pc \in {"replay", "live"}
                                => stream'[t].pc \in {"replay", "live"}
    OBVIOUS
  <2>3. Closing(channel)' <=> Closing(channel)
    BY <1>2, <2>1 DEF Closing
  <2> QED
    <3> SUFFICES ASSUME mishaps = {} PROVE Tidy'
      BY <2>1 DEF Tidy
    <3>1. /\ \A k \in taken' : channel' = k \/ stream'[k].pc = "listen"
          /\ \A k \in listening' : channel' = k
      BY <2>1, <2>2 DEF BusPart, Tidy, BusTypes
    <3>2. /\ channel' # 0 => Closing(channel)' \/ callbacks'[channel'] # {}
          /\ channel' # 0 => \A s \in callbacks'[channel'] : stream'[s].pc \in {"replay", "live"}
      BY <2>1, <2>2, <2>3, ChannelType DEF BusPart, Tidy, BusTypes
    <3>3. \A s \in Stream : stream'[s].pc \in {"unlisten", "release"} =>
            /\ channel' # 0 /\ stream'[s].conn = channel' /\ callbacks'[channel'] = {}
            /\ stream'[s].pc = "release" => channel' \notin listening'
            /\ \A t \in Stream : stream'[t].pc \in {"unlisten", "release"} => s = t
      BY <2>1, <2>2 DEF BusPart, Tidy
    <3> QED
      BY <3>1, <3>2, <3>3 DEF Tidy
<1> QED
  BY <1>3, <1>4, <1>5, <1>6 DEF BusPart

LEMMA SubscribeBus ==
    ASSUME BusTypes, BusPart, \A t \in Stream : SentOK(t), NEW s \in Stream, Subscribe(s)
    PROVE  BusPart'
<1>0. /\ stream[s].pc = "new" /\ Fresh(s)
      /\ stream'[s].pc = IF channel = 0 THEN "acquire" ELSE "replay"
      /\ stream'[s].conn = channel
      /\ \A t \in Stream : t # s => stream'[t] = stream[t]
      /\ callbacks' = IF channel = 0 THEN callbacks
                      ELSE [callbacks EXCEPT ![channel] = @ \cup {s}]
      /\ mishaps' = IF channel # 0 /\ Closing(channel)
                    THEN mishaps \cup {<<"joined a closing channel", s>>}
                    ELSE mishaps
      /\ UNCHANGED <<channel, listening, taken>>
  BY SubscribeRow DEF Subscribe, Fresh
<1>1. channel # 0 => channel \in Stream
  BY ChannelType
<1>2. \A k : Closing(k)' <=> Closing(k)
  BY <1>0 DEF Closing
<1>3. FreshApart'
  <2> SUFFICES ASSUME NEW u \in Stream, Fresh(u)'
               PROVE  /\ callbacks'[u] = {} /\ channel' # u
                      /\ stream'[u].pc = "listen" => stream'[u].conn = u
                      /\ \A t \in Stream : u \notin callbacks'[t] /\ (t # u => stream'[t].conn # u)
    BY DEF FreshApart
  <2>1. Fresh(u)
    BY <1>0 DEF Fresh
  <2>2. u = s => channel = 0
    BY <1>0 DEF Fresh
  <2>3. /\ callbacks[u] = {} /\ channel # u
        /\ stream[u].pc = "listen" => stream[u].conn = u
        /\ \A t \in Stream : u \notin callbacks[t] /\ (t # u => stream[t].conn # u)
    BY <2>1 DEF BusPart, FreshApart
  <2>4. u # 0
    BY StreamNat
  <2> QED
    BY <1>0, <1>1, <2>2, <2>3, <2>4 DEF BusTypes
<1>4. ChannelHeard'
  BY <1>0, <1>2 DEF BusPart, ChannelHeard
<1>5. ASSUME NEW u \in Stream PROVE Heard(u)'
  <2>1. CASE u = s
    <3> SUFFICES ASSUME stream'[s].pc \in {"replay", "live"}, ~Joined(s)',
                        NEW k, k = stream'[s].conn
                 PROVE  k \in listening' /\ s \in callbacks'[k] /\ ~Closing(k)'
      BY <2>1 DEF Heard, Closing
    <3>1. channel # 0 /\ ~Closing(channel)
      BY <1>0 DEF Joined
    <3> QED
      BY <1>0, <1>1, <1>2, <3>1 DEF BusPart, ChannelHeard, BusTypes
  <2>2. CASE u # s
    <3>1. Heard(u)
      BY DEF BusPart
    <3>2. Joined(u) => Joined(u)'
      BY <1>0 DEF Joined
    <3>3. \A k \in Stream : callbacks[k] \subseteq callbacks'[k]
      BY <1>0, <1>1 DEF BusTypes
    <3> QED
      BY <1>0, <1>2, <2>2, <3>1, <3>2, <3>3 DEF Heard, BusTypes
  <2> QED
    BY <2>1, <2>2
<1>6. Tidy'
  <2> SUFFICES ASSUME mishaps' = {} PROVE Tidy'
    BY DEF Tidy
  <2>1. mishaps = {} /\ (channel # 0 => ~Closing(channel))
    BY <1>0
  <2>2. /\ \A k \in taken : channel = k \/ stream[k].pc = "listen"
        /\ \A k \in listening : channel = k
        /\ channel # 0 => Closing(channel) \/ callbacks[channel] # {}
        /\ channel # 0 => \A t \in callbacks[channel] : stream[t].pc \in {"replay", "live"}
        /\ \A t \in Stream : stream[t].pc \in {"unlisten", "release"} => channel # 0 /\ stream[t].conn = channel
    BY <2>1 DEF BusPart, Tidy
  <2>3. \A t \in Stream : stream[t].pc \notin {"unlisten", "release"}
    BY <2>1, <2>2 DEF Closing
  <2>4. \A t \in Stream : stream'[t].pc \notin {"unlisten", "release"}
    BY <1>0, <2>3
  <2>5. \A k \in taken' : channel' = k \/ stream'[k].pc = "listen"
    BY <1>0, <2>2 DEF BusTypes
  <2>6. channel' # 0 => callbacks'[channel'] # {} /\
           \A t \in callbacks'[channel'] : stream'[t].pc \in {"replay", "live"}
    BY <1>0, <1>1, <2>2 DEF BusTypes
  <2> QED
    BY <1>0, <2>2, <2>4, <2>5, <2>6 DEF Tidy
<1> QED
  BY <1>3, <1>4, <1>5, <1>6 DEF BusPart

LEMMA AcquireBus ==
    ASSUME BusTypes, BusPart, NEW s \in Stream, Acquire(s)
    PROVE  BusPart'
<1>0. /\ stream[s].pc = "acquire" /\ Fresh(s) /\ Fresh(s)'
      /\ stream'[s].pc = "listen" /\ stream'[s].conn = s
      /\ \A t \in Stream : t # s => stream'[t] = stream[t]
      /\ taken' = taken \cup {s}
      /\ mishaps' = IF channel # 0 THEN mishaps \cup {<<"overlap", 0>>} ELSE mishaps
      /\ UNCHANGED <<channel, callbacks, listening>>
  BY AcquireRow, RowType DEF Acquire, Fresh, StreamRow
<1>1. \A k : Closing(k)' <=> Closing(k)
  BY <1>0 DEF Closing
<1>2. FreshApart'
  BY <1>0 DEF BusPart, FreshApart, Fresh
<1>3. ChannelHeard'
  BY <1>0, <1>1 DEF BusPart, ChannelHeard
<1>4. ASSUME NEW u \in Stream PROVE Heard(u)'
  <2>1. Heard(u)
    BY DEF BusPart
  <2>2. Joined(u) => Joined(u)'
    BY <1>0 DEF Joined
  <2> QED
    BY <1>0, <1>1, <2>1, <2>2 DEF Heard
<1>5. Tidy'
  <2> SUFFICES ASSUME mishaps' = {} PROVE Tidy'
    BY DEF Tidy
  <2>1. mishaps = {} /\ channel = 0
    BY <1>0
  <2>2. Tidy /\ \A k \in taken : k \in Stream
    BY DEF BusPart, BusTypes
  <2> QED
    BY <1>0, <2>1, <2>2 DEF Tidy
<1> QED
  BY <1>2, <1>3, <1>4, <1>5 DEF BusPart

LEMMA ListenBus ==
    ASSUME BusTypes, BusPart, NEW s \in Stream, Listen(s)
    PROVE  BusPart'
<1>0. /\ stream[s].pc = "listen" /\ Fresh(s) /\ ~Fresh(s)'
      /\ stream'[s].pc = "replay" /\ stream'[s].conn = stream[s].conn
      /\ \A t \in Stream : t # s => stream'[t] = stream[t]
      /\ listening' = listening \cup {s}
      /\ callbacks' = [callbacks EXCEPT ![s] = {s}]
      /\ channel' = s
      /\ mishaps' = IF channel # 0 THEN mishaps \cup {<<"overlap", 0>>} ELSE mishaps
      /\ UNCHANGED taken
  BY ListenRow, RowType DEF Listen, Fresh, StreamRow
<1>1. \A k : Closing(k)' <=> Closing(k)
  BY <1>0 DEF Closing
<1>2. FreshApart'
  BY <1>0 DEF BusPart, FreshApart, Fresh, BusTypes
<1>3. ChannelHeard'
  BY <1>0 DEF ChannelHeard
<1>4. ASSUME NEW u \in Stream PROVE Heard(u)'
  <2>1. CASE u = s
    <3>1. stream[s].conn = s /\ callbacks'[s] = {s}
      BY <1>0 DEF BusPart, FreshApart, BusTypes
    <3>2. ~Closing(s)
      BY <1>0 DEF BusPart, FreshApart, Closing
    <3>3. ~Closing(s)'
      BY <1>1, <3>2
    <3> QED
      BY <1>0, <2>1, <3>1, <3>3 DEF Heard, Closing
  <2>2. CASE u # s
    <3>1. Heard(u) /\ stream[u].conn # s
      BY <1>0, <2>2 DEF BusPart, FreshApart
    <3>2. Joined(u) => Joined(u)'
      BY <1>0 DEF Joined
    <3> QED
      BY <1>0, <1>1, <2>2, <3>1, <3>2 DEF Heard, BusTypes
  <2> QED
    BY <2>1, <2>2
<1>5. Tidy'
  <2> SUFFICES ASSUME mishaps' = {} PROVE Tidy'
    BY DEF Tidy
  <2>1. mishaps = {} /\ channel = 0
    BY <1>0
  <2>2. Tidy /\ taken \subseteq Stream /\ listening \subseteq Stream /\ 0 \notin Stream
    BY ChannelType DEF BusPart, BusTypes
  <2>3. listening = {} /\ \A k \in taken : stream[k].pc = "listen"
    BY <2>1, <2>2 DEF Tidy
  <2>4. \A t \in Stream : stream[t].pc \notin {"unlisten", "release"}
    BY <2>1, <2>2 DEF Tidy
  <2>5. \A t \in Stream : stream'[t].pc \notin {"unlisten", "release"}
    BY <1>0, <2>4
  <2>6. callbacks'[s] = {s}
    BY <1>0 DEF BusTypes
  <2> QED
    BY <1>0, <2>2, <2>3, <2>5, <2>6 DEF Tidy
<1> QED
  BY <1>2, <1>3, <1>4, <1>5 DEF BusPart

LEMMA CancelBus ==
    ASSUME BusTypes, BusPart, NEW s \in Stream, CancelSubscribe(s)
    PROVE  BusPart'
<1>0. /\ Fresh(s) /\ ~Fresh(s)'
      /\ stream'[s].pc = "closed" /\ stream'[s].conn = stream[s].conn
      /\ \A t \in Stream : t # s => stream'[t] = stream[t]
      /\ mishaps' = IF stream[s].pc = "listen"
                    THEN mishaps \cup {<<"cancelled in subscribe", 0>>} ELSE mishaps
      /\ UNCHANGED <<channel, callbacks, listening, taken>>
  BY CancelRow, RowType DEF CancelSubscribe, Fresh, StreamRow, bus
<1>1. \A k : Closing(k)' <=> Closing(k)
  BY <1>0 DEF Closing, Fresh
<1>2. FreshApart'
  <2>1. \A u \in Stream : Fresh(u)' => Fresh(u) /\ u # s
    BY <1>0 DEF Fresh
  <2>2. \A t \in Stream : stream'[t].conn = stream[t].conn
    BY <1>0
  <2>3. \A u \in Stream : u # s => stream'[u].pc = stream[u].pc
    BY <1>0
  <2>4. callbacks' = callbacks /\ channel' = channel
    BY <1>0
  <2> QED
    BY <2>1, <2>2, <2>3, <2>4 DEF BusPart, FreshApart
<1>3. ChannelHeard'
  BY <1>0, <1>1 DEF BusPart, ChannelHeard
<1>4. ASSUME NEW u \in Stream PROVE Heard(u)'
  <2>1. Heard(u)
    BY DEF BusPart
  <2>2. Joined(u) => Joined(u)'
    BY <1>0 DEF Joined
  <2> QED
    BY <1>0, <1>1, <2>1, <2>2 DEF Heard
<1>5. Tidy'
  <2> SUFFICES ASSUME mishaps' = {} PROVE Tidy'
    BY DEF Tidy
  <2>1. mishaps = {} /\ stream[s].pc # "listen"
    BY <1>0
  <2>2. Tidy /\ (Closing(channel)' <=> Closing(channel))
    BY <1>0, <1>1 DEF BusPart, Closing
  <2>3. stream[s].pc \notin {"listen", "replay", "live", "unlisten", "release"}
    BY <1>0, <2>1 DEF Fresh
  <2>4. /\ \A k \in taken' : channel' = k \/ stream'[k].pc = "listen"
        /\ \A k \in listening' : channel' = k
    BY <1>0, <2>1, <2>2, <2>3 DEF Tidy, BusTypes
  <2>5. /\ channel' # 0 => Closing(channel)' \/ callbacks'[channel'] # {}
        /\ channel' # 0 => \A t \in callbacks'[channel'] : stream'[t].pc \in {"replay", "live"}
    BY <1>0, <2>1, <2>2, <2>3, ChannelType DEF Tidy, BusTypes
  <2>6. \A t \in Stream : stream'[t].pc \in {"unlisten", "release"} =>
          /\ channel' # 0 /\ stream'[t].conn = channel' /\ callbacks'[channel'] = {}
          /\ stream'[t].pc = "release" => channel' \notin listening'
          /\ \A u \in Stream : stream'[u].pc \in {"unlisten", "release"} => t = u
    BY <1>0, <2>1, <2>2, <2>3 DEF Tidy
  <2> QED
    BY <2>4, <2>5, <2>6 DEF Tidy
<1> QED
  BY <1>2, <1>3, <1>4, <1>5 DEF BusPart

LEMMA DisconnectBus ==
    ASSUME BusTypes, BusPart, NEW s \in Stream, Disconnect(s)
    PROVE  BusPart'
<1> DEFINE last == channel # 0 /\ callbacks[channel] = {s}
<1>0. /\ stream[s].pc \in {"replay", "live"}
      /\ stream'[s].pc = IF last THEN "unlisten" ELSE "closed"
      /\ stream'[s].conn = IF last THEN channel ELSE stream[s].conn
      /\ \A t \in Stream : t # s => stream'[t] = stream[t]
      /\ UNCHANGED <<channel, listening, taken, mishaps>>
  BY DisconnectRow, RowType DEF Disconnect, StreamRow
<1>1. callbacks' = IF channel # 0 /\ s \in callbacks[channel]
                   THEN [callbacks EXCEPT ![channel] = @ \ {s}] ELSE callbacks
  BY DisconnectRow
<1>2. channel # 0 => channel \in Stream
  BY ChannelType
<1> HIDE DEF last
<1>3. \A k \in Stream : callbacks'[k] = IF k = channel THEN callbacks[k] \ {s} ELSE callbacks[k]
  BY <1>1, <1>2, StreamNat DEF BusTypes
<1>4. \A k : Closing(k)' <=> Closing(k) \/ (last /\ k = channel)
  BY <1>0 DEF Closing
<1>5. FreshApart'
  <2> SUFFICES ASSUME NEW u \in Stream, Fresh(u)'
               PROVE  /\ callbacks'[u] = {} /\ channel' # u
                      /\ stream'[u].pc = "listen" => stream'[u].conn = u
                      /\ \A t \in Stream : u \notin callbacks'[t] /\ (t # u => stream'[t].conn # u)
    BY DEF FreshApart
  <2>1. Fresh(u) /\ u # s
    BY <1>0 DEF Fresh
  <2>2. /\ callbacks[u] = {} /\ channel # u
        /\ stream[u].pc = "listen" => stream[u].conn = u
        /\ \A t \in Stream : u \notin callbacks[t] /\ (t # u => stream[t].conn # u)
    BY <2>1 DEF BusPart, FreshApart
  <2> QED
    BY <1>0, <1>3, <2>1, <2>2
<1>6. ChannelHeard'
  <2>1. Closing(channel)' <=> Closing(channel) \/ last
    BY <1>0, <1>4 DEF Closing
  <2> QED
    BY <1>0, <2>1 DEF BusPart, ChannelHeard
<1>7. ASSUME NEW u \in Stream PROVE Heard(u)'
  <2> SUFFICES ASSUME stream'[u].pc \in {"replay", "live"}, ~Joined(u)',
                      NEW k, k = stream'[u].conn
               PROVE  k \in listening' /\ u \in callbacks'[k] /\ ~Closing(k)'
    BY DEF Heard, Closing
  <2>1. u # s
    BY <1>0
  <2>2. k \in listening /\ u \in callbacks[k] /\ ~Closing(k)
    BY <1>0, <2>1 DEF BusPart, Heard, Joined
  <2>3. k \in Stream
    BY <2>2 DEF BusTypes
  <2>4. ~(last /\ k = channel)
    BY <2>1, <2>2 DEF last
  <2> QED
    BY <1>0, <1>3, <1>4, <2>1, <2>2, <2>3, <2>4
<1>8. Tidy'
  <2> SUFFICES ASSUME mishaps = {} PROVE Tidy'
    BY <1>0 DEF Tidy
  <2>1. Tidy /\ (Closing(channel)' <=> Closing(channel) \/ last)
    BY <1>0, <1>4 DEF BusPart, Closing
  <2>2. /\ \A k \in taken' : channel' = k \/ stream'[k].pc = "listen"
        /\ \A k \in listening' : channel' = k
    BY <1>0, <2>1 DEF Tidy, BusTypes
  <2>3. channel' # 0 => Closing(channel)' \/ callbacks'[channel'] # {}
    <3> SUFFICES ASSUME channel # 0, callbacks'[channel] = {}
                 PROVE  Closing(channel) \/ last
      BY <1>0, <2>1
    <3>1. callbacks[channel] \ {s} = {}
      BY <1>2, <1>3
    <3>2. callbacks[channel] = {} \/ callbacks[channel] = {s}
      BY <3>1
    <3>3. callbacks[channel] = {} => Closing(channel)
      BY <2>1 DEF Tidy
    <3> QED
      BY <3>2, <3>3 DEF last
  <2>4. channel' # 0 => \A t \in callbacks'[channel'] : stream'[t].pc \in {"replay", "live"}
    BY <1>0, <1>2, <1>3, <2>1, ZenonT(60) DEF Tidy, BusTypes
  <2>5. last => \A t \in Stream : stream[t].pc \notin {"unlisten", "release"}
    BY <2>1 DEF Tidy, last
  <2>6. ASSUME NEW t \in Stream, stream'[t].pc \in {"unlisten", "release"}
        PROVE  /\ channel' # 0 /\ stream'[t].conn = channel' /\ callbacks'[channel'] = {}
               /\ stream'[t].pc = "release" => channel' \notin listening'
               /\ \A u \in Stream : stream'[u].pc \in {"unlisten", "release"} => t = u
    <3>1. CASE t = s
      <4>1. last
        BY <1>0, <2>6, <3>1
      <4>2. \A u \in Stream : stream'[u].pc \in {"unlisten", "release"} => s = u
        BY <1>0, <2>5, <4>1
      <4> QED
        BY <1>0, <1>2, <1>3, <3>1, <4>1, <4>2 DEF last
    <3>2. CASE t # s
      <4>1. stream[t].pc \in {"unlisten", "release"} /\ ~last
        BY <1>0, <2>5, <2>6, <3>2
      <4>2. /\ channel # 0 /\ stream[t].conn = channel /\ callbacks[channel] = {}
            /\ stream[t].pc = "release" => channel \notin listening
            /\ \A u \in Stream : stream[u].pc \in {"unlisten", "release"} => t = u
        BY <2>1, <4>1 DEF Tidy
      <4>3. stream'[s].pc \notin {"unlisten", "release"}
        BY <1>0, <4>1
      <4> QED
        BY <1>0, <1>2, <1>3, <3>2, <4>1, <4>2, <4>3
    <3> QED
      BY <3>1, <3>2
  <2> QED
    BY <2>2, <2>3, <2>4, <2>6 DEF Tidy
<1> QED
  BY <1>5, <1>6, <1>7, <1>8 DEF BusPart

LEMMA UnlistenBus ==
    ASSUME BusTypes, BusPart, NEW s \in Stream, Unlisten(s)
    PROVE  BusPart'
<1>0. /\ stream[s].pc = "unlisten"
      /\ stream'[s].pc = "release" /\ stream'[s].conn = stream[s].conn
      /\ \A t \in Stream : t # s => stream'[t] = stream[t]
      /\ listening' = listening \ {stream[s].conn}
      /\ UNCHANGED <<channel, callbacks, taken, mishaps>>
  BY UnlistenRow, RowType DEF Unlisten, StreamRow
<1>1. \A k : Closing(k)' <=> Closing(k)
  BY <1>0 DEF Closing
<1>2. FreshApart'
  BY <1>0 DEF BusPart, FreshApart, Fresh
<1>3. Closing(stream[s].conn)
  BY <1>0 DEF Closing
<1>4. Closing(channel)' <=> Closing(channel)
  BY <1>0, <1>1 DEF Closing
<1>5. ChannelHeard'
  BY <1>0, <1>3, <1>4 DEF BusPart, ChannelHeard
<1>6. ASSUME NEW u \in Stream PROVE Heard(u)'
  <2> SUFFICES ASSUME stream'[u].pc \in {"replay", "live"}, ~Joined(u)',
                      NEW k, k = stream'[u].conn
               PROVE  k \in listening' /\ u \in callbacks'[k] /\ ~Closing(k)'
    BY DEF Heard, Closing
  <2>1. u # s
    BY <1>0
  <2>2. k \in listening /\ u \in callbacks[k] /\ ~Closing(k)
    BY <1>0, <2>1 DEF BusPart, Heard, Joined
  <2> QED
    BY <1>0, <1>1, <1>3, <2>2
<1>7. Tidy'
  <2> SUFFICES ASSUME mishaps = {} PROVE Tidy'
    BY <1>0 DEF Tidy
  <2>1. Tidy
    BY DEF BusPart
  <2>2. /\ \A k \in taken' : channel' = k \/ stream'[k].pc = "listen"
        /\ \A k \in listening' : channel' = k
    BY <1>0, <2>1 DEF Tidy, BusTypes
  <2>3. /\ channel' # 0 => Closing(channel)' \/ callbacks'[channel'] # {}
        /\ channel' # 0 => \A t \in callbacks'[channel'] : stream'[t].pc \in {"replay", "live"}
    BY <1>0, <1>4, <2>1, ChannelType DEF Tidy, BusTypes
  <2>4. \A t \in Stream : stream'[t].pc \in {"unlisten", "release"} =>
          /\ channel' # 0 /\ stream'[t].conn = channel' /\ callbacks'[channel'] = {}
          /\ stream'[t].pc = "release" => channel' \notin listening'
          /\ \A u \in Stream : stream'[u].pc \in {"unlisten", "release"} => t = u
    BY <1>0, <2>1 DEF Tidy
  <2> QED
    BY <2>2, <2>3, <2>4 DEF Tidy
<1> QED
  BY <1>2, <1>5, <1>6, <1>7 DEF BusPart

LEMMA ReleaseBus ==
    ASSUME BusTypes, BusPart, NEW s \in Stream, Release(s)
    PROVE  BusPart'
<1>0. /\ stream[s].pc = "release"
      /\ stream'[s].pc = "closed" /\ stream'[s].conn = stream[s].conn
      /\ \A t \in Stream : t # s => stream'[t] = stream[t]
      /\ taken' = taken \ {stream[s].conn} /\ channel' = 0
      /\ UNCHANGED <<callbacks, listening, mishaps>>
  BY ReleaseRow, RowType DEF Release, StreamRow
<1>1. \A k : Closing(k)' => Closing(k)
  BY <1>0 DEF Closing
<1>2. FreshApart'
  BY <1>0, ChannelType DEF BusPart, FreshApart, Fresh
<1>3. ChannelHeard'
  BY <1>0 DEF ChannelHeard
<1>4. ASSUME NEW u \in Stream PROVE Heard(u)'
  <2>1. Heard(u)
    BY DEF BusPart
  <2> QED
    BY <1>0, <1>1, <2>1 DEF Heard, Joined
<1>5. Tidy'
  <2> SUFFICES ASSUME mishaps = {} PROVE Tidy'
    BY <1>0 DEF Tidy
  <2>1. Tidy
    BY DEF BusPart
  <2>2. /\ channel # 0 /\ stream[s].conn = channel /\ channel \notin listening
        /\ \A t \in Stream : stream[t].pc \in {"unlisten", "release"} => s = t
    BY <1>0, <2>1 DEF Tidy
  <2>3. listening' = {}
    BY <1>0, <2>1, <2>2 DEF Tidy
  <2>4. \A k \in taken' : stream'[k].pc = "listen"
    BY <1>0, <2>1, <2>2 DEF Tidy, BusTypes
  <2>5. \A t \in Stream : stream'[t].pc \notin {"unlisten", "release"}
    BY <1>0, <2>2
  <2> QED
    BY <1>0, <2>3, <2>4, <2>5 DEF Tidy
<1> QED
  BY <1>2, <1>3, <1>4, <1>5 DEF BusPart

-----------------------------------------------------------------------------
(* EventStream: what is queued and sent                                    *)

\* A row whose queue and history are as before stays as it should be, when it
\* does not go back to an earlier phase.
LEMMA RowKept ==
    ASSUME NEW t \in Stream, RowOK(t), UNCHANGED <<table, kind>>,
           stream'[t].queue = stream[t].queue, stream'[t].seen = stream[t].seen,
           stream'[t].sent = stream[t].sent, stream'[t].cursor = stream[t].cursor,
           stream'[t].from = stream[t].from,
           Fresh(t)' => Fresh(t), stream'[t].pc = "replay" => stream[t].pc = "replay"
    PROVE  RowOK(t)'
<1>1. Own' = Own /\ Id' = Id
  BY DEF Own, Id
<1>2. QueueOK(t)'
  BY <1>1 DEF RowOK, QueueOK
<1>3. SentOK(t)'
  BY <1>1 DEF RowOK, SentOK
<1> QED
  BY <1>2, <1>3 DEF RowOK

LEMMA RowSame ==
    ASSUME NEW t \in Stream, RowOK(t), UNCHANGED <<table, kind>>, stream'[t] = stream[t]
    PROVE  RowOK(t)'
<1>1. Fresh(t)' => Fresh(t)
  BY DEF Fresh
<1> QED
  BY <1>1, RowKept

LEMMA SubscribeRowOK ==
    ASSUME BusTypes, BusPart, \A t \in Stream : RowOK(t), NEW s \in Stream, Subscribe(s)
    PROVE  RowOK(s)'
<1>1. /\ stream'[s].pc = IF channel = 0 THEN "acquire" ELSE "replay"
      /\ stream'[s].queue = <<>> /\ stream'[s].sent = <<>> /\ stream'[s].seen = {}
      /\ stream'[s].from = IF channel = 0 THEN 0 ELSE Len(table)
      /\ stream'[s].cursor <= Len(table)
  BY SubscribeRow DEF RowOK
<1>2. table' = table /\ Len(table) \in Nat
  BY IdFacts DEF Subscribe
<1>3. DOMAIN <<>> = {} /\ Range(<<>>) = {}
  BY DEF Range
<1>4. QueueOK(s)'
  BY <1>1, <1>2, <1>3 DEF QueueOK, Fresh
<1>5. SentOK(s)'
  BY <1>1, <1>3 DEF SentOK
<1> QED
  BY <1>4, <1>5 DEF RowOK

LEMMA ListenRowOK ==
    ASSUME BusTypes, NEW s \in Stream, RowOK(s), Listen(s)
    PROVE  RowOK(s)'
<1>1. /\ stream[s].pc = "listen" /\ Fresh(s)
      /\ stream'[s].pc = "replay" /\ stream'[s].queue = stream[s].queue
      /\ stream'[s].sent = stream[s].sent /\ stream'[s].seen = stream[s].seen
      /\ stream'[s].cursor = stream[s].cursor /\ stream'[s].from = Len(table)
      /\ table' = table /\ kind' = kind
  BY ListenRow, RowType, ZenonT(60) DEF Listen, Fresh, StreamRow
<1>2. Len(table) \in Nat /\ Own' = Own /\ Id' = Id
  BY <1>1, IdFacts DEF Own, Id
<1>3. stream[s].queue = <<>> /\ stream[s].sent = <<>> /\ DOMAIN <<>> = {}
  BY <1>1 DEF RowOK, QueueOK, SentOK
<1>4. QueueOK(s)'
  BY <1>1, <1>2, <1>3 DEF RowOK, QueueOK, Fresh
<1>5. SentOK(s)'
  BY <1>1, <1>2, <1>3 DEF RowOK, SentOK
<1> QED
  BY <1>4, <1>5 DEF RowOK

LEMMA AppendItem ==
    ASSUME NEW q \in Seq(Nat), NEW x \in Nat
    PROVE  LET p == Append(q, x)
           IN  /\ DOMAIN p = DOMAIN q \cup {Len(q) + 1} /\ Len(q) \in Nat
               /\ DOMAIN q = 1 .. Len(q) /\ Len(p) = Len(q) + 1
               /\ p[Len(q) + 1] = x /\ \A i \in DOMAIN q : p[i] = q[i]
               /\ Range(p) = Range(q) \cup {x}
<1> DEFINE p == Append(q, x)
<1>1. /\ Len(q) \in Nat /\ DOMAIN q = 1 .. Len(q) /\ Len(p) = Len(q) + 1
      /\ p[Len(q) + 1] = x /\ \A i \in 1 .. Len(q) : p[i] = q[i]
  OBVIOUS
<1>2. DOMAIN p = 1 .. (Len(q) + 1)
  OBVIOUS
<1>3. 1 .. (Len(q) + 1) = (1 .. Len(q)) \cup {Len(q) + 1}
  BY <1>1
<1> HIDE DEF p
<1>4. Range(p) = Range(q) \cup {x}
  BY <1>1, <1>2, <1>3 DEF Range
<1> QED
  BY <1>1, <1>2, <1>3, <1>4 DEF p

LEMMA TailItems ==
    ASSUME NEW q \in Seq(Nat), q # <<>>
    PROVE  /\ Tail(q) \in Seq(Nat) /\ Len(q) \in Nat /\ Len(q) > 0
           /\ DOMAIN q = 1 .. Len(q) /\ DOMAIN Tail(q) = 1 .. (Len(q) - 1)
           /\ Head(q) = q[1] /\ 1 \in DOMAIN q
           /\ \A i \in DOMAIN Tail(q) : i + 1 \in DOMAIN q /\ Tail(q)[i] = q[i + 1]
           /\ Range(q) = Range(Tail(q)) \cup {Head(q)}
<1>1. /\ Tail(q) \in Seq(Nat) /\ Len(q) \in Nat /\ Len(q) > 0
      /\ DOMAIN q = 1 .. Len(q) /\ DOMAIN Tail(q) = 1 .. (Len(q) - 1)
      /\ Head(q) = q[1] /\ 1 \in DOMAIN q
  OBVIOUS
<1>2. \A i \in DOMAIN Tail(q) : i + 1 \in DOMAIN q /\ Tail(q)[i] = q[i + 1]
  OBVIOUS
<1>3. \A i \in DOMAIN q : i = 1 \/ (i - 1 \in DOMAIN Tail(q) /\ (i - 1) + 1 = i)
  BY <1>1
<1>4. \A x \in Range(q) : x = Head(q) \/ x \in Range(Tail(q))
  <2> SUFFICES ASSUME NEW i \in DOMAIN q
               PROVE  q[i] = Head(q) \/ \E j \in DOMAIN Tail(q) : Tail(q)[j] = q[i]
    BY DEF Range
  <2>1. CASE i = 1
    BY <1>1, <2>1
  <2>2. CASE i - 1 \in DOMAIN Tail(q) /\ (i - 1) + 1 = i
    BY <1>2, <2>2
  <2> QED
    BY <1>3, <2>1, <2>2
<1>5. \A x \in Range(Tail(q)) : x \in Range(q)
  BY <1>2 DEF Range
<1>6. Head(q) \in Range(q)
  BY <1>1 DEF Range
<1> QED
  BY <1>1, <1>2, <1>4, <1>5, <1>6

LEMMA CommitRowOK ==
    ASSUME BusTypes, BusPart, NEW own \in BOOLEAN, CommitRow(own),
           NEW t \in Stream, RowOK(t)
    PROVE  RowOK(t)'
<1> DEFINE n == Len(table) + 1
<1>1. /\ Len(table') = n /\ Id' = Id \cup {n}
      /\ Own' = IF own THEN Own \cup {n} ELSE Own
      /\ kind' = kind
      /\ stream'[t].queue = IF own /\ \E k \in listening : t \in callbacks[k]
                            THEN Append(stream[t].queue, n) ELSE stream[t].queue
  BY CommitRows DEF CommitRow
<1>2. /\ stream'[t].pc = stream[t].pc /\ stream'[t].seen = stream[t].seen
      /\ stream'[t].sent = stream[t].sent /\ stream'[t].cursor = stream[t].cursor
      /\ stream'[t].from = stream[t].from
  <2>1. stream'[t] = [stream[t] EXCEPT !.queue = stream'[t].queue]
    BY CommitRows
  <2> QED
    BY <2>1, RowType DEF StreamRow
<1>3. /\ Len(table) \in Nat /\ n \in Nat /\ \A i \in Id : i \in Nat /\ i < n
      /\ \A i \in Own : i \in Nat /\ i < n
  BY IdFacts
<1>4. Fresh(t)' <=> Fresh(t)
  BY <1>2 DEF Fresh
<1>5. \A i \in Id : i \in Id'
  BY <1>1
<1>6. CASE ~(own /\ \E k \in listening : t \in callbacks[k])
  <2>1. stream'[t].queue = stream[t].queue
    BY <1>1, <1>6
  <2>2. QueueOK(t)'
    <3>1. /\ stream[t].cursor <= n /\ stream[t].from <= n
      BY <1>3, RowType DEF RowOK, QueueOK
    <3>2. \A i \in Own : i \in Own'
      BY <1>1
    <3> QED
      BY <1>1, <1>2, <1>4, <2>1, <3>1, <3>2 DEF RowOK, QueueOK
  <2>3. SentOK(t)'
    BY <1>1, <1>2, <1>4, <2>1 DEF RowOK, SentOK
  <2> QED
    BY <2>2, <2>3 DEF RowOK
<1>7. CASE own /\ \E k \in listening : t \in callbacks[k]
  <2> DEFINE q == stream[t].queue
             p == stream'[t].queue
  <2>1. ~Fresh(t)
    BY <1>7 DEF BusPart, FreshApart, BusTypes
  <2>2. p = Append(q, n) /\ q \in Seq(Nat)
    BY <1>1, <1>7, RowType
  <2>3. /\ DOMAIN p = DOMAIN q \cup {Len(q) + 1} /\ Len(q) \in Nat /\ DOMAIN q = 1 .. Len(q)
        /\ p[Len(q) + 1] = n /\ \A i \in DOMAIN q : p[i] = q[i]
    BY <1>3, <2>2, AppendItem
  <2>4. n \in Own' /\ \A i \in Own : i \in Own'
    BY <1>1, <1>7
  <2>5. /\ stream[t].cursor <= n /\ stream[t].from <= n /\ stream[t].from < n
    BY <1>3, RowType DEF RowOK, QueueOK
  <2>6. \A i \in DOMAIN p : p[i] \in Own' /\ stream[t].from < p[i]
    BY <2>3, <2>4, <2>5 DEF RowOK, QueueOK
  <2>7. \A i, j \in DOMAIN p : i < j => p[i] < p[j]
    <3> SUFFICES ASSUME NEW i \in DOMAIN p, NEW j \in DOMAIN p, i < j PROVE p[i] < p[j]
      OBVIOUS
    <3>1. i \in DOMAIN q
      BY <2>3
    <3>2. CASE j \in DOMAIN q
      BY <2>3, <3>1, <3>2 DEF RowOK, QueueOK
    <3>3. CASE j = Len(q) + 1
      <4>1. q[i] \in Own
        BY <3>1 DEF RowOK, QueueOK
      <4> QED
        BY <1>3, <2>3, <3>1, <3>3, <4>1
    <3> QED
      BY <2>3, <3>2, <3>3
  <2>8. QueueOK(t)'
    BY <1>1, <1>2, <1>4, <2>1, <2>5, <2>6, <2>7 DEF RowOK, QueueOK
  <2>9. \A i \in DOMAIN stream[t].sent : \A j \in DOMAIN p :
            kind = "events" => stream[t].sent[i] < p[j] \/ p[j] \in stream[t].seen
    <3> SUFFICES ASSUME NEW i \in DOMAIN stream[t].sent, NEW j \in DOMAIN p, kind = "events"
                 PROVE  stream[t].sent[i] < p[j] \/ p[j] \in stream[t].seen
      OBVIOUS
    <3>1. CASE j \in DOMAIN q
      BY <2>3, <3>1 DEF RowOK, SentOK
    <3>2. CASE j = Len(q) + 1
      <4>1. stream[t].sent[i] \in Id
        BY DEF RowOK, SentOK, Range
      <4> QED
        BY <1>3, <2>3, <3>2, <4>1
    <3> QED
      BY <2>3, <3>1, <3>2
  <2>10. SentOK(t)'
    BY <1>1, <1>2, <1>4, <1>5, <2>1, <2>9 DEF RowOK, SentOK
  <2> QED
    BY <2>8, <2>10 DEF RowOK
<1> QED
  BY <1>6, <1>7

LEMMA ReplayRowOK ==
    ASSUME BusTypes, NEW s \in Stream, RowOK(s), Replay(s)
    PROVE  RowOK(s)'
<1> DEFINE a == Ascending(Missed(s))
           q == stream[s].queue
<1>1. /\ stream[s].pc = "replay"
      /\ stream'[s].pc = "live" /\ stream'[s].queue = q
      /\ stream'[s].sent = a /\ stream'[s].seen = Missed(s)
      /\ stream'[s].cursor = stream[s].cursor /\ stream'[s].from = stream[s].from
      /\ table' = table /\ kind' = kind
  BY ReplayRow, RowType DEF Replay, StreamRow
<1>2. Own' = Own /\ Id' = Id
  BY <1>1 DEF Own, Id
<1>3. /\ a \in Seq(Nat) /\ Range(a) = Missed(s)
      /\ \A i, j \in DOMAIN a : i < j => a[i] < a[j]
  BY MissedFacts, AscendingFacts
<1>4. \A i \in DOMAIN a : a[i] \in Missed(s) /\ a[i] \in Nat
  BY <1>3 DEF Range
<1> HIDE DEF a, q
<1>5. QueueOK(s)'
  <2>1. ~Fresh(s) /\ ~Fresh(s)'
    BY <1>1 DEF Fresh
  <2> QED
    BY <1>1, <1>2, <2>1 DEF RowOK, QueueOK, q
<1>6. ASSUME NEW i \in DOMAIN a, NEW j \in DOMAIN q, kind = "events", q[j] \notin Missed(s)
      PROVE  a[i] < q[j]
  <2>1. q[j] \in Own /\ stream[s].from < q[j] /\ stream[s].cursor <= stream[s].from
    BY <1>1 DEF RowOK, QueueOK, q
  <2>2. q[j] \in Nat /\ stream[s].cursor \in Nat /\ stream[s].from \in Nat
    BY <2>1, IdFacts, RowType
  <2>3. a[i] \in Smallest(Selected(s), ReplayLimit) /\ a[i] \in Selected(s)
    BY <1>4, MissedFacts
  <2>4. stream[s].cursor # 0
    BY <1>6, <2>3 DEF Selected
  <2>5. q[j] \in Selected(s)
    BY <1>6, <2>1, <2>2, <2>4 DEF Selected
  <2>6. q[j] \notin Smallest(Selected(s), ReplayLimit)
    BY <1>6, MissedFacts
  <2>7. Selected(s) \in SUBSET Nat /\ IsFiniteSet(Selected(s)) /\ ReplayLimit \in Nat
    BY MissedFacts, IdFacts, IdSubsets, EventStreamAssumption
  <2> QED
    BY <2>3, <2>5, <2>6, <2>7, SmallestFirst
<1>7. SentOK(s)'
  <2>1. ~Fresh(s)'
    BY <1>1 DEF Fresh
  <2>2. \A i, j \in DOMAIN a : i < j => a[i] # a[j]
    BY <1>3, <1>4
  <2>3. Missed(s) \subseteq Id
    BY MissedFacts
  <2> QED
    BY <1>1, <1>2, <1>3, <1>6, <2>1, <2>2, <2>3 DEF SentOK
<1> QED
  BY <1>5, <1>7 DEF RowOK

\* The rest of the queue is as the queue was.
LEMMA TailRowOK ==
    ASSUME BusTypes, NEW s \in Stream, RowOK(s), stream[s].pc = "live",
           stream[s].queue # <<>>
    PROVE  LET p == Tail(stream[s].queue)
               id == Head(stream[s].queue)
           IN  /\ id \in Own /\ id \in Id /\ id \in Nat
               /\ \A i \in DOMAIN p : p[i] \in Own /\ stream[s].from < p[i] /\ id < p[i]
               /\ \A i, j \in DOMAIN p : i < j => p[i] < p[j]
               /\ \A i \in DOMAIN stream[s].sent : \A j \in DOMAIN p :
                     kind = "events" =>
                        stream[s].sent[i] < p[j] \/ p[j] \in stream[s].seen
               /\ \A i \in DOMAIN stream[s].sent :
                     kind = "events" => stream[s].sent[i] < id \/ id \in stream[s].seen
<1> DEFINE q == stream[s].queue
           p == Tail(q)
<1>0. q \in Seq(Nat) /\ q # <<>>
  BY RowType
<1>1. /\ Len(q) \in Nat /\ Len(q) > 0
      /\ DOMAIN q = 1 .. Len(q) /\ DOMAIN p = 1 .. (Len(q) - 1)
      /\ Head(q) = q[1] /\ 1 \in DOMAIN q
      /\ \A i \in DOMAIN p : i + 1 \in DOMAIN q /\ p[i] = q[i + 1]
  BY <1>0, TailItems
<1>2. /\ \A i \in DOMAIN q : q[i] \in Own /\ stream[s].from < q[i]
      /\ \A i, j \in DOMAIN q : i < j => q[i] < q[j]
  BY DEF RowOK, QueueOK
<1>3. \A i \in DOMAIN stream[s].sent : \A j \in DOMAIN q :
         kind = "events" => stream[s].sent[i] < q[j] \/ q[j] \in stream[s].seen
  BY DEF RowOK, SentOK
<1> HIDE DEF p, q
<1>4. q[1] \in Own /\ q[1] \in Id /\ q[1] \in Nat
  BY <1>1, <1>2, IdFacts
<1>5. \A i \in DOMAIN p : p[i] \in Own /\ stream[s].from < p[i] /\ q[1] < p[i]
  <2> SUFFICES ASSUME NEW i \in DOMAIN p
               PROVE  p[i] \in Own /\ stream[s].from < p[i] /\ q[1] < p[i]
    OBVIOUS
  <2>1. i + 1 \in DOMAIN q /\ p[i] = q[i + 1] /\ 1 < i + 1
    BY <1>1
  <2> QED
    BY <1>1, <1>2, <2>1
<1>6. \A i, j \in DOMAIN p : i < j => p[i] < p[j]
  <2> SUFFICES ASSUME NEW i \in DOMAIN p, NEW j \in DOMAIN p, i < j PROVE p[i] < p[j]
    OBVIOUS
  <2>1. i + 1 \in DOMAIN q /\ j + 1 \in DOMAIN q /\ i + 1 < j + 1
    BY <1>1
  <2> QED
    BY <1>1, <1>2, <2>1
<1>7. \A i \in DOMAIN stream[s].sent : \A j \in DOMAIN p :
         kind = "events" => stream[s].sent[i] < p[j] \/ p[j] \in stream[s].seen
  BY <1>1, <1>3
<1>8. \A i \in DOMAIN stream[s].sent :
         kind = "events" => stream[s].sent[i] < q[1] \/ q[1] \in stream[s].seen
  BY <1>1, <1>3
<1> QED
  BY <1>1, <1>4, <1>5, <1>6, <1>7, <1>8 DEF p, q

LEMMA HeartbeatRowOK ==
    ASSUME BusTypes, NEW s \in Stream, RowOK(s), HeartbeatRace(s)
    PROVE  RowOK(s)'
<1>1. /\ stream[s].pc = "live" /\ stream[s].queue # <<>>
      /\ stream'[s].pc = "live" /\ stream'[s].queue = Tail(stream[s].queue)
      /\ stream'[s].sent = stream[s].sent /\ stream'[s].seen = stream[s].seen
      /\ stream'[s].cursor = stream[s].cursor /\ stream'[s].from = stream[s].from
      /\ table' = table /\ kind' = kind
  BY HeartbeatRow, RowType DEF HeartbeatRace, StreamRow
<1>2. Own' = Own /\ Id' = Id /\ ~Fresh(s) /\ ~Fresh(s)'
  BY <1>1 DEF Own, Id, Fresh
<1>3. QueueOK(s)'
  BY <1>1, <1>2, TailRowOK DEF RowOK, QueueOK
<1>4. SentOK(s)'
  BY <1>1, <1>2, TailRowOK DEF RowOK, SentOK
<1> QED
  BY <1>3, <1>4 DEF RowOK

LEMMA TakeRowOK ==
    ASSUME BusTypes, NEW s \in Stream, RowOK(s), Take(s)
    PROVE  RowOK(s)'
<1> DEFINE id == Head(stream[s].queue)
           a == stream[s].sent
<1>1. /\ stream[s].pc = "live" /\ stream[s].queue # <<>>
      /\ stream'[s].pc = "live" /\ stream'[s].queue = Tail(stream[s].queue)
      /\ stream'[s].cursor = stream[s].cursor /\ stream'[s].from = stream[s].from
      /\ table' = table /\ kind' = kind
  <2>1. stream'[s] = IF id \in stream[s].seen \/ ~Found(id)
                     THEN [stream[s] EXCEPT !.queue = Tail(@)]
                     ELSE [stream[s] EXCEPT !.queue = Tail(@), !.seen = @ \cup {id},
                                            !.sent = Append(@, id)]
    BY TakeRow
  <2>2. stream[s] \in StreamRow
    BY RowType
  <2>3. /\ stream'[s].pc = stream[s].pc /\ stream'[s].queue = Tail(stream[s].queue)
        /\ stream'[s].cursor = stream[s].cursor /\ stream'[s].from = stream[s].from
    BY <2>1, <2>2 DEF StreamRow
  <2> QED
    BY <2>3 DEF Take
<1>2. Own' = Own /\ Id' = Id /\ ~Fresh(s) /\ ~Fresh(s)'
  BY <1>1 DEF Own, Id, Fresh
<1>3. QueueOK(s)'
  BY <1>1, <1>2, TailRowOK DEF RowOK, QueueOK
<1>4. CASE id \in stream[s].seen \/ ~Found(id)
  <2>1. stream'[s].sent = a /\ stream'[s].seen = stream[s].seen
    BY <1>4, TakeRow, RowType DEF StreamRow
  <2>2. SentOK(s)'
    BY <1>1, <1>2, <2>1, TailRowOK DEF RowOK, SentOK
  <2> QED
    BY <1>3, <2>2 DEF RowOK
<1>5. CASE ~(id \in stream[s].seen \/ ~Found(id))
  <2>1. stream'[s].sent = Append(a, id) /\ stream'[s].seen = stream[s].seen \cup {id}
    BY <1>5, TakeRow, RowType DEF StreamRow
  <2>2. a \in Seq(Nat) /\ id \in Nat /\ id \in Id
    BY <1>1, RowType, TailRowOK
  <2> DEFINE b == Append(a, id)
  <2>3. /\ DOMAIN b = DOMAIN a \cup {Len(a) + 1} /\ Len(a) \in Nat
        /\ DOMAIN a = 1 .. Len(a)
        /\ b[Len(a) + 1] = id /\ \A i \in DOMAIN a : b[i] = a[i]
        /\ Range(b) = Range(a) \cup {id}
    BY <2>2, AppendItem
  <2>4. /\ stream[s].seen = Range(a) /\ stream[s].seen \subseteq Id
        /\ \A i, j \in DOMAIN a :
              i < j => IF kind = "events" THEN a[i] < a[j] ELSE a[i] # a[j]
    BY DEF RowOK, SentOK
  <2>5. /\ \A i \in DOMAIN a : a[i] # id /\ (kind = "events" => a[i] < id)
        /\ \A i \in DOMAIN a : \A j \in DOMAIN Tail(stream[s].queue) :
              kind = "events" => a[i] < Tail(stream[s].queue)[j]
                                 \/ Tail(stream[s].queue)[j] \in stream[s].seen
        /\ \A j \in DOMAIN Tail(stream[s].queue) : id < Tail(stream[s].queue)[j]
    BY <1>1, <1>5, <2>4, TailRowOK DEF Range
  <2> HIDE DEF a, b, id
  <2>6. \A i, j \in DOMAIN b :
           i < j => IF kind = "events" THEN b[i] < b[j] ELSE b[i] # b[j]
    <3> SUFFICES ASSUME NEW i \in DOMAIN b, NEW j \in DOMAIN b, i < j
                 PROVE  IF kind = "events" THEN b[i] < b[j] ELSE b[i] # b[j]
      OBVIOUS
    <3>1. i \in DOMAIN a
      BY <2>3
    <3>2. CASE j \in DOMAIN a
      BY <2>3, <2>4, <3>1, <3>2
    <3>3. CASE j = Len(a) + 1
      BY <2>3, <2>5, <3>1, <3>3
    <3> QED
      BY <2>3, <3>2, <3>3
  <2>7. \A i \in DOMAIN b : \A j \in DOMAIN Tail(stream[s].queue) :
           kind = "events" => b[i] < Tail(stream[s].queue)[j]
                              \/ Tail(stream[s].queue)[j] \in stream[s].seen \cup {id}
    BY <2>3, <2>5
  <2>8. stream[s].seen \cup {id} = Range(b) /\ stream[s].seen \cup {id} \subseteq Id
    BY <2>2, <2>3, <2>4
  <2>9. SentOK(s)'
    BY <1>1, <1>2, <2>1, <2>6, <2>7, <2>8 DEF SentOK, b
  <2> QED
    BY <1>3, <2>9 DEF RowOK
<1> QED
  BY <1>4, <1>5

LEMMA BusInvInit == Init => BusInv
<1> SUFFICES ASSUME Init PROVE BusInv
  OBVIOUS
<1>1. \A s \in Stream : stream[s] = New
  BY DEF Init
<1>2. New \in StreamRow
  <2>1. <<>> \in Seq(Nat) /\ 0 \in 0 .. MaxStreams
    BY EventStreamAssumption
  <2> QED
    BY <2>1 DEF New, StreamRow, StreamPc
<1>3. BusTypes
  <2>1. /\ table = <<>> /\ <<>> \in Seq(BOOLEAN) /\ Len(table) <= MaxRows
        /\ channel \in 0 .. MaxStreams
    BY EventStreamAssumption DEF Init
  <2>2. stream \in [Stream -> StreamRow]
    BY <1>2 DEF Init
  <2> QED
    BY <2>1, <2>2 DEF BusTypes, Init
<1>4. \A s \in Stream : /\ stream[s].pc = "new" /\ stream[s].conn = 0 /\ stream[s].queue = <<>>
                        /\ stream[s].sent = <<>> /\ stream[s].seen = {}
                        /\ stream[s].cursor = 0 /\ stream[s].from = 0 /\ Fresh(s)
  BY <1>1 DEF New, Fresh
<1>5. BusPart
  <2>1. FreshApart
    BY <1>4, StreamNat DEF FreshApart, Init
  <2>2. ChannelHeard /\ Tidy /\ \A s \in Stream : Heard(s)
    BY <1>4 DEF ChannelHeard, Tidy, Heard, Init
  <2> QED
    BY <2>1, <2>2 DEF BusPart
<1>6. ASSUME NEW s \in Stream PROVE RowOK(s)
  <2>1. DOMAIN <<>> = {} /\ Range(<<>>) = {} /\ Len(table) \in Nat
    BY <1>3, IdFacts DEF Range
  <2>2. QueueOK(s)
    BY <1>4, <2>1 DEF QueueOK
  <2>3. SentOK(s)
    BY <1>4, <2>1 DEF SentOK
  <2> QED
    BY <2>2, <2>3 DEF RowOK
<1> QED
  BY <1>3, <1>5, <1>6 DEF BusInv

LEMMA BusPartNext == ASSUME BusInv, [Next]_vars PROVE BusPart'
<1> USE DEF BusInv
<1>1. CASE UNCHANGED vars
  <2>1. \A t \in Stream : stream'[t] = stream[t]
    BY <1>1 DEF vars
  <2> QED
    BY <1>1, <2>1, BusKept DEF vars
<1>2. ASSUME NEW own \in BOOLEAN, CommitRow(own) PROVE BusPart'
  <2>1. ASSUME NEW t \in Stream
        PROVE  stream'[t].conn = stream[t].conn /\ stream'[t].pc = stream[t].pc
    <3>1. stream'[t] = [stream[t] EXCEPT !.queue = stream'[t].queue]
      BY <1>2, CommitRows
    <3> QED
      BY <3>1, RowType DEF StreamRow
  <2>2. UNCHANGED <<bus, mishaps>>
    BY <1>2 DEF CommitRow
  <2> QED
    BY <2>1, <2>2, BusKept
<1>3. ASSUME NEW id \in Id, Acknowledge(id) PROVE BusPart'
  <2>1. UNCHANGED <<bus, mishaps>> /\ stream' = stream
    BY <1>3 DEF Acknowledge
  <2> QED
    BY <2>1, BusKept
<1>4. ASSUME NEW s \in Stream, Subscribe(s) PROVE BusPart'
  BY <1>4, SubscribeBus DEF RowOK
<1>5. ASSUME NEW s \in Stream, CancelSubscribe(s) PROVE BusPart'
  BY <1>5, CancelBus
<1>6. ASSUME NEW s \in Stream, Disconnect(s) PROVE BusPart'
  BY <1>6, DisconnectBus
<1>7. ASSUME NEW s \in Stream, HeartbeatRace(s) PROVE BusPart'
  <2>1. \A t \in Stream : stream'[t].conn = stream[t].conn /\ stream'[t].pc = stream[t].pc
    BY <1>7, HeartbeatRow, RowType DEF StreamRow
  <2>2. UNCHANGED <<bus, mishaps>>
    BY <1>7 DEF HeartbeatRace
  <2> QED
    BY <2>1, <2>2, BusKept
<1>8. ASSUME NEW s \in Stream, Step(s) PROVE BusPart'
  <2>1. CASE Acquire(s)
    BY <2>1, AcquireBus
  <2>2. CASE Listen(s)
    BY <2>2, ListenBus
  <2>3. CASE Unlisten(s)
    BY <2>3, UnlistenBus
  <2>4. CASE Release(s)
    BY <2>4, ReleaseBus
  <2>5. CASE Replay(s)
    <3>1. /\ stream[s].pc = "replay" /\ stream'[s].pc = "live"
          /\ stream'[s].conn = stream[s].conn
          /\ \A t \in Stream : t # s => stream'[t] = stream[t]
      BY <2>5, ReplayRow, RowType DEF Replay, StreamRow
    <3>2. UNCHANGED <<bus, mishaps>>
      BY <2>5 DEF Replay
    <3> QED
      BY <3>1, <3>2, BusKept
  <2>6. CASE Take(s)
    <3>1. \A t \in Stream : stream'[t].conn = stream[t].conn /\ stream'[t].pc = stream[t].pc
      BY <2>6, TakeRow, RowType, ZenonT(60) DEF StreamRow
    <3>2. UNCHANGED <<bus, mishaps>>
      BY <2>6 DEF Take
    <3> QED
      BY <3>1, <3>2, BusKept
  <2> QED
    BY <1>8, <2>1, <2>2, <2>3, <2>4, <2>5, <2>6 DEF Step
<1>9. CASE Quiet \/ Exhausted
  BY <1>1, <1>9 DEF Quiet, Exhausted
<1> QED
  BY <1>1, <1>2, <1>3, <1>4, <1>5, <1>6, <1>7, <1>8, <1>9 DEF Next

LEMMA RowOKNext == ASSUME BusInv, [Next]_vars, NEW t \in Stream PROVE RowOK(t)'
<1> USE DEF BusInv
<1>1. CASE UNCHANGED vars
  BY <1>1, RowSame DEF vars
<1>2. ASSUME NEW own \in BOOLEAN, CommitRow(own) PROVE RowOK(t)'
  BY <1>2, CommitRowOK
<1>3. ASSUME NEW id \in Id, Acknowledge(id) PROVE RowOK(t)'
  BY <1>3, RowSame DEF Acknowledge
<1>4. ASSUME NEW s \in Stream, Subscribe(s) PROVE RowOK(t)'
  <2>1. CASE t = s
    BY <1>4, <2>1, SubscribeRowOK
  <2>2. CASE t # s
    <3>1. stream'[t] = stream[t] /\ UNCHANGED <<table, kind>>
      BY <1>4, <2>2, SubscribeRow DEF Subscribe, RowOK
    <3> QED
      BY <3>1, RowSame
  <2> QED
    BY <2>1, <2>2
<1>5. ASSUME NEW s \in Stream, CancelSubscribe(s) PROVE RowOK(t)'
  <2>1. CASE t = s
    <3>1. /\ stream'[s].queue = stream[s].queue /\ stream'[s].seen = stream[s].seen
          /\ stream'[s].sent = stream[s].sent /\ stream'[s].cursor = stream[s].cursor
          /\ stream'[s].from = stream[s].from /\ stream'[s].pc = "closed"
          /\ UNCHANGED <<table, kind>>
      <4>1. stream'[s] = [stream[s] EXCEPT !.pc = "closed"] /\ stream[s] \in StreamRow
        BY <1>5, CancelRow, RowType
      <4>2. UNCHANGED <<table, kind>>
        BY <1>5 DEF CancelSubscribe
      <4> QED
        BY <4>1, <4>2 DEF StreamRow
    <3>2. ~Fresh(s)'
      BY <3>1 DEF Fresh
    <3> QED
      BY <2>1, <3>1, <3>2, RowKept
  <2>2. CASE t # s
    <3>1. stream'[t] = stream[t] /\ UNCHANGED <<table, kind>>
      BY <1>5, <2>2, CancelRow DEF CancelSubscribe
    <3> QED
      BY <3>1, RowSame
  <2> QED
    BY <2>1, <2>2
<1>6. ASSUME NEW s \in Stream, Disconnect(s) PROVE RowOK(t)'
  <2>1. CASE t = s
    <3>1. /\ stream'[s].queue = stream[s].queue /\ stream'[s].seen = stream[s].seen
          /\ stream'[s].sent = stream[s].sent /\ stream'[s].cursor = stream[s].cursor
          /\ stream'[s].from = stream[s].from /\ stream'[s].pc \in {"unlisten", "closed"}
          /\ UNCHANGED <<table, kind>>
      <4>1. /\ \/ stream'[s] = [stream[s] EXCEPT !.pc = "unlisten", !.conn = channel]
               \/ stream'[s] = [stream[s] EXCEPT !.pc = "closed"]
            /\ stream[s] \in StreamRow
        BY <1>6, DisconnectRow, RowType
      <4>2. UNCHANGED <<table, kind>>
        BY <1>6 DEF Disconnect
      <4> QED
        BY <4>1, <4>2 DEF StreamRow
    <3>2. ~Fresh(s)' /\ stream'[s].pc # "replay"
      BY <3>1 DEF Fresh
    <3> QED
      BY <2>1, <3>1, <3>2, RowKept
  <2>2. CASE t # s
    <3>1. stream'[t] = stream[t] /\ UNCHANGED <<table, kind>>
      BY <1>6, <2>2, DisconnectRow DEF Disconnect
    <3> QED
      BY <3>1, RowSame
  <2> QED
    BY <2>1, <2>2
<1>7. ASSUME NEW s \in Stream, HeartbeatRace(s) PROVE RowOK(t)'
  <2>1. CASE t = s
    BY <1>7, <2>1, HeartbeatRowOK
  <2>2. CASE t # s
    BY <1>7, <2>2, HeartbeatRow, RowSame DEF HeartbeatRace
  <2> QED
    BY <2>1, <2>2
<1>8. ASSUME NEW s \in Stream, Step(s) PROVE RowOK(t)'
  <2>0. ASSUME t # s, stream'[t] = stream[t], UNCHANGED <<table, kind>> PROVE RowOK(t)'
    BY <2>0, RowSame
  <2>1. CASE Acquire(s)
    <3>1. /\ stream'[s].queue = stream[s].queue /\ stream'[s].seen = stream[s].seen
          /\ stream'[s].sent = stream[s].sent /\ stream'[s].cursor = stream[s].cursor
          /\ stream'[s].from = stream[s].from /\ stream'[s].pc = "listen" /\ Fresh(s)
          /\ UNCHANGED <<table, kind>>
      <4>1. /\ stream'[s] = [stream[s] EXCEPT !.pc = "listen", !.conn = s]
            /\ stream[s] \in StreamRow
        BY <2>1, AcquireRow, RowType
      <4>2. Fresh(s) /\ UNCHANGED <<table, kind>>
        BY <2>1 DEF Acquire, Fresh
      <4> QED
        BY <4>1, <4>2 DEF StreamRow
    <3>2. t # s => stream'[t] = stream[t]
      BY <2>1, AcquireRow
    <3> QED
      BY <2>0, <3>1, <3>2, RowKept
  <2>2. CASE Listen(s)
    BY <2>0, <2>2, ListenRow, ListenRowOK DEF Listen
  <2>3. CASE Unlisten(s)
    <3>1. /\ stream'[s].queue = stream[s].queue /\ stream'[s].seen = stream[s].seen
          /\ stream'[s].sent = stream[s].sent /\ stream'[s].cursor = stream[s].cursor
          /\ stream'[s].from = stream[s].from /\ stream'[s].pc = "release"
          /\ UNCHANGED <<table, kind>>
      <4>1. /\ stream'[s] = [stream[s] EXCEPT !.pc = "release"]
            /\ stream[s] \in StreamRow
        BY <2>3, UnlistenRow, RowType
      <4>2. UNCHANGED <<table, kind>>
        BY <2>3 DEF Unlisten
      <4> QED
        BY <4>1, <4>2 DEF StreamRow
    <3>2. ~Fresh(s)' /\ (t # s => stream'[t] = stream[t])
      BY <2>3, <3>1, UnlistenRow DEF Fresh
    <3> QED
      BY <2>0, <3>1, <3>2, RowKept
  <2>4. CASE Release(s)
    <3>1. /\ stream'[s].queue = stream[s].queue /\ stream'[s].seen = stream[s].seen
          /\ stream'[s].sent = stream[s].sent /\ stream'[s].cursor = stream[s].cursor
          /\ stream'[s].from = stream[s].from /\ stream'[s].pc = "closed"
          /\ UNCHANGED <<table, kind>>
      <4>1. /\ stream'[s] = [stream[s] EXCEPT !.pc = "closed"]
            /\ stream[s] \in StreamRow
        BY <2>4, ReleaseRow, RowType
      <4>2. UNCHANGED <<table, kind>>
        BY <2>4 DEF Release
      <4> QED
        BY <4>1, <4>2 DEF StreamRow
    <3>2. ~Fresh(s)' /\ (t # s => stream'[t] = stream[t])
      BY <2>4, <3>1, ReleaseRow DEF Fresh
    <3> QED
      BY <2>0, <3>1, <3>2, RowKept
  <2>5. CASE Replay(s)
    BY <2>0, <2>5, ReplayRow, ReplayRowOK DEF Replay
  <2>6. CASE Take(s)
    BY <2>0, <2>6, TakeRow, TakeRowOK DEF Take
  <2> QED
    BY <1>8, <2>1, <2>2, <2>3, <2>4, <2>5, <2>6 DEF Step
<1>9. CASE Quiet \/ Exhausted
  BY <1>1, <1>9 DEF Quiet, Exhausted
<1> QED
  BY <1>1, <1>2, <1>3, <1>4, <1>5, <1>6, <1>7, <1>8, <1>9 DEF Next

LEMMA BusInvNext == BusInv /\ [Next]_vars => BusInv'
<1> SUFFICES ASSUME BusInv, [Next]_vars PROVE BusInv'
  OBVIOUS
<1>1. BusTypes'
  BY BusTypesNext DEF BusInv, RowOK
<1>2. \A t \in Stream : RowOK(t)'
  BY RowOKNext
<1> QED
  BY <1>1, <1>2, BusPartNext DEF BusInv

\* Whatever the limits of the queries are, no row is sent twice on a stream,
\* a source's events are sent in the order of their ids, and connections of
\* the pool come back (_sse_generator, notification_sse_generator, PgEventBus).
THEOREM SentOnceAlways == Spec => [](SentOnce /\ ConnectionsReturned)
<1>1. BusInv => SentOnce /\ ConnectionsReturned
  <2> SUFFICES ASSUME BusInv PROVE SentOnce /\ ConnectionsReturned
    OBVIOUS
  <2>1. SentOnce
    BY DEF BusInv, RowOK, SentOK, SentOnce
  <2>2. ASSUME mishaps = {}, \A s \in Stream : stream[s].pc \in {"new", "closed"}
        PROVE  taken = {} /\ listening = {} /\ channel = 0
    <3>1. Tidy /\ taken \subseteq Stream /\ listening \subseteq Stream
      BY DEF BusInv, BusPart, BusTypes
    <3>2. channel = 0
      <4> SUFFICES ASSUME channel # 0 PROVE FALSE
        OBVIOUS
      <4>1. ~Closing(channel)
        BY <2>2 DEF Closing
      <4>2. callbacks[channel] # {} /\ callbacks[channel] \subseteq Stream
        BY <2>2, <3>1, <4>1, ChannelType DEF Tidy, BusInv, BusTypes
      <4>3. \A s \in callbacks[channel] : stream[s].pc \in {"replay", "live"}
        BY <2>2, <3>1 DEF Tidy
      <4> QED
        BY <2>2, <4>2, <4>3
    <3>3. 0 \notin Stream
      BY StreamNat
    <3> QED
      BY <2>2, <3>1, <3>2, <3>3 DEF Tidy
  <2> QED
    BY <2>1, <2>2 DEF ConnectionsReturned
<1> QED
  BY <1>1, BusInvInit, BusInvNext, PTL DEF Spec

-----------------------------------------------------------------------------
(* EventStream: nothing is lost                                            *)

Kept(s) == Range(stream[s].queue) \cup Range(stream[s].sent) \cup stream[s].lost

LEMMA CoveredKept ==
    ASSUME NEW t \in Stream, Covered(t), UNCHANGED <<table, kind>>, acked \subseteq acked',
           mishaps \subseteq mishaps',
           stream'[t].queue = stream[t].queue, stream'[t].sent = stream[t].sent,
           stream'[t].lost = stream[t].lost, stream'[t].cursor = stream[t].cursor,
           stream'[t].from = stream[t].from,
           stream'[t].pc \in {"replay", "live"} => stream'[t].pc = stream[t].pc
    PROVE  Covered(t)'
<1>1. Own' = Own /\ Kept(t)' = Kept(t)
  BY DEF Own, Id, Kept
<1>2. Owed(t)' \subseteq Owed(t)
  BY <1>1 DEF Owed
<1>3. Joined(t) => Joined(t)'
  BY DEF Joined
<1> QED
  BY <1>1, <1>2, <1>3 DEF Covered, Kept

LEMMA CoveredSame ==
    ASSUME NEW t \in Stream, Covered(t), UNCHANGED <<table, kind>>, acked \subseteq acked',
           mishaps \subseteq mishaps', stream'[t] = stream[t]
    PROVE  Covered(t)'
BY CoveredKept

\* With a limit that is not reached, the replay query returns all it selects
\* and the row of a notification is found.
LEMMA LimitsIdle ==
    ASSUME BusTypes, MaxRows <= ReplayLimit, MaxRows <= LiveLimit
    PROVE  /\ \A s \in Stream : Missed(s) = Selected(s)
           /\ \A id \in Own : Found(id)
<1>1. MaxRows \in Nat /\ ReplayLimit \in Nat /\ LiveLimit \in Nat
  BY EventStreamAssumption
<1>2. ASSUME NEW S \in SUBSET Own, NEW n \in Nat, MaxRows <= n
      PROVE  Smallest(S, n) = S
  <2>1. S \in SUBSET Nat /\ IsFiniteSet(S) /\ Cardinality(S) \in Nat /\ Cardinality(S) <= MaxRows
    BY IdFacts, IdSubsets
  <2>2. Cardinality(S) <= n
    BY <1>1, <1>2, <2>1
  <2> QED
    BY <2>1, <2>2, SmallestAll
<1>3. \A s \in Stream : Missed(s) = Selected(s)
  BY <1>1, <1>2, MissedFacts
<1>4. \A id \in Own : Found(id)
  BY <1>1, <1>2 DEF Found
<1> QED
  BY <1>3, <1>4

LEMMA CommitCovered ==
    ASSUME BusInv, NEW own \in BOOLEAN, CommitRow(own), NEW t \in Stream, Covered(t)
    PROVE  Covered(t)'
<1> DEFINE n == Len(table) + 1
<1>1. /\ Own' = IF own THEN Own \cup {n} ELSE Own
      /\ stream'[t].queue = IF own /\ \E k \in listening : t \in callbacks[k]
                            THEN Append(stream[t].queue, n) ELSE stream[t].queue
      /\ kind' = kind /\ acked' = acked /\ mishaps' = mishaps
  BY CommitRows DEF CommitRow, BusInv
<1>2. /\ stream'[t].pc = stream[t].pc /\ stream'[t].sent = stream[t].sent
      /\ stream'[t].lost = stream[t].lost /\ stream'[t].cursor = stream[t].cursor
      /\ stream'[t].from = stream[t].from
  <2>1. stream'[t] = [stream[t] EXCEPT !.queue = stream'[t].queue]
    BY CommitRows DEF BusInv
  <2> QED
    BY <2>1, RowType DEF StreamRow, BusInv
<1> SUFFICES ASSUME ~Joined(t), stream[t].pc \in {"replay", "live"} PROVE Covered(t)'
  BY <1>1, <1>2 DEF Covered, Joined
<1>3. \E k \in listening : t \in callbacks[k]
  BY DEF BusInv, BusPart, Heard
<1>4. Range(stream'[t].queue) = IF own THEN Range(stream[t].queue) \cup {n}
                                ELSE Range(stream[t].queue)
  <2>1. stream[t].queue \in Seq(Nat) /\ n \in Nat
    BY RowType, IdFacts DEF BusInv
  <2>2. CASE own
    <3>1. stream'[t].queue = Append(stream[t].queue, n)
      BY <1>1, <1>3, <2>2
    <3>2. Range(Append(stream[t].queue, n)) = Range(stream[t].queue) \cup {n}
      BY <2>1, AppendItem
    <3> QED
      BY <2>2, <3>1, <3>2
  <2>3. CASE ~own
    BY <1>1, <2>3
  <2> QED
    BY <2>2, <2>3
<1>5. Owed(t)' \subseteq IF own THEN Owed(t) \cup {n} ELSE Owed(t)
  BY <1>1, <1>2 DEF Owed
<1>6. Kept(t)' = IF own THEN Kept(t) \cup {n} ELSE Kept(t)
  BY <1>2, <1>4 DEF Kept
<1> QED
  BY <1>1, <1>2, <1>5, <1>6 DEF Covered, Kept, Joined

\* Nothing was committed since the moment the subscription came into effect.
LEMMA OpenedCovered ==
    ASSUME BusTypes, NEW s \in Stream, table' = table, stream'[s].pc # "live",
           stream'[s].pc = "replay" => stream'[s].from = Len(table)
    PROVE  Covered(s)'
<1>1. Own' = Own /\ Len(table) \in Nat /\ \A i \in Own : i \in Nat /\ ~(Len(table) < i)
  <2>1. \A i \in Id : i \in Nat /\ ~(Len(table) < i)
    BY IdFacts
  <2> QED
    BY <2>1, IdFacts DEF Own, Id
<1>2. stream'[s].pc = "replay" => {i \in Own' : stream'[s].from < i} = {}
  BY <1>1
<1> QED
  BY <1>2 DEF Covered

LEMMA ReplayCovered ==
    ASSUME BusInv, NEW s \in Stream, Replay(s), Covered(s),
           MaxRows <= ReplayLimit, MaxRows <= LiveLimit
    PROVE  Covered(s)'
<1>1. /\ stream[s].pc = "replay"
      /\ stream'[s].pc = "live" /\ stream'[s].queue = stream[s].queue
      /\ stream'[s].sent = Ascending(Missed(s)) /\ stream'[s].lost = stream[s].lost
      /\ stream'[s].cursor = stream[s].cursor /\ stream'[s].from = stream[s].from
      /\ UNCHANGED <<table, kind, acked, mishaps>>
  <2>1. stream'[s] = [stream[s] EXCEPT !.pc = "live", !.sent = Ascending(Missed(s)),
                                       !.seen = Missed(s)]
    BY ReplayRow DEF BusInv
  <2>2. stream[s] \in StreamRow
    BY RowType DEF BusInv
  <2>3. stream[s].pc = "replay" /\ UNCHANGED <<table, kind, acked, mishaps>>
    BY DEF Replay
  <2> QED
    BY <2>1, <2>2, <2>3 DEF StreamRow
<1> SUFFICES ASSUME ~Joined(s) PROVE Owed(s)' \subseteq Kept(s)'
  BY <1>1 DEF Covered, Kept, Joined
<1>2. Range(stream'[s].sent) = Selected(s)
  BY <1>1, MissedFacts, AscendingFacts, LimitsIdle DEF BusInv
<1>3. Own' = Own
  BY <1>1 DEF Own, Id
<1>4. stream[s].sent = <<>> /\ Range(<<>>) = {}
  BY <1>1 DEF BusInv, RowOK, SentOK, Range
<1>5. {i \in Own : stream[s].from < i} \subseteq Range(stream[s].queue) \cup stream[s].lost
  BY <1>1, <1>4 DEF Covered
<1>6. CASE kind = "events" /\ stream[s].cursor = 0
  <2>1. \A i \in Owed(s)' : i \in Own /\ i > stream[s].from
    BY <1>1, <1>3, <1>6 DEF Owed
  <2> QED
    BY <1>1, <1>5, <2>1 DEF Kept
<1>7. CASE ~(kind = "events" /\ stream[s].cursor = 0)
  <2>1. Owed(s)' \subseteq Selected(s)
    BY <1>1, <1>3, <1>7 DEF Owed, Selected
  <2> QED
    BY <1>2, <2>1 DEF Kept
<1> QED
  BY <1>6, <1>7

LEMMA QueueHead ==
    ASSUME BusInv, NEW s \in Stream, stream[s].pc = "live", stream[s].queue # <<>>
    PROVE  /\ Range(stream[s].queue) = Range(Tail(stream[s].queue)) \cup {Head(stream[s].queue)}
           /\ Head(stream[s].queue) \in Own /\ Head(stream[s].queue) \in Nat
<1>1. stream[s].queue \in Seq(Nat)
  BY RowType DEF BusInv
<1> QED
  BY <1>1, TailItems, TailRowOK DEF BusInv

LEMMA HeartbeatCovered ==
    ASSUME BusInv, NEW s \in Stream, HeartbeatRace(s), Covered(s)
    PROVE  Covered(s)'
<1>1. /\ stream[s].pc = "live" /\ stream[s].queue # <<>>
      /\ stream'[s].pc = "live" /\ stream'[s].queue = Tail(stream[s].queue)
      /\ stream'[s].lost = stream[s].lost \cup {Head(stream[s].queue)}
      /\ stream'[s].sent = stream[s].sent
      /\ stream'[s].cursor = stream[s].cursor /\ stream'[s].from = stream[s].from
      /\ UNCHANGED <<table, kind, acked, mishaps>>
  <2>1. stream'[s] = [stream[s] EXCEPT !.queue = Tail(@),
                                       !.lost = @ \cup {Head(stream[s].queue)}]
    BY HeartbeatRow DEF BusInv
  <2>2. stream[s] \in StreamRow
    BY RowType DEF BusInv
  <2>3. /\ stream[s].pc = "live" /\ stream[s].queue # <<>>
        /\ UNCHANGED <<table, kind, acked, mishaps>>
    BY DEF HeartbeatRace
  <2> QED
    BY <2>1, <2>2, <2>3 DEF StreamRow
<1>2. Kept(s)' = Kept(s)
  BY <1>1, QueueHead DEF Kept
<1>3. Owed(s)' = Owed(s)
  BY <1>1 DEF Owed, Own, Id
<1> QED
  BY <1>1, <1>2, <1>3 DEF Covered, Kept, Joined

LEMMA TakeCovered ==
    ASSUME BusInv, NEW s \in Stream, Take(s), Covered(s),
           MaxRows <= ReplayLimit, MaxRows <= LiveLimit
    PROVE  Covered(s)'
<1> DEFINE id == Head(stream[s].queue)
<1>0. /\ stream[s].pc = "live" /\ stream[s].queue # <<>>
      /\ UNCHANGED <<table, kind, acked, mishaps>>
  BY DEF Take
<1>1. Found(id)
  BY <1>0, QueueHead, LimitsIdle DEF BusInv
<1>2. /\ stream'[s].pc = "live" /\ stream'[s].queue = Tail(stream[s].queue)
      /\ stream'[s].lost = stream[s].lost
      /\ stream'[s].sent = IF id \in stream[s].seen THEN stream[s].sent
                           ELSE Append(stream[s].sent, id)
      /\ stream'[s].cursor = stream[s].cursor /\ stream'[s].from = stream[s].from
  <2>1. stream'[s] = IF id \in stream[s].seen
                     THEN [stream[s] EXCEPT !.queue = Tail(@)]
                     ELSE [stream[s] EXCEPT !.queue = Tail(@), !.seen = @ \cup {id},
                                            !.sent = Append(@, id)]
    BY <1>1, TakeRow DEF BusInv
  <2>2. stream[s] \in StreamRow
    BY RowType DEF BusInv
  <2> QED
    BY <1>0, <2>1, <2>2 DEF StreamRow
<1>3. Range(stream'[s].sent) = Range(stream[s].sent) \cup {id}
  <2>1. CASE id \in stream[s].seen
    BY <1>2, <2>1 DEF BusInv, RowOK, SentOK
  <2>2. CASE id \notin stream[s].seen
    <3>1. stream[s].sent \in Seq(Nat) /\ id \in Nat
      BY <1>0, RowType, QueueHead DEF BusInv
    <3> QED
      BY <1>2, <2>2, <3>1, AppendItem
  <2> QED
    BY <2>1, <2>2
<1>4. Kept(s)' = Kept(s)
  BY <1>0, <1>2, <1>3, QueueHead DEF Kept
<1>5. Owed(s)' = Owed(s)
  BY <1>0, <1>2 DEF Owed, Own, Id
<1> QED
  BY <1>0, <1>2, <1>4, <1>5 DEF Covered, Kept, Joined

LEMMA CoveredNext ==
    ASSUME BusInv, [Next]_vars, \A u \in Stream : Covered(u), NEW t \in Stream,
           MaxRows <= ReplayLimit, MaxRows <= LiveLimit
    PROVE  Covered(t)'
<1>0. BusTypes /\ (\A u \in Stream : SentOK(u)) /\ stream[t] \in StreamRow
  BY RowType DEF BusInv, RowOK
<1>1. CASE UNCHANGED vars
  BY <1>1, CoveredSame DEF vars
<1>2. ASSUME NEW own \in BOOLEAN, CommitRow(own) PROVE Covered(t)'
  BY <1>2, CommitCovered
<1>3. ASSUME NEW id \in Id, Acknowledge(id) PROVE Covered(t)'
  BY <1>3, CoveredSame DEF Acknowledge
<1>4. ASSUME NEW s \in Stream, Subscribe(s) PROVE Covered(t)'
  <2>1. /\ UNCHANGED <<table, kind, acked>> /\ mishaps \subseteq mishaps'
    BY <1>4 DEF Subscribe
  <2>2. /\ t = s => /\ stream'[t].pc # "live"
                    /\ stream'[t].pc = "replay" => stream'[t].from = Len(table)
        /\ t # s => stream'[t] = stream[t]
    BY <1>0, <1>4, SubscribeRow
  <2> QED
    BY <1>0, <2>1, <2>2, OpenedCovered, CoveredSame
<1>5. ASSUME NEW s \in Stream, CancelSubscribe(s) PROVE Covered(t)'
  <2>1. UNCHANGED <<table, kind, acked>> /\ mishaps \subseteq mishaps'
    BY <1>5 DEF CancelSubscribe
  <2>2. \/ stream'[t] = stream[t]
        \/ stream'[t] = [stream[t] EXCEPT !.pc = "closed"]
    BY <1>0, <1>5, CancelRow
  <2>3. stream'[t] = stream[t] \/ stream'[t].pc = "closed"
    BY <1>0, <2>2 DEF StreamRow
  <2> QED
    BY <1>0, <2>1, <2>3, CoveredSame, OpenedCovered
<1>6. ASSUME NEW s \in Stream, Disconnect(s) PROVE Covered(t)'
  <2>1. UNCHANGED <<table, kind, acked, mishaps>>
    BY <1>6 DEF Disconnect
  <2>2. \/ stream'[t] = stream[t]
        \/ stream'[t] = [stream[t] EXCEPT !.pc = "closed"]
        \/ stream'[t] = [stream[t] EXCEPT !.pc = "unlisten", !.conn = channel]
    BY <1>0, <1>6, DisconnectRow
  <2>3. stream'[t] = stream[t] \/ stream'[t].pc \in {"closed", "unlisten"}
    BY <1>0, <2>2 DEF StreamRow
  <2> QED
    BY <1>0, <2>1, <2>3, CoveredSame, OpenedCovered
<1>7. ASSUME NEW s \in Stream, HeartbeatRace(s) PROVE Covered(t)'
  <2>1. UNCHANGED <<table, kind, acked, mishaps>> /\ (t # s => stream'[t] = stream[t])
    BY <1>0, <1>7, HeartbeatRow DEF HeartbeatRace
  <2> QED
    BY <1>7, <2>1, CoveredSame, HeartbeatCovered
<1>8. ASSUME NEW s \in Stream, Step(s) PROVE Covered(t)'
  <2>1. CASE Acquire(s)
    <3>1. UNCHANGED <<table, kind, acked>> /\ mishaps \subseteq mishaps'
      BY <2>1 DEF Acquire
    <3>2. \/ stream'[t] = stream[t]
          \/ stream'[t] = [stream[t] EXCEPT !.pc = "listen", !.conn = s]
      BY <1>0, <2>1, AcquireRow
    <3>3. stream'[t] = stream[t] \/ stream'[t].pc = "listen"
      BY <1>0, <3>2 DEF StreamRow
    <3> QED
      BY <1>0, <3>1, <3>3, CoveredSame, OpenedCovered
  <2>2. CASE Listen(s)
    <3>1. UNCHANGED <<table, kind, acked>> /\ mishaps \subseteq mishaps'
      BY <2>2 DEF Listen
    <3>2. \/ stream'[t] = stream[t]
          \/ stream'[t] = [stream[t] EXCEPT !.pc = "replay", !.from = Len(table)]
      BY <1>0, <2>2, ListenRow
    <3>3. stream'[t] = stream[t] \/ (stream'[t].pc = "replay" /\ stream'[t].from = Len(table))
      BY <1>0, <3>2 DEF StreamRow
    <3> QED
      BY <1>0, <3>1, <3>3, CoveredSame, OpenedCovered
  <2>3. CASE Unlisten(s)
    <3>1. UNCHANGED <<table, kind, acked, mishaps>>
      BY <2>3 DEF Unlisten
    <3>2. stream'[t] = stream[t] \/ stream'[t] = [stream[t] EXCEPT !.pc = "release"]
      BY <1>0, <2>3, UnlistenRow
    <3>3. stream'[t] = stream[t] \/ stream'[t].pc = "release"
      BY <1>0, <3>2 DEF StreamRow
    <3> QED
      BY <1>0, <3>1, <3>3, CoveredSame, OpenedCovered
  <2>4. CASE Release(s)
    <3>1. UNCHANGED <<table, kind, acked, mishaps>>
      BY <2>4 DEF Release
    <3>2. stream'[t] = stream[t] \/ stream'[t] = [stream[t] EXCEPT !.pc = "closed"]
      BY <1>0, <2>4, ReleaseRow
    <3>3. stream'[t] = stream[t] \/ stream'[t].pc = "closed"
      BY <1>0, <3>2 DEF StreamRow
    <3> QED
      BY <1>0, <3>1, <3>3, CoveredSame, OpenedCovered
  <2>5. CASE Replay(s)
    <3>1. UNCHANGED <<table, kind, acked, mishaps>> /\ (t # s => stream'[t] = stream[t])
      BY <1>0, <2>5, ReplayRow DEF Replay
    <3> QED
      BY <2>5, <3>1, CoveredSame, ReplayCovered
  <2>6. CASE Take(s)
    <3>1. UNCHANGED <<table, kind, acked, mishaps>> /\ (t # s => stream'[t] = stream[t])
      BY <1>0, <2>6, TakeRow DEF Take
    <3> QED
      BY <2>6, <3>1, CoveredSame, TakeCovered
  <2> QED
    BY <1>8, <2>1, <2>2, <2>3, <2>4, <2>5, <2>6 DEF Step
<1>9. CASE Quiet \/ Exhausted
  BY <1>1, <1>9 DEF Quiet, Exhausted
<1> QED
  BY <1>1, <1>2, <1>3, <1>4, <1>5, <1>6, <1>7, <1>8, <1>9 DEF Next

\* While the rows of a table stay within the LIMIT of the two queries, every
\* row a stream owes its client is sent, once and in order, however commits,
\* subscriptions, replays, acknowledgements and disconnects of any number of
\* streams interleave, except for what a heartbeat races with and for streams
\* that join a channel being torn down; and the connections come back.
THEOREM DeliveredOnceAlways ==
    ASSUME MaxRows <= ReplayLimit, MaxRows <= LiveLimit
    PROVE  Spec => []DeliveredOnce
<1> DEFINE Covering == \A s \in Stream : Covered(s)
<1>1. Init => BusInv /\ Covering
  <2>1. Init => Covering
    <3> SUFFICES ASSUME Init, NEW s \in Stream PROVE Covered(s)
      OBVIOUS
    <3>1. stream[s].pc = "new"
      BY DEF Init, New
    <3> QED
      BY <3>1 DEF Covered
  <2> QED
    BY <2>1, BusInvInit
<1>2. BusInv /\ Covering /\ [Next]_vars => (BusInv /\ Covering)'
  BY BusInvNext, CoveredNext
<1>3. BusInv /\ Covering => NothingLost
  <2> SUFFICES ASSUME BusInv, NEW s \in Stream, Covered(s), stream[s].pc = "live",
                      stream[s].queue = <<>>, ~Joined(s)
               PROVE  Owed(s) \subseteq Range(stream[s].sent) \cup stream[s].lost
    BY DEF NothingLost, Joined
  <2>1. Range(<<>>) = {}
    BY DEF Range
  <2> QED
    BY <2>1 DEF Covered
<1> HIDE DEF Covering
<1> QED
  BY <1>1, <1>2, <1>3, SentOnceAlways, PTL DEF Spec, DeliveredOnce
=============================================================================
