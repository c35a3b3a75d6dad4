---------------------------- MODULE EventStream -----------------------------
(***************************************************************************)
(* The two SSE streams, of a source's events (orxtra.incoming) and of a    *)
(* principal's notifications (orxtra.notification), on the PgEventBus they *)
(* share.  A stream subscribes, replays what it missed from the table and  *)
(* then sends what the bus announces, without what it has already sent.    *)
(*                                                                         *)
(* Every stream is one connection of the client, which reconnects with the *)
(* id of the last row it received.  A row's INSERT fires the trigger whose *)
(* NOTIFY PostgreSQL delivers at the commit to every connection that       *)
(* listens; ids grow with the commits here (see DispatchWorker for those   *)
(* that do not).  Rows of other principals are announced too.              *)
(***************************************************************************)
EXTENDS Naturals, Sequences, Functions, FiniteSets

CONSTANTS
    MaxStreams,   \* bound: connections of the client
    MaxRows,      \* bound: rows committed
    MaxConns,     \* size of the connection pool
    ReplayLimit,  \* LIMIT of the replay query
    LiveLimit     \* LIMIT of the query of _fetch_live_delivery

ASSUME EventStreamAssumption ==
    {MaxStreams, MaxRows, MaxConns, ReplayLimit, LiveLimit} \subseteq Nat

VARIABLES
    kind,       \* which generator: "events" or "notifications"
    table,      \* rows, in id order: TRUE for those of the stream's principal
    acked,      \* notifications with acknowledged_at
    channel,    \* PgEventBus._channels: the connection, 0 when there is none
    callbacks,  \* the streams in the callback list made with each connection
    listening,  \* connections on which LISTEN is in effect
    taken,      \* connections acquired from the pool
    stream,     \* the generator of each connection
    mishaps     \* observation: what went wrong that the bus does not mend

bus == <<channel, callbacks, listening, taken>>
vars == <<kind, table, acked, bus, stream, mishaps>>

\* pool.acquire returns a handle of its own every time, which release ends: a
\* connection is known by the stream that acquired it, and 0 is none.
Stream == 1 .. MaxStreams
Id == DOMAIN table
New == [pc |-> "new", conn |-> 0, queue |-> <<>>, seen |-> {}, sent |-> <<>>,
        cursor |-> 0, from |-> 0, lost |-> {}]

Init ==
    /\ kind \in {"events", "notifications"}
    /\ table = <<>>
    /\ acked = {}
    /\ channel = 0
    /\ callbacks = [k \in Stream |-> {}]
    /\ listening = {}
    /\ taken = {}
    /\ stream = [s \in Stream |-> New]
    /\ mishaps = {}

Set(s, r) == stream' = [stream EXCEPT ![s] = r]

Smallest(S, limit) ==
    {i \in S : Cardinality({j \in S : j < i}) < limit}

-----------------------------------------------------------------------------
(* The writers                                                             *)

\* _on_notification of every listening connection: each callback of its list
\* gets the payload; _on_notify enqueues it when it is for its principal.
Announce(id, own) ==
    stream' = [s \in Stream |->
        IF own /\ \E k \in listening : s \in callbacks[k]
        THEN [stream[s] EXCEPT !.queue = Append(@, id)] ELSE stream[s]]

\* fire_event or create_delivery commits a row.
CommitRow(own) ==
    /\ Len(table) < MaxRows
    /\ table' = Append(table, own)
    /\ Announce(Len(table) + 1, own)
    /\ UNCHANGED <<kind, acked, bus, mishaps>>

\* The client acknowledges a notification it received.
Acknowledge(id) ==
    /\ kind = "notifications" /\ id \notin acked
    /\ \E s \in Stream : id \in Range(stream[s].sent)
    /\ acked' = acked \cup {id}
    /\ UNCHANGED <<kind, table, bus, stream, mishaps>>

-----------------------------------------------------------------------------
(* PgEventBus                                                              *)

Closing(k) ==
    \E s \in Stream : stream[s].pc \in {"unlisten", "release"}
                      /\ stream[s].conn = k

\* subscribe: with a channel the callback is appended; without one a
\* connection is awaited.  The client's first connection has no cursor, a
\* later one the last id it received.
Subscribe(s) ==
    LET last == IF s = 1 THEN <<>> ELSE stream[s - 1].sent
        opened == [New EXCEPT
            !.pc = IF channel = 0 THEN "acquire" ELSE "replay",
            !.cursor = IF last = <<>> THEN 0 ELSE last[Len(last)],
            !.from = IF channel = 0 THEN 0 ELSE Len(table),
            !.conn = channel]
    IN  /\ stream[s].pc = "new"
        /\ s > 1 => stream[s - 1].pc # "new"
        /\ Set(s, opened)
        /\ callbacks' = IF channel = 0 THEN callbacks
                        ELSE [callbacks EXCEPT ![channel] = @ \cup {s}]
        /\ mishaps' = IF channel # 0 /\ Closing(channel)
                      THEN mishaps \cup {<<"joined a closing channel", s>>}
                      ELSE mishaps
        /\ UNCHANGED <<kind, table, acked, channel, listening, taken>>

\* pool.acquire returns, when the pool has a connection.
Acquire(s) ==
    /\ stream[s].pc = "acquire"
    /\ Cardinality(taken) < MaxConns
    /\ taken' = taken \cup {s}
    /\ Set(s, [stream[s] EXCEPT !.pc = "listen", !.conn = s])
    /\ mishaps' = IF channel # 0 THEN mishaps \cup {<<"overlap", 0>>}
                  ELSE mishaps
    /\ UNCHANGED <<kind, table, acked, channel, callbacks, listening>>

\* add_listener returns, and the channel is entered, whoever entered one
\* while this coroutine was waiting.
Listen(s) ==
    /\ stream[s].pc = "listen"
    /\ listening' = listening \cup {s}
    /\ callbacks' = [callbacks EXCEPT ![s] = {s}]
    /\ channel' = s
    /\ Set(s, [stream[s] EXCEPT !.pc = "replay", !.from = Len(table)])
    /\ mishaps' = IF channel # 0 THEN mishaps \cup {<<"overlap", 0>>}
                  ELSE mishaps
    /\ UNCHANGED <<kind, table, acked, taken>>

\* The client goes away while subscribe waits: the generator's try has not
\* begun, and an acquired connection stays acquired.
CancelSubscribe(s) ==
    /\ stream[s].pc \in {"acquire", "listen"}
    /\ Set(s, [stream[s] EXCEPT !.pc = "closed"])
    /\ mishaps' = IF stream[s].pc = "listen"
                  THEN mishaps \cup {<<"cancelled in subscribe", 0>>}
                  ELSE mishaps
    /\ UNCHANGED <<kind, table, acked, bus>>

\* The client goes away: unsubscribe looks the channel up, removes the
\* callback from its list, and tears the channel down when the list is empty.
Disconnect(s) ==
    LET mine == channel # 0 /\ s \in callbacks[channel]
        rest == callbacks[channel] \ {s}
    IN  /\ stream[s].pc \in {"replay", "live"}
        /\ callbacks' = IF mine THEN [callbacks EXCEPT ![channel] = rest]
                        ELSE callbacks
        /\ Set(s, IF mine /\ rest = {}
                  THEN [stream[s] EXCEPT !.pc = "unlisten", !.conn = channel]
                  ELSE [stream[s] EXCEPT !.pc = "closed"])
        /\ UNCHANGED <<kind, table, acked, channel, listening, taken, mishaps>>

\* remove_listener.
Unlisten(s) ==
    /\ stream[s].pc = "unlisten"
    /\ listening' = listening \ {stream[s].conn}
    /\ Set(s, [stream[s] EXCEPT !.pc = "release"])
    /\ UNCHANGED <<kind, table, acked, channel, callbacks, taken, mishaps>>

\* pool.release, and the channel is deleted, whatever connection it has now
\* (a KeyError when it has none).
Release(s) ==
    /\ stream[s].pc = "release"
    /\ taken' = taken \ {stream[s].conn}
    /\ channel' = 0
    /\ Set(s, [stream[s] EXCEPT !.pc = "closed"])
    /\ UNCHANGED <<kind, table, acked, callbacks, listening, mishaps>>

-----------------------------------------------------------------------------
(* The generators                                                          *)

Own == {i \in Id : table[i]}

\* What the replay query returns: a source's events only with a cursor, a
\* principal's notifications that are not acknowledged.
Missed(s) ==
    LET c == stream[s].cursor
    IN  Smallest(IF kind = "events" THEN {i \in Own : c # 0 /\ i > c}
                 ELSE {i \in Own \ acked : i > c},
                 ReplayLimit)

\* The rows in the order of their ids: each is preceded by the smaller ones.
Ascending(S) ==
    [i \in 1 .. Cardinality(S) |->
        CHOOSE x \in S : Cardinality({y \in S : y < x}) = i - 1]

\* Mutant: everything up to now counts as sent.
ReplayMarksAll(s) ==
    /\ stream[s].pc = "replay"
    /\ Set(s, [stream[s] EXCEPT !.pc = "live", !.sent = Ascending(Missed(s)),
                                !.seen = Id])
    /\ UNCHANGED <<kind, table, acked, bus, mishaps>>

\* The replay is sent, and its ids remembered.
Replay(s) ==
    /\ stream[s].pc = "replay"
    /\ Set(s, [stream[s] EXCEPT !.pc = "live", !.sent = Ascending(Missed(s)),
                                !.seen = Missed(s)])
    /\ UNCHANGED <<kind, table, acked, bus, mishaps>>

\* The row a notification names, as _fetch_live_event and
\* _fetch_live_delivery find it: the latter in the first rows of the principal.
Found(id) ==
    kind = "events" \/ id \in Smallest(Own, LiveLimit)

\* Mutant: what was replayed is not looked at.
TakeUnchecked(s) ==
    LET id == Head(stream[s].queue)
    IN  /\ stream[s].pc = "live" /\ stream[s].queue # <<>>
        /\ Set(s, [stream[s] EXCEPT !.queue = Tail(@), !.seen = @ \cup {id},
                                    !.sent = Append(@, id)])
        /\ UNCHANGED <<kind, table, acked, bus, mishaps>>

\* The next notification of the queue is sent, unless its id was sent before
\* or its row is not found.
Take(s) ==
    LET id == Head(stream[s].queue)
    IN  /\ stream[s].pc = "live" /\ stream[s].queue # <<>>
        /\ Set(s, IF id \in stream[s].seen \/ ~Found(id)
                  THEN [stream[s] EXCEPT !.queue = Tail(@)]
                  ELSE [stream[s] EXCEPT !.queue = Tail(@),
                                         !.seen = @ \cup {id},
                                         !.sent = Append(@, id)])
        /\ UNCHANGED <<kind, table, acked, bus, mishaps>>

\* The 15 s timeout fires while the get is being satisfied: cancel() comes too
\* late, and what the get returns is dropped in favour of a heartbeat.
HeartbeatRace(s) ==
    /\ stream[s].pc = "live" /\ stream[s].queue # <<>>
    /\ Set(s, [stream[s] EXCEPT !.queue = Tail(@),
                                !.lost = @ \cup {Head(stream[s].queue)}])
    /\ UNCHANGED <<kind, table, acked, bus, mishaps>>

-----------------------------------------------------------------------------

\* Every row is committed and every stream is idle.
Quiet ==
    /\ Len(table) = MaxRows
    /\ \A s \in Stream : stream[s].pc = "closed"
    /\ UNCHANGED vars

\* The pool is empty for good: what was not given back is missing.
Exhausted ==
    /\ Cardinality(taken) >= MaxConns /\ mishaps # {}
    /\ \E s \in Stream : stream[s].pc = "acquire"
    /\ UNCHANGED vars

Step(s) ==
    \/ Acquire(s)
    \/ Listen(s)
    \/ Unlisten(s)
    \/ Release(s)
    \/ Replay(s)
    \/ Take(s)

Next ==
    \/ \E own \in BOOLEAN : CommitRow(own)
    \/ \E id \in Id : Acknowledge(id)
    \/ \E s \in Stream : Subscribe(s)
    \/ \E s \in Stream : CancelSubscribe(s)
    \/ \E s \in Stream : Disconnect(s)
    \/ \E s \in Stream : HeartbeatRace(s)
    \/ \E s \in Stream : Step(s)
    \/ Quiet
    \/ Exhausted

Spec == Init /\ [][Next]_vars /\ \A s \in Stream : WF_vars(Step(s))

-----------------------------------------------------------------------------
(* Properties                                                              *)

\* The rows stream s owes its client: with a cursor (and for notifications
\* always) those after it, else those committed since it subscribed.
Owed(s) ==
    {i \in Own \ acked :
        IF kind = "events" /\ stream[s].cursor = 0 THEN i > stream[s].from
        ELSE i > stream[s].cursor}

\* The no-loss guarantee: a stream that has caught up has sent every row it
\* owes, whatever was committed between its subscription, its replay and its
\* live phase, except what a heartbeat raced with, and unless it joined a
\* channel that was being torn down.
NothingLost ==
    \A s \in Stream :
        (/\ stream[s].pc = "live" /\ stream[s].queue = <<>>
         /\ <<"joined a closing channel", s>> \notin mishaps)
        => Owed(s) \subseteq Range(stream[s].sent) \cup stream[s].lost

\* A row that the replay sends and the bus announces as well is sent once, and
\* a source's events are sent in id order.  (A notification that another
\* stream had acknowledged is not replayed, and may still be in the queue.)
SentOnce ==
    \A s \in Stream : \A i, j \in DOMAIN stream[s].sent :
        i < j => IF kind = "events"
                 THEN stream[s].sent[i] < stream[s].sent[j]
                 ELSE stream[s].sent[i] # stream[s].sent[j]

\* Connections are returned: when no stream is open or closing, none is
\* listening or taken, unless two first subscriptions overlapped, one was
\* cancelled while it waited, or one joined a closing channel.
ConnectionsReturned ==
    (/\ mishaps = {}
     /\ \A s \in Stream : stream[s].pc \in {"new", "closed"})
    => taken = {} /\ listening = {} /\ channel = 0

\* Every row that a stream owes is sent in the end, unless it is lost to a
\* heartbeat or the client is gone (MaxRows bounds the rows).
EventuallySent ==
    <>[](\A s \in Stream :
            (/\ stream[s].pc \in {"replay", "live"}
             /\ <<"joined a closing channel", s>> \notin mishaps)
            => Owed(s) \subseteq Range(stream[s].sent) \cup stream[s].lost)

\* Every owed row is sent once and in order, and the connections come back.
DeliveredOnce == NothingLost /\ SentOnce /\ ConnectionsReturned
=============================================================================
