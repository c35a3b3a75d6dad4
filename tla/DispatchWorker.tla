--------------------------- MODULE DispatchWorker ---------------------------
(***************************************************************************)
(* The durable dispatcher of orxtra.dispatch: writers append events to the *)
(* trace store, and each worker polls them past its own cursor, matches    *)
(* them against the enabled subscriptions, runs or buffers every action    *)
(* that has no completion record, records the completion and advances the  *)
(* cursor.  A step ends at an await of the code that touches shared state. *)
(*                                                                         *)
(* Event ids are UUIDv7 values: they are drawn in time order BEFORE the    *)
(* transaction that inserts the event, so they can commit out of order.    *)
(***************************************************************************)
EXTENDS Integers, FiniteSets

CONSTANTS
    Workers,      \* dispatcher processes, one cursor name each
    Subs,         \* subscriptions
    Actions,      \* subscription actions
    SubOf,        \* the subscription an action belongs to
    EventTypes,
    Wants,        \* event types a subscription's filter accepts
    Accumulating, \* actions that have an accumulator_config
    Threshold,    \* its "threshold" (0: no count threshold)
    Timed,        \* actions whose accumulator has a flush_interval_s
    Fires,        \* event type an EventAction fires, or NoEvent
    NoEvent,
    NoAction,
    BatchSize,    \* the worker's batch_size
    ClaimLimit,   \* the limit of claim_batch
    MaxEvent,     \* bound: ids drawn in one behaviour
    MaxCrash,     \* bound: kills and database errors of each worker
    MayStop,      \* bound: whether SIGTERM and SIGINT are sent
    MayEdit       \* bound: whether subscriptions are changed while it runs

ASSUME DispatchAssumption ==
    /\ SubOf \in [Actions -> Subs]
    /\ Wants \in [Subs -> SUBSET EventTypes]
    /\ Accumulating \subseteq Actions
    /\ Timed \subseteq Accumulating
    /\ Threshold \in [Actions -> Nat]
    /\ Fires \in [Actions -> EventTypes \cup {NoEvent}]
    /\ NoEvent \notin EventTypes
    /\ NoAction \notin Actions
    /\ BatchSize \in Nat \ {0}
    /\ ClaimLimit \in Nat \ {0}
    /\ MaxEvent \in Nat
    /\ MaxCrash \in Nat
    /\ MayStop \in BOOLEAN
    /\ MayEdit \in BOOLEAN

VARIABLES
    \* the trace store
    nextId,       \* next event id a writer draws
    open,         \* ids whose inserting transaction is still open
    committed,    \* events visible to a query
    etype,        \* type of each event, NoEvent until its id is drawn
    \* the dispatch tables
    enabled,      \* subscriptions with enabled = true
    live,         \* rows of subscription_actions
    cursor,       \* dispatch_cursor: last processed event per worker, 0: none
    completed,    \* dispatch_completions: <<event, action>>
    buffer,       \* accumulator_buffer rows
    nextEntry,    \* id of the next accumulator entry
    \* each worker's memory
    pc,
    batch,        \* polled events not processed yet
    snapshot,     \* subscriptions loaded for this batch
    subsLeft,     \* matching subscriptions not visited yet for this event
    actsLeft,     \* listed actions not visited yet for this subscription
    cur,          \* the action in hand
    stopping,     \* _stop_event
    timers,       \* deferred flushes scheduled per action
    flushes,      \* batches claimed whose action has not finished
    \* observation only: no action of the system reads these
    runs,         \* how often a worker ran an immediate action for an event
    flushed,      \* entries a flush ran the action for
    handled,      \* events a worker advanced its cursor over
    late,         \* events that committed behind a worker's reading position
    crashes       \* times a worker's process ended with an error

events == <<nextId, open, committed, etype>>
tables == <<enabled, live, cursor, completed, buffer, nextEntry>>
loop == <<pc, batch, snapshot, subsLeft, actsLeft, cur, stopping>>
tasks == <<timers, flushes>>
history == <<runs, flushed, handled, late, crashes>>
vars == <<events, tables, loop, tasks, history>>

EventId == 1..MaxEvent
Pair == EventId \X Actions
Entry == [id: Nat, act: Actions, event: EventId]
Flush == [act: Actions, entries: SUBSET Entry, inline: BOOLEAN]
Pc == {"down", "poll", "load", "event", "sub", "run", "count", "claim",
       "flush", "record", "wait"}

-----------------------------------------------------------------------------
(* Operators of the backend and of the filter                              *)

\* match_subscription, on its event_types axis.
Matches(e, s) == etype[e] \in Wants[s]

\* Mutant: the cursor is taken for the next id to be processed (id > since + 1).
EventsSinceNext(since) ==
    {e \in committed :
        /\ e > since + 1
        /\ Cardinality({d \in committed : d > since + 1 /\ d < e}) < BatchSize}

\* poll_events_since: the first BatchSize committed events past the cursor.
EventsSince(since) ==
    {e \in committed :
        /\ e > since
        /\ Cardinality({d \in committed : d > since /\ d < e}) < BatchSize}

\* Mutant: the batch is walked backwards.
LastOf(E) == CHOOSE e \in E : \A d \in E : d <= e

\* The next event of a batch: rows come ORDER BY id.
First(E) == CHOOSE e \in E : \A d \in E : e <= d

\* list_actions: read from the table, not from the snapshot.
ActionsOf(s) == {a \in live : SubOf[a] = s}

\* Mutant: the key of a completion record written the other way round.
SwappedKey(e, a) == <<a, e>>

\* The unique key of dispatch_completions.
CompletionKey(e, a) == <<e, a>>

\* Mutant: the query forgets the action id.
SomeActionCompleted(e, a) == \E b \in Actions : CompletionKey(e, b) \in completed

\* is_action_completed.
IsActionCompleted(e, a) == CompletionKey(e, a) \in completed

\* pending_count.
Pending(a) == {x \in buffer : x.act = a}

\* claim_batch: the oldest ClaimLimit rows.
Claimable(a) ==
    {x \in Pending(a) :
        Cardinality({y \in Pending(a) : y.id < x.id}) < ClaimLimit}

\* The count condition of _buffer_or_flush.
ThresholdReached(a) ==
    Threshold[a] > 0 /\ Cardinality(Pending(a)) >= Threshold[a]

\* The event worker w has in hand.
Current(w) == First(batch[w])

-----------------------------------------------------------------------------
Init ==
    /\ nextId = 1
    /\ open = {}
    /\ committed = {}
    /\ etype = [e \in EventId |-> NoEvent]
    /\ enabled = Subs
    /\ live = Actions
    /\ cursor = [w \in Workers |-> 0]
    /\ completed = {}
    /\ buffer = {}
    /\ nextEntry = 1
    /\ pc = [w \in Workers |-> "down"]
    /\ batch = [w \in Workers |-> {}]
    /\ snapshot = [w \in Workers |-> {}]
    /\ subsLeft = [w \in Workers |-> {}]
    /\ actsLeft = [w \in Workers |-> {}]
    /\ cur = [w \in Workers |-> NoAction]
    /\ stopping = [w \in Workers |-> FALSE]
    /\ timers = [w \in Workers |-> [a \in Actions |-> 0]]
    /\ flushes = [w \in Workers |-> {}]
    /\ runs = [w \in Workers |-> [p \in Pair |-> 0]]
    /\ flushed = {}
    /\ handled = [w \in Workers |-> {}]
    /\ late = [w \in Workers |-> {}]
    /\ crashes = [w \in Workers |-> 0]
-----------------------------------------------------------------------------
(* Writers                                                                 *)

\* write_event draws event_id before it opens its transaction.
DrawEventId(t) ==
    /\ nextId <= MaxEvent
    /\ etype' = [etype EXCEPT ![nextId] = t]
    /\ open' = open \cup {nextId}
    /\ nextId' = nextId + 1
    /\ UNCHANGED <<committed, tables, loop, tasks, history>>

\* Workers that already read, or hold a batch, beyond event e.
ReadPast(e) ==
    {w \in Workers : e < cursor[w] \/ \E d \in batch[w] : e < d}

\* The INSERT of write_event commits; the trigger's NOTIFY is only a hint.
CommitEvent(e) ==
    /\ e \in open
    /\ open' = open \ {e}
    /\ committed' = committed \cup {e}
    /\ late' = [w \in Workers |->
                  IF w \in ReadPast(e) THEN late[w] \cup {e} ELSE late[w]]
    /\ UNCHANGED <<nextId, etype, tables, loop, tasks, runs,
                   flushed, handled, crashes>>

\* The writer's transaction fails, or its process dies: no event.
RollBackEvent(e) ==
    /\ e \in open
    /\ open' = open \ {e}
    /\ UNCHANGED <<nextId, committed, etype, tables, loop, tasks, history>>

\* What execute_action does besides its own effect: an EventAction writes
\* the derived event.
Derive(a) ==
    \/ /\ Fires[a] = NoEvent
       /\ UNCHANGED events
    \/ /\ Fires[a] # NoEvent
       /\ nextId <= MaxEvent
       /\ etype' = [etype EXCEPT ![nextId] = Fires[a]]
       /\ committed' = committed \cup {nextId}
       /\ nextId' = nextId + 1
       /\ UNCHANGED open

-----------------------------------------------------------------------------
(* Operators editing subscriptions                                         *)

\* update_subscription; it raises on a subscription that was deleted.
SetEnabled(s) ==
    /\ MayEdit
    /\ ActionsOf(s) # {}
    /\ \/ enabled' = enabled \cup {s}
       \/ enabled' = enabled \ {s}
    /\ UNCHANGED <<events, live, cursor, completed, buffer, nextEntry, loop,
                   tasks, history>>

\* delete_subscription: ON DELETE CASCADE takes its actions, their
\* completion records and their buffered entries along.
DeleteSubscription(s) ==
    /\ MayEdit
    /\ ActionsOf(s) # {}
    /\ enabled' = enabled \ {s}
    /\ live' = live \ ActionsOf(s)
    /\ completed' = {p \in completed : p[2] \notin ActionsOf(s)}
    /\ buffer' = {x \in buffer : x.act \notin ActionsOf(s)}
    /\ UNCHANGED <<events, cursor, nextEntry, loop, tasks, history>>

-----------------------------------------------------------------------------
(* The worker process                                                      *)

\* run() begins: LISTEN is set up, or fails and leaves polling alone.
StartWorker(w) ==
    /\ pc[w] = "down"
    /\ pc' = [pc EXCEPT ![w] = "poll"]
    /\ UNCHANGED <<events, tables, batch, snapshot, subsLeft, actsLeft, cur,
                   stopping, tasks, history>>

\* The process is gone: its memory, its scheduled timers and its running
\* flush tasks with it.
LoseMemory(w) ==
    /\ pc' = [pc EXCEPT ![w] = "down"]
    /\ batch' = [batch EXCEPT ![w] = {}]
    /\ snapshot' = [snapshot EXCEPT ![w] = {}]
    /\ subsLeft' = [subsLeft EXCEPT ![w] = {}]
    /\ actsLeft' = [actsLeft EXCEPT ![w] = {}]
    /\ cur' = [cur EXCEPT ![w] = NoAction]
    /\ stopping' = [stopping EXCEPT ![w] = FALSE]
    /\ timers' = [timers EXCEPT ![w] = [a \in Actions |-> 0]]
    /\ flushes' = [flushes EXCEPT ![w] = {}]

\* An error leaves run(), or the process is killed.
Die(w) ==
    /\ LoseMemory(w)
    /\ crashes' = [crashes EXCEPT ![w] = @ + 1]

\* A kill, or a database error at any await.
Crash(w) ==
    /\ pc[w] # "down"
    /\ crashes[w] < MaxCrash
    /\ Die(w)
    /\ UNCHANGED <<events, tables, runs, flushed, handled, late>>

\* stop(), from the signal handler.
Stop(w) ==
    /\ MayStop
    /\ pc[w] # "down"
    /\ stopping' = [stopping EXCEPT ![w] = TRUE]
    /\ UNCHANGED <<events, tables, pc, batch, snapshot, subsLeft, actsLeft,
                   cur, tasks, history>>

\* The while condition of run() is false: the process ends, and asyncio.run
\* cancels what is still scheduled.
Exit(w) ==
    /\ pc[w] = "poll"
    /\ stopping[w]
    /\ LoseMemory(w)
    /\ UNCHANGED <<events, tables, history>>

\* get_cursor_position and poll_events_since; only w moves its cursor.
PollEvents(w) ==
    /\ pc[w] = "poll"
    /\ ~stopping[w]
    /\ LET found == EventsSince(cursor[w])
       IN  /\ batch' = [batch EXCEPT ![w] = found]
           /\ pc' = [pc EXCEPT ![w] = IF found = {} THEN "wait" ELSE "load"]
    /\ UNCHANGED <<events, tables, snapshot, subsLeft, actsLeft, cur,
                   stopping, tasks, history>>

\* Mutant: without the poll interval, a lost NOTIFY is never made up for.
WakeOnStopOnly(w) ==
    /\ pc[w] = "wait"
    /\ pc' = [pc EXCEPT ![w] = IF stopping[w] THEN "poll" ELSE "wait"]
    /\ UNCHANGED <<events, tables, batch, snapshot, subsLeft, actsLeft, cur,
                   stopping, tasks, history>>

\* A NOTIFY, stop() or the poll interval ends the wait.
Wake(w) ==
    /\ pc[w] = "wait"
    /\ pc' = [pc EXCEPT ![w] = "poll"]
    /\ UNCHANGED <<events, tables, batch, snapshot, subsLeft, actsLeft, cur,
                   stopping, tasks, history>>

\* list_subscriptions(enabled_only=True), once per batch.
LoadSubscriptions(w) ==
    /\ pc[w] = "load"
    /\ snapshot' = [snapshot EXCEPT ![w] = enabled]
    /\ pc' = [pc EXCEPT ![w] = "event"]
    /\ UNCHANGED <<events, tables, batch, subsLeft, actsLeft, cur, stopping,
                   tasks, history>>

\* The next event of the batch: which subscriptions it matches.
TakeEvent(w) ==
    /\ pc[w] = "event"
    /\ ~stopping[w]
    /\ batch[w] # {}
    /\ subsLeft' = [subsLeft EXCEPT ![w] =
                       {s \in snapshot[w] : Matches(Current(w), s)}]
    /\ pc' = [pc EXCEPT ![w] = "sub"]
    /\ UNCHANGED <<events, tables, batch, snapshot, actsLeft, cur, stopping,
                   tasks, history>>

\* The batch is done, or _stop_event breaks the loop over it.
LeaveBatch(w) ==
    /\ pc[w] = "event"
    /\ stopping[w] \/ batch[w] = {}
    /\ batch' = [batch EXCEPT ![w] = {}]
    /\ pc' = [pc EXCEPT ![w] = "poll"]
    /\ UNCHANGED <<events, tables, snapshot, subsLeft, actsLeft, cur,
                   stopping, tasks, history>>

\* list_actions of the next matching subscription.
ListActions(w, s) ==
    /\ pc[w] = "sub"
    /\ actsLeft[w] = {}
    /\ s \in subsLeft[w]
    /\ subsLeft' = [subsLeft EXCEPT ![w] = @ \ {s}]
    /\ actsLeft' = [actsLeft EXCEPT ![w] = ActionsOf(s)]
    /\ UNCHANGED <<events, tables, pc, batch, snapshot, cur, stopping, tasks,
                   history>>

\* Mutant: the completion is recorded before the action is run.
CompleteFirst(w, a) ==
    /\ pc[w] = "sub"
    /\ a \in actsLeft[w]
    /\ actsLeft' = [actsLeft EXCEPT ![w] = @ \ {a}]
    /\ \/ /\ IsActionCompleted(Current(w), a)
          /\ UNCHANGED <<completed, pc, cur>>
       \/ /\ ~IsActionCompleted(Current(w), a)
          /\ completed' = completed \cup {<<Current(w), a>>}
          /\ pc' = [pc EXCEPT ![w] = "run"]
          /\ cur' = [cur EXCEPT ![w] = a]
    /\ UNCHANGED <<events, enabled, live, cursor, buffer, nextEntry, batch,
                   snapshot, subsLeft, stopping, tasks, history>>

\* is_action_completed: skip the action, or take it in hand.
CheckCompleted(w, a) ==
    /\ pc[w] = "sub"
    /\ a \in actsLeft[w]
    /\ actsLeft' = [actsLeft EXCEPT ![w] = @ \ {a}]
    /\ \/ /\ IsActionCompleted(Current(w), a)
          /\ UNCHANGED <<pc, cur>>
       \/ /\ ~IsActionCompleted(Current(w), a)
          /\ pc' = [pc EXCEPT ![w] = "run"]
          /\ cur' = [cur EXCEPT ![w] = a]
    /\ UNCHANGED <<events, tables, batch, snapshot, subsLeft, stopping, tasks,
                   history>>

\* Mutant: a failed run is tried again on the spot, for ever.
ExecuteUntilSuccess(w) ==
    LET p == <<Current(w), cur[w]>>
    IN  /\ pc[w] = "run"
        /\ cur[w] \notin Accumulating
        /\ runs' = [runs EXCEPT ![w][p] = @ + 1]
        /\ \/ /\ Derive(cur[w])
              /\ pc' = [pc EXCEPT ![w] = "record"]
           \/ UNCHANGED <<events, pc>>
        /\ UNCHANGED <<tables, batch, snapshot, subsLeft, actsLeft, cur,
                       stopping, tasks, flushed, handled, late, crashes>>

\* _execute_action_immediate: an exception is logged and swallowed.
ExecuteImmediate(w) ==
    LET p == <<Current(w), cur[w]>>
    IN  /\ pc[w] = "run"
        /\ cur[w] \notin Accumulating
        /\ runs' = [runs EXCEPT ![w][p] = @ + 1]
        /\ Derive(cur[w]) \/ UNCHANGED events
        /\ pc' = [pc EXCEPT ![w] = "record"]
        /\ UNCHANGED <<tables, batch, snapshot, subsLeft, actsLeft, cur,
                       stopping, tasks, flushed, handled, late, crashes>>

\* buffer_event; the row's foreign key fails when the action was deleted.
BufferEvent(w) ==
    /\ pc[w] = "run"
    /\ cur[w] \in Accumulating
    /\ \/ /\ cur[w] \in live
          /\ buffer' = buffer \cup
                {[id |-> nextEntry, act |-> cur[w], event |-> Current(w)]}
          /\ nextEntry' = nextEntry + 1
          /\ pc' = [pc EXCEPT ![w] = "count"]
          /\ UNCHANGED <<batch, snapshot, subsLeft, actsLeft, cur, stopping,
                         tasks, crashes>>
       \/ /\ cur[w] \notin live
          /\ Die(w)
          /\ UNCHANGED <<buffer, nextEntry>>
    /\ UNCHANGED <<events, enabled, live, cursor, completed, runs,
                   flushed, handled, late>>

\* pending_count, then an inline flush, a deferred one, or neither.
CountPending(w) ==
    LET a == cur[w]
        full == ThresholdReached(a)
    IN  /\ pc[w] = "count"
        /\ pc' = [pc EXCEPT ![w] = IF full THEN "claim" ELSE "record"]
        /\ timers' = IF ~full /\ a \in Timed
                     THEN [timers EXCEPT ![w][a] = @ + 1]
                     ELSE timers
        /\ UNCHANGED <<events, tables, batch, snapshot, subsLeft, actsLeft,
                       cur, stopping, flushes, history>>

\* Mutant: the claimed rows stay in the table until they are confirmed.
ClaimWithoutDelete(w, a, inline) ==
    /\ buffer' = buffer
    /\ flushes' = IF Claimable(a) = {}
                  THEN flushes
                  ELSE [flushes EXCEPT ![w] = @ \cup
                          {[act |-> a, entries |-> Claimable(a),
                            inline |-> inline]}]

\* claim_batch: one transaction selects the oldest rows and deletes them.
Claim(w, a, inline) ==
    /\ buffer' = buffer \ Claimable(a)
    /\ flushes' = IF Claimable(a) = {}
                  THEN flushes
                  ELSE [flushes EXCEPT ![w] = @ \cup
                          {[act |-> a, entries |-> Claimable(a),
                            inline |-> inline]}]

\* _flush_action called from _buffer_or_flush: an empty claim returns.
ClaimInline(w) ==
    /\ pc[w] = "claim"
    /\ Claim(w, cur[w], TRUE)
    /\ pc' = [pc EXCEPT ![w] =
                IF Claimable(cur[w]) = {} THEN "record" ELSE "flush"]
    /\ UNCHANGED <<events, enabled, live, cursor, completed, nextEntry, batch,
                   snapshot, subsLeft, actsLeft, cur, stopping, timers,
                   history>>

\* A deferred flush falls due and claims what is buffered by then.
TimerFires(w, a) ==
    /\ timers[w][a] > 0
    /\ timers' = [timers EXCEPT ![w][a] = @ - 1]
    /\ Claim(w, a, FALSE)
    /\ UNCHANGED <<events, enabled, live, cursor, completed, nextEntry, loop,
                   history>>

\* The rest of _flush_action: the action runs for the batch; a failure is
\* logged, and confirm_batch deletes rows that claim_batch already deleted.
FinishFlush(w, f) ==
    /\ f \in flushes[w]
    /\ flushes' = [flushes EXCEPT ![w] = @ \ {f}]
    /\ \/ /\ Derive(f.act)
          /\ flushed' = flushed \cup f.entries
       \/ UNCHANGED <<events, flushed>>
    /\ pc' = IF f.inline THEN [pc EXCEPT ![w] = "record"] ELSE pc
    /\ UNCHANGED <<tables, batch, snapshot, subsLeft, actsLeft, cur, stopping,
                   timers, runs, handled, late, crashes>>

\* record_completion "success"; its foreign key fails, and the error leaves
\* run(), when the action was deleted meanwhile.
RecordCompletion(w) ==
    /\ pc[w] = "record"
    /\ \/ /\ cur[w] \in live
          /\ completed' = completed \cup {CompletionKey(Current(w), cur[w])}
          /\ pc' = [pc EXCEPT ![w] = "sub"]
          /\ cur' = [cur EXCEPT ![w] = NoAction]
          /\ UNCHANGED <<batch, snapshot, subsLeft, actsLeft, stopping, tasks,
                         crashes>>
       \/ /\ cur[w] \notin live
          /\ Die(w)
          /\ UNCHANGED completed
    /\ UNCHANGED <<events, enabled, live, cursor, buffer, nextEntry, runs,
                   flushed, handled, late>>

\* advance_cursor, after every action of the event.
AdvanceCursor(w) ==
    /\ pc[w] = "sub"
    /\ subsLeft[w] = {}
    /\ actsLeft[w] = {}
    /\ cursor' = [cursor EXCEPT ![w] = Current(w)]
    /\ handled' = [handled EXCEPT ![w] = @ \cup {Current(w)}]
    /\ batch' = [batch EXCEPT ![w] = @ \ {Current(w)}]
    /\ pc' = [pc EXCEPT ![w] = "event"]
    /\ UNCHANGED <<events, enabled, live, completed, buffer, nextEntry,
                   snapshot, subsLeft, actsLeft, cur, stopping, tasks, runs,
                   flushed, late, crashes>>

-----------------------------------------------------------------------------
\* One step of run(), from its loop head to its loop head.
LoopStep(w) ==
    \/ Exit(w)
    \/ PollEvents(w)
    \/ Wake(w)
    \/ LoadSubscriptions(w)
    \/ TakeEvent(w)
    \/ LeaveBatch(w)
    \/ \E s \in Subs : ListActions(w, s)
    \/ \E a \in Actions : CheckCompleted(w, a)
    \/ ExecuteImmediate(w)
    \/ BufferEvent(w)
    \/ CountPending(w)
    \/ ClaimInline(w)
    \/ \E f \in {g \in flushes[w] : g.inline} : FinishFlush(w, f)
    \/ RecordCompletion(w)
    \/ AdvanceCursor(w)

Next ==
    \/ \E t \in EventTypes : DrawEventId(t)
    \/ \E e \in EventId : CommitEvent(e) \/ RollBackEvent(e)
    \/ \E s \in Subs : SetEnabled(s) \/ DeleteSubscription(s)
    \/ \E w \in Workers :
          \/ StartWorker(w)
          \/ Crash(w)
          \/ Stop(w)
          \/ \E a \in Actions : TimerFires(w, a)
          \/ \E f \in {g \in flushes[w] : ~g.inline} : FinishFlush(w, f)
          \/ LoopStep(w)

Spec == Init /\ [][Next]_vars

\* The event loop keeps running the worker's coroutines while the process
\* lives, and its operator starts it once more after it went down.
FairSpec ==
    /\ Spec
    /\ \A w \in Workers : WF_vars(StartWorker(w)) /\ WF_vars(LoopStep(w))

-----------------------------------------------------------------------------
(* Properties                                                              *)

\* Every table and every variable of a worker has its type; in particular a
\* completion record names an event first and an action second.
TypeOK ==
    /\ nextId \in 1..(MaxEvent + 1)
    /\ open \subseteq EventId
    /\ committed \subseteq EventId
    /\ etype \in [EventId -> EventTypes \cup {NoEvent}]
    /\ enabled \subseteq Subs
    /\ live \subseteq Actions
    /\ cursor \in [Workers -> 0..MaxEvent]
    /\ completed \subseteq Pair
    /\ buffer \subseteq Entry
    /\ nextEntry \in Nat
    /\ pc \in [Workers -> Pc]
    /\ batch \in [Workers -> SUBSET EventId]
    /\ snapshot \in [Workers -> SUBSET Subs]
    /\ subsLeft \in [Workers -> SUBSET Subs]
    /\ actsLeft \in [Workers -> SUBSET Actions]
    /\ cur \in [Workers -> Actions \cup {NoAction}]
    /\ stopping \in [Workers -> BOOLEAN]
    /\ timers \in [Workers -> [Actions -> Nat]]
    /\ flushes \in [Workers -> SUBSET Flush]
    /\ runs \in [Workers -> [Pair -> Nat]]
    /\ flushed \subseteq Entry
    /\ handled \in [Workers -> SUBSET EventId]
    /\ late \in [Workers -> SUBSET EventId]
    /\ crashes \in [Workers -> Nat]

\* The actions that must have run for worker w's event in hand: those of the
\* subscriptions it loaded that match the event, unless deleted meanwhile.
ActionsDue(w) ==
    {a \in live : SubOf[a] \in snapshot[w] /\ Matches(Current(w), SubOf[a])}

\* A cursor moves over an event only when each of its due actions has a
\* completion record: a worker that restarts from the cursor has nothing
\* left to do for the events behind it (_poll_and_process).
CursorFollowsCompletions ==
    [][\A w \in Workers : cursor'[w] # cursor[w] =>
          \A a \in ActionsDue(w) : <<Current(w), a>> \in completed]_vars

\* A cursor only ever moves forward, whatever crashes and whatever commits
\* in between: advance_cursor itself upserts without comparing.
CursorMonotonic ==
    [][\A w \in Workers : cursor'[w] >= cursor[w]]_vars

\* Every visible event behind a cursor was processed by that worker, or it
\* became visible only after the worker had read beyond its id.
NothingSkipped ==
    \A w \in Workers : \A e \in committed :
        e <= cursor[w] => e \in handled[w] \cup late[w]

\* A worker repeats an immediate action for an event at most once per crash:
\* without a crash an event never runs an action twice in one worker.
RunsBoundedByCrashes ==
    \A w \in Workers : \A p \in Pair : runs[w][p] <= 1 + crashes[w]

\* An accumulator entry is in one place at a time: the table, one claimed
\* batch of one worker, or a batch that was executed.  So inline flushes,
\* due timers and other workers never execute the action twice for it.
EntryInOnePlace ==
    /\ buffer \cap flushed = {}
    /\ \A w \in Workers : \A f \in flushes[w] :
          /\ f.entries \cap (buffer \cup flushed) = {}
          /\ \A v \in Workers : \A g \in flushes[v] :
                f.entries \cap g.entries # {} => v = w /\ g = f

\* With one worker, the buffer of an action with a count threshold stays at
\* or below it, but for one entry per crash between buffering and flushing.
BufferBounded ==
    \A w \in Workers : \A a \in Accumulating :
        Threshold[a] \in 1..ClaimLimit =>
            Cardinality(Pending(a)) <= Threshold[a] + crashes[w]

\* Every event that becomes visible is eventually behind every cursor, even if
\* each NOTIFY is lost, the worker crashes and subscriptions are deleted under
\* its hands, unless the worker is told to stop first.
EveryEventPassed ==
    \A w \in Workers : \A e \in EventId :
        e \in committed ~> (cursor[w] >= e \/ stopping[w])

\* At least once, from end to end: an event a worker has put behind its
\* cursor was handed to each immediate action subscribed to it, by this worker
\* or another, however the crashes fell (while nobody edits subscriptions; a
\* run that raised counts).
AttemptedBehindCursor ==
    ~MayEdit =>
        \A w \in Workers : \A e \in handled[w] : \A a \in Actions \ Accumulating :
            Matches(e, SubOf[a]) => \E v \in Workers : runs[v][<<e, a>>] > 0

\* No visible event is passed over by a cursor (concepts.md: "executes actions
\* with at-least-once delivery semantics").
NoEventLost ==
    \A w \in Workers : \A e \in committed : e <= cursor[w] => e \in handled[w]
=============================================================================
