----------------------------- MODULE TraceStore -----------------------------
(***************************************************************************)
(* The two StorageBackends: PgBackend, whose TraceWriter runs every        *)
(* operation as a transaction of several statements, and InMemoryBackend,  *)
(* whose operations do not await between their first and last assignment.  *)
(*                                                                         *)
(* PostgreSQL is external: READ COMMITTED, row locks held to the end of    *)
(* the transaction, an UPDATE that waited re-evaluates its WHERE clause,   *)
(* and a unique index makes an INSERT wait for an uncommitted one with the *)
(* same key.  A connection may be lost before the commit, which rolls the  *)
(* transaction back, or during it, when the caller does not learn that it  *)
(* took effect.  The database is seeded (the system principal exists).     *)
(***************************************************************************)
EXTENDS TaskStates, Naturals, Sequences, FiniteSets

CONSTANTS
    Client,    \* coroutines of one process that share the backend
    Item,      \* inbox items
    Key,       \* idempotency keys
    MaxCalls   \* bound: operations invoked

ASSUME TraceStoreAssumption ==
    /\ MaxCalls \in Nat
    /\ "nobody" \notin Client
    /\ "none" \notin Key
    /\ {"run", "task"} \cap (Item \cup Key) = {}
    /\ Item \cap Key = {}

VARIABLES
    backend,   \* "pg" or "memory"
    status, events, inbox,  \* committed rows: see TraceLog
    late,      \* items whose deadline has passed
    lock,      \* row and key locks: who holds them
    client,    \* the operation each client is in
    callback,  \* _control_callbacks has an entry for the run
    heard,     \* signals that callback was called with
    runLock,   \* InMemoryBackend._run_locks
    calls,
    stored,    \* observation: the event ids write_event returned, per key
    unsure     \* observation: a caller did not learn of its commit

rows == <<status, events, inbox>>
control == <<callback, heard>>
vars == <<backend, rows, late, lock, client, control, runLock, calls, stored,
          unsure>>

Log == INSTANCE TraceLog

Object == {"run", "task"}
NoClient == "nobody"
NoKey == "none"
Row == Object \cup Item \cup Key
Resolution == {"answered", "skipped", "rejected", "expired"}
Target == [run |-> {"running", "paused", "aborted"},
           task |-> {"prechecking", "active", "cancelled"}]

Idle == [pc |-> "idle", kind |-> "", row |-> NoKey, to |-> "", seen |-> {}]

\* The operations of the protocols that do more than insert or read rows.
Operation ==
    [kind : {"transition"}, row : {"run"}, to : Target.run] \cup
    [kind : {"transition"}, row : {"task"}, to : Target.task] \cup
    [kind : {"event"}, row : Key \cup {NoKey}, to : {""}] \cup
    [kind : {"resolve"}, row : Item, to : {"answered", "expired"}] \cup
    [kind : {"expire", "subscribe"}, row : {NoKey}, to : {""}]

\* A client in one of them, with what its transaction has read.
Invocation ==
    [pc : {"idle", "begun", "locked", "scan", "committed"},
     kind : {"", "transition", "event", "resolve", "expire", "subscribe"},
     row : Row \cup {NoKey},
     to : RunState \cup TaskState \cup Resolution \cup {""},
     seen : SUBSET (RunState \cup TaskState \cup Item)]

\* A row of the events table.
EventRow ==
    [object : Object \cup {"none"}, old : RunState \cup TaskState \cup {""},
     new : RunState \cup TaskState \cup {""}, key : Key \cup {NoKey}]

Init ==
    /\ backend \in {"pg", "memory"}
    /\ status = [o \in Object |-> "created"]
    /\ events = <<>>
    /\ inbox = [i \in Item |-> "absent"]
    /\ late = {}
    /\ lock = [r \in Row |-> NoClient]
    /\ client = [c \in Client |-> Idle]
    /\ callback = FALSE
    /\ heard = {}
    /\ runLock = FALSE
    /\ calls = 0
    /\ stored = [k \in Key |-> {}]
    /\ unsure = FALSE

Pc(c, pc) == client' = [client EXCEPT ![c].pc = pc]

Held(c) == {r \in Row : lock[r] = c}
Unlocked(c) == [r \in Row |-> IF lock[r] = c THEN NoClient ELSE lock[r]]

\* The ids of the events stored under a key.
Ids(k) == {n \in DOMAIN events : events[n].key = k}

Pending(i) == inbox[i] = "pending"
Due(i) == Pending(i) /\ i \in late

\* The signals of a run that its executor acts on.
Stops(s) == s \in {"paused", "aborted"}

-----------------------------------------------------------------------------
(* PgBackend                                                               *)

\* A coroutine calls one of the operations.
Invoke(c, op) ==
    /\ backend = "pg" /\ client[c] = Idle /\ calls < MaxCalls
    /\ op.kind = "subscribe" => ~callback
    /\ calls' = calls + 1
    /\ client' = [client EXCEPT ![c] =
          [pc |-> "begun", kind |-> op.kind, row |-> op.row, to |-> op.to,
           seen |-> {}]]
    /\ callback' = (callback \/ op.kind = "subscribe")
    /\ heard' = IF op.kind = "subscribe" THEN {} ELSE heard
    /\ UNCHANGED <<backend, rows, late, lock, runLock, stored, unsure>>

In(c, kind, pc) == client[c].kind = kind /\ client[c].pc = pc

\* Mutant: the row is read without FOR UPDATE.
SelectPlain(c) ==
    /\ In(c, "transition", "begun")
    /\ client' = [client EXCEPT ![c].pc = "locked",
                                ![c].seen = {status[client[c].row]}]
    /\ UNCHANGED <<backend, rows, late, lock, control, runLock, calls, stored,
                   unsure>>

\* transition_run and transition_task: SELECT ... FOR UPDATE.
SelectForUpdate(c) ==
    LET o == client[c].row
    IN  /\ In(c, "transition", "begun") /\ lock[o] = NoClient
        /\ lock' = [lock EXCEPT ![o] = c]
        /\ client' = [client EXCEPT ![c].pc = "locked", ![c].seen = {status[o]}]
        /\ UNCHANGED <<backend, rows, late, control, runLock, calls, stored,
                       unsure>>

\* validate_task_transition or validate_run_transition on the status read.
Validated(c) ==
    \A s \in client[c].seen : Log!Valid(client[c].row, s, client[c].to)

\* Mutant: the exception leaves the connection in its transaction.
RefuseKeepsLock(c) ==
    /\ In(c, "transition", "locked") /\ ~Validated(c)
    /\ client' = [client EXCEPT ![c] = Idle]
    /\ UNCHANGED <<backend, rows, late, lock, control, runLock, calls, stored,
                   unsure>>

\* InvalidTransitionError leaves the transaction, which rolls back.
RefuseTransition(c) ==
    /\ In(c, "transition", "locked") /\ ~Validated(c)
    /\ client' = [client EXCEPT ![c] = Idle]
    /\ lock' = Unlocked(c)
    /\ UNCHANGED <<backend, rows, late, control, runLock, calls, stored, unsure>>

\* UPDATE of the status and INSERT of the event, as they are committed.
TransitionRows(c) ==
    LET o == client[c].row
    IN  /\ In(c, "transition", "locked") /\ Validated(c)
        /\ status' = [status EXCEPT ![o] = client[c].to]
        /\ events' = Append(events,
              Log!Change(o, CHOOSE s \in client[c].seen : TRUE, client[c].to))
        /\ UNCHANGED <<inbox, stored>>

\* After its commit transition_run looks for a callback and calls it.
CallBack(c) ==
    /\ In(c, "transition", "committed")
    /\ heard' = IF callback THEN heard \cup {client[c].to} ELSE heard
    /\ client' = [client EXCEPT ![c] = Idle]
    /\ UNCHANGED <<backend, rows, late, lock, callback, runLock, calls, stored,
                   unsure>>

\* Mutant: the check for the key and the insert are separate statements.
InsertUnlocked(c) ==
    /\ In(c, "event", "begun") /\ Ids(client[c].row) = {}
    /\ Pc(c, "locked")
    /\ UNCHANGED <<backend, rows, late, lock, control, runLock, calls, stored,
                   unsure>>

\* write_event: INSERT ... ON CONFLICT DO NOTHING that finds no row, which an
\* uncommitted one with the same key delays.
InsertEvent(c) ==
    LET k == client[c].row
    IN  /\ In(c, "event", "begun")
        /\ k \in Key => Ids(k) = {} /\ lock[k] = NoClient
        /\ lock' = IF k \in Key THEN [lock EXCEPT ![k] = c] ELSE lock
        /\ Pc(c, "locked")
        /\ UNCHANGED <<backend, rows, late, control, runLock, calls, stored,
                       unsure>>

\* The conflict: the existing row's id is selected and returned.
InsertConflict(c) ==
    LET k == client[c].row
    IN  /\ In(c, "event", "begun") /\ k \in Key /\ Ids(k) # {}
        /\ stored' = [stored EXCEPT ![k] = @ \cup Ids(k)]
        /\ client' = [client EXCEPT ![c] = Idle]
        /\ UNCHANGED <<backend, rows, late, lock, control, runLock, calls,
                       unsure>>

EventRows(c) ==
    LET k == client[c].row
    IN  /\ In(c, "event", "locked")
        /\ events' = Append(events, Log!Plain(k))
        /\ stored' = IF k \in Key
                     THEN [stored EXCEPT ![k] = @ \cup {Len(events) + 1}]
                     ELSE stored
        /\ UNCHANGED <<status, inbox>>

\* create_inbox_item: one INSERT.
CreateItem(i) ==
    /\ inbox[i] = "absent"
    /\ inbox' = [inbox EXCEPT ![i] = "pending"]
    /\ UNCHANGED <<backend, status, events, late, lock, client, control,
                   runLock, calls, stored, unsure>>

\* answer_, skip_, reject_ and expire_inbox_item: UPDATE ... WHERE status =
\* 'pending', which locks the row it finds.
UpdateItem(c) ==
    LET i == client[c].row
    IN  /\ In(c, "resolve", "begun") /\ lock[i] = NoClient /\ Pending(i)
        /\ lock' = [lock EXCEPT ![i] = c]
        /\ Pc(c, "locked")
        /\ UNCHANGED <<backend, rows, late, control, runLock, calls, stored,
                       unsure>>

\* "UPDATE 0": InvalidTransitionError.
RefuseResolve(c) ==
    LET i == client[c].row
    IN  /\ In(c, "resolve", "begun") /\ lock[i] = NoClient /\ ~Pending(i)
        /\ client' = [client EXCEPT ![c] = Idle]
        /\ UNCHANGED <<backend, rows, late, lock, control, runLock, calls,
                       stored, unsure>>

\* expire_due_inbox_items: the UPDATE's snapshot of what is due.
SelectDue(c) ==
    /\ In(c, "expire", "begun")
    /\ client' = [client EXCEPT ![c].pc = "scan",
                                ![c].seen = {i \in Item : Due(i)}]
    /\ UNCHANGED <<backend, rows, late, lock, control, runLock, calls, stored,
                   unsure>>

\* It visits those rows: one that is locked makes it wait, one that is no
\* longer pending is passed over.
VisitItem(c) ==
    /\ In(c, "expire", "scan")
    /\ \E i \in client[c].seen :
          /\ lock[i] = NoClient
          /\ lock' = IF Pending(i) THEN [lock EXCEPT ![i] = c] ELSE lock
          /\ client' = [client EXCEPT ![c].seen = @ \ {i}]
    /\ UNCHANGED <<backend, rows, late, control, runLock, calls, stored, unsure>>

\* PostgreSQL breaks a deadlock of two such scans by aborting one of them.
Deadlock(c) ==
    /\ In(c, "expire", "scan")
    /\ \E d \in Client \ {c} :
          /\ In(d, "expire", "scan")
          /\ client[c].seen \cap Held(d) # {} /\ client[d].seen \cap Held(c) # {}
    /\ lock' = Unlocked(c)
    /\ client' = [client EXCEPT ![c] = Idle]
    /\ UNCHANGED <<backend, rows, late, control, runLock, calls, stored, unsure>>

\* The rows an inbox operation has locked take their new status.
InboxRows(c) ==
    /\ \/ In(c, "resolve", "locked")
       \/ In(c, "expire", "scan") /\ client[c].seen = {}
    /\ inbox' = [i \in Item |->
          IF i \notin Held(c) THEN inbox[i]
          ELSE IF client[c].kind = "expire" THEN "expired" ELSE client[c].to]
    /\ UNCHANGED <<status, events, stored>>

\* What the transaction of c writes.
Writes(c) == TransitionRows(c) \/ EventRows(c) \/ InboxRows(c)

\* The commit: locks are released, and the caller goes on.
Commit(c) ==
    /\ Writes(c)
    /\ lock' = Unlocked(c)
    /\ client' = [client EXCEPT ![c] =
          IF @.kind = "transition" /\ @.row = "run"
          THEN [@ EXCEPT !.pc = "committed", !.seen = {}] ELSE Idle]
    /\ UNCHANGED <<backend, late, control, runLock, calls, unsure>>

\* The connection is lost during the commit, after it took effect.
CommitLost(c) ==
    /\ Writes(c)
    /\ lock' = Unlocked(c)
    /\ client' = [client EXCEPT ![c] = Idle]
    /\ unsure' = TRUE
    /\ UNCHANGED <<backend, late, control, runLock, calls>>

\* The connection is lost before the commit: the transaction rolls back.
RollBack(c) ==
    /\ client[c].pc \in {"begun", "locked", "scan"}
    /\ client[c].kind # "subscribe"
    /\ lock' = Unlocked(c)
    /\ client' = [client EXCEPT ![c] = Idle]
    /\ UNCHANGED <<backend, rows, late, control, runLock, calls, stored, unsure>>

\* subscribe_run_control registers the callback (Invoke) and then selects the
\* run's status.
SelectStatus(c) ==
    /\ In(c, "subscribe", "begun")
    /\ client' = [client EXCEPT ![c].pc = "locked",
                                ![c].seen = {status["run"]}]
    /\ UNCHANGED <<backend, rows, late, lock, control, runLock, calls, stored,
                   unsure>>

\* A run that is already stopped is signalled at once.
SignalStopped(c) ==
    /\ In(c, "subscribe", "locked")
    /\ heard' = heard \cup {s \in client[c].seen : Stops(s)}
    /\ client' = [client EXCEPT ![c] = Idle]
    /\ UNCHANGED <<backend, rows, late, lock, callback, runLock, calls, stored,
                   unsure>>

-----------------------------------------------------------------------------
(* InMemoryBackend                                                         *)

\* One call, with no effect on what only PgBackend has.
MemoryCall ==
    /\ backend = "memory" /\ calls < MaxCalls
    /\ calls' = calls + 1
    /\ UNCHANGED <<backend, late, lock, client, unsure>>

\* transition_task.
MemoryTransitionTask(new) ==
    /\ MemoryCall
    /\ ValidTaskTransition(status["task"], new)
    /\ status' = [status EXCEPT !["task"] = new]
    /\ events' = Append(events, Log!Change("task", status["task"], new))
    /\ UNCHANGED <<inbox, control, runLock, stored>>

\* transition_run, which calls the callback itself.
MemoryTransitionRun(new) ==
    /\ MemoryCall
    /\ ValidRunTransition(status["run"], new)
    /\ status' = [status EXCEPT !["run"] = new]
    /\ events' = Append(events, Log!Change("run", status["run"], new))
    /\ heard' = IF callback THEN heard \cup {new} ELSE heard
    /\ UNCHANGED <<inbox, callback, runLock, stored>>

\* write_event: the index of keys is looked up first.
MemoryWriteEvent(k) ==
    /\ MemoryCall
    /\ IF k \in Key /\ Ids(k) # {} THEN UNCHANGED events
       ELSE events' = Append(events, Log!Plain(k))
    /\ stored' = IF k \in Key
                 THEN [stored EXCEPT ![k] = @ \cup
                         {n \in DOMAIN events' : events'[n].key = k}]
                 ELSE stored
    /\ UNCHANGED <<status, inbox, control, runLock>>

\* answer_, skip_, reject_ and expire_inbox_item.
MemoryResolve(i, to) ==
    /\ MemoryCall /\ Pending(i)
    /\ inbox' = [inbox EXCEPT ![i] = to]
    /\ UNCHANGED <<status, events, control, runLock, stored>>

\* expire_due_inbox_items.
MemoryExpireDue ==
    /\ MemoryCall
    /\ inbox' = [i \in Item |-> IF Due(i) THEN "expired" ELSE inbox[i]]
    /\ UNCHANGED <<status, events, control, runLock, stored>>

\* subscribe_run_control.
MemorySubscribe ==
    /\ MemoryCall /\ ~callback
    /\ callback' = TRUE
    /\ heard' = {s \in {status["run"]} : Stops(s)}
    /\ UNCHANGED <<rows, runLock, stored>>

\* acquire_run_lock, when the lock is free.
MemoryAcquireLock ==
    /\ MemoryCall /\ ~runLock
    /\ runLock' = TRUE
    /\ UNCHANGED <<rows, control, stored>>

\* release_run_lock: whoever calls it.
MemoryReleaseLock ==
    /\ MemoryCall
    /\ runLock' = FALSE
    /\ UNCHANGED <<rows, control, stored>>

\* reclaim_interrupted.
MemoryReclaimInterrupted ==
    /\ MemoryCall
    /\ status["task"] \in {"active", "prechecking", "postchecking"}
    /\ status' = [status EXCEPT !["task"] = "cancelled"]
    /\ events' = Append(events, Log!Change("task", status["task"], "cancelled"))
    /\ UNCHANGED <<inbox, control, runLock, stored>>

\* clean_orphaned; it does not call the callback.
MemoryCleanOrphaned ==
    /\ MemoryCall
    /\ status["run"] \in {"running", "paused"} /\ ~runLock
    /\ status' = [status EXCEPT !["run"] = "failed"]
    /\ events' = Append(events, Log!Change("run", status["run"], "failed"))
    /\ UNCHANGED <<inbox, control, runLock, stored>>

-----------------------------------------------------------------------------

\* unsubscribe_run_control of either backend, by the executor that ends.
Unsubscribe ==
    /\ callback
    /\ \A c \in Client : client[c].kind # "subscribe"
    /\ callback' = FALSE
    /\ heard' = {}
    /\ UNCHANGED <<backend, rows, late, lock, client, runLock, calls, stored,
                   unsure>>

\* The deadline of an item passes.
Tick(i) ==
    /\ Pending(i) /\ i \notin late
    /\ late' = late \cup {i}
    /\ UNCHANGED <<backend, rows, lock, client, control, runLock, calls, stored,
                   unsure>>

\* No operation is in progress and no more are made.
Quiet ==
    /\ calls = MaxCalls /\ \A c \in Client : client[c] = Idle
    /\ UNCHANGED vars

\* What c's coroutine does next by itself.
Step(c) ==
    \/ SelectForUpdate(c)
    \/ RefuseTransition(c)
    \/ CallBack(c)
    \/ InsertEvent(c)
    \/ InsertConflict(c)
    \/ UpdateItem(c)
    \/ RefuseResolve(c)
    \/ SelectDue(c)
    \/ VisitItem(c)
    \/ Deadlock(c)
    \/ Commit(c)
    \/ SelectStatus(c)
    \/ SignalStopped(c)

MemoryStep ==
    \/ \E new \in Target.task : MemoryTransitionTask(new)
    \/ \E new \in Target.run : MemoryTransitionRun(new)
    \/ \E k \in Key \cup {NoKey} : MemoryWriteEvent(k)
    \/ \E i \in Item : \E to \in {"answered", "expired"} : MemoryResolve(i, to)
    \/ MemoryExpireDue
    \/ MemorySubscribe
    \/ MemoryAcquireLock
    \/ MemoryReleaseLock
    \/ MemoryReclaimInterrupted
    \/ MemoryCleanOrphaned

Next ==
    \/ \E c \in Client : \E op \in Operation : Invoke(c, op)
    \/ \E c \in Client : Step(c)
    \/ \E c \in Client : CommitLost(c)
    \/ \E c \in Client : RollBack(c)
    \/ MemoryStep
    \/ \E i \in Item : CreateItem(i)
    \/ Unsubscribe
    \/ \E i \in Item : Tick(i)
    \/ Quiet

Spec == Init /\ [][Next]_vars /\ \A c \in Client : WF_vars(Step(c))

-----------------------------------------------------------------------------
(* Properties                                                              *)

\* Every variable has its type.
TypeOK ==
    /\ backend \in {"pg", "memory"}
    /\ status \in [Object -> RunState \cup TaskState]
    /\ status["run"] \in RunState /\ status["task"] \in TaskState
    /\ events \in Seq(EventRow)
    /\ inbox \in [Item -> Resolution \cup {"absent", "pending"}]
    /\ late \subseteq Item
    /\ lock \in [Row -> Client \cup {NoClient}]
    /\ client \in [Client -> Invocation]
    /\ callback \in BOOLEAN /\ heard \subseteq RunState
    /\ runLock \in BOOLEAN /\ unsure \in BOOLEAN
    /\ calls \in 0 .. MaxCalls
    /\ stored \in [Key -> SUBSET Nat]

\* Both backends implement the store that does each operation at once: the
\* transactions of concurrent coroutines, with their lost connections, and the
\* in-memory assignments are steps of TraceLog.
Refines == Log!Spec

\* The event log explains every status (see TraceLog).
HistoryExplains == Log!HistoryExplains

\* However many coroutines write an event under the same idempotency key, and
\* retry when they lost the connection during the commit, it is stored once,
\* and everyone who is told an id is told that one.
KeyStoredOnce ==
    \A k \in Key : Cardinality(Ids(k)) <= 1 /\ stored[k] \subseteq Ids(k)

\* The startup race of subscribe_run_control: once no operation on the run is
\* in progress, a subscriber of a run that is paused or aborted has been told
\* so, whether the stop was committed before, while or after it subscribed.
StopHeard ==
    (/\ callback /\ ~unsure
     /\ \A c \in Client : client[c].kind \notin {"transition", "subscribe"}
     /\ Stops(status["run"]))
    => status["run"] \in heard

\* No coroutine waits for ever for a row or a key another one holds: once there
\* are no more calls (MaxCalls bounds them), every operation has returned.
CallsReturn == <>[](\A c \in Client : client[c] = Idle)

\* What is recorded holds together under concurrent operations and lost connections:
\* the log with the statuses, the keys with the events, the callbacks with the stops.
RecordsConsistent == TypeOK /\ HistoryExplains /\ KeyStoredOnce /\ StopHeard
=============================================================================
