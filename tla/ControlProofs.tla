---------------------------- MODULE ControlProofs ---------------------------
(***************************************************************************)
(* Proofs about how a run is controlled: TraceStore, for every set of      *)
(* coroutines, inbox items and idempotency keys, whose two backends        *)
(* implement the atomic store TraceLog and record what holds together, and *)
(* OverseerLink, for every set of tasks, every budget and any number of    *)
(* attempts and sessions.                                                  *)
(***************************************************************************)
EXTENDS TraceStore, OverseerLink, FiniteSetTheorems, TLAPS

-----------------------------------------------------------------------------
(* TraceStore: the inductive invariant                                     *)

\* Nothing of PgBackend is in use when the backend is the one in memory.
MemoryUnlocked ==
    backend = "memory" => /\ \A c \in Client : client[c] = Idle
                          /\ \A r \in Row : lock[r] = NoClient

\* An operation is on a row of the table it is about.
RowFits(c) ==
    LET o == client[c]
    IN  /\ o.kind = "transition" =>
              \/ o.row = "run" /\ o.to \in RunState
              \/ o.row = "task" /\ o.to \in TaskState
        /\ o.kind = "event" => o.row \in Key \cup {NoKey}
        /\ o.kind = "resolve" => o.row \in Item /\ o.to \in Resolution
        /\ o.pc = "committed" => o.kind = "transition" /\ o.row = "run"

\* The status a transaction read FOR UPDATE is still the row's status.
ReadStands(c) ==
    In(c, "transition", "locked") =>
        /\ lock[client[c].row] = c
        /\ client[c].seen = {status[client[c].row]}

\* The key a transaction inserts is still in no committed row.
KeyStands(c) ==
    (In(c, "event", "locked") /\ client[c].row \in Key) =>
        lock[client[c].row] = c /\ Ids(client[c].row) = {}

\* A locked inbox item is still pending.
ItemStands(i) == lock[i] # NoClient => Pending(i)

LockInv ==
    /\ TypeOK
    /\ MemoryUnlocked
    /\ \A c \in Client : RowFits(c) /\ ReadStands(c) /\ KeyStands(c)
    /\ \A i \in Item : ItemStands(i)

\* No two events have the same key, and the ids told to callers are of events.
KeysApart ==
    \A k \in Key : /\ \A m, n \in Ids(k) : m = n
                   /\ stored[k] \subseteq Ids(k)

\* Somebody is about to tell the subscriber of the run's status.
Telling(c) ==
    \/ In(c, "transition", "committed") /\ client[c].to = status["run"]
    \/ In(c, "subscribe", "begun")
    \/ In(c, "subscribe", "locked") /\ status["run"] \in client[c].seen

StopToldOrHeard ==
    (callback /\ ~unsure /\ Stops(status["run"])) =>
        status["run"] \in heard \/ \E c \in Client : Telling(c)

Inductive == LockInv /\ KeysApart /\ StopToldOrHeard

-----------------------------------------------------------------------------
(* What a step is                                                          *)

LEMMA NextCases ==
    ASSUME Next
    PROVE  \/ \E c \in Client :
                \/ \E op \in Operation : Invoke(c, op)
                \/ SelectForUpdate(c) \/ RefuseTransition(c) \/ CallBack(c)
                \/ InsertEvent(c) \/ InsertConflict(c)
                \/ UpdateItem(c) \/ RefuseResolve(c)
                \/ SelectDue(c) \/ VisitItem(c) \/ Deadlock(c)
                \/ Commit(c) \/ CommitLost(c) \/ RollBack(c)
                \/ SelectStatus(c) \/ SignalStopped(c)
           \/ MemoryStep
           \/ \E i \in Item : CreateItem(i) \/ Tick(i)
           \/ Unsubscribe
           \/ UNCHANGED vars
  BY DEF Next, Step, Quiet

\* The operation a coroutine invokes is one of the kinds, on a row it fits.
LEMMA OperationTypes ==
    ASSUME NEW op \in Operation
    PROVE  /\ op.kind \in {"transition", "event", "resolve", "expire",
                           "subscribe"}
           /\ op.row \in Row \cup {NoKey}
           /\ op.to \in RunState \cup TaskState \cup Resolution \cup {""}
           /\ op.kind = "transition" =>
                 \/ op.row = "run" /\ op.to \in RunState
                 \/ op.row = "task" /\ op.to \in TaskState
           /\ op.kind = "event" => op.row \in Key \cup {NoKey}
           /\ op.kind = "resolve" => op.row \in Item /\ op.to \in Resolution
<1> USE DEF Row, Object, Target, RunState, TaskState, Resolution
<1>1. CASE op \in [kind : {"transition"}, row : {"run"}, to : Target.run]
  BY <1>1
<1>2. CASE op \in [kind : {"transition"}, row : {"task"}, to : Target.task]
  BY <1>2
<1>3. CASE op \in [kind : {"event"}, row : Key \cup {NoKey}, to : {""}]
  BY <1>3
<1>4. CASE op \in [kind : {"resolve"}, row : Item, to : {"answered", "expired"}]
  BY <1>4
<1>5. CASE op \in [kind : {"expire", "subscribe"}, row : {NoKey}, to : {""}]
  BY <1>5
<1> QED
  BY <1>1, <1>2, <1>3, <1>4, <1>5 DEF Operation

\* A client takes a new invocation, the others keep theirs.
LEMMA ClientChange ==
    ASSUME client \in [Client -> Invocation], NEW c \in Client,
           NEW v \in Invocation, client' = [client EXCEPT ![c] = v]
    PROVE  /\ client' \in [Client -> Invocation]
           /\ client'[c] = v
           /\ \A d \in Client : d # c => client'[d] = client[d]
  OBVIOUS

\* A client goes on in its operation.
LEMMA ClientGoesOn ==
    ASSUME client \in [Client -> Invocation], NEW c \in Client,
           NEW p \in {"idle", "begun", "locked", "scan", "committed"},
           NEW S \in SUBSET (RunState \cup TaskState \cup Item)
    PROVE  /\ [client[c] EXCEPT !.pc = p, !.seen = S] \in Invocation
           /\ [client EXCEPT ![c].pc = p] \in [Client -> Invocation]
           /\ [client EXCEPT ![c].seen = S] \in [Client -> Invocation]
           /\ [client EXCEPT ![c].pc = p, ![c].seen = S]
                \in [Client -> Invocation]
<1> DEFINE v == client[c]
<1>0. v \in Invocation
  OBVIOUS
<1> HIDE DEF v
<1>1. /\ [v EXCEPT !.pc = p] \in Invocation
      /\ [v EXCEPT !.seen = S] \in Invocation
      /\ [v EXCEPT !.pc = p, !.seen = S] \in Invocation
  BY <1>0 DEF Invocation
<1> QED
  BY <1>1 DEF v

LEMMA IdleType ==
    Idle \in Invocation /\ Idle.kind = "" /\ Idle.pc = "idle"
  BY DEF Idle, Invocation

\* The locks a client holds are released.
LEMMA UnlockedType ==
    ASSUME lock \in [Row -> Client \cup {NoClient}], NEW c \in Client
    PROVE  Unlocked(c) \in [Row -> Client \cup {NoClient}]
  BY DEF Unlocked

-----------------------------------------------------------------------------
(* Types                                                                   *)

LEMMA TypeInit == Init => TypeOK
<1> SUFFICES ASSUME Init PROVE TypeOK
  OBVIOUS
<1>1. /\ status \in [Object -> RunState \cup TaskState]
      /\ status["run"] \in RunState /\ status["task"] \in TaskState
  BY DEF Init, Object, RunState, TaskState
<1>2. events \in Seq(EventRow)
  BY DEF Init
<1>3. client \in [Client -> Invocation]
  BY IdleType DEF Init
<1>4. calls \in 0 .. MaxCalls
  BY TraceStoreAssumption DEF Init
<1> QED
  BY <1>1, <1>2, <1>3, <1>4 DEF Init, TypeOK

\* The event a transition adds, and the one write_event adds.
LEMMA TransitionEvent ==
    ASSUME TypeOK, NEW c \in Client, RowFits(c), ReadStands(c),
           TransitionRows(c)
    PROVE  /\ client[c].row \in Object /\ client[c].seen = {status[client[c].row]}
           /\ client[c].row = "run" => client[c].to \in RunState
           /\ client[c].row = "task" => client[c].to \in TaskState
           /\ \E e \in EventRow :
                 /\ events' = Append(events, e)
                 /\ e = Log!Change(client[c].row, status[client[c].row], client[c].to)
                 /\ e.key = NoKey
<1> DEFINE o == client[c].row
<1>1. /\ client[c].kind = "transition" /\ o \in Object
      /\ client[c].to \in RunState \cup TaskState
      /\ o = "run" => client[c].to \in RunState
      /\ o = "task" => client[c].to \in TaskState
      /\ client[c].seen = {status[o]}
  BY DEF TransitionRows, In, RowFits, Object, ReadStands
<1>2. status[o] \in RunState \cup TaskState
  BY <1>1 DEF TypeOK
<1>3. (CHOOSE s \in client[c].seen : TRUE) = status[o]
  BY <1>1
<1>4. /\ Log!Change(o, status[o], client[c].to) \in EventRow
      /\ Log!Change(o, status[o], client[c].to).key = NoKey
  BY <1>1, <1>2 DEF Log!Change, Log!NoKey, EventRow, NoKey
<1>5. events' = Append(events, Log!Change(o, status[o], client[c].to))
  BY <1>3 DEF TransitionRows
<1> QED
  BY <1>1, <1>4, <1>5

LEMMA PlainEvent ==
    ASSUME NEW c \in Client, RowFits(c), EventRows(c)
    PROVE  /\ client[c].row \in Key \cup {NoKey}
           /\ \E e \in EventRow : /\ events' = Append(events, e)
                                  /\ e = Log!Plain(client[c].row)
                                  /\ e.key = client[c].row
<1>1. client[c].row \in Key \cup {NoKey}
  BY DEF EventRows, In, RowFits
<1>2. /\ Log!Plain(client[c].row) \in EventRow
      /\ Log!Plain(client[c].row).key = client[c].row
  BY <1>1 DEF Log!Plain, EventRow
<1> QED
  BY <1>1, <1>2 DEF EventRows

LEMMA WritesTypes ==
    ASSUME TypeOK, NEW c \in Client, RowFits(c), ReadStands(c), Writes(c)
    PROVE  /\ status' \in [Object -> RunState \cup TaskState]
           /\ status'["run"] \in RunState /\ status'["task"] \in TaskState
           /\ events' \in Seq(EventRow)
           /\ inbox' \in [Item -> Resolution \cup {"absent", "pending"}]
           /\ stored' \in [Key -> SUBSET Nat]
<1>0. events \in Seq(EventRow) /\ client[c] \in Invocation
  BY DEF TypeOK
<1>1. CASE TransitionRows(c)
  <2>1. events' \in Seq(EventRow)
    BY <1>0, <1>1, TransitionEvent
  <2> QED
    BY <1>1, <2>1, TransitionEvent DEF TransitionRows, TypeOK, Object
<1>2. CASE EventRows(c)
  <2>1. events' \in Seq(EventRow) /\ Len(events) + 1 \in Nat
    BY <1>0, <1>2, PlainEvent
  <2> QED
    BY <1>2, <2>1 DEF EventRows, TypeOK
<1>3. CASE InboxRows(c)
  BY <1>3 DEF InboxRows, TypeOK, RowFits, In, Resolution
<1> QED
  BY <1>1, <1>2, <1>3 DEF Writes

LEMMA MemoryTypes ==
    ASSUME TypeOK, MemoryStep
    PROVE  TypeOK'
<1> USE DEF rows, control
<1>0. events \in Seq(EventRow) /\ status["run"] \in RunState
      /\ status["task"] \in TaskState /\ MaxCalls \in Nat
  BY TraceStoreAssumption DEF TypeOK
<1>1. ASSUME NEW o \in Object, NEW s, events' = Append(events, Log!Change(o, status[o], s)),
             s \in RunState \cup TaskState
      PROVE  events' \in Seq(EventRow)
  <2>1. status[o] \in RunState \cup TaskState
    BY DEF TypeOK
  <2>2. Log!Change(o, status[o], s) \in EventRow
    BY <1>1, <2>1 DEF Log!Change, Log!NoKey, NoKey, EventRow
  <2> QED
    BY <1>0, <1>1, <2>2
<1>2. ASSUME MemoryCall PROVE calls' \in 0 .. MaxCalls
  BY <1>0, <1>2 DEF MemoryCall, TypeOK
<1>3. ASSUME NEW new \in Target.task, MemoryTransitionTask(new) PROVE TypeOK'
  BY <1>0, <1>1, <1>2, <1>3
     DEF MemoryTransitionTask, MemoryCall, TypeOK, Object, Target, TaskState
<1>4. ASSUME NEW new \in Target.run, MemoryTransitionRun(new) PROVE TypeOK'
  BY <1>0, <1>1, <1>2, <1>4
     DEF MemoryTransitionRun, MemoryCall, TypeOK, Object, Target, RunState
<1>5. ASSUME NEW k \in Key \cup {NoKey}, MemoryWriteEvent(k) PROVE TypeOK'
  <2>1. Log!Plain(k) \in EventRow
    BY DEF Log!Plain, EventRow
  <2>2. events' \in Seq(EventRow)
    BY <1>0, <1>5, <2>1 DEF MemoryWriteEvent
  <2>3. stored' \in [Key -> SUBSET Nat]
    BY <1>5, <2>2 DEF MemoryWriteEvent, TypeOK
  <2> QED
    BY <1>2, <1>5, <2>2, <2>3 DEF MemoryWriteEvent, MemoryCall, TypeOK
<1>6. ASSUME NEW i \in Item, NEW to \in {"answered", "expired"},
             MemoryResolve(i, to)
      PROVE  TypeOK'
  BY <1>2, <1>6 DEF MemoryResolve, MemoryCall, TypeOK, Resolution
<1>7. ASSUME MemoryExpireDue PROVE TypeOK'
  BY <1>2, <1>7 DEF MemoryExpireDue, MemoryCall, TypeOK, Resolution
<1>8. ASSUME MemorySubscribe PROVE TypeOK'
  BY <1>0, <1>2, <1>8 DEF MemorySubscribe, MemoryCall, TypeOK
<1>9. ASSUME MemoryAcquireLock \/ MemoryReleaseLock PROVE TypeOK'
  BY <1>2, <1>9 DEF MemoryAcquireLock, MemoryReleaseLock, MemoryCall, TypeOK
<1>10. ASSUME MemoryReclaimInterrupted PROVE TypeOK'
  BY <1>0, <1>1, <1>2, <1>10
     DEF MemoryReclaimInterrupted, MemoryCall, TypeOK, Object, TaskState
<1>11. ASSUME MemoryCleanOrphaned PROVE TypeOK'
  BY <1>0, <1>1, <1>2, <1>11
     DEF MemoryCleanOrphaned, MemoryCall, TypeOK, Object, RunState
<1> QED
  BY <1>3, <1>4, <1>5, <1>6, <1>7, <1>8, <1>9, <1>10, <1>11 DEF MemoryStep

LEMMA TypeNext ==
    ASSUME LockInv, [Next]_vars
    PROVE  TypeOK'
<1> USE DEF LockInv, rows, control
<1>0. TypeOK /\ client \in [Client -> Invocation]
  BY DEF TypeOK
<1>1. ASSUME NEW c \in Client, NEW op \in Operation, Invoke(c, op)
      PROVE  TypeOK'
  <2> DEFINE v == [pc |-> "begun", kind |-> op.kind, row |-> op.row,
                   to |-> op.to, seen |-> {}]
  <2>1. v \in Invocation
    BY OperationTypes DEF Invocation
  <2>2. client' \in [Client -> Invocation]
    BY <1>0, <1>1, <2>1, ClientChange DEF Invoke
  <2>3. calls' \in 0 .. MaxCalls
    BY <1>0, <1>1, TraceStoreAssumption DEF Invoke, TypeOK
  <2> HIDE DEF v
  <2> QED
    BY <1>0, <1>1, <2>2, <2>3 DEF Invoke, TypeOK
<1>2. ASSUME NEW c \in Client, SelectForUpdate(c) PROVE TypeOK'
  <2>1. client[c].row \in Object
    BY <1>2 DEF SelectForUpdate, In, RowFits, Object
  <2>2. {status[client[c].row]} \in SUBSET (RunState \cup TaskState \cup Item)
    BY <1>0, <2>1 DEF TypeOK
  <2>3. client' \in [Client -> Invocation]
    BY <1>0, <1>2, <2>2, ClientGoesOn DEF SelectForUpdate
  <2> QED
    BY <1>0, <1>2, <2>1, <2>3 DEF SelectForUpdate, TypeOK, Row
<1>3. ASSUME NEW c \in Client, RefuseTransition(c) PROVE TypeOK'
  BY <1>0, <1>3, IdleType, UnlockedType DEF RefuseTransition, TypeOK
<1>4. ASSUME NEW c \in Client, CallBack(c) PROVE TypeOK'
  <2>1. client[c].to \in RunState
    BY <1>4 DEF CallBack, In, RowFits
  <2> QED
    BY <1>0, <1>4, <2>1, IdleType DEF CallBack, TypeOK
<1>5. ASSUME NEW c \in Client, InsertEvent(c) PROVE TypeOK'
  <2>1. client' \in [Client -> Invocation]
    BY <1>0, <1>5, ClientGoesOn DEF InsertEvent, Pc
  <2> QED
    BY <1>0, <1>5, <2>1 DEF InsertEvent, TypeOK, Row
<1>6. ASSUME NEW c \in Client, InsertConflict(c) PROVE TypeOK'
  <2>1. Ids(client[c].row) \in SUBSET Nat
    BY <1>0 DEF TypeOK, Ids
  <2> QED
    BY <1>0, <1>6, <2>1, IdleType DEF InsertConflict, TypeOK
<1>7. ASSUME NEW c \in Client, UpdateItem(c) PROVE TypeOK'
  <2>1. client' \in [Client -> Invocation]
    BY <1>0, <1>7, ClientGoesOn DEF UpdateItem, Pc
  <2> QED
    BY <1>0, <1>7, <2>1 DEF UpdateItem, TypeOK, Row
<1>8. ASSUME NEW c \in Client, RefuseResolve(c) PROVE TypeOK'
  BY <1>0, <1>8, IdleType DEF RefuseResolve, TypeOK
<1>9. ASSUME NEW c \in Client, SelectDue(c) PROVE TypeOK'
  <2>1. client' \in [Client -> Invocation]
    BY <1>0, <1>9, ClientGoesOn DEF SelectDue
  <2> QED
    BY <1>0, <1>9, <2>1 DEF SelectDue, TypeOK
<1>10. ASSUME NEW c \in Client, VisitItem(c) PROVE TypeOK'
  <2>1. PICK i \in client[c].seen :
            /\ lock' = IF Pending(i) THEN [lock EXCEPT ![i] = c] ELSE lock
            /\ client' = [client EXCEPT ![c].seen = @ \ {i}]
    BY <1>10 DEF VisitItem
  <2>2. client[c].seen \ {i} \in SUBSET (RunState \cup TaskState \cup Item)
    BY <1>0 DEF Invocation
  <2>3. client' \in [Client -> Invocation]
    BY <1>0, <2>1, <2>2, ClientGoesOn
  <2>4. lock' \in [Row -> Client \cup {NoClient}]
    BY <1>0, <2>1 DEF TypeOK
  <2> QED
    BY <1>0, <1>10, <2>3, <2>4 DEF VisitItem, TypeOK
<1>11. ASSUME NEW c \in Client, Deadlock(c) PROVE TypeOK'
  BY <1>0, <1>11, IdleType, UnlockedType DEF Deadlock, TypeOK
<1>12. ASSUME NEW c \in Client, Commit(c) PROVE TypeOK'
  <2>1. client' \in [Client -> Invocation]
    BY <1>0, <1>12, IdleType, ClientGoesOn DEF Commit
  <2> QED
    BY <1>0, <1>12, <2>1, WritesTypes, UnlockedType DEF Commit, TypeOK
<1>13. ASSUME NEW c \in Client, CommitLost(c) PROVE TypeOK'
  BY <1>0, <1>13, IdleType, WritesTypes, UnlockedType DEF CommitLost, TypeOK
<1>14. ASSUME NEW c \in Client, RollBack(c) PROVE TypeOK'
  BY <1>0, <1>14, IdleType, UnlockedType DEF RollBack, TypeOK
<1>15. ASSUME NEW c \in Client, SelectStatus(c) PROVE TypeOK'
  <2>1. {status["run"]} \in SUBSET (RunState \cup TaskState \cup Item)
    BY <1>0 DEF TypeOK
  <2>2. client' \in [Client -> Invocation]
    BY <1>0, <1>15, <2>1, ClientGoesOn DEF SelectStatus
  <2> QED
    BY <1>0, <1>15, <2>2 DEF SelectStatus, TypeOK
<1>16. ASSUME NEW c \in Client, SignalStopped(c) PROVE TypeOK'
  BY <1>0, <1>16, IdleType DEF SignalStopped, TypeOK, Invocation, Stops, RunState
<1>17. ASSUME MemoryStep PROVE TypeOK'
  BY <1>0, <1>17, MemoryTypes
<1>18. ASSUME NEW i \in Item, CreateItem(i) \/ Tick(i) PROVE TypeOK'
  BY <1>0, <1>18 DEF CreateItem, Tick, TypeOK
<1>19. ASSUME Unsubscribe PROVE TypeOK'
  BY <1>0, <1>19 DEF Unsubscribe, TypeOK
<1>20. ASSUME UNCHANGED vars PROVE TypeOK'
  BY <1>0, <1>20 DEF vars, TypeOK
<1> QED
  BY <1>1, <1>2, <1>3, <1>4, <1>5, <1>6, <1>7, <1>8, <1>9, <1>10, <1>11,
     <1>12, <1>13, <1>14, <1>15, <1>16, <1>17, <1>18, <1>19, <1>20, NextCases

-----------------------------------------------------------------------------
(* The locks                                                               *)

\* A row of one table is no row of another.
LEMMA RowsApart ==
    /\ \A i \in Item : i \in Row /\ i \notin Object /\ i \notin Key
    /\ \A k \in Key : k \in Row /\ k \notin Object /\ k \notin Item /\ k # NoKey
    /\ "run" \in Row /\ "task" \in Row
    /\ NoClient \notin Client
  BY TraceStoreAssumption DEF Row, Object, NoKey, NoClient

LEMMA LockInit == Init => LockInv
<1> SUFFICES ASSUME Init PROVE LockInv
  OBVIOUS
<1>1. \A c \in Client : client[c] = Idle
  BY DEF Init
<1>2. \A r \in Row : lock[r] = NoClient
  BY DEF Init
<1>3. ASSUME NEW c \in Client PROVE RowFits(c) /\ ReadStands(c) /\ KeyStands(c)
  <2>1. client[c].kind = "" /\ client[c].pc = "idle"
    BY <1>1, IdleType
  <2> QED
    BY <2>1 DEF RowFits, ReadStands, KeyStands, In
<1>4. MemoryUnlocked /\ \A i \in Item : ItemStands(i)
  BY <1>1, <1>2, RowsApart DEF MemoryUnlocked, ItemStands
<1> QED
  BY <1>3, <1>4, TypeInit DEF LockInv

\* A step that leaves the rows alone, in which c takes a new invocation, takes
\* locks or gives its own back, keeps the locks of the others.
LEMMA LockFrame ==
    ASSUME LockInv, NEW c \in Client, UNCHANGED <<backend, rows>>, backend = "pg",
           \A d \in Client : d # c => client'[d] = client[d],
           \A r \in Row : \/ lock'[r] = lock[r]
                          \/ lock[r] \in {c, NoClient} /\ lock'[r] \in {c, NoClient},
           RowFits(c)', ReadStands(c)', KeyStands(c)', TypeOK',
           \A i \in Item : lock'[i] = c => Pending(i)
    PROVE  LockInv'
<1> USE DEF LockInv, rows
<1>1. ASSUME NEW d \in Client, d # c
      PROVE  RowFits(d)' /\ ReadStands(d)' /\ KeyStands(d)'
  <2>1. client'[d] = client[d]
    BY <1>1
  <2>2. RowFits(d)'
    BY <2>1 DEF RowFits
  <2>3. ReadStands(d)'
    BY <1>1, <2>1, RowsApart DEF ReadStands, RowFits, In
  <2>4. KeyStands(d)'
    BY <1>1, <2>1, RowsApart DEF KeyStands, In, Ids
  <2> QED
    BY <2>2, <2>3, <2>4
<1>2. ASSUME NEW i \in Item PROVE ItemStands(i)'
  BY RowsApart DEF ItemStands, Pending
<1>3. MemoryUnlocked'
  BY DEF MemoryUnlocked
<1> QED
  BY <1>1, <1>2, <1>3

\* The new invocation stands when it is idle, or not past its first statement.
LEMMA FreshStands ==
    ASSUME NEW c \in Client,
           \/ client'[c] = Idle
           \/ client'[c].pc \in {"begun", "scan"} /\ RowFits(c)'
           \/ client'[c].kind = "subscribe" /\ client'[c].pc = "locked"
    PROVE  RowFits(c)' /\ ReadStands(c)' /\ KeyStands(c)'
<1>1. CASE client'[c] = Idle
  <2>1. client'[c].kind = "" /\ client'[c].pc = "idle"
    BY <1>1, IdleType
  <2> QED
    BY <2>1 DEF RowFits, ReadStands, KeyStands, In
<1>2. CASE client'[c].pc \in {"begun", "scan"} /\ RowFits(c)'
  BY <1>2 DEF ReadStands, KeyStands, In
<1>3. CASE client'[c].kind = "subscribe" /\ client'[c].pc = "locked"
  BY <1>3 DEF RowFits, ReadStands, KeyStands, In
<1> QED
  BY <1>1, <1>2, <1>3

\* The locks after c's transaction ended are those of the others.
LEMMA UnlockedRows ==
    ASSUME NEW c \in Client, lock' = Unlocked(c)
    PROVE  \A r \in Row : /\ lock[r] = c => lock'[r] = NoClient
                          /\ lock[r] # c => lock'[r] = lock[r]
  BY DEF Unlocked

\* While a client is in an operation the backend is PgBackend.
LEMMA InPg ==
    ASSUME LockInv, NEW c \in Client,
           client[c].kind # "" \/ client[c].pc # "idle"
    PROVE  backend = "pg"
  BY IdleType DEF LockInv, TypeOK, MemoryUnlocked

\* What the transaction of c writes disturbs nothing the others have locked.
LEMMA WritesStand ==
    ASSUME LockInv, NEW c \in Client, Writes(c), lock' = Unlocked(c),
           NEW d \in Client, d # c, client'[d] = client[d]
    PROVE  RowFits(d)' /\ ReadStands(d)' /\ KeyStands(d)'
<1> USE DEF LockInv
<1>0. /\ events \in Seq(EventRow) /\ RowFits(d)
      /\ status \in [Object -> RunState \cup TaskState]
  BY DEF TypeOK
<1>1. RowFits(d)'
  BY <1>0 DEF RowFits
<1>2. ReadStands(d)'
  <2> SUFFICES ASSUME In(d, "transition", "locked")
               PROVE  /\ lock'[client[d].row] = d
                      /\ client[d].seen = {status'[client[d].row]}
    BY DEF ReadStands, In
  <2> DEFINE o == client[d].row
  <2>1. o \in Object /\ o \in Row /\ lock[o] = d /\ client[d].seen = {status[o]}
    BY <1>0, RowsApart DEF In, RowFits, Object, ReadStands
  <2>2. lock'[o] = d
    BY <2>1, UnlockedRows
  <2>3. status'[o] = status[o]
    <3>1. CASE TransitionRows(c)
      <4>1. lock[client[c].row] = c
        BY <3>1 DEF TransitionRows, ReadStands
      <4> QED
        BY <1>0, <2>1, <3>1, <4>1 DEF TransitionRows
    <3>2. CASE EventRows(c) \/ InboxRows(c)
      BY <3>2 DEF EventRows, InboxRows
    <3> QED
      BY <3>1, <3>2 DEF Writes
  <2> QED
    BY <2>1, <2>2, <2>3
<1>3. KeyStands(d)'
  <2> SUFFICES ASSUME In(d, "event", "locked"), client[d].row \in Key
               PROVE  lock'[client[d].row] = d /\ Ids(client[d].row)' = {}
    BY DEF KeyStands, In
  <2> DEFINE k == client[d].row
  <2>1. k \in Row /\ k # NoKey /\ lock[k] = d /\ Ids(k) = {}
    BY RowsApart DEF KeyStands
  <2>2. lock'[k] = d
    BY <2>1, UnlockedRows
  <2>3. ASSUME NEW e \in EventRow, events' = Append(events, e), e.key # k
        PROVE  Ids(k)' = {}
    BY <1>0, <2>1, <2>3 DEF Ids
  <2>4. CASE TransitionRows(c)
    <3>1. PICK e \in EventRow : events' = Append(events, e) /\ e.key = NoKey
      BY <2>4, TransitionEvent
    <3> QED
      BY <2>1, <2>2, <2>3, <3>1
  <2>5. CASE EventRows(c)
    <3>1. client[c].row # k
      BY <2>1, <2>5 DEF EventRows, KeyStands
    <3>2. PICK e \in EventRow : events' = Append(events, e) /\ e.key = client[c].row
      BY <2>5, PlainEvent
    <3> QED
      BY <2>2, <2>3, <3>1, <3>2
  <2>6. CASE InboxRows(c)
    BY <2>1, <2>2, <2>6 DEF InboxRows, Ids
  <2> QED
    BY <2>4, <2>5, <2>6 DEF Writes
<1> QED
  BY <1>1, <1>2, <1>3

\* A locked item is pending until the transaction that locked it commits.
LEMMA WritesItems ==
    ASSUME LockInv, NEW c \in Client, Writes(c), lock' = Unlocked(c),
           NEW i \in Item
    PROVE  ItemStands(i)'
<1>1. i \in Row /\ ItemStands(i)
  BY RowsApart DEF LockInv
<1>2. CASE TransitionRows(c) \/ EventRows(c)
  BY <1>1, <1>2, UnlockedRows DEF TransitionRows, EventRows, ItemStands, Pending
<1>3. CASE InboxRows(c)
  BY <1>1, <1>3, UnlockedRows DEF InboxRows, ItemStands, Pending, Held
<1> QED
  BY <1>2, <1>3 DEF Writes

LEMMA LockNext ==
    ASSUME LockInv, [Next]_vars
    PROVE  LockInv'
<1> USE DEF rows, control
<1>0. /\ TypeOK /\ TypeOK' /\ client \in [Client -> Invocation]
      /\ lock \in [Row -> Client \cup {NoClient}]
  BY TypeNext DEF LockInv, TypeOK
<1>f. ASSUME NEW c \in Client
      PROVE  RowFits(c) /\ ReadStands(c) /\ KeyStands(c)
  BY DEF LockInv
<1>i. ASSUME NEW i \in Item PROVE lock[i] # NoClient => Pending(i)
  BY DEF LockInv, ItemStands
<1>1. ASSUME NEW c \in Client, NEW op \in Operation, Invoke(c, op)
      PROVE  LockInv'
  <2> DEFINE v == [pc |-> "begun", kind |-> op.kind, row |-> op.row,
                   to |-> op.to, seen |-> {}]
  <2>1. v \in Invocation /\ v.pc = "begun" /\ v.kind = op.kind
        /\ v.row = op.row /\ v.to = op.to
    BY OperationTypes DEF Invocation
  <2>2. client' = [client EXCEPT ![c] = v]
    BY <1>1 DEF Invoke
  <2> HIDE DEF v
  <2>3. client'[c] = v /\ \A d \in Client : d # c => client'[d] = client[d]
    BY <1>0, <2>1, <2>2, ClientChange
  <2>4. RowFits(c)'
    BY <2>1, <2>3, OperationTypes DEF RowFits
  <2>5. RowFits(c)' /\ ReadStands(c)' /\ KeyStands(c)'
    BY <2>1, <2>3, <2>4, FreshStands
  <2>6. lock' = lock /\ backend = "pg" /\ UNCHANGED <<backend, rows>>
    BY <1>1 DEF Invoke
  <2> QED
    BY <1>0, <1>i, <2>3, <2>5, <2>6, RowsApart, LockFrame
<1>2. ASSUME NEW c \in Client, SelectForUpdate(c) PROVE LockInv'
  <2>1. /\ client[c].kind = "transition" /\ client[c].row \in Object
        /\ client[c].row \in Row /\ lock[client[c].row] = NoClient
    BY <1>2, <1>f, RowsApart DEF SelectForUpdate, In, RowFits, Object
  <2>2. /\ client'[c].pc = "locked" /\ client'[c].kind = client[c].kind
        /\ client'[c].row = client[c].row /\ client'[c].to = client[c].to
        /\ client'[c].seen = {status[client[c].row]}
        /\ \A d \in Client : d # c => client'[d] = client[d]
    BY <1>0, <1>2, ZenonT(60) DEF SelectForUpdate, Invocation
  <2>3. /\ lock'[client[c].row] = c
        /\ \A r \in Row : r # client[c].row => lock'[r] = lock[r]
        /\ UNCHANGED <<backend, rows>>
    BY <1>0, <1>2, <2>1 DEF SelectForUpdate
  <2>4. RowFits(c)' /\ ReadStands(c)' /\ KeyStands(c)'
    BY <1>f, <2>1, <2>2, <2>3 DEF RowFits, ReadStands, KeyStands, In
  <2>5. backend = "pg"
    BY <2>1, InPg
  <2> QED
    BY <1>0, <1>i, <2>1, <2>2, <2>3, <2>4, <2>5, RowsApart, LockFrame
<1>3. ASSUME NEW c \in Client,
             RefuseTransition(c) \/ Deadlock(c) \/ RollBack(c)
      PROVE LockInv'
  <2>1. client'[c] = Idle /\ \A d \in Client : d # c => client'[d] = client[d]
    BY <1>0, <1>3 DEF RefuseTransition, Deadlock, RollBack
  <2>2. /\ lock' = Unlocked(c) /\ UNCHANGED <<backend, rows>>
        /\ client[c].pc # "idle"
    BY <1>3 DEF RefuseTransition, Deadlock, RollBack, In
  <2>3. RowFits(c)' /\ ReadStands(c)' /\ KeyStands(c)'
    BY <2>1, FreshStands
  <2>4. backend = "pg"
    BY <2>2, InPg
  <2>5. \A r \in Row : /\ lock[r] = c => lock'[r] = NoClient
                       /\ lock[r] # c => lock'[r] = lock[r]
    BY <2>2, UnlockedRows
  <2>6. \A i \in Item : lock'[i] = c => Pending(i)
    BY <1>i, <2>5, RowsApart
  <2> QED
    BY <1>0, <2>1, <2>2, <2>3, <2>4, <2>5, <2>6, LockFrame
<1>4. ASSUME NEW c \in Client,
             CallBack(c) \/ InsertConflict(c) \/ RefuseResolve(c) \/ SignalStopped(c)
      PROVE LockInv'
  <2>1. client'[c] = Idle /\ \A d \in Client : d # c => client'[d] = client[d]
    BY <1>0, <1>4 DEF CallBack, InsertConflict, RefuseResolve, SignalStopped
  <2>2. /\ lock' = lock /\ UNCHANGED <<backend, rows>>
        /\ client[c].pc # "idle"
    BY <1>4 DEF CallBack, InsertConflict, RefuseResolve, SignalStopped, In
  <2>3. RowFits(c)' /\ ReadStands(c)' /\ KeyStands(c)'
    BY <2>1, FreshStands
  <2>4. backend = "pg"
    BY <2>2, InPg
  <2>5. \A i \in Item : lock'[i] = c => Pending(i)
    BY <1>i, <2>2, RowsApart
  <2> QED
    BY <1>0, <2>1, <2>2, <2>3, <2>4, <2>5, LockFrame
<1>5. ASSUME NEW c \in Client, InsertEvent(c) PROVE LockInv'
  <2>1. client[c].kind = "event"
    BY <1>5 DEF InsertEvent, In
  <2>2. /\ client'[c].pc = "locked" /\ client'[c].kind = client[c].kind
        /\ client'[c].row = client[c].row /\ client'[c].to = client[c].to
        /\ \A d \in Client : d # c => client'[d] = client[d]
    BY <1>0, <1>5 DEF InsertEvent, Pc, Invocation
  <2>3. /\ client[c].row \in Key => /\ lock'[client[c].row] = c
                                    /\ lock[client[c].row] = NoClient
                                    /\ Ids(client[c].row) = {}
        /\ \A r \in Row : r # client[c].row => lock'[r] = lock[r]
        /\ client[c].row \notin Key => lock' = lock
        /\ UNCHANGED <<backend, rows>>
    BY <1>0, <1>5, RowsApart DEF InsertEvent
  <2>4. RowFits(c)' /\ ReadStands(c)' /\ KeyStands(c)'
    BY <1>f, <2>1, <2>2, <2>3 DEF RowFits, ReadStands, KeyStands, In, Ids
  <2>5. backend = "pg"
    BY <2>1, InPg
  <2> QED
    BY <1>0, <1>i, <2>1, <2>2, <2>3, <2>4, <2>5, RowsApart, LockFrame
<1>6. ASSUME NEW c \in Client, UpdateItem(c) PROVE LockInv'
  <2>1. client[c].kind = "resolve" /\ client[c].row \in Item
    BY <1>f, <1>6 DEF UpdateItem, In, RowFits
  <2>2. /\ client'[c].pc = "locked" /\ client'[c].kind = client[c].kind
        /\ client'[c].row = client[c].row /\ client'[c].to = client[c].to
        /\ \A d \in Client : d # c => client'[d] = client[d]
    BY <1>0, <1>6 DEF UpdateItem, Pc, Invocation
  <2>3. /\ lock[client[c].row] = NoClient /\ Pending(client[c].row)
        /\ lock'[client[c].row] = c
        /\ \A r \in Row : r # client[c].row => lock'[r] = lock[r]
        /\ UNCHANGED <<backend, rows>>
    BY <1>0, <1>6, <2>1, RowsApart DEF UpdateItem
  <2>4. RowFits(c)' /\ ReadStands(c)' /\ KeyStands(c)'
    BY <1>f, <2>1, <2>2 DEF RowFits, ReadStands, KeyStands, In
  <2>5. backend = "pg"
    BY <2>1, InPg
  <2> QED
    BY <1>0, <1>i, <2>1, <2>2, <2>3, <2>4, <2>5, RowsApart, LockFrame
<1>7. ASSUME NEW c \in Client, SelectDue(c) \/ SelectStatus(c) PROVE LockInv'
  <2>1. client[c].kind \in {"expire", "subscribe"} /\ lock' = lock
        /\ UNCHANGED <<backend, rows>>
    BY <1>7 DEF SelectDue, SelectStatus, In
  <2>2. /\ client'[c].pc \in {"scan", "locked"}
        /\ client'[c].kind = client[c].kind
        /\ \A d \in Client : d # c => client'[d] = client[d]
    BY <1>0, <1>7 DEF SelectDue, SelectStatus, Invocation
  <2>3. RowFits(c)' /\ ReadStands(c)' /\ KeyStands(c)'
    BY <2>1, <2>2 DEF RowFits, ReadStands, KeyStands, In
  <2> QED
    BY <1>0, <1>i, <2>1, <2>2, <2>3, RowsApart, InPg, LockFrame
<1>8. ASSUME NEW c \in Client, VisitItem(c) PROVE LockInv'
  <2>1. PICK i \in client[c].seen :
            /\ lock[i] = NoClient
            /\ lock' = IF Pending(i) THEN [lock EXCEPT ![i] = c] ELSE lock
            /\ client' = [client EXCEPT ![c].seen = @ \ {i}]
    BY <1>8 DEF VisitItem
  <2>2. client[c].kind = "expire" /\ client[c].pc = "scan"
        /\ UNCHANGED <<backend, rows>>
    BY <1>8 DEF VisitItem, In
  <2>3. /\ client'[c].pc = "scan" /\ client'[c].kind = "expire"
        /\ \A d \in Client : d # c => client'[d] = client[d]
    BY <1>0, <2>1, <2>2 DEF Invocation
  <2>4. RowFits(c)' /\ ReadStands(c)' /\ KeyStands(c)'
    BY <2>3 DEF RowFits, ReadStands, KeyStands, In
  <2>5. \A r \in Row : \/ lock'[r] = lock[r]
                       \/ r = i /\ Pending(i) /\ lock[r] = NoClient /\ lock'[r] = c
    BY <1>0, <2>1
  <2>6. \A j \in Item : lock'[j] = c => Pending(j)
    BY <1>i, <2>5, RowsApart
  <2> QED
    BY <1>0, <2>2, <2>3, <2>4, <2>5, <2>6, InPg, LockFrame
<1>9. ASSUME NEW c \in Client, Commit(c) \/ CommitLost(c) PROVE LockInv'
  <2>1. /\ Writes(c) /\ lock' = Unlocked(c) /\ backend' = backend
        /\ client[c].kind # ""
    BY <1>9 DEF Commit, CommitLost, Writes, TransitionRows, EventRows,
                InboxRows, In
  <2>2. \A d \in Client : d # c => client'[d] = client[d]
    BY <1>0, <1>9 DEF Commit, CommitLost
  <2>3. \/ client'[c] = Idle
        \/ /\ client[c].kind = "transition" /\ client[c].row = "run"
           /\ client'[c] = [client[c] EXCEPT !.pc = "committed", !.seen = {}]
    BY <1>0, <1>9 DEF Commit, CommitLost
  <2>4. RowFits(c)' /\ ReadStands(c)' /\ KeyStands(c)'
    <3>1. CASE client'[c] = Idle
      BY <3>1, FreshStands
    <3>2. CASE client'[c] # Idle
      <4>1. /\ client'[c].kind = "transition" /\ client'[c].row = "run"
            /\ client'[c].to = client[c].to /\ client'[c].pc = "committed"
        BY <1>0, <2>3, <3>2 DEF Invocation
      <4> QED
        BY <1>f, <2>3, <3>2, <4>1 DEF RowFits, ReadStands, KeyStands, In
    <3> QED
      BY <3>1, <3>2
  <2>5. MemoryUnlocked'
    BY <2>1, InPg DEF MemoryUnlocked
  <2> QED
    BY <1>0, <2>1, <2>2, <2>4, <2>5, WritesStand, WritesItems DEF LockInv
<1>10. ASSUME MemoryStep PROVE LockInv'
  <2>1. backend = "memory" /\ UNCHANGED <<backend, lock, client>>
    BY <1>10 DEF MemoryStep, MemoryCall, MemoryTransitionTask,
       MemoryTransitionRun, MemoryWriteEvent, MemoryResolve, MemoryExpireDue,
       MemorySubscribe, MemoryAcquireLock, MemoryReleaseLock,
       MemoryReclaimInterrupted, MemoryCleanOrphaned
  <2>2. /\ \A c \in Client : client'[c] = Idle
        /\ \A r \in Row : lock'[r] = NoClient
    BY <2>1 DEF LockInv, MemoryUnlocked
  <2>3. MemoryUnlocked' /\ \A i \in Item : ItemStands(i)'
    BY <2>2, RowsApart DEF MemoryUnlocked, ItemStands
  <2> QED
    BY <1>0, <2>2, <2>3, FreshStands DEF LockInv
<1>11. ASSUME NEW i \in Item, CreateItem(i) \/ Tick(i) PROVE LockInv'
  <2>1. /\ UNCHANGED <<backend, lock, client, status, events>>
        /\ \A j \in Item : Pending(j) => Pending(j)'
    BY <1>0, <1>11 DEF CreateItem, Tick, TypeOK, Pending
  <2> QED
    BY <1>0, <2>1 DEF LockInv, MemoryUnlocked, RowFits, ReadStands, KeyStands,
       In, Ids, ItemStands
<1>12. ASSUME Unsubscribe \/ UNCHANGED vars PROVE LockInv'
  <2>1. UNCHANGED <<backend, lock, client, status, events, inbox>>
    BY <1>12 DEF Unsubscribe, vars
  <2> QED
    BY <1>0, <2>1 DEF LockInv, MemoryUnlocked, RowFits, ReadStands, KeyStands,
       In, Ids, ItemStands, Pending
<1> QED
  BY <1>1, <1>2, <1>3, <1>4, <1>5, <1>6, <1>7, <1>8, <1>9, <1>10, <1>11,
     <1>12, NextCases

-----------------------------------------------------------------------------
(* The refinement of TraceLog                                              *)

\* TraceLog and TraceStore speak of the same tables.
LEMMA SameTables ==
    /\ Log!TaskState = TaskState /\ Log!RunState = RunState
    /\ \A old, new : ValidTaskTransition(old, new) =>
                       Log!ValidTaskTransition(old, new)
    /\ \A old, new : ValidRunTransition(old, new) =>
                       Log!ValidRunTransition(old, new)
  BY DEF TaskState, RunState, Log!TaskState, Log!RunState,
     ValidTaskTransition, Log!ValidTaskTransition, TASK_TRANSITIONS,
     Log!TASK_TRANSITIONS, TASK_TERMINAL_STATES, Log!TASK_TERMINAL_STATES,
     ValidRunTransition, Log!ValidRunTransition, RUN_TRANSITIONS,
     Log!RUN_TRANSITIONS, RUN_TERMINAL_STATES, Log!RUN_TERMINAL_STATES

\* What a transaction writes is one operation of the atomic store.
LEMMA WritesLog ==
    ASSUME LockInv, NEW c \in Client, Writes(c)
    PROVE  Log!Next
<1>0. TypeOK /\ RowFits(c) /\ ReadStands(c) /\ KeyStands(c)
  BY DEF LockInv
<1>1. CASE TransitionRows(c)
  <2> DEFINE o == client[c].row
             new == client[c].to
  <2>1. /\ o \in Log!Object /\ new \in TaskState \cup RunState
        /\ client[c].seen = {status[o]}
        /\ events' = Append(events, Log!Change(o, status[o], new))
    BY <1>0, <1>1, TransitionEvent DEF Object, Log!Object
  <2>2. Log!Valid(o, status[o], new)
    BY <1>1, <2>1 DEF TransitionRows, Validated
  <2>3. status' = [status EXCEPT ![o] = new] /\ inbox' = inbox
    BY <1>1 DEF TransitionRows
  <2>4. Log!Transition(o, new)
    BY <2>1, <2>2, <2>3 DEF Log!Transition, Log!Move
  <2> QED
    BY <2>1, <2>4, SameTables DEF Log!Next
<1>2. CASE EventRows(c)
  <2> DEFINE k == client[c].row
  <2>1. k \in Key \cup {NoKey} /\ events' = Append(events, Log!Plain(k))
    BY <1>0, <1>2, PlainEvent
  <2>2. k = NoKey \/ \A n \in DOMAIN events : events[n].key # k
    BY <1>0, <1>2, <2>1 DEF EventRows, KeyStands, Ids
  <2>3. Log!WriteEvent(k)
    BY <1>2, <2>1, <2>2 DEF EventRows, Log!WriteEvent, NoKey, Log!NoKey
  <2> QED
    BY <2>1, <2>3 DEF Log!Next, NoKey, Log!NoKey
<1>3. CASE InboxRows(c)
  <2> DEFINE S == {i \in Item : i \in Held(c)}
             to == IF client[c].kind = "expire" THEN "expired" ELSE client[c].to
  <2>1. S \in SUBSET Item /\ to \in Log!Resolution
    BY <1>0, <1>3 DEF InboxRows, In, RowFits, Resolution, Log!Resolution
  <2>2. \A i \in S : inbox[i] = "pending"
    BY RowsApart DEF LockInv, ItemStands, Pending, Held
  <2>3. inbox' = [i \in Item |-> IF i \in S THEN to ELSE inbox[i]]
    BY <1>3 DEF InboxRows
  <2>4. Log!Resolve(S, to)
    BY <1>3, <2>2, <2>3 DEF InboxRows, Log!Resolve
  <2> QED
    BY <2>1, <2>4 DEF Log!Next
<1> QED
  BY <1>1, <1>2, <1>3 DEF Writes

\* Every call on the backend in memory is one operation of the atomic store.
LEMMA MemoryLog ==
    ASSUME TypeOK, MemoryStep
    PROVE  Log!Next \/ UNCHANGED Log!logVars
<1> USE DEF Log!logVars, rows
<1>1. ASSUME NEW new \in Target.task, MemoryTransitionTask(new) PROVE Log!Next
  <2>1. Log!Transition("task", new)
    BY <1>1, SameTables
       DEF MemoryTransitionTask, Log!Transition, Log!Valid, Log!Move
  <2>2. "task" \in Log!Object /\ new \in TaskState \cup RunState
    BY DEF Log!Object, Target, TaskState
  <2> QED
    BY <2>1, <2>2, SameTables DEF Log!Next
<1>2. ASSUME NEW new \in Target.run, MemoryTransitionRun(new) PROVE Log!Next
  <2>1. Log!Transition("run", new)
    BY <1>2, SameTables
       DEF MemoryTransitionRun, Log!Transition, Log!Valid, Log!Move
  <2>2. "run" \in Log!Object /\ new \in TaskState \cup RunState
    BY DEF Log!Object, Target, RunState
  <2> QED
    BY <2>1, <2>2, SameTables DEF Log!Next
<1>3. ASSUME NEW k \in Key \cup {NoKey}, MemoryWriteEvent(k)
      PROVE  Log!Next \/ UNCHANGED Log!logVars
  <2>1. CASE k \in Key /\ Ids(k) # {}
    BY <1>3, <2>1 DEF MemoryWriteEvent
  <2>2. CASE ~(k \in Key /\ Ids(k) # {})
    <3>1. Log!WriteEvent(k)
      BY <1>3, <2>2 DEF MemoryWriteEvent, Log!WriteEvent, Ids, NoKey, Log!NoKey
    <3> QED
      BY <3>1 DEF Log!Next, NoKey, Log!NoKey
  <2> QED
    BY <2>1, <2>2
<1>4. ASSUME NEW i \in Item, NEW to \in {"answered", "expired"},
             MemoryResolve(i, to)
      PROVE  Log!Next
  <2>1. inbox' = [j \in Item |-> IF j \in {i} THEN to ELSE inbox[j]]
    BY <1>4 DEF MemoryResolve, TypeOK
  <2>2. Log!Resolve({i}, to)
    BY <1>4, <2>1 DEF MemoryResolve, Pending, Log!Resolve
  <2>3. {i} \in SUBSET Item /\ to \in Log!Resolution
    BY DEF Log!Resolution
  <2> QED
    BY <2>2, <2>3 DEF Log!Next
<1>5. ASSUME MemoryExpireDue PROVE Log!Next
  <2> DEFINE S == {i \in Item : Due(i)}
  <2>1. inbox' = [j \in Item |-> IF j \in S THEN "expired" ELSE inbox[j]]
    BY <1>5 DEF MemoryExpireDue
  <2>2. Log!Resolve(S, "expired")
    BY <1>5, <2>1 DEF MemoryExpireDue, Due, Pending, Log!Resolve
  <2>3. S \in SUBSET Item /\ "expired" \in Log!Resolution
    BY DEF Log!Resolution
  <2> QED
    BY <2>2, <2>3 DEF Log!Next
<1>6. ASSUME MemorySubscribe \/ MemoryAcquireLock \/ MemoryReleaseLock
      PROVE  UNCHANGED Log!logVars
  BY <1>6 DEF MemorySubscribe, MemoryAcquireLock, MemoryReleaseLock
<1>7. ASSUME MemoryReclaimInterrupted PROVE Log!Next
  BY <1>7 DEF MemoryReclaimInterrupted, Log!Next, Log!Recover, Log!Move
<1>8. ASSUME MemoryCleanOrphaned PROVE Log!Next
  BY <1>8 DEF MemoryCleanOrphaned, Log!Next, Log!Recover, Log!Move
<1> QED
  BY <1>1, <1>2, <1>3, <1>4, <1>5, <1>6, <1>7, <1>8 DEF MemoryStep

\* Every step of the backends is a step of the atomic store, or stutters.
LEMMA LogStep ==
    ASSUME LockInv, [Next]_vars
    PROVE  [Log!Next]_(Log!logVars)
<1> USE DEF Log!logVars, rows
<1>1. ASSUME NEW c \in Client, NEW op \in Operation, Invoke(c, op)
      PROVE  UNCHANGED Log!logVars
  BY <1>1 DEF Invoke
<1>2. ASSUME NEW c \in Client,
             \/ SelectForUpdate(c) \/ RefuseTransition(c) \/ CallBack(c)
             \/ InsertEvent(c) \/ InsertConflict(c)
             \/ UpdateItem(c) \/ RefuseResolve(c)
             \/ SelectDue(c) \/ VisitItem(c) \/ Deadlock(c)
             \/ RollBack(c) \/ SelectStatus(c) \/ SignalStopped(c)
      PROVE  UNCHANGED Log!logVars
  BY <1>2 DEF SelectForUpdate, RefuseTransition, CallBack, InsertEvent,
     InsertConflict, UpdateItem, RefuseResolve, SelectDue, VisitItem, Deadlock,
     RollBack, SelectStatus, SignalStopped
<1>3. ASSUME NEW c \in Client, Commit(c) \/ CommitLost(c) PROVE Log!Next
  BY <1>3, WritesLog DEF Commit, CommitLost
<1>4. ASSUME MemoryStep PROVE Log!Next \/ UNCHANGED Log!logVars
  BY <1>4, MemoryLog DEF LockInv
<1>5. ASSUME NEW i \in Item, CreateItem(i) PROVE Log!Next
  BY <1>5 DEF CreateItem, Log!CreateItem, Log!Next
<1>6. ASSUME NEW i \in Item, Tick(i) PROVE UNCHANGED Log!logVars
  BY <1>6 DEF Tick
<1>7. ASSUME Unsubscribe \/ UNCHANGED vars PROVE UNCHANGED Log!logVars
  BY <1>7 DEF Unsubscribe, vars
<1> QED
  BY <1>1, <1>2, <1>3, <1>4, <1>5, <1>6, <1>7, NextCases

\* Both backends implement the atomic store: the rows that concurrent
\* transactions commit, with connections lost before and during the commit, and
\* those the backend in memory assigns, change as TraceLog's operations do, for
\* every set of coroutines, items and keys.
THEOREM StoreRefines == Spec => Refines
<1>1. Init => Log!Init
  BY DEF Init, Log!Init, Object, Log!Object
<1>2. Init => LockInv
  BY LockInit
<1>3. LockInv /\ [Next]_vars => LockInv'
  BY LockNext
<1>4. LockInv /\ [Next]_vars => [Log!Next]_(Log!logVars)
  BY LogStep
<1> QED
  BY <1>1, <1>2, <1>3, <1>4, PTL DEF Spec, Refines, Log!Spec

-----------------------------------------------------------------------------
(* The event log explains every status                                     *)

\* What the first n events say is not changed by a later one.
LEMMA SaidKept ==
    ASSUME NEW log \in Seq(EventRow), NEW e \in EventRow, NEW o, NEW s,
           NEW n \in 0 .. Len(log), Log!Said(log, o, n, s)
    PROVE  Log!Said(Append(log, e), o, n, s)
<1> DEFINE more == Append(log, e)
<1>1. \A m \in 1 .. n : more[m] = log[m]
  OBVIOUS
<1>2. n \in Nat
  OBVIOUS
<1> HIDE DEF more
<1>3. CASE s = "created" /\ \A m \in 1 .. n : log[m].object # o
  BY <1>1, <1>3 DEF Log!Said, more
<1>4. CASE \E m \in 1 .. n : /\ log[m].object = o /\ log[m].new = s
                             /\ \A l \in m + 1 .. n : log[l].object # o
  <2>1. PICK m \in 1 .. n : /\ log[m].object = o /\ log[m].new = s
                            /\ \A l \in m + 1 .. n : log[l].object # o
    BY <1>4
  <2>2. \A l \in m + 1 .. n : l \in 1 .. n
    BY <1>2
  <2>3. /\ more[m].object = o /\ more[m].new = s
        /\ \A l \in m + 1 .. n : more[l].object # o
    BY <1>1, <2>1, <2>2
  <2> QED
    BY <2>3 DEF Log!Said, more
<1> QED
  BY <1>3, <1>4 DEF Log!Said

\* An event about something else leaves the last word on o as it is.
LEMMA SaidOfOther ==
    ASSUME NEW log \in Seq(EventRow), NEW e \in EventRow, NEW o,
           e.object # o, NEW s, Log!Said(log, o, Len(log), s)
    PROVE  Log!Said(Append(log, e), o, Len(log) + 1, s)
<1> DEFINE n == Len(log)
           more == Append(log, e)
<1>0. n \in Nat /\ more[n + 1] = e
  OBVIOUS
<1>1. \A m \in 1 .. n : more[m] = log[m]
  OBVIOUS
<1> HIDE DEF n, more
<1>2. CASE s = "created" /\ \A m \in 1 .. n : log[m].object # o
  <2>1. \A m \in 1 .. n + 1 : more[m].object # o
    <3> SUFFICES ASSUME NEW m \in 1 .. n + 1 PROVE more[m].object # o
      OBVIOUS
    <3>1. m = n + 1 \/ m \in 1 .. n
      BY <1>0
    <3> QED
      BY <1>0, <1>1, <1>2, <3>1
  <2> QED
    BY <1>2, <2>1 DEF Log!Said, n, more
<1>3. CASE \E m \in 1 .. n : /\ log[m].object = o /\ log[m].new = s
                             /\ \A l \in m + 1 .. n : log[l].object # o
  <2>1. PICK m \in 1 .. n : /\ log[m].object = o /\ log[m].new = s
                            /\ \A l \in m + 1 .. n : log[l].object # o
    BY <1>3
  <2>2. m \in 1 .. n + 1 /\ more[m].object = o /\ more[m].new = s
    BY <1>0, <1>1, <2>1
  <2>3. ASSUME NEW l \in m + 1 .. n + 1 PROVE more[l].object # o
    <3>1. l = n + 1 \/ (l \in m + 1 .. n /\ l \in 1 .. n)
      BY <1>0
    <3> QED
      BY <1>0, <1>1, <2>1, <3>1
  <2> QED
    BY <2>2, <2>3 DEF Log!Said, n, more
<1> QED
  BY <1>2, <1>3 DEF Log!Said, n

\* An event about o has the last word on it.
LEMMA SaidLast ==
    ASSUME NEW log \in Seq(EventRow), NEW e \in EventRow
    PROVE  Log!Said(Append(log, e), e.object, Len(log) + 1, e.new)
<1> DEFINE n == Len(log) + 1
           more == Append(log, e)
<1>1. n \in Nat \ {0} /\ more[n] = e
  OBVIOUS
<1> HIDE DEF n, more
<1>2. n \in 1 .. n /\ \A l \in n + 1 .. n : more[l].object # e.object
  BY <1>1
<1> QED
  BY <1>1, <1>2 DEF Log!Said, n, more

\* An event that begins at the status it changes, or changes none, keeps the
\* log explaining every status.
LEMMA HistoryAppend ==
    ASSUME TypeOK, HistoryExplains, NEW e \in EventRow,
           events' = Append(events, e),
           \A o \in Object : IF e.object = o
                             THEN e.old = status[o] /\ e.new = status'[o]
                             ELSE status'[o] = status[o]
    PROVE  HistoryExplains'
<1> USE DEF Log!Object, Object
<1>0. /\ events \in Seq(EventRow) /\ Len(events) \in Nat
      /\ DOMAIN events = 1 .. Len(events)
      /\ DOMAIN events' = 1 .. Len(events) + 1
      /\ Len(events') = Len(events) + 1
      /\ events'[Len(events) + 1] = e
      /\ \A n \in 1 .. Len(events) : events'[n] = events[n]
  BY DEF TypeOK
<1> SUFFICES ASSUME NEW o \in Object
             PROVE  /\ \A n \in DOMAIN events' : events'[n].object = o
                          => Log!Said(events', o, n - 1, events'[n].old)
                    /\ Log!Said(events', o, Len(events'), status'[o])
  BY DEF HistoryExplains, Log!HistoryExplains
<1>1. /\ \A n \in DOMAIN events : events[n].object = o
            => Log!Said(events, o, n - 1, events[n].old)
      /\ Log!Said(events, o, Len(events), status[o])
  BY DEF HistoryExplains, Log!HistoryExplains
<1>2. ASSUME NEW n \in DOMAIN events', events'[n].object = o
      PROVE  Log!Said(events', o, n - 1, events'[n].old)
  <2>1. CASE n \in 1 .. Len(events)
    <3>1. n - 1 \in 0 .. Len(events) /\ events'[n] = events[n]
      BY <1>0, <2>1
    <3>2. Log!Said(events, o, n - 1, events[n].old)
      BY <1>0, <1>1, <1>2, <2>1, <3>1
    <3> QED
      BY <1>0, <3>1, <3>2, SaidKept
  <2>2. CASE n = Len(events) + 1
    <3>1. n - 1 = Len(events) /\ events'[n] = e
      BY <1>0, <2>2
    <3>2. Log!Said(events, o, n - 1, e.old)
      BY <1>1, <1>2, <3>1
    <3> QED
      BY <1>0, <3>1, <3>2, SaidKept
  <2> QED
    BY <1>0, <2>1, <2>2
<1>3. Log!Said(events', o, Len(events'), status'[o])
  BY <1>0, <1>1, SaidLast, SaidOfOther
<1> QED
  BY <1>2, <1>3

LEMMA HistoryNext ==
    ASSUME TypeOK, HistoryExplains, [Log!Next]_(Log!logVars)
    PROVE  HistoryExplains'
<1>0. /\ status \in [Object -> RunState \cup TaskState]
      /\ Log!Object = Object /\ Log!NoKey = NoKey
  BY DEF TypeOK, Object, Log!Object, NoKey, Log!NoKey
<1>1. ASSUME NEW o \in Object, NEW new \in RunState \cup TaskState,
             Log!Move(o, new)
      PROVE  HistoryExplains'
  <2> DEFINE e == Log!Change(o, status[o], new)
  <2>1. status[o] \in RunState \cup TaskState
    BY <1>0
  <2>2. e \in EventRow /\ e.object = o /\ e.old = status[o] /\ e.new = new
    BY <1>0, <2>1 DEF Log!Change, EventRow
  <2>3. events' = Append(events, e) /\ status' = [status EXCEPT ![o] = new]
    BY <1>1 DEF Log!Move
  <2> HIDE DEF e
  <2>4. \A p \in Object : IF e.object = p
                          THEN e.old = status[p] /\ e.new = status'[p]
                          ELSE status'[p] = status[p]
    BY <1>0, <2>2, <2>3
  <2> QED
    BY <2>2, <2>3, <2>4, HistoryAppend
<1>2. ASSUME NEW k \in Key \cup {NoKey}, Log!WriteEvent(k)
      PROVE  HistoryExplains'
  <2> DEFINE e == Log!Plain(k)
  <2>1. e \in EventRow /\ e.object = "none"
    BY DEF Log!Plain, EventRow
  <2>2. events' = Append(events, e) /\ status' = status
    BY <1>2 DEF Log!WriteEvent
  <2> HIDE DEF e
  <2>3. \A p \in Object : IF e.object = p
                          THEN e.old = status[p] /\ e.new = status'[p]
                          ELSE status'[p] = status[p]
    BY <2>1, <2>2 DEF Object
  <2> QED
    BY <2>1, <2>2, <2>3, HistoryAppend
<1>3. ASSUME UNCHANGED <<status, events>> PROVE HistoryExplains'
  BY <1>3 DEF HistoryExplains, Log!HistoryExplains
<1>4. ASSUME NEW o \in Object, NEW new \in RunState \cup TaskState,
             Log!Transition(o, new)
      PROVE  HistoryExplains'
  BY <1>1, <1>4 DEF Log!Transition
<1>5. ASSUME Log!Recover PROVE HistoryExplains'
  BY <1>1, <1>5 DEF Log!Recover, Object, RunState, TaskState
<1>6. ASSUME NEW i \in Item, Log!CreateItem(i) PROVE HistoryExplains'
  BY <1>3, <1>6 DEF Log!CreateItem
<1>7. ASSUME NEW S \in SUBSET Item, NEW to \in Log!Resolution, Log!Resolve(S, to)
      PROVE  HistoryExplains'
  BY <1>3, <1>7 DEF Log!Resolve
<1>8. CASE UNCHANGED Log!logVars
  BY <1>3, <1>8 DEF Log!logVars
<1> QED
  BY <1>0, <1>2, <1>4, <1>5, <1>6, <1>7, <1>8, SameTables DEF Log!Next

-----------------------------------------------------------------------------
(* A key is stored once                                                    *)

\* The ids under a key after one more event.
LEMMA IdsAppend ==
    ASSUME TypeOK, NEW e \in EventRow, events' = Append(events, e), NEW k \in Key
    PROVE  Ids(k)' = IF e.key = k THEN Ids(k) \cup {Len(events) + 1} ELSE Ids(k)
<1>1. /\ events \in Seq(EventRow) /\ Len(events) \in Nat
      /\ DOMAIN events = 1 .. Len(events)
      /\ DOMAIN events' = 1 .. Len(events) + 1
      /\ events'[Len(events) + 1] = e
      /\ \A n \in 1 .. Len(events) : events'[n] = events[n]
  BY DEF TypeOK
<1>2. \A n : n \in 1 .. Len(events) + 1 <=>
              (n \in 1 .. Len(events) \/ n = Len(events) + 1)
  BY <1>1
<1> QED
  BY <1>1, <1>2 DEF Ids

\* A step adds an event under a key that has none, or adds none, and tells its
\* caller an id of that key.
LEMMA KeyStep ==
    ASSUME LockInv, [Next]_vars
    PROVE  \/ /\ UNCHANGED events
              /\ \/ UNCHANGED stored
                 \/ \E k \in Key : stored' = [stored EXCEPT ![k] = @ \cup Ids(k)]
           \/ \E e \in EventRow :
                 /\ events' = Append(events, e)
                 /\ \/ e.key = NoKey /\ UNCHANGED stored
                    \/ /\ e.key \in Key /\ Ids(e.key) = {}
                       /\ stored' = [stored EXCEPT ![e.key] = @ \cup Ids(e.key)']
<1> USE DEF rows, control
<1>0. TypeOK
  BY DEF LockInv
<1>1. ASSUME NEW c \in Client, InsertConflict(c)
      PROVE  /\ UNCHANGED events
             /\ \E k \in Key : stored' = [stored EXCEPT ![k] = @ \cup Ids(k)]
  BY <1>1 DEF InsertConflict
<1>2. ASSUME NEW c \in Client, Writes(c)
      PROVE  \/ UNCHANGED <<events, stored>>
             \/ \E e \in EventRow :
                 /\ events' = Append(events, e)
                 /\ \/ e.key = NoKey /\ UNCHANGED stored
                    \/ /\ e.key \in Key /\ Ids(e.key) = {}
                       /\ stored' = [stored EXCEPT ![e.key] = @ \cup Ids(e.key)']
  <2>0. RowFits(c) /\ ReadStands(c) /\ KeyStands(c)
    BY DEF LockInv
  <2>1. CASE TransitionRows(c)
    BY <1>0, <2>0, <2>1, TransitionEvent DEF TransitionRows
  <2>2. CASE EventRows(c)
    <3>1. PICK e \in EventRow : events' = Append(events, e) /\ e.key = client[c].row
      BY <2>0, <2>2, PlainEvent
    <3>2. e.key \in Key \cup {NoKey}
      BY <2>0, <2>2, <3>1, PlainEvent
    <3>3. CASE e.key = NoKey
      BY <2>2, <3>1, <3>3, RowsApart DEF EventRows
    <3>4. CASE e.key \in Key
      <4>1. Ids(e.key) = {}
        BY <2>0, <2>2, <3>1, <3>4 DEF EventRows, KeyStands
      <4>2. Ids(e.key)' = {Len(events) + 1}
        BY <1>0, <3>1, <3>4, <4>1, IdsAppend DEF Ids
      <4>3. stored' = [stored EXCEPT ![e.key] = @ \cup Ids(e.key)']
        BY <2>2, <3>1, <3>4, <4>2 DEF EventRows
      <4> QED
        BY <3>1, <3>4, <4>1, <4>3
    <3> QED
      BY <3>2, <3>3, <3>4
  <2>3. CASE InboxRows(c)
    BY <2>3 DEF InboxRows
  <2> QED
    BY <1>2, <2>1, <2>2, <2>3 DEF Writes
<1>3. ASSUME NEW k \in Key \cup {NoKey}, MemoryWriteEvent(k)
      PROVE  \/ /\ UNCHANGED events
                /\ \E j \in Key : stored' = [stored EXCEPT ![j] = @ \cup Ids(j)]
             \/ \E e \in EventRow :
                 /\ events' = Append(events, e)
                 /\ \/ e.key = NoKey /\ UNCHANGED stored
                    \/ /\ e.key \in Key /\ Ids(e.key) = {}
                       /\ stored' = [stored EXCEPT ![e.key] = @ \cup Ids(e.key)']
  <2>1. CASE k \in Key /\ Ids(k) # {}
    BY <1>3, <2>1 DEF MemoryWriteEvent, Ids
  <2>2. CASE ~(k \in Key /\ Ids(k) # {})
    <3> DEFINE e == Log!Plain(k)
    <3>1. e \in EventRow /\ e.key = k
      BY DEF Log!Plain, EventRow
    <3>2. events' = Append(events, e)
      BY <1>3, <2>2 DEF MemoryWriteEvent
    <3>3. /\ k = NoKey => UNCHANGED stored
          /\ k \in Key => stored' = [stored EXCEPT ![k] = @ \cup Ids(k)']
      BY <1>3, RowsApart DEF MemoryWriteEvent, Ids
    <3> HIDE DEF e
    <3> QED
      BY <2>2, <3>1, <3>2, <3>3
  <2> QED
    BY <2>1, <2>2
<1>4. ASSUME NEW o \in Object, NEW new \in RunState \cup TaskState,
             events' = Append(events, Log!Change(o, status[o], new))
      PROVE  \E e \in EventRow : events' = Append(events, e) /\ e.key = NoKey
  <2>1. status[o] \in RunState \cup TaskState
    BY <1>0 DEF TypeOK
  <2>2. /\ Log!Change(o, status[o], new) \in EventRow
        /\ Log!Change(o, status[o], new).key = NoKey
    BY <2>1 DEF Log!Change, Log!NoKey, NoKey, EventRow
  <2> QED
    BY <1>4, <2>2
<1>5. ASSUME NEW new \in Target.task, MemoryTransitionTask(new)
      PROVE  /\ UNCHANGED stored
             /\ \E e \in EventRow : events' = Append(events, e) /\ e.key = NoKey
  BY <1>4, <1>5 DEF MemoryTransitionTask, Object, Target, TaskState
<1>6. ASSUME NEW new \in Target.run, MemoryTransitionRun(new)
      PROVE  /\ UNCHANGED stored
             /\ \E e \in EventRow : events' = Append(events, e) /\ e.key = NoKey
  BY <1>4, <1>6 DEF MemoryTransitionRun, Object, Target, RunState
<1>7. ASSUME MemoryReclaimInterrupted \/ MemoryCleanOrphaned
      PROVE  /\ UNCHANGED stored
             /\ \E e \in EventRow : events' = Append(events, e) /\ e.key = NoKey
  BY <1>4, <1>7 DEF MemoryReclaimInterrupted, MemoryCleanOrphaned, Object,
     RunState, TaskState
<1>8. ASSUME \/ \E i \in Item : \E to \in {"answered", "expired"} :
                   MemoryResolve(i, to)
             \/ MemoryExpireDue \/ MemorySubscribe \/ MemoryAcquireLock
             \/ MemoryReleaseLock
      PROVE  UNCHANGED <<events, stored>>
  BY <1>8 DEF MemoryResolve, MemoryExpireDue, MemorySubscribe,
     MemoryAcquireLock, MemoryReleaseLock
<1>9. ASSUME NEW c \in Client,
             \/ \E op \in Operation : Invoke(c, op)
             \/ SelectForUpdate(c) \/ RefuseTransition(c) \/ CallBack(c)
             \/ InsertEvent(c) \/ UpdateItem(c) \/ RefuseResolve(c)
             \/ SelectDue(c) \/ VisitItem(c) \/ Deadlock(c)
             \/ RollBack(c) \/ SelectStatus(c) \/ SignalStopped(c)
      PROVE  UNCHANGED <<events, stored>>
  BY <1>9 DEF Invoke, SelectForUpdate, RefuseTransition, CallBack, InsertEvent,
     UpdateItem, RefuseResolve, SelectDue, VisitItem, Deadlock, RollBack,
     SelectStatus, SignalStopped
<1>10. ASSUME \/ \E i \in Item : CreateItem(i) \/ Tick(i)
              \/ Unsubscribe \/ UNCHANGED vars
       PROVE  UNCHANGED <<events, stored>>
  BY <1>10 DEF CreateItem, Tick, Unsubscribe, vars
<1>11. ASSUME NEW c \in Client, Commit(c) \/ CommitLost(c) PROVE Writes(c)
  BY <1>11 DEF Commit, CommitLost
<1> QED
  <2>1. CASE MemoryStep
    BY <1>3, <1>5, <1>6, <1>7, <1>8, <2>1 DEF MemoryStep
  <2>2. CASE ~MemoryStep
    BY <1>1, <1>2, <1>9, <1>10, <1>11, <2>2, NextCases
  <2> QED
    BY <2>1, <2>2

LEMMA KeysNext ==
    ASSUME LockInv, KeysApart, [Next]_vars
    PROVE  KeysApart'
<1>0. TypeOK /\ stored \in [Key -> SUBSET Nat]
  BY DEF LockInv, TypeOK
<1>1. CASE UNCHANGED events /\ UNCHANGED stored
  BY <1>1 DEF KeysApart, Ids
<1>2. CASE /\ UNCHANGED events
           /\ \E k \in Key : stored' = [stored EXCEPT ![k] = @ \cup Ids(k)]
  BY <1>0, <1>2 DEF KeysApart, Ids
<1>3. ASSUME NEW e \in EventRow, events' = Append(events, e), e.key = NoKey,
             UNCHANGED stored
      PROVE  KeysApart'
  <2>1. \A k \in Key : Ids(k)' = Ids(k)
    BY <1>0, <1>3, IdsAppend, RowsApart
  <2> QED
    BY <1>3, <2>1 DEF KeysApart
<1>4. ASSUME NEW e \in EventRow, events' = Append(events, e), e.key \in Key,
             Ids(e.key) = {},
             stored' = [stored EXCEPT ![e.key] = @ \cup Ids(e.key)']
      PROVE  KeysApart'
  <2>1. \A k \in Key : k # e.key => Ids(k)' = Ids(k) /\ stored'[k] = stored[k]
    BY <1>0, <1>4, IdsAppend
  <2>2. Ids(e.key)' = {Len(events) + 1}
    BY <1>0, <1>4, IdsAppend
  <2>3. stored'[e.key] \subseteq Ids(e.key)'
    BY <1>0, <1>4 DEF KeysApart
  <2> QED
    BY <2>1, <2>2, <2>3 DEF KeysApart
<1> QED
  BY <1>1, <1>2, <1>3, <1>4, KeyStep

\* At most one event has a key, so there is at most one of them.
LEMMA OnePerKey ==
    ASSUME KeysApart
    PROVE  KeyStoredOnce
<1> SUFFICES ASSUME NEW k \in Key
             PROVE  Cardinality(Ids(k)) <= 1 /\ stored[k] \subseteq Ids(k)
  BY DEF KeyStoredOnce
<1>1. Ids(k) = {} \/ \E n : Ids(k) = {n}
  BY DEF KeysApart
<1>2. Cardinality(Ids(k)) \in {0, 1}
  BY <1>1, FS_EmptySet, FS_Singleton
<1> QED
  BY <1>2 DEF KeysApart

-----------------------------------------------------------------------------
(* A subscriber hears of a stop                                            *)

\* A step that changes neither the run's status nor who is telling of it.
LEMMA StopFrame ==
    ASSUME StopToldOrHeard, UNCHANGED status, callback' => callback,
           unsure => unsure', heard \subseteq heard',
           \A d \in Client : Telling(d) =>
               Telling(d)' \/ ~callback' \/ status["run"] \in heard'
                           \/ ~Stops(status["run"])
    PROVE  StopToldOrHeard'
  BY DEF StopToldOrHeard

LEMMA StopNext ==
    ASSUME LockInv, StopToldOrHeard, [Next]_vars
    PROVE  StopToldOrHeard'
<1> USE DEF rows, control
<1>0. /\ TypeOK /\ client \in [Client -> Invocation]
      /\ status \in [Object -> RunState \cup TaskState]
  BY DEF LockInv, TypeOK
<1>1. ASSUME NEW c \in Client, NEW op \in Operation, Invoke(c, op)
      PROVE  StopToldOrHeard'
  <2> DEFINE v == [pc |-> "begun", kind |-> op.kind, row |-> op.row,
                   to |-> op.to, seen |-> {}]
  <2>1. v \in Invocation /\ v.pc = "begun" /\ v.kind = op.kind
    BY OperationTypes DEF Invocation
  <2>2. client' = [client EXCEPT ![c] = v] /\ client[c] = Idle
    BY <1>1 DEF Invoke
  <2> HIDE DEF v
  <2>3. client'[c] = v /\ \A d \in Client : d # c => client'[d] = client[d]
    BY <1>0, <2>1, <2>2, ClientChange
  <2>4. CASE op.kind = "subscribe"
    <3>1. Telling(c)'
      BY <2>1, <2>3, <2>4 DEF Telling, In
    <3> QED
      BY <3>1 DEF StopToldOrHeard
  <2>5. CASE op.kind # "subscribe"
    <3>1. UNCHANGED <<status, heard, unsure>> /\ (callback' => callback)
      BY <1>1, <2>5 DEF Invoke
    <3>2. ~Telling(c)
      BY <2>2, IdleType DEF Telling, In
    <3>3. \A d \in Client : Telling(d) => Telling(d)'
      BY <2>3, <3>1, <3>2 DEF Telling, In
    <3> QED
      BY <3>1, <3>3, StopFrame
  <2> QED
    BY <2>4, <2>5
<1>2. ASSUME NEW c \in Client, UNCHANGED <<status, callback, heard, unsure>>,
             \A d \in Client : d # c => client'[d] = client[d],
             ~Telling(c)
      PROVE  StopToldOrHeard'
  <2>1. \A d \in Client : Telling(d) => Telling(d)'
    BY <1>2 DEF Telling, In
  <2> QED
    BY <1>2, <2>1, StopFrame
<1>3. ASSUME NEW c \in Client,
             \/ SelectForUpdate(c) \/ RefuseTransition(c) \/ InsertEvent(c)
             \/ InsertConflict(c) \/ UpdateItem(c) \/ RefuseResolve(c)
             \/ SelectDue(c) \/ VisitItem(c) \/ Deadlock(c) \/ RollBack(c)
      PROVE  StopToldOrHeard'
  <2>1. UNCHANGED <<status, callback, heard, unsure>>
    BY <1>3 DEF SelectForUpdate, RefuseTransition, InsertEvent, InsertConflict,
       UpdateItem, RefuseResolve, SelectDue, VisitItem, Deadlock, RollBack
  <2>2. \A d \in Client : d # c => client'[d] = client[d]
    BY <1>0, <1>3 DEF SelectForUpdate, RefuseTransition, InsertEvent,
       InsertConflict, UpdateItem, RefuseResolve, SelectDue, VisitItem,
       Deadlock, RollBack, Pc
  <2>3. ~Telling(c)
    BY <1>3 DEF SelectForUpdate, RefuseTransition, InsertEvent, InsertConflict,
       UpdateItem, RefuseResolve, SelectDue, VisitItem, Deadlock, RollBack, In,
       Telling
  <2> QED
    BY <1>2, <2>1, <2>2, <2>3
<1>4. ASSUME NEW c \in Client, CallBack(c) PROVE StopToldOrHeard'
  <2>1. /\ UNCHANGED <<status, callback, unsure>>
        /\ callback => heard' = heard \cup {client[c].to}
        /\ heard \subseteq heard'
        /\ client[c].kind = "transition" /\ client[c].pc = "committed"
    BY <1>4 DEF CallBack, In
  <2>2. \A d \in Client : d # c => client'[d] = client[d]
    BY <1>0, <1>4 DEF CallBack
  <2>3. \A d \in Client : Telling(d) =>
            Telling(d)' \/ ~callback' \/ status["run"] \in heard'
    BY <2>1, <2>2 DEF Telling, In
  <2> QED
    BY <2>1, <2>3, StopFrame
<1>5. ASSUME NEW c \in Client, SelectStatus(c) PROVE StopToldOrHeard'
  <2>1. /\ UNCHANGED <<status, callback, heard, unsure>>
        /\ client[c].kind = "subscribe"
    BY <1>5 DEF SelectStatus, In
  <2>2. /\ client'[c].pc = "locked" /\ client'[c].kind = client[c].kind
        /\ client'[c].seen = {status["run"]}
        /\ \A d \in Client : d # c => client'[d] = client[d]
    BY <1>0, <1>5 DEF SelectStatus, Invocation
  <2>3. \A d \in Client : Telling(d) => Telling(d)'
    BY <2>1, <2>2 DEF Telling, In
  <2> QED
    BY <2>1, <2>3, StopFrame
<1>6. ASSUME NEW c \in Client, SignalStopped(c) PROVE StopToldOrHeard'
  <2>1. /\ UNCHANGED <<status, callback, unsure>>
        /\ heard' = heard \cup {s \in client[c].seen : Stops(s)}
        /\ client[c].kind = "subscribe" /\ client[c].pc = "locked"
    BY <1>6 DEF SignalStopped, In
  <2>2. \A d \in Client : d # c => client'[d] = client[d]
    BY <1>0, <1>6 DEF SignalStopped
  <2>3. \A d \in Client : Telling(d) =>
            \/ Telling(d)' \/ ~callback' \/ status["run"] \in heard'
            \/ ~Stops(status["run"])
    BY <2>1, <2>2 DEF Telling, In
  <2> QED
    BY <2>1, <2>3, StopFrame
<1>7. ASSUME NEW c \in Client, Commit(c) PROVE StopToldOrHeard'
  <2>1. /\ UNCHANGED <<callback, heard, unsure>> /\ Writes(c)
        /\ \A d \in Client : d # c => client'[d] = client[d]
    BY <1>0, <1>7 DEF Commit
  <2>2. ~Telling(c)
    BY <2>1 DEF Writes, TransitionRows, EventRows, InboxRows, In, Telling
  <2>3. CASE UNCHANGED status
    BY <1>2, <2>1, <2>2, <2>3
  <2>4. CASE TransitionRows(c) /\ client[c].row = "run"
    <3>1. status'["run"] = client[c].to /\ client[c].kind = "transition"
      BY <1>0, <2>4 DEF TransitionRows, In, Object
    <3>2. client'[c] = [client[c] EXCEPT !.pc = "committed", !.seen = {}]
      BY <1>0, <1>7, <2>4, <3>1 DEF Commit
    <3>3. client'[c].pc = "committed" /\ client'[c].kind = "transition"
          /\ client'[c].to = client[c].to
      BY <1>0, <3>1, <3>2 DEF Invocation
    <3>4. Telling(c)'
      BY <3>1, <3>3 DEF Telling, In
    <3> QED
      BY <3>4 DEF StopToldOrHeard
  <2>5. CASE TransitionRows(c) /\ client[c].row # "run"
    <3>1. status'["run"] = status["run"]
      BY <1>0, <2>5 DEF TransitionRows, Object
    <3>2. \A d \in Client : Telling(d) => Telling(d)'
      BY <2>1, <2>2, <3>1 DEF Telling, In
    <3> QED
      BY <2>1, <3>1, <3>2 DEF StopToldOrHeard
  <2> QED
    BY <2>1, <2>3, <2>4, <2>5 DEF Writes, EventRows, InboxRows
<1>8. ASSUME NEW c \in Client, CommitLost(c) PROVE StopToldOrHeard'
  BY <1>8 DEF CommitLost, StopToldOrHeard
<1>9. ASSUME MemoryStep PROVE StopToldOrHeard'
  <2>1. backend = "memory" /\ UNCHANGED <<client, unsure>>
    BY <1>9 DEF MemoryStep, MemoryCall, MemoryTransitionTask,
       MemoryTransitionRun, MemoryWriteEvent, MemoryResolve, MemoryExpireDue,
       MemorySubscribe, MemoryAcquireLock, MemoryReleaseLock,
       MemoryReclaimInterrupted, MemoryCleanOrphaned
  <2>2. \A c \in Client : ~Telling(c)
    BY <2>1, IdleType DEF LockInv, MemoryUnlocked, Telling, In
  <2>3. (callback /\ ~unsure /\ Stops(status["run"])) => status["run"] \in heard
    BY <2>2 DEF StopToldOrHeard
  <2>4. (callback' /\ ~unsure /\ Stops(status'["run"])) => status'["run"] \in heard'
    <3>1. ASSUME NEW new \in Target.task, MemoryTransitionTask(new)
          PROVE  /\ status'["run"] = status["run"] /\ UNCHANGED heard
                 /\ callback' => callback
      BY <1>0, <3>1 DEF MemoryTransitionTask, Object
    <3>2. ASSUME NEW new \in Target.run, MemoryTransitionRun(new)
          PROVE  /\ status'["run"] = new
                 /\ callback' => new \in heard'
      BY <1>0, <3>2 DEF MemoryTransitionRun, Object
    <3>3. ASSUME MemorySubscribe
          PROVE  Stops(status'["run"]) => status'["run"] \in heard'
      BY <3>3 DEF MemorySubscribe
    <3>4. ASSUME MemoryReclaimInterrupted
          PROVE  /\ status'["run"] = status["run"] /\ UNCHANGED heard
                 /\ callback' => callback
      BY <1>0, <3>4 DEF MemoryReclaimInterrupted, Object
    <3>5. ASSUME MemoryCleanOrphaned PROVE ~Stops(status'["run"])
      BY <1>0, <3>5 DEF MemoryCleanOrphaned, Object, Stops
    <3>6. ASSUME \/ \E k \in Key \cup {NoKey} : MemoryWriteEvent(k)
                 \/ \E i \in Item : \E to \in {"answered", "expired"} :
                       MemoryResolve(i, to)
                 \/ MemoryExpireDue \/ MemoryAcquireLock \/ MemoryReleaseLock
          PROVE  /\ status'["run"] = status["run"] /\ UNCHANGED heard
                 /\ callback' => callback
      BY <3>6 DEF MemoryWriteEvent, MemoryResolve, MemoryExpireDue,
         MemoryAcquireLock, MemoryReleaseLock
    <3> QED
      BY <1>9, <2>3, <3>1, <3>2, <3>3, <3>4, <3>5, <3>6 DEF MemoryStep
  <2> QED
    BY <2>1, <2>4 DEF StopToldOrHeard
<1>10. ASSUME NEW i \in Item, CreateItem(i) \/ Tick(i) PROVE StopToldOrHeard'
  <2>1. /\ UNCHANGED <<status, heard, client>>
        /\ (callback' => callback) /\ (unsure => unsure')
    BY <1>10 DEF CreateItem, Tick
  <2> QED
    BY <2>1, StopFrame DEF Telling, In
<1>11. ASSUME Unsubscribe PROVE StopToldOrHeard'
  BY <1>11 DEF Unsubscribe, StopToldOrHeard
<1>12. ASSUME UNCHANGED vars PROVE StopToldOrHeard'
  BY <1>12 DEF vars, StopToldOrHeard, Telling, In
<1> QED
  BY <1>1, <1>3, <1>4, <1>5, <1>6, <1>7, <1>8, <1>9, <1>10, <1>11, <1>12,
     NextCases

\* Whoever is still about to tell is in an operation on the run.
LEMMA ToldIsHeard == StopToldOrHeard => StopHeard
  BY DEF StopToldOrHeard, StopHeard, Telling, In

-----------------------------------------------------------------------------

\* What the backends record holds together, for every set of coroutines, items
\* and keys and whatever connections are lost: the event log explains every
\* status, a keyed event is stored once and every caller is told its id, and a
\* subscriber has heard of a pause or an abort once no operation on the run is
\* in progress.
THEOREM RecordsHold == Spec => []RecordsConsistent
<1> DEFINE Inv == Inductive /\ HistoryExplains
<1>1. Init => Inv
  <2> SUFFICES ASSUME Init PROVE Inv
    OBVIOUS
  <2>1. LockInv
    BY LockInit
  <2>2. events = <<>> /\ DOMAIN events = {} /\ Len(events) = 0
    BY DEF Init
  <2>3. KeysApart
    BY <2>2 DEF Init, KeysApart, Ids
  <2>4. StopToldOrHeard
    BY DEF Init, StopToldOrHeard
  <2>5. HistoryExplains
    <3>1. \A o \in Log!Object : status[o] = "created"
      BY DEF Init, Object, Log!Object
    <3>2. \A m \in 1 .. 0 : FALSE
      OBVIOUS
    <3>3. \A o \in Log!Object : Log!Said(events, o, 0, "created")
      BY <3>2 DEF Log!Said
    <3> QED
      BY <2>2, <3>1, <3>3 DEF HistoryExplains, Log!HistoryExplains
  <2> QED
    BY <2>1, <2>3, <2>4, <2>5 DEF Inductive
<1>2. Inv /\ [Next]_vars => Inv'
  <2> SUFFICES ASSUME Inv, [Next]_vars PROVE Inv'
    OBVIOUS
  <2>1. LockInv /\ KeysApart /\ StopToldOrHeard /\ TypeOK
    BY DEF Inductive, LockInv
  <2>2. LockInv' /\ KeysApart' /\ StopToldOrHeard'
    BY <2>1, LockNext, KeysNext, StopNext
  <2>3. HistoryExplains'
    BY <2>1, LogStep, HistoryNext
  <2> QED
    BY <2>2, <2>3 DEF Inductive
<1>3. Inv => RecordsConsistent
  BY OnePerKey, ToldIsHeard DEF Inductive, LockInv, RecordsConsistent
<1> QED
  BY <1>1, <1>2, <1>3, PTL DEF Spec

-----------------------------------------------------------------------------
(* OverseerLink: the inductive invariant                                   *)

\* Where _send_overseer_event has an event in hand, and where it hands off.
InHand == {"sending", "handoff", "summarise", "brief"}
Looping == {"loop"} \cup InHand
HandOff == {"summarise", "brief"}

TaskRow ==
    [pc : {"run", "checked", "done", "raised"} \cup Looping,
     attempt : 1 .. MaxAttempts, spent : Nat, todo : SUBSET Event,
     next : Kind \cup {"run"}, tries : Nat, session : Session \cup {0},
     issued : SUBSET Event]

OvTypes ==
    /\ task \in [Task -> TaskRow]
    /\ pending \in [BudgetKind -> SUBSET Event]
    /\ session \in Session
    /\ known \in [Session -> SUBSET Event]
    /\ used \in [Session -> Nat]
    /\ sinks \in [Event -> Nat]
    /\ traced \in SUBSET Event

Mine(t, k) == [task |-> t, kind |-> k, attempt |-> task[t].attempt]

\* What is left to send in the second loop while the first one goes on.
Waiting(t) ==
    IF task[t].pc \in Looping /\ task[t].next = "BudgetThresholdCrossed"
    THEN OwnEvents(pending["BudgetExhausted"], t) ELSE {}

\* The events of a task that the sinks have not got yet.
Left(t) ==
    Waiting(t) \cup (IF task[t].pc \in {"loop", "sending"} THEN task[t].todo ELSE {})

\* A loop is about one event of the attempt, if any.
LoopOK(t) ==
    /\ task[t].pc \in Looping =>
          /\ task[t].next \in Kind
          /\ task[t].todo \in {{}, {Mine(t, task[t].next)}}
    /\ task[t].pc \in InHand => task[t].todo # {}
    /\ task[t].pc \in HandOff => task[t].session \in Session
    /\ task[t].next = "TaskEscalated" =>
          /\ task[t].pc \in Looping \cup {"done", "raised"}
          /\ task[t].attempt = MaxAttempts

\* The lists hold events of the attempt that the loops have yet to filter, and
\* no others of a task that goes on.
ListsOK(t) ==
    task[t].pc # "raised" =>
        /\ OwnEvents(pending["BudgetThresholdCrossed"], t) \subseteq
              (IF task[t].pc \in Looping /\ task[t].next = "BudgetThresholdCrossed"
               THEN {Mine(t, "BudgetThresholdCrossed")} ELSE {})
        /\ OwnEvents(pending["BudgetExhausted"], t) \subseteq
              (IF task[t].pc \in Looping /\ task[t].next \in BudgetKind
               THEN {Mine(t, "BudgetExhausted")} ELSE {})

\* What a task has issued is of this attempt or an earlier one.
IssuedOK(t) ==
    /\ \A e \in task[t].issued :
          /\ e.task = t
          /\ e.attempt <= task[t].attempt
          /\ task[t].pc = "run" => e.attempt < task[t].attempt
          /\ e.kind = "TaskEscalated" =>
                task[t].next = "TaskEscalated" /\ e.attempt = MaxAttempts
    /\ Left(t) \subseteq task[t].issued

\* The sinks have got what was issued and is not left to send, once.
SinksOK(t) ==
    \A e \in Event : e.task = t =>
        /\ e \notin task[t].issued => sinks[e] = 0
        /\ e \in task[t].issued /\ task[t].pc # "raised" =>
              sinks[e] = IF e \in Left(t) THEN 0 ELSE 1
        /\ sinks[e] <= 1

\* The threshold is reported by the attempt that crosses it.
Thresholds(t) == {e \in task[t].issued : e.kind = "BudgetThresholdCrossed"}
ThresholdOK(t) ==
    IF 10 * task[t].spent >= 8 * Budget /\ Budget > 0
    THEN \E e \in Event : Thresholds(t) = {e} ELSE Thresholds(t) = {}

Escalation(t) == [task |-> t, kind |-> "TaskEscalated", attempt |-> MaxAttempts]
Told(e) == \E s \in Session : e \in known[s]

\* An escalation has been told or traced when it is not to be sent any more.
EscalationOK(t) ==
    LET e == Escalation(t)
    IN  IF task[t].next # "TaskEscalated"
           \/ (task[t].pc = "loop" /\ task[t].todo # {})
        THEN e \notin traced /\ ~Told(e)
        ELSE IF task[t].pc \in InHand THEN e \notin traced /\ Told(e)
        ELSE e \in traced <=> ~Told(e)

\* A session that was sent nothing knows nothing.
UnusedOK == \A s \in Session : used[s] = 0 => known[s] = {}

\* Without overlaps the session in use knows all, and so does the one that
\* takes over.
MemoryOK ==
    ~overlapped =>
        /\ \A s \in Session : known[s] \subseteq known[session]
        /\ \A t \in Task : task[t].pc = "summarise" => task[t].session = session
        /\ \A t \in Task : task[t].pc = "brief" =>
              known[task[t].session] = known[session]
        /\ \A t, u \in Task : t # u /\ task[t].pc \in HandOff =>
              task[u].pc \notin {"sending"} \cup HandOff

TaskOK(t) ==
    LoopOK(t) /\ ListsOK(t) /\ IssuedOK(t) /\ SinksOK(t) /\ ThresholdOK(t)

OvInv ==
    /\ OvTypes /\ UnusedOK /\ MemoryOK
    /\ \A t \in Task : TaskOK(t) /\ EscalationOK(t)

-----------------------------------------------------------------------------
(* What a step does to the rows of the tasks                               *)

\* Only t's row changes.
OthersStay(t) ==
    /\ task' \in [Task -> TaskRow]
    /\ \A u \in Task : u # t => task'[u] = task[u]

LEMMA RowMoves ==
    ASSUME OvTypes, NEW t \in Task, NEW row \in TaskRow,
           task' = [task EXCEPT ![t] = row]
    PROVE  OthersStay(t) /\ task'[t] = row
  BY DEF OvTypes, OthersStay

\* The event in hand.
LEMMA CurrentIs ==
    ASSUME OvTypes, NEW t \in Task, LoopOK(t), task[t].pc \in Looping,
           task[t].todo # {}
    PROVE  /\ Current(t) = Mine(t, task[t].next)
           /\ task[t].todo = {Current(t)}
           /\ Current(t) \in Event
           /\ Current(t).task = t /\ Current(t).kind = task[t].next
           /\ Current(t).attempt = task[t].attempt
           /\ task[t].next \in Kind
<1>1. task[t].todo = {Mine(t, task[t].next)} /\ task[t].next \in Kind
  BY DEF LoopOK
<1>2. task[t].attempt \in 1 .. MaxAttempts
  BY DEF OvTypes, TaskRow
<1>3. Mine(t, task[t].next) \in Event
  BY <1>1, <1>2 DEF Mine, Event
<1> DEFINE m == Mine(t, task[t].next)
<1>4. m.attempt = task[t].attempt /\ m.task = t /\ m.kind = task[t].next
  BY DEF Mine
<1>5. m.attempt <= m.attempt
  BY <1>2, <1>4, OverseerLinkAssumption
<1> HIDE DEF m
<1>6. Current(t) = m
  BY <1>1, <1>5 DEF Current, m
<1> QED
  BY <1>1, <1>3, <1>4, <1>6 DEF m

LEMMA PcMoves ==
    ASSUME OvTypes, NEW t \in Task, NEW l \in {"run", "checked", "done", "raised"} \cup Looping,
           task' = [task EXCEPT ![t].pc = l]
    PROVE  /\ OthersStay(t) /\ task'[t].pc = l
           /\ task'[t].attempt = task[t].attempt /\ task'[t].spent = task[t].spent
           /\ task'[t].todo = task[t].todo /\ task'[t].next = task[t].next
           /\ task'[t].session = task[t].session /\ task'[t].issued = task[t].issued
<1> DEFINE row == [task[t] EXCEPT !.pc = l]
<1>1. task[t] \in TaskRow
  BY DEF OvTypes
<1>2. row \in TaskRow
  BY <1>1 DEF TaskRow
<1>3. /\ row.pc = l
      /\ row.attempt = task[t].attempt /\ row.spent = task[t].spent
      /\ row.todo = task[t].todo /\ row.next = task[t].next
      /\ row.session = task[t].session /\ row.issued = task[t].issued
  BY <1>1 DEF TaskRow
<1>4. task' = [task EXCEPT ![t] = row]
  BY DEF OvTypes
<1> HIDE DEF row
<1> QED
  BY <1>2, <1>3, <1>4, RowMoves

\* _accumulate_cost appends the events of this attempt.
LEMMA AccumulateFacts ==
    ASSUME OvTypes, NEW t \in Task, NEW cost \in Costs, Accumulate(t, cost)
    PROVE  LET T == Mine(t, "BudgetThresholdCrossed")
               E == Mine(t, "BudgetExhausted")
               crossed == Crosses(task[t].spent, cost)
               exhausted == task[t].spent + cost >= Budget
           IN  /\ OthersStay(t)
               /\ T \in Event /\ E \in Event
               /\ task[t].pc = "run" /\ task'[t].pc = "loop"
               /\ task'[t].attempt = task[t].attempt
               /\ task'[t].spent = task[t].spent + cost
               /\ task'[t].next = "BudgetThresholdCrossed"
               /\ task'[t].todo = OwnEvents(pending'["BudgetThresholdCrossed"], t)
               /\ task'[t].issued = task[t].issued
                     \cup (IF crossed THEN {T} ELSE {})
                     \cup (IF exhausted THEN {E} ELSE {})
               /\ pending' \in [BudgetKind -> SUBSET Event]
               /\ pending'["BudgetThresholdCrossed"] =
                     pending["BudgetThresholdCrossed"] \cup (IF crossed THEN {T} ELSE {})
               /\ pending'["BudgetExhausted"] =
                     pending["BudgetExhausted"] \cup (IF exhausted THEN {E} ELSE {})
<1> DEFINE T == Mine(t, "BudgetThresholdCrossed")
           E == Mine(t, "BudgetExhausted")
           crossed == Crosses(task[t].spent, cost)
           exhausted == task[t].spent + cost >= Budget
           more == {[task |-> t, kind |-> k, attempt |-> task[t].attempt] : k \in
                    (IF crossed THEN {"BudgetThresholdCrossed"} ELSE {}) \cup
                    (IF exhausted THEN {"BudgetExhausted"} ELSE {})}
           todo == OwnEvents(pending'["BudgetThresholdCrossed"], t)
           row == [task[t] EXCEPT !.pc = "loop", !.next = "BudgetThresholdCrossed",
                                  !.todo = todo, !.spent = @ + cost,
                                  !.issued = @ \cup more]
<1>1. task[t] \in TaskRow /\ task[t].attempt \in 1 .. MaxAttempts /\ cost \in Nat
  BY OverseerLinkAssumption DEF OvTypes, TaskRow
<1>2. T \in Event /\ E \in Event
  BY <1>1 DEF Mine, Event, Kind, BudgetKind
<1>3. /\ task[t].pc = "run"
      /\ pending' = [pending EXCEPT
            !["BudgetThresholdCrossed"] = IF crossed THEN @ \cup {T} ELSE @,
            !["BudgetExhausted"] = IF exhausted THEN @ \cup {E} ELSE @]
      /\ task' = [task EXCEPT ![t] = row]
  <2>1. /\ task[t].pc = "run"
        /\ pending' = [pending EXCEPT
            !["BudgetThresholdCrossed"] = IF crossed THEN @ \cup {T} ELSE @,
            !["BudgetExhausted"] = IF exhausted THEN @ \cup {E} ELSE @]
    BY DEF Accumulate, Mine
  <2>2. task' = [task EXCEPT
              ![t].pc = "loop", ![t].next = "BudgetThresholdCrossed",
              ![t].todo = todo, ![t].spent = @ + cost, ![t].issued = @ \cup more]
    BY DEF Accumulate
  <2> HIDE DEF todo, more
  <2>3. task' = [task EXCEPT ![t] = row]
    BY <2>2 DEF OvTypes
  <2> QED
    BY <2>1, <2>3
<1>4. more = (IF crossed THEN {T} ELSE {}) \cup (IF exhausted THEN {E} ELSE {})
  BY DEF Mine
<1> HIDE DEF crossed, exhausted, T, E, more
<1>5. /\ pending' \in [BudgetKind -> SUBSET Event]
      /\ pending'["BudgetThresholdCrossed"] =
            pending["BudgetThresholdCrossed"] \cup (IF crossed THEN {T} ELSE {})
      /\ pending'["BudgetExhausted"] =
            pending["BudgetExhausted"] \cup (IF exhausted THEN {E} ELSE {})
  BY <1>2, <1>3 DEF OvTypes, BudgetKind
<1>6. todo \in SUBSET Event
  BY <1>5 DEF OwnEvents, BudgetKind
<1> HIDE DEF todo
<1>7. more \in SUBSET Event
  BY <1>2, <1>4
<1>8. row \in TaskRow
  <2>1. task[t].spent + cost \in Nat /\ task[t].issued \cup more \in SUBSET Event
    BY <1>1, <1>7 DEF TaskRow
  <2>2. row = [task[t] EXCEPT !.pc = "loop", !.next = "BudgetThresholdCrossed",
                  !.todo = todo, !.spent = task[t].spent + cost,
                  !.issued = task[t].issued \cup more]
    BY <1>1 DEF TaskRow
  <2> DEFINE a == task[t].spent + cost
             b == task[t].issued \cup more
  <2> HIDE DEF a, b, row
  <2>3. row = [task[t] EXCEPT !.pc = "loop", !.next = "BudgetThresholdCrossed",
                  !.todo = todo, !.spent = a, !.issued = b]
    BY <2>2 DEF a, b
  <2>4. a \in Nat /\ b \in SUBSET Event
    BY <2>1 DEF a, b
  <2> QED
    BY <1>1, <1>6, <2>3, <2>4 DEF TaskRow, Kind, BudgetKind, Looping
<1>9. /\ row.pc = "loop" /\ row.attempt = task[t].attempt
      /\ row.spent = task[t].spent + cost /\ row.next = "BudgetThresholdCrossed"
      /\ row.todo = todo /\ row.issued = task[t].issued \cup more
  BY <1>1 DEF TaskRow
<1> HIDE DEF row
<1>10. OthersStay(t) /\ task'[t] = row
  BY <1>3, <1>8, RowMoves
<1> QED
  BY <1>2, <1>3, <1>4, <1>5, <1>9, <1>10 DEF crossed, exhausted, T, E, todo

LEMMA EndLoopFacts ==
    ASSUME OvTypes, NEW t \in Task, EndLoop(t), task[t].next \in Kind
    PROVE  /\ OthersStay(t)
           /\ task[t].pc = "loop" /\ task[t].todo = {}
           /\ task[t].next \in BudgetKind
           /\ pending' \in [BudgetKind -> SUBSET Event]
           /\ \A k \in BudgetKind : pending'[k] =
                 IF k = task[t].next THEN Filtered(k, t) ELSE pending[k]
           /\ task'[t].attempt = task[t].attempt /\ task'[t].spent = task[t].spent
           /\ task'[t].issued = task[t].issued
           /\ task[t].next = "BudgetExhausted" =>
                 task'[t].pc = "checked" /\ task'[t].next = task[t].next
           /\ task[t].next # "BudgetExhausted" =>
                 /\ task'[t].pc = "loop" /\ task'[t].next = "BudgetExhausted"
                 /\ task'[t].todo = OwnEvents(pending["BudgetExhausted"], t)
<1>0. task[t] \in TaskRow
  BY DEF OvTypes
<1>1. task[t].next \in BudgetKind /\ task[t].pc = "loop" /\ task[t].todo = {}
  BY DEF EndLoop, Kind
<1>2. /\ pending' \in [BudgetKind -> SUBSET Event]
      /\ \A k \in BudgetKind : pending'[k] =
            IF k = task[t].next THEN Filtered(k, t) ELSE pending[k]
  <2>1. pending' = [pending EXCEPT ![task[t].next] = Filtered(task[t].next, t)]
    BY DEF EndLoop
  <2>2. Filtered(task[t].next, t) \in SUBSET Event
    BY <1>1 DEF Filtered, OvTypes
  <2> QED
    BY <1>1, <2>1, <2>2 DEF OvTypes
<1>3. CASE task[t].next = "BudgetExhausted"
  <2>1. task' = [task EXCEPT ![t].pc = "checked"]
    BY <1>3 DEF EndLoop
  <2> QED
    BY <1>1, <1>2, <1>3, <2>1, PcMoves
<1>4. CASE task[t].next # "BudgetExhausted"
  <2> DEFINE todo == OwnEvents(pending["BudgetExhausted"], t)
             row == [task[t] EXCEPT !.next = "BudgetExhausted", !.todo = todo]
  <2>1. task' = [task EXCEPT ![t] = row]
    BY <1>4 DEF EndLoop, OvTypes
  <2>2. todo \in SUBSET Event
    BY DEF OwnEvents, OvTypes, BudgetKind
  <2> HIDE DEF todo
  <2>3. row \in TaskRow
    BY <1>0, <2>2 DEF TaskRow, Kind, BudgetKind
  <2>4. /\ row.pc = task[t].pc /\ row.attempt = task[t].attempt
        /\ row.spent = task[t].spent /\ row.next = "BudgetExhausted"
        /\ row.todo = todo /\ row.issued = task[t].issued
    BY <1>0 DEF TaskRow
  <2> HIDE DEF row
  <2> QED
    BY <1>1, <1>2, <1>4, <2>1, <2>3, <2>4, RowMoves DEF todo
<1> QED
  BY <1>3, <1>4

LEMMA RetryFacts ==
    ASSUME OvTypes, NEW t \in Task, Retry(t)
    PROVE  /\ OthersStay(t)
           /\ task[t].pc = "checked" /\ task'[t].pc = "run"
           /\ task[t].attempt < MaxAttempts /\ task'[t].attempt = task[t].attempt + 1
           /\ task'[t].spent = task[t].spent /\ task'[t].todo = task[t].todo
           /\ task'[t].next = task[t].next /\ task'[t].issued = task[t].issued
<1> DEFINE row == [task[t] EXCEPT !.pc = "run", !.attempt = @ + 1]
<1>0. task[t] \in TaskRow /\ task[t].attempt \in 1 .. MaxAttempts
  BY DEF OvTypes, TaskRow
<1>1. /\ task[t].pc = "checked" /\ task[t].attempt < MaxAttempts
      /\ task' = [task EXCEPT ![t] = row]
  BY DEF Retry, OvTypes
<1>2. task[t].attempt + 1 \in 1 .. MaxAttempts
  BY <1>0, <1>1, OverseerLinkAssumption
<1>3. row \in TaskRow
  BY <1>0, <1>2 DEF TaskRow
<1>4. /\ row.pc = "run" /\ row.attempt = task[t].attempt + 1
      /\ row.spent = task[t].spent /\ row.next = task[t].next
      /\ row.todo = task[t].todo /\ row.issued = task[t].issued
  BY <1>0 DEF TaskRow
<1> HIDE DEF row
<1> QED
  BY <1>1, <1>3, <1>4, RowMoves

LEMMA EscalateFacts ==
    ASSUME OvTypes, NEW t \in Task, Escalate(t)
    PROVE  /\ OthersStay(t)
           /\ task[t].pc = "checked" /\ task'[t].pc = "loop"
           /\ task[t].attempt = MaxAttempts /\ task'[t].attempt = task[t].attempt
           /\ task'[t].spent = task[t].spent /\ task'[t].todo = {Escalation(t)}
           /\ task'[t].next = "TaskEscalated"
           /\ task'[t].issued = task[t].issued \cup {Escalation(t)}
           /\ Escalation(t) \in Event
<1> DEFINE e == Escalation(t)
           row == [task[t] EXCEPT !.pc = "loop", !.todo = {e},
                                  !.next = "TaskEscalated", !.issued = @ \cup {e}]
<1>0. task[t] \in TaskRow
  BY DEF OvTypes
<1>1. /\ task[t].pc = "checked" /\ task[t].attempt = MaxAttempts
      /\ task' = [task EXCEPT ![t] = row]
  BY DEF Escalate, OvTypes, Escalation
<1>2. e \in Event
  BY OverseerLinkAssumption DEF Escalation, Event, Kind
<1> HIDE DEF e
<1>3. row \in TaskRow
  BY <1>0, <1>2 DEF TaskRow, Kind, Looping
<1>4. /\ row.pc = "loop" /\ row.attempt = task[t].attempt
      /\ row.spent = task[t].spent /\ row.next = "TaskEscalated"
      /\ row.todo = {e} /\ row.issued = task[t].issued \cup {e}
  BY <1>0 DEF TaskRow
<1> HIDE DEF row
<1> QED
  BY <1>1, <1>2, <1>3, <1>4, RowMoves DEF e

\* The event in hand is done with.
LEMMA DoneFacts ==
    ASSUME OvTypes, NEW t \in Task, task' = Done(t)
    PROVE  /\ OthersStay(t) /\ task'[t].pc = "loop"
           /\ task'[t].attempt = task[t].attempt /\ task'[t].spent = task[t].spent
           /\ task'[t].todo = task[t].todo \ {Current(t)}
           /\ task'[t].next = task[t].next /\ task'[t].issued = task[t].issued
<1> DEFINE row == [task[t] EXCEPT !.pc = "loop", !.todo = @ \ {Current(t)},
                                  !.tries = 0, !.session = 0]
<1>0. task[t] \in TaskRow
  BY DEF OvTypes
<1>1. task' = [task EXCEPT ![t] = row]
  BY DEF Done, OvTypes
<1>3. row \in TaskRow
  BY <1>0 DEF TaskRow, Looping
<1>4. /\ row.pc = "loop" /\ row.attempt = task[t].attempt
      /\ row.spent = task[t].spent /\ row.next = task[t].next
      /\ row.todo = task[t].todo \ {Current(t)} /\ row.issued = task[t].issued
  BY <1>0 DEF TaskRow
<1> HIDE DEF row
<1> QED
  BY <1>1, <1>3, <1>4, RowMoves

\* t goes to label l, with the same event in hand.
Moved(t, l) ==
    /\ OthersStay(t) /\ task'[t].pc = l
    /\ task'[t].attempt = task[t].attempt /\ task'[t].spent = task[t].spent
    /\ task'[t].todo = task[t].todo /\ task'[t].next = task[t].next
    /\ task'[t].issued = task[t].issued

LEMMA TriesMoves ==
    ASSUME OvTypes, NEW t \in Task, NEW n \in Nat,
           NEW l \in {"run", "checked", "done", "raised"} \cup Looping,
           task' = [task EXCEPT ![t].pc = l, ![t].tries = n]
    PROVE  Moved(t, l) /\ task'[t].session = task[t].session
<1> DEFINE row == [task[t] EXCEPT !.pc = l, !.tries = n]
<1>1. task[t] \in TaskRow
  BY DEF OvTypes
<1>2. row \in TaskRow
  BY <1>1 DEF TaskRow
<1>3. /\ row.pc = l
      /\ row.attempt = task[t].attempt /\ row.spent = task[t].spent
      /\ row.todo = task[t].todo /\ row.next = task[t].next
      /\ row.session = task[t].session /\ row.issued = task[t].issued
  BY <1>1 DEF TaskRow
<1>4. task' = [task EXCEPT ![t] = row]
  BY DEF OvTypes
<1> HIDE DEF row
<1> QED
  BY <1>2, <1>3, <1>4, RowMoves DEF Moved

LEMMA SessionMoves ==
    ASSUME OvTypes, NEW t \in Task, NEW s \in Session,
           NEW l \in {"run", "checked", "done", "raised"} \cup Looping,
           task' = [task EXCEPT ![t].pc = l, ![t].session = s]
    PROVE  Moved(t, l) /\ task'[t].session = s
<1> DEFINE row == [task[t] EXCEPT !.pc = l, !.session = s]
<1>1. task[t] \in TaskRow
  BY DEF OvTypes
<1>2. row \in TaskRow
  BY <1>1 DEF TaskRow
<1>3. /\ row.pc = l
      /\ row.attempt = task[t].attempt /\ row.spent = task[t].spent
      /\ row.todo = task[t].todo /\ row.next = task[t].next
      /\ row.session = s /\ row.issued = task[t].issued
  BY <1>1 DEF TaskRow
<1>4. task' = [task EXCEPT ![t] = row]
  BY DEF OvTypes
<1> HIDE DEF row
<1> QED
  BY <1>2, <1>3, <1>4, RowMoves DEF Moved

LEMMA SubstituteFacts ==
    ASSUME OvTypes, NEW t \in Task, LoopOK(t), Substitute(t)
    PROVE  LET e == Current(t)
           IN  /\ task[t].pc = "loop" /\ task[t].todo # {}
               /\ UNCHANGED <<pending, session, known, used, overlapped>>
               /\ traced' = IF e.kind = "TaskEscalated" THEN traced \cup {e} ELSE traced
               /\ \/ /\ Moved(t, "raised") /\ UNCHANGED sinks
                     /\ e.kind = "TaskEscalated"
                  \/ /\ OthersStay(t) /\ task'[t].pc = "loop"
                     /\ task'[t].attempt = task[t].attempt
                     /\ task'[t].spent = task[t].spent
                     /\ task'[t].todo = {} /\ task'[t].next = task[t].next
                     /\ task'[t].issued = task[t].issued
                     /\ sinks' = [sinks EXCEPT ![e] = @ + 1]
<1> DEFINE e == Current(t)
<1>0. task[t] \in TaskRow /\ task[t].pc = "loop" /\ task[t].todo # {}
  BY DEF OvTypes, Substitute
<1>1. task[t].todo = {e}
  BY <1>0, CurrentIs DEF Looping
<1>2. traced' = IF e.kind = "TaskEscalated" THEN traced \cup {e} ELSE traced
  BY DEF Substitute, Fallback, WriteToTrace
<1>3. UNCHANGED <<pending, session, known, used, overlapped>>
  BY DEF Substitute, link
<1>4. CASE FallbackRaises(e)
  <2>1. task' = [task EXCEPT ![t].pc = "raised"] /\ UNCHANGED sinks
    BY <1>4 DEF Substitute
  <2>2. e.kind = "TaskEscalated"
    BY <1>4 DEF FallbackRaises
  <2>3. Moved(t, "raised")
    BY <2>1, PcMoves DEF Moved
  <2> QED
    BY <1>0, <1>2, <1>3, <2>1, <2>2, <2>3
<1>5. CASE ~FallbackRaises(e)
  <2> DEFINE row == [task[t] EXCEPT !.todo = @ \ {e}]
  <2>1. /\ task' = [task EXCEPT ![t].todo = @ \ {e}]
        /\ sinks' = [sinks EXCEPT ![e] = @ + 1]
    BY <1>5 DEF Substitute
  <2> HIDE DEF e
  <2>2. task' = [task EXCEPT ![t] = row]
    BY <2>1 DEF OvTypes
  <2>3. row \in TaskRow
    BY <1>0 DEF TaskRow
  <2>4. /\ row.pc = task[t].pc
        /\ row.attempt = task[t].attempt /\ row.spent = task[t].spent
        /\ row.todo = {} /\ row.next = task[t].next
        /\ row.issued = task[t].issued
    BY <1>0, <1>1 DEF TaskRow
  <2> HIDE DEF row
  <2>5. OthersStay(t) /\ task'[t] = row
    BY <2>2, <2>3, RowMoves
  <2> QED
    BY <1>0, <1>2, <1>3, <2>1, <2>4, <2>5 DEF e
<1> QED
  BY <1>4, <1>5

LEMMA SendFacts ==
    ASSUME OvTypes, NEW t \in Task, Send(t)
    PROVE  /\ task[t].pc = "loop" /\ task[t].todo # {}
           /\ Moved(t, "sending")
           /\ UNCHANGED <<pending, session, sinks, traced>>
           /\ known' = [known EXCEPT ![session] = @ \cup {Current(t)}]
           /\ used' = [used EXCEPT ![session] = Used(@)]
           /\ overlapped' = (overlapped \/ HandingOff)
<1>1. task' = [task EXCEPT ![t].pc = "sending", ![t].tries = 1]
  BY DEF Send, SendTo
<1>2. Moved(t, "sending")
  BY <1>1, TriesMoves DEF Looping, InHand
<1> QED
  BY <1>2 DEF Send, SendTo

LEMMA AnswerFacts ==
    ASSUME OvTypes, NEW t \in Task, NEW answer \in Answers, Answer(t, answer)
    PROVE  /\ task[t].pc = "sending"
           /\ UNCHANGED <<pending, session, known, traced, overlapped>>
           /\ used' = used \/ used' = [used EXCEPT ![session] = Used(@)]
           /\ \/ Moved(t, "sending") /\ UNCHANGED sinks
              \/ Moved(t, "handoff") /\ sinks' = [sinks EXCEPT ![Current(t)] = @ + 1]
<1> DEFINE again == Outcome(Current(t).kind, answer) # "ok" /\ MoreTries(t)
<1>0. task[t] \in TaskRow /\ task[t].pc = "sending"
  BY DEF OvTypes, Answer
<1>1. /\ UNCHANGED <<pending, session, known, traced, overlapped>>
      /\ used' = used \/ used' = [used EXCEPT ![session] = Used(@)]
  BY DEF Answer
<1>2. CASE again
  <2> DEFINE n == (task[t].tries % 3) + 1
             row == [task[t] EXCEPT !.tries = n]
  <2>1. task' = [task EXCEPT ![t].tries = (@ % 3) + 1] /\ UNCHANGED sinks
    BY <1>2 DEF Answer, Correct
  <2>2. n \in Nat
    BY <1>0 DEF TaskRow
  <2>3. task' = [task EXCEPT ![t] = row]
    BY <2>1 DEF OvTypes
  <2> HIDE DEF n
  <2>4. row \in TaskRow
    BY <1>0, <2>2 DEF TaskRow
  <2>5. /\ row.pc = task[t].pc
        /\ row.attempt = task[t].attempt /\ row.spent = task[t].spent
        /\ row.todo = task[t].todo /\ row.next = task[t].next
        /\ row.issued = task[t].issued
    BY <1>0 DEF TaskRow
  <2> HIDE DEF row
  <2>6. Moved(t, "sending")
    BY <1>0, <2>3, <2>4, <2>5, RowMoves DEF Moved
  <2> QED
    BY <1>0, <1>1, <2>1, <2>6
<1>3. CASE ~again
  <2>1. /\ task' = [task EXCEPT ![t].pc = "handoff", ![t].tries = 0]
        /\ sinks' = [sinks EXCEPT ![Current(t)] = @ + 1]
    BY <1>3 DEF Answer
  <2>2. Moved(t, "handoff")
    BY <2>1, TriesMoves DEF Looping, InHand
  <2> QED
    BY <1>0, <1>1, <2>1, <2>2
<1> QED
  BY <1>2, <1>3

-----------------------------------------------------------------------------
(* The events of a task                                                    *)

LEMMA OtherTask ==
    ASSUME NEW u \in Task, TaskOK(u), task'[u] = task[u],
           \A k \in BudgetKind : OwnEvents(pending'[k], u) = OwnEvents(pending[k], u),
           \A e \in Event : e.task = u => sinks'[e] = sinks[e]
    PROVE  TaskOK(u)'
<1>1. /\ OwnEvents(pending["BudgetThresholdCrossed"], u)' =
            OwnEvents(pending["BudgetThresholdCrossed"], u)
      /\ OwnEvents(pending["BudgetExhausted"], u)' =
            OwnEvents(pending["BudgetExhausted"], u)
  BY DEF BudgetKind, OwnEvents
<1>2. /\ \A k : Mine(u, k)' = Mine(u, k)
      /\ Left(u)' = Left(u)
      /\ Thresholds(u)' = Thresholds(u)
  BY <1>1 DEF Mine, Left, Waiting, Thresholds
<1>3. LoopOK(u)'
  BY <1>2 DEF TaskOK, LoopOK
<1>4. ListsOK(u)'
  BY <1>1, <1>2 DEF TaskOK, ListsOK
<1>5. IssuedOK(u)' /\ SinksOK(u)'
  BY <1>2 DEF TaskOK, IssuedOK, SinksOK
<1>6. ThresholdOK(u)'
  BY <1>2 DEF TaskOK, ThresholdOK
<1> QED
  BY <1>3, <1>4, <1>5, <1>6 DEF TaskOK

\* A step that changes nothing but the label, and sends nothing.
LEMMA MovedTask ==
    ASSUME NEW t \in Task, TaskOK(t), NEW l, Moved(t, l), UNCHANGED <<pending, sinks>>,
           l # "run",
           l \in Looping => task[t].pc \in Looping,
           l \in InHand => task[t].todo # {},
           l \in HandOff => task'[t].session \in Session,
           task[t].next = "TaskEscalated" => l \in Looping \cup {"done", "raised"},
           l # "raised" => /\ task[t].pc # "raised"
                           /\ \/ l \in {"loop", "sending"} <=> task[t].pc \in {"loop", "sending"}
                              \/ task[t].todo = {}
                           /\ l \notin Looping => /\ task[t].pc \notin Looping \/
                                                     task[t].next \notin BudgetKind
                                                  /\ task[t].pc \in {"loop", "sending"}
                                                        => task[t].todo = {}
    PROVE  TaskOK(t)'
<1>0. /\ task'[t].pc = l
      /\ task'[t].attempt = task[t].attempt /\ task'[t].spent = task[t].spent
      /\ task'[t].todo = task[t].todo /\ task'[t].next = task[t].next
      /\ task'[t].issued = task[t].issued
      /\ \A k : Mine(t, k)' = Mine(t, k)
      /\ Thresholds(t)' = Thresholds(t)
  BY DEF Moved, Mine, Thresholds
<1>1. LoopOK(t)'
  BY <1>0 DEF TaskOK, LoopOK
<1>2. ListsOK(t)'
  <2>0. \A k : OwnEvents(pending[k], t)' = OwnEvents(pending[k], t)
    BY DEF OwnEvents
  <2>1. CASE l = "raised"
    BY <1>0, <2>1 DEF ListsOK
  <2>2. CASE l # "raised" /\ l \in Looping
    BY <1>0, <2>0, <2>2 DEF TaskOK, ListsOK
  <2>3. CASE l # "raised" /\ l \notin Looping
    <3>1. /\ OwnEvents(pending["BudgetThresholdCrossed"], t) = {}
          /\ OwnEvents(pending["BudgetExhausted"], t) = {}
      BY <2>3 DEF TaskOK, ListsOK, BudgetKind
    <3> QED
      BY <1>0, <2>0, <2>3, <3>1 DEF ListsOK
  <2> QED
    BY <2>1, <2>2, <2>3
<1>3. IssuedOK(t)' /\ SinksOK(t)'
  <2>1. CASE l = "raised"
    <3>1. Left(t)' = {}
      BY <1>0, <2>1 DEF Left, Waiting, Looping, InHand
    <3> QED
      BY <1>0, <2>1, <3>1 DEF TaskOK, IssuedOK, SinksOK
  <2>2. CASE l # "raised"
    <3>1. Waiting(t)' = Waiting(t)
      <4>1. CASE l \in Looping
        BY <1>0, <2>2, <4>1 DEF Waiting, OwnEvents
      <4>2. CASE l \notin Looping
        BY <1>0, <2>2, <4>2 DEF Waiting, BudgetKind
      <4> QED
        BY <4>1, <4>2
    <3>2. Left(t)' = Left(t)
      BY <1>0, <2>2, <3>1 DEF Left, Looping
    <3> QED
      BY <1>0, <2>2, <3>2 DEF TaskOK, IssuedOK, SinksOK
  <2> QED
    BY <2>1, <2>2
<1>4. ThresholdOK(t)'
  BY <1>0 DEF TaskOK, ThresholdOK
<1> QED
  BY <1>1, <1>2, <1>3, <1>4 DEF TaskOK

\* The event in hand goes to the sinks.
LEMMA SentTask ==
    ASSUME OvTypes, NEW t \in Task, TaskOK(t), UNCHANGED pending,
           task[t].pc \in {"loop", "sending"}, task[t].todo # {},
           sinks' = [sinks EXCEPT ![Current(t)] = @ + 1],
           task'[t].attempt = task[t].attempt, task'[t].spent = task[t].spent,
           task'[t].next = task[t].next, task'[t].issued = task[t].issued,
           \/ task'[t].pc = "loop" /\ task'[t].todo = {}
           \/ task'[t].pc = "handoff" /\ task'[t].todo = task[t].todo
    PROVE  TaskOK(t)'
<1> DEFINE e == Current(t)
<1>0. /\ task[t].pc \in Looping /\ task'[t].pc \in Looping
      /\ task[t].pc \notin {"run", "raised"} /\ task'[t].pc \notin {"run", "raised"}
      /\ \A k : Mine(t, k)' = Mine(t, k)
      /\ Thresholds(t)' = Thresholds(t)
  BY DEF Looping, InHand, Mine, Thresholds
<1>1. /\ e = Mine(t, task[t].next) /\ task[t].todo = {e} /\ e \in Event /\ e.task = t
      /\ e.kind = task[t].next /\ task[t].next \in Kind
  BY <1>0, CurrentIs DEF TaskOK
<1> HIDE DEF e
<1>2. LoopOK(t)'
  BY <1>0, <1>1 DEF TaskOK, LoopOK, HandOff, InHand, Looping
<1>3. ListsOK(t)'
  BY <1>0 DEF TaskOK, ListsOK, OwnEvents
<1>4. Waiting(t)' = Waiting(t)
  BY <1>0 DEF Waiting, OwnEvents
<1>5. e \notin Waiting(t)
  <2> SUFFICES ASSUME task[t].next = "BudgetThresholdCrossed",
                      e \in OwnEvents(pending["BudgetExhausted"], t)
               PROVE  FALSE
    BY DEF Waiting
  <2>1. e = Mine(t, "BudgetExhausted")
    BY <1>0 DEF TaskOK, ListsOK
  <2>2. e.kind = "BudgetExhausted"
    BY <2>1 DEF Mine
  <2> QED
    BY <1>1, <2>2
<1>6. Left(t) = Waiting(t) \cup {e} /\ Left(t)' = Waiting(t)
  BY <1>1, <1>4 DEF Left
<1>7. IssuedOK(t)'
  BY <1>0, <1>6 DEF TaskOK, IssuedOK
<1>8. SinksOK(t)'
  <2> SUFFICES ASSUME NEW f \in Event, f.task = t
               PROVE  /\ f \notin task[t].issued => sinks'[f] = 0
                      /\ f \in task[t].issued =>
                            sinks'[f] = IF f \in Waiting(t) THEN 0 ELSE 1
                      /\ sinks'[f] <= 1
    BY <1>0, <1>6 DEF SinksOK
  <2>1. /\ f \notin task[t].issued => sinks[f] = 0
        /\ f \in task[t].issued => sinks[f] = IF f \in Left(t) THEN 0 ELSE 1
        /\ sinks[f] <= 1
    BY <1>0 DEF TaskOK, SinksOK
  <2>2. e \in task[t].issued
    BY <1>6 DEF TaskOK, IssuedOK
  <2>3. sinks'[f] = IF f = e THEN sinks[f] + 1 ELSE sinks[f]
    BY DEF OvTypes, e
  <2> QED
    BY <1>5, <1>6, <2>1, <2>2, <2>3
<1>9. ThresholdOK(t)'
  BY <1>0 DEF TaskOK, ThresholdOK
<1> QED
  BY <1>2, <1>3, <1>7, <1>8, <1>9 DEF TaskOK

\* The sinks have got the event in hand, and the loop goes on.
LEMMA DoneTask ==
    ASSUME OvTypes, NEW t \in Task, TaskOK(t), UNCHANGED <<pending, sinks>>,
           task[t].pc \in InHand \ {"sending"}, task' = Done(t)
    PROVE  TaskOK(t)'
<1>0. /\ task[t].pc \in Looping /\ task'[t].pc = "loop"
      /\ task[t].pc \notin {"run", "raised", "loop", "sending"}
      /\ task'[t].attempt = task[t].attempt /\ task'[t].spent = task[t].spent
      /\ task'[t].next = task[t].next /\ task'[t].issued = task[t].issued
      /\ \A k : Mine(t, k)' = Mine(t, k)
      /\ Thresholds(t)' = Thresholds(t)
  BY DoneFacts DEF Looping, InHand, Mine, Thresholds
<1>1. task[t].todo = {Current(t)} /\ task[t].next \in Kind
  BY <1>0, CurrentIs DEF TaskOK, LoopOK
<1>2. task'[t].todo = {}
  BY <1>1, DoneFacts
<1>3. LoopOK(t)'
  BY <1>0, <1>1, <1>2 DEF TaskOK, LoopOK, HandOff, InHand, Looping
<1>4. ListsOK(t)'
  BY <1>0 DEF TaskOK, ListsOK, OwnEvents, Looping
<1>5. Waiting(t)' = Waiting(t)
  BY <1>0 DEF Waiting, OwnEvents, Looping
<1>6. Left(t)' = Left(t)
  BY <1>0, <1>2, <1>5 DEF Left
<1>7. IssuedOK(t)' /\ SinksOK(t)'
  BY <1>0, <1>6 DEF TaskOK, IssuedOK, SinksOK
<1>8. ThresholdOK(t)'
  BY <1>0 DEF TaskOK, ThresholdOK
<1> QED
  BY <1>3, <1>4, <1>7, <1>8 DEF TaskOK

\* The cost of an attempt: its events are issued, and are on the lists.
LEMMA AccumulateTask ==
    ASSUME OvTypes, NEW t \in Task, TaskOK(t), NEW cost \in Costs,
           Accumulate(t, cost)
    PROVE  TaskOK(t)'
<1> DEFINE T == Mine(t, "BudgetThresholdCrossed")
           E == Mine(t, "BudgetExhausted")
           crossed == Crosses(task[t].spent, cost)
           exhausted == task[t].spent + cost >= Budget
           newT == IF crossed THEN {T} ELSE {}
           newE == IF exhausted THEN {E} ELSE {}
<1>0. /\ T \in Event /\ E \in Event
      /\ task[t].pc = "run" /\ task'[t].pc = "loop"
      /\ task'[t].attempt = task[t].attempt
      /\ task'[t].spent = task[t].spent + cost
      /\ task'[t].next = "BudgetThresholdCrossed"
      /\ task'[t].todo = OwnEvents(pending'["BudgetThresholdCrossed"], t)
      /\ task'[t].issued = task[t].issued \cup newT \cup newE
      /\ pending'["BudgetThresholdCrossed"] = pending["BudgetThresholdCrossed"] \cup newT
      /\ pending'["BudgetExhausted"] = pending["BudgetExhausted"] \cup newE
      /\ UNCHANGED sinks
  <2>1. UNCHANGED sinks
    BY DEF Accumulate
  <2> QED
    BY <2>1, AccumulateFacts
<1>1. /\ T.task = t /\ T.kind = "BudgetThresholdCrossed" /\ T.attempt = task[t].attempt
      /\ E.task = t /\ E.kind = "BudgetExhausted" /\ E.attempt = task[t].attempt
      /\ task[t].attempt \in Nat /\ task[t].spent \in Nat /\ cost \in Nat
      /\ task[t].issued \subseteq Event
  BY OverseerLinkAssumption DEF Mine, OvTypes, TaskRow
<1>2. /\ Mine(t, "BudgetThresholdCrossed")' = T /\ Mine(t, "BudgetExhausted")' = E
  BY <1>0 DEF Mine
<1> HIDE DEF T, E
<1>3. /\ OwnEvents(pending["BudgetThresholdCrossed"], t) = {}
      /\ OwnEvents(pending["BudgetExhausted"], t) = {}
  BY <1>0 DEF TaskOK, ListsOK, Looping, InHand
<1>4. /\ OwnEvents(pending'["BudgetThresholdCrossed"], t) = newT
      /\ OwnEvents(pending'["BudgetExhausted"], t) = newE
  BY <1>0, <1>1, <1>3 DEF OwnEvents
<1>5. Left(t)' = newT \cup newE
  BY <1>0, <1>4 DEF Left, Waiting, Looping, OwnEvents
<1>6. LoopOK(t)'
  <2>1. task'[t].todo \in {{}, {T}}
    BY <1>0, <1>4
  <2> QED
    BY <1>0, <1>2, <2>1 DEF LoopOK, Kind, BudgetKind, InHand, HandOff
<1>7. ListsOK(t)'
  <2>1. /\ OwnEvents(pending["BudgetThresholdCrossed"], t)' = newT
        /\ OwnEvents(pending["BudgetExhausted"], t)' = newE
    BY <1>4 DEF OwnEvents
  <2> QED
    BY <1>0, <1>2, <2>1 DEF ListsOK, Looping, BudgetKind
<1>8. \A e \in task[t].issued : /\ e.task = t /\ e.attempt < task[t].attempt
                                /\ e.kind # "TaskEscalated"
  BY <1>0 DEF TaskOK, IssuedOK, LoopOK, Looping, InHand
<1>9. IssuedOK(t)'
  <2>1. \A e \in task'[t].issued : /\ e.task = t /\ e.attempt <= task[t].attempt
                                   /\ e.kind # "TaskEscalated"
    <3>1. \A e \in task[t].issued : e.attempt <= task[t].attempt
      BY <1>1, <1>8 DEF Event
    <3> QED
      BY <1>0, <1>1, <1>8, <3>1
  <2> QED
    BY <1>0, <1>5, <2>1 DEF IssuedOK
<1>10. T \notin task[t].issued /\ E \notin task[t].issued
  BY <1>1, <1>8
<1>11. SinksOK(t)'
  <2> SUFFICES ASSUME NEW f \in Event, f.task = t
               PROVE  /\ f \notin task'[t].issued => sinks[f] = 0
                      /\ f \in task'[t].issued =>
                            sinks[f] = IF f \in newT \cup newE THEN 0 ELSE 1
                      /\ sinks[f] <= 1
    BY <1>0, <1>5 DEF SinksOK
  <2>1. Left(t) = {}
    BY <1>0 DEF Left, Waiting, Looping, InHand
  <2>2. /\ f \notin task[t].issued => sinks[f] = 0
        /\ f \in task[t].issued => sinks[f] = 1
        /\ sinks[f] <= 1
    BY <1>0, <2>1 DEF TaskOK, SinksOK
  <2> QED
    BY <1>0, <1>10, <2>2
<1>12. ThresholdOK(t)'
  <2>1. Thresholds(t)' = Thresholds(t) \cup newT
    BY <1>0, <1>1 DEF Thresholds
  <2>2. Budget \in Nat
    BY OverseerLinkAssumption
  <2>3. CASE crossed
    <3>1. ~(10 * task[t].spent >= 8 * Budget) /\ 10 * (task[t].spent + cost) >= 8 * Budget
          /\ Budget > 0
      BY <1>1, <2>2, <2>3 DEF Crosses
    <3>2. Thresholds(t)' = {T}
      BY <2>1, <2>3, <3>1 DEF TaskOK, ThresholdOK
    <3> QED
      BY <1>0, <3>1, <3>2 DEF ThresholdOK
  <2>4. CASE ~crossed
    <3>1. Thresholds(t)' = Thresholds(t)
      BY <2>1, <2>4
    <3>2. (10 * (task[t].spent + cost) >= 8 * Budget) =
             (10 * task[t].spent >= 8 * Budget)
      BY <1>1, <2>2, <2>4 DEF Crosses
    <3> QED
      BY <1>0, <3>1, <3>2 DEF TaskOK, ThresholdOK
  <2> QED
    BY <2>3, <2>4
<1> QED
  BY <1>6, <1>7, <1>9, <1>11, <1>12 DEF TaskOK

\* A loop over a list is over, and the list is without the events of the task.
LEMMA EndLoopTask ==
    ASSUME OvTypes, NEW t \in Task, TaskOK(t), EndLoop(t)
    PROVE  TaskOK(t)'
<1> DEFINE T == "BudgetThresholdCrossed"
           E == "BudgetExhausted"
           own == OwnEvents(pending[E], t)
<1>0. task[t].pc = "loop" /\ task[t].next \in Kind /\ task[t].todo = {}
  BY DEF EndLoop, TaskOK, LoopOK, Looping
<1>1. /\ task[t].next \in BudgetKind
      /\ \A k \in BudgetKind : pending'[k] =
            IF k = task[t].next THEN Filtered(k, t) ELSE pending[k]
      /\ task'[t].attempt = task[t].attempt /\ task'[t].spent = task[t].spent
      /\ task'[t].issued = task[t].issued
      /\ task[t].next = E => task'[t].pc = "checked" /\ task'[t].next = E
      /\ task[t].next # E =>
            task'[t].pc = "loop" /\ task'[t].next = E /\ task'[t].todo = own
  BY <1>0, EndLoopFacts
<1>2. UNCHANGED sinks
  BY DEF EndLoop
<1>3. /\ \A k : Mine(t, k)' = Mine(t, k)
      /\ Thresholds(t)' = Thresholds(t)
      /\ task[t].pc \notin {"run", "raised"} /\ task[t].pc \in Looping
      /\ task'[t].pc \notin {"run", "raised"}
      /\ task'[t].next = E
  BY <1>0, <1>1 DEF Mine, Thresholds, Looping, BudgetKind
<1>4. OwnEvents(Filtered(task[t].next, t), t) = {}
  BY DEF OwnEvents, Filtered
<1>5. ThresholdOK(t)'
  BY <1>1, <1>3 DEF TaskOK, ThresholdOK
<1>6. /\ OwnEvents(pending[T], t)' = {}
      /\ OwnEvents(pending[E], t)' = IF task[t].next = E THEN {} ELSE own
  <2>1. task[t].next = T \/ (task[t].next = E /\ OwnEvents(pending[T], t) = {})
    <3>1. task[t].next = E => OwnEvents(pending[T], t) = {}
      BY <1>0 DEF TaskOK, ListsOK
    <3> QED
      BY <1>1, <3>1 DEF BudgetKind
  <2>2. CASE task[t].next = T
    BY <1>1, <1>4, <2>2 DEF BudgetKind, OwnEvents
  <2>3. CASE task[t].next = E /\ OwnEvents(pending[T], t) = {}
    BY <1>1, <1>4, <2>3 DEF BudgetKind, OwnEvents
  <2> QED
    BY <2>1, <2>2, <2>3
<1>7. own \subseteq {Mine(t, E)}
  BY <1>1, <1>3 DEF TaskOK, ListsOK
<1>8. Left(t)' = Left(t)
  <2>1. Waiting(t)' = {}
    BY <1>3 DEF Waiting
  <2>2. CASE task[t].next = E
    BY <1>0, <1>1, <2>1, <2>2 DEF Left, Waiting
  <2>3. CASE task[t].next # E
    BY <1>0, <1>1, <1>3, <2>1, <2>3 DEF Left, Waiting, BudgetKind
  <2> QED
    BY <2>2, <2>3
<1>9. IssuedOK(t)' /\ SinksOK(t)'
  <2>1. \A e \in task[t].issued : e.kind # "TaskEscalated"
    BY <1>1 DEF TaskOK, IssuedOK, BudgetKind
  <2> QED
    BY <1>1, <1>2, <1>3, <1>8, <2>1 DEF TaskOK, IssuedOK, SinksOK
<1>10. CASE task[t].next = E
  <2>1. LoopOK(t)'
    BY <1>1, <1>10 DEF LoopOK, Looping, InHand, HandOff
  <2>2. ListsOK(t)'
    BY <1>6, <1>10 DEF ListsOK
  <2> QED
    BY <1>5, <1>9, <2>1, <2>2 DEF TaskOK
<1>11. CASE task[t].next # E
  <2>1. task'[t].todo \in {{}, {Mine(t, E)'}}
    BY <1>1, <1>3, <1>7, <1>11
  <2>2. LoopOK(t)'
    BY <1>1, <1>11, <2>1 DEF LoopOK, Looping, InHand, HandOff, Kind, BudgetKind
  <2>3. ListsOK(t)'
    BY <1>1, <1>3, <1>6, <1>7, <1>11 DEF ListsOK, Looping, BudgetKind
  <2> QED
    BY <1>5, <1>9, <2>2, <2>3 DEF TaskOK
<1> QED
  BY <1>10, <1>11

\* The next attempt.
LEMMA RetryTask ==
    ASSUME OvTypes, NEW t \in Task, TaskOK(t), Retry(t)
    PROVE  TaskOK(t)'
<1>0. /\ task[t].pc = "checked" /\ task'[t].pc = "run"
      /\ task'[t].attempt = task[t].attempt + 1
      /\ task'[t].spent = task[t].spent
      /\ task'[t].next = task[t].next /\ task'[t].issued = task[t].issued
      /\ UNCHANGED <<pending, sinks>>
  <2>1. UNCHANGED <<pending, sinks>>
    BY DEF Retry
  <2> QED
    BY <2>1, RetryFacts
<1>1. /\ Left(t) = {} /\ Left(t)' = {} /\ Thresholds(t)' = Thresholds(t)
      /\ task[t].attempt \in Nat /\ task[t].issued \subseteq Event
      /\ task[t].next # "TaskEscalated"
  BY <1>0 DEF Left, Waiting, Thresholds, Looping, InHand, OvTypes, TaskRow, TaskOK, LoopOK
<1>2. LoopOK(t)'
  BY <1>0, <1>1 DEF LoopOK, Looping, InHand, HandOff
<1>3. ListsOK(t)'
  <2>1. /\ OwnEvents(pending["BudgetThresholdCrossed"], t) = {}
        /\ OwnEvents(pending["BudgetExhausted"], t) = {}
    BY <1>0 DEF TaskOK, ListsOK, Looping, InHand
  <2> QED
    BY <1>0, <2>1 DEF ListsOK, OwnEvents
<1>4. IssuedOK(t)'
  <2>1. \A e \in task[t].issued : e.attempt \in Nat
    BY <1>1 DEF Event
  <2> QED
    BY <1>0, <1>1, <2>1 DEF TaskOK, IssuedOK
<1>5. SinksOK(t)' /\ ThresholdOK(t)'
  BY <1>0, <1>1 DEF TaskOK, SinksOK, ThresholdOK
<1> QED
  BY <1>2, <1>3, <1>4, <1>5 DEF TaskOK

\* The escalation is issued, and is to be sent.
LEMMA EscalateTask ==
    ASSUME OvTypes, NEW t \in Task, TaskOK(t), Escalate(t)
    PROVE  TaskOK(t)'
<1> DEFINE e == Escalation(t)
<1>0. /\ task[t].pc = "checked" /\ task'[t].pc = "loop"
      /\ task[t].attempt = MaxAttempts /\ task'[t].attempt = task[t].attempt
      /\ task'[t].spent = task[t].spent /\ task'[t].todo = {e}
      /\ task'[t].next = "TaskEscalated"
      /\ task'[t].issued = task[t].issued \cup {e}
      /\ e \in Event
      /\ UNCHANGED <<pending, sinks>>
  <2>1. UNCHANGED <<pending, sinks>>
    BY DEF Escalate
  <2> QED
    BY <2>1, EscalateFacts
<1>1. /\ e.task = t /\ e.kind = "TaskEscalated" /\ e.attempt = MaxAttempts
      /\ Mine(t, "TaskEscalated")' = e
      /\ MaxAttempts \in Nat
  BY <1>0, OverseerLinkAssumption DEF Escalation, Mine
<1>2. Left(t) = {} /\ task[t].next # "TaskEscalated"
  BY <1>0 DEF Left, Waiting, Looping, InHand, TaskOK, LoopOK
<1> HIDE DEF e
<1>3. Left(t)' = {e} /\ Thresholds(t)' = Thresholds(t)
  BY <1>0, <1>1 DEF Left, Waiting, Thresholds
<1>4. LoopOK(t)'
  BY <1>0, <1>1 DEF LoopOK, Looping, InHand, HandOff, Kind
<1>5. ListsOK(t)'
  <2>1. /\ OwnEvents(pending["BudgetThresholdCrossed"], t) = {}
        /\ OwnEvents(pending["BudgetExhausted"], t) = {}
    BY <1>0 DEF TaskOK, ListsOK, Looping, InHand
  <2> QED
    BY <1>0, <2>1 DEF ListsOK, OwnEvents
<1>6. e \notin task[t].issued
  BY <1>1, <1>2 DEF TaskOK, IssuedOK
<1>7. IssuedOK(t)'
  <2>1. \A f \in task[t].issued : f.kind # "TaskEscalated"
    BY <1>2 DEF TaskOK, IssuedOK
  <2> QED
    BY <1>0, <1>1, <1>3, <2>1 DEF TaskOK, IssuedOK
<1>8. SinksOK(t)'
  BY <1>0, <1>2, <1>3, <1>6 DEF TaskOK, SinksOK
<1>9. ThresholdOK(t)'
  BY <1>0, <1>3 DEF TaskOK, ThresholdOK
<1> QED
  BY <1>4, <1>5, <1>7, <1>8, <1>9 DEF TaskOK

-----------------------------------------------------------------------------
(* The marks of an escalation                                              *)

\* The trace and the sessions tell of e what they told before.
SameMarks(e) == (e \in traced' <=> e \in traced) /\ (Told(e)' <=> Told(e))

LEMMA EscalationIs ==
    ASSUME NEW t \in Task
    PROVE  /\ Escalation(t) \in Event /\ Escalation(t).task = t
           /\ Escalation(t).kind = "TaskEscalated"
  BY OverseerLinkAssumption DEF Escalation, Event, Kind

\* A step by which an escalation does not leave the list, or leaves it when it
\* has been told.
LEMMA MarksKept ==
    ASSUME NEW t \in Task, EscalationOK(t), SameMarks(Escalation(t)),
           \/ task[t].next # "TaskEscalated" /\ task'[t].next # "TaskEscalated"
           \/ task[t].next # "TaskEscalated" /\ task'[t].pc = "loop" /\ task'[t].todo # {}
           \/ /\ task[t].next = "TaskEscalated" /\ task'[t].next = "TaskEscalated"
              /\ \/ /\ task[t].pc \in InHand
                    /\ \/ task'[t].pc \in InHand \cup {"done", "raised"}
                       \/ task'[t].pc = "loop" /\ task'[t].todo = {}
                 \/ /\ task[t].pc = "loop" /\ task[t].todo = {}
                    /\ task'[t].pc = "done"
    PROVE  EscalationOK(t)'
<1> DEFINE e == Escalation(t)
<1>1. (e \in traced' <=> e \in traced) /\ (Told(e)' <=> Told(e))
  BY DEF SameMarks
<1>2. Escalation(t)' = e
  BY DEF Escalation
<1> HIDE DEF e
<1>3. CASE \/ task[t].next # "TaskEscalated" /\ task'[t].next # "TaskEscalated"
           \/ task[t].next # "TaskEscalated" /\ task'[t].pc = "loop" /\ task'[t].todo # {}
  BY <1>1, <1>2, <1>3 DEF EscalationOK, e
<1>4. CASE /\ task[t].next = "TaskEscalated" /\ task'[t].next = "TaskEscalated"
           /\ task[t].pc \in InHand
  BY <1>1, <1>2, <1>4 DEF EscalationOK, InHand, e
<1>5. CASE /\ task[t].next = "TaskEscalated" /\ task'[t].next = "TaskEscalated"
           /\ task[t].pc = "loop" /\ task[t].todo = {} /\ task'[t].pc = "done"
  BY <1>1, <1>2, <1>5 DEF EscalationOK, InHand, e
<1> QED
  BY <1>3, <1>4, <1>5 DEF InHand

-----------------------------------------------------------------------------
(* What the sessions know                                                  *)

LEMMA MemoryKept ==
    ASSUME MemoryOK, NEW t \in Task, OthersStay(t), UNCHANGED <<session, known>>,
           overlapped => overlapped',
           task'[t].pc \notin HandOff,
           task'[t].pc = "sending" => task[t].pc = "sending"
    PROVE  MemoryOK'
<1> SUFFICES ASSUME ~overlapped'
             PROVE  /\ \A s \in Session : known[s] \subseteq known[session]
                    /\ \A u \in Task : task'[u].pc = "summarise" =>
                          task'[u].session = session
                    /\ \A u \in Task : task'[u].pc = "brief" =>
                          known[task'[u].session] = known[session]
                    /\ \A u, v \in Task : u # v /\ task'[u].pc \in HandOff =>
                          task'[v].pc \notin {"sending"} \cup HandOff
  BY DEF MemoryOK
<1>1. /\ \A s \in Session : known[s] \subseteq known[session]
      /\ \A u \in Task : task[u].pc = "summarise" => task[u].session = session
      /\ \A u \in Task : task[u].pc = "brief" =>
            known[task[u].session] = known[session]
      /\ \A u, v \in Task : u # v /\ task[u].pc \in HandOff =>
            task[v].pc \notin {"sending"} \cup HandOff
  BY DEF MemoryOK
<1>2. \A u \in Task : u # t => task'[u] = task[u]
  BY DEF OthersStay
<1> QED
  BY <1>1, <1>2 DEF HandOff

\* Everything a step of t has to keep.
LEMMA StepKeeps ==
    ASSUME OvInv, NEW t \in Task, OthersStay(t),
           pending' \in [BudgetKind -> SUBSET Event],
           \A u \in Task : u # t => \A k \in BudgetKind :
               OwnEvents(pending'[k], u) = OwnEvents(pending[k], u),
           sinks' \in [Event -> Nat],
           \A e \in Event : e.task # t => sinks'[e] = sinks[e],
           traced' \in SUBSET Event,
           \A u \in Task : u # t => SameMarks(Escalation(u)),
           session' \in Session,
           known' \in [Session -> SUBSET Event],
           used' \in [Session -> Nat],
           UnusedOK', MemoryOK', TaskOK(t)', EscalationOK(t)'
    PROVE  OvInv'
<1>1. OvTypes'
  BY DEF OvTypes, OthersStay
<1>2. ASSUME NEW u \in Task
      PROVE  TaskOK(u)' /\ EscalationOK(u)'
  <2>1. CASE u # t
    <3>1. TaskOK(u) /\ EscalationOK(u) /\ task'[u] = task[u]
      BY <2>1 DEF OvInv, OthersStay
    <3>2. TaskOK(u)'
      BY <2>1, <3>1, OtherTask
    <3>3. EscalationOK(u)'
      BY <2>1, <3>1 DEF EscalationOK, SameMarks, Escalation
    <3> QED
      BY <3>2, <3>3
  <2> QED
    BY <2>1
<1> QED
  BY <1>1, <1>2 DEF OvInv

\* The adapter and the trace have no part in the step.
LEMMA QuietStep ==
    ASSUME OvInv, NEW t \in Task, OthersStay(t),
           pending' \in [BudgetKind -> SUBSET Event],
           \A u \in Task : u # t => \A k \in BudgetKind :
               OwnEvents(pending'[k], u) = OwnEvents(pending[k], u),
           UNCHANGED <<session, known, used, overlapped, sinks, traced>>,
           task'[t].pc \notin {"sending"} \cup HandOff,
           TaskOK(t)', SameMarks(Escalation(t)) => EscalationOK(t)'
    PROVE  OvInv'
<1>1. \A u \in Task : SameMarks(Escalation(u))
  BY DEF SameMarks, Told
<1>2. MemoryOK'
  BY MemoryKept DEF OvInv
<1>3. UnusedOK'
  BY DEF OvInv, UnusedOK
<1>4. /\ sinks' \in [Event -> Nat] /\ traced' \in SUBSET Event /\ session' \in Session
      /\ known' \in [Session -> SUBSET Event] /\ used' \in [Session -> Nat]
  BY DEF OvInv, OvTypes
<1>5. \A e \in Event : sinks'[e] = sinks[e]
  OBVIOUS
<1> QED
  BY <1>1, <1>2, <1>3, <1>4, <1>5, StepKeeps

-----------------------------------------------------------------------------
(* Every step keeps the invariant                                          *)

LEMMA AccumulateStep ==
    ASSUME OvInv, NEW t \in Task, NEW cost \in Costs, Accumulate(t, cost)
    PROVE  OvInv'
<1>0. OvTypes /\ TaskOK(t) /\ EscalationOK(t)
  BY DEF OvInv
<1>1. /\ UNCHANGED <<session, known, used, overlapped, sinks, traced>>
  BY DEF Accumulate, link
<1>2. /\ OthersStay(t) /\ task[t].pc = "run" /\ task'[t].pc = "loop"
      /\ task'[t].next = "BudgetThresholdCrossed"
      /\ pending' \in [BudgetKind -> SUBSET Event]
  BY <1>0, AccumulateFacts
<1>3. \A u \in Task : u # t => \A k \in BudgetKind :
          OwnEvents(pending'[k], u) = OwnEvents(pending[k], u)
  <2>1. \A k : Mine(t, k).task = t
    BY DEF Mine
  <2>2. /\ pending'["BudgetThresholdCrossed"] \in
              {pending["BudgetThresholdCrossed"],
               pending["BudgetThresholdCrossed"] \cup {Mine(t, "BudgetThresholdCrossed")}}
        /\ pending'["BudgetExhausted"] \in
              {pending["BudgetExhausted"],
               pending["BudgetExhausted"] \cup {Mine(t, "BudgetExhausted")}}
    BY <1>0, AccumulateFacts
  <2> QED
    BY <2>1, <2>2 DEF OwnEvents, BudgetKind
<1>4. TaskOK(t)'
  BY <1>0, AccumulateTask
<1>5. SameMarks(Escalation(t)) => EscalationOK(t)'
  <2>1. task[t].next # "TaskEscalated"
    BY <1>0, <1>2 DEF TaskOK, LoopOK, Looping, InHand
  <2> QED
    BY <1>0, <1>2, <2>1, MarksKept
<1>6. task'[t].pc \notin {"sending"} \cup HandOff
  BY <1>2 DEF HandOff
<1> QED
  BY <1>1, <1>2, <1>3, <1>4, <1>5, <1>6, QuietStep

LEMMA EndLoopStep ==
    ASSUME OvInv, NEW t \in Task, EndLoop(t)
    PROVE  OvInv'
<1>0. OvTypes /\ TaskOK(t) /\ EscalationOK(t)
  BY DEF OvInv
<1>1. /\ UNCHANGED <<session, known, used, overlapped, sinks, traced>>
      /\ task[t].pc = "loop"
  BY DEF EndLoop, link
<1>2. task[t].next \in Kind
  BY <1>0, <1>1 DEF TaskOK, LoopOK, Looping
<1>3. /\ OthersStay(t) /\ task'[t].pc \in {"loop", "checked"}
      /\ task[t].next \in BudgetKind /\ task'[t].next = "BudgetExhausted"
      /\ pending' \in [BudgetKind -> SUBSET Event]
      /\ \A k \in BudgetKind : pending'[k] =
            IF k = task[t].next THEN Filtered(k, t) ELSE pending[k]
  BY <1>0, <1>2, EndLoopFacts
<1>4. \A u \in Task : u # t => \A k \in BudgetKind :
          OwnEvents(pending'[k], u) = OwnEvents(pending[k], u)
  BY <1>3 DEF OwnEvents, Filtered
<1>5. TaskOK(t)'
  BY <1>0, EndLoopTask
<1>6. SameMarks(Escalation(t)) => EscalationOK(t)'
  BY <1>0, <1>3, MarksKept DEF BudgetKind
<1>7. task'[t].pc \notin {"sending"} \cup HandOff
  BY <1>3 DEF HandOff
<1> QED
  BY <1>1, <1>3, <1>4, <1>5, <1>6, <1>7, QuietStep

LEMMA CompleteStep ==
    ASSUME OvInv, NEW t \in Task, Complete(t)
    PROVE  OvInv'
<1>0. OvTypes /\ TaskOK(t) /\ EscalationOK(t)
  BY DEF OvInv
<1>1. /\ UNCHANGED <<pending, session, known, used, overlapped, sinks, traced>>
      /\ task[t].pc = "checked" /\ task' = [task EXCEPT ![t].pc = "done"]
  BY DEF Complete, link
<1>2. Moved(t, "done")
  BY <1>0, <1>1, PcMoves DEF Moved
<1>3. task[t].next # "TaskEscalated"
  BY <1>0, <1>1 DEF TaskOK, LoopOK, Looping, InHand
<1>4. TaskOK(t)'
  BY <1>0, <1>1, <1>2, <1>3, MovedTask DEF Looping, InHand, HandOff
<1>5. SameMarks(Escalation(t)) => EscalationOK(t)'
  BY <1>0, <1>2, <1>3, MarksKept DEF Moved
<1>6. OthersStay(t) /\ task'[t].pc \notin {"sending"} \cup HandOff
  BY <1>2 DEF Moved, HandOff
<1>7. pending' \in [BudgetKind -> SUBSET Event]
  BY <1>0, <1>1 DEF OvTypes
<1> QED
  BY <1>1, <1>4, <1>5, <1>6, <1>7, QuietStep

LEMMA RetryStep ==
    ASSUME OvInv, NEW t \in Task, Retry(t)
    PROVE  OvInv'
<1>0. OvTypes /\ TaskOK(t) /\ EscalationOK(t)
  BY DEF OvInv
<1>1. /\ UNCHANGED <<pending, session, known, used, overlapped, sinks, traced>>
  BY DEF Retry, link
<1>2. /\ OthersStay(t) /\ task[t].pc = "checked" /\ task'[t].pc = "run"
      /\ task'[t].next = task[t].next
  BY <1>0, RetryFacts
<1>3. task[t].next # "TaskEscalated"
  BY <1>0, <1>2 DEF TaskOK, LoopOK, Looping, InHand
<1>4. TaskOK(t)'
  BY <1>0, RetryTask
<1>5. SameMarks(Escalation(t)) => EscalationOK(t)'
  BY <1>0, <1>2, <1>3, MarksKept
<1>6. task'[t].pc \notin {"sending"} \cup HandOff
  BY <1>2 DEF HandOff
<1>7. pending' \in [BudgetKind -> SUBSET Event]
  BY <1>0, <1>1 DEF OvTypes
<1> QED
  BY <1>1, <1>2, <1>4, <1>5, <1>6, <1>7, QuietStep

LEMMA EscalateStep ==
    ASSUME OvInv, NEW t \in Task, Escalate(t)
    PROVE  OvInv'
<1>0. OvTypes /\ TaskOK(t) /\ EscalationOK(t)
  BY DEF OvInv
<1>1. /\ UNCHANGED <<pending, session, known, used, overlapped, sinks, traced>>
  BY DEF Escalate, link
<1>2. /\ OthersStay(t) /\ task[t].pc = "checked" /\ task'[t].pc = "loop"
      /\ task'[t].todo # {}
  BY <1>0, EscalateFacts
<1>3. task[t].next # "TaskEscalated"
  BY <1>0, <1>2 DEF TaskOK, LoopOK, Looping, InHand
<1>4. TaskOK(t)'
  BY <1>0, EscalateTask
<1>5. SameMarks(Escalation(t)) => EscalationOK(t)'
  BY <1>0, <1>2, <1>3, MarksKept
<1>6. task'[t].pc \notin {"sending"} \cup HandOff
  BY <1>2 DEF HandOff
<1>7. pending' \in [BudgetKind -> SUBSET Event]
  BY <1>0, <1>1 DEF OvTypes
<1> QED
  BY <1>1, <1>2, <1>4, <1>5, <1>6, <1>7, QuietStep

LEMMA EscalatedStep ==
    ASSUME OvInv, NEW t \in Task, Escalated(t)
    PROVE  OvInv'
<1>0. OvTypes /\ TaskOK(t) /\ EscalationOK(t)
  BY DEF OvInv
<1>1. /\ UNCHANGED <<pending, session, known, used, overlapped, sinks, traced>>
      /\ task[t].pc = "loop" /\ task[t].todo = {} /\ task[t].next = "TaskEscalated"
      /\ task' = [task EXCEPT ![t].pc = "done"]
  BY DEF Escalated, link
<1>2. Moved(t, "done")
  BY <1>0, <1>1, PcMoves DEF Moved
<1>4. TaskOK(t)'
  BY <1>0, <1>1, <1>2, MovedTask DEF Looping, InHand, HandOff, BudgetKind
<1>5. SameMarks(Escalation(t)) => EscalationOK(t)'
  BY <1>0, <1>1, <1>2, MarksKept DEF Moved
<1>6. OthersStay(t) /\ task'[t].pc \notin {"sending"} \cup HandOff
  BY <1>2 DEF Moved, HandOff
<1>7. pending' \in [BudgetKind -> SUBSET Event]
  BY <1>0, <1>1 DEF OvTypes
<1> QED
  BY <1>1, <1>4, <1>5, <1>6, <1>7, QuietStep

LEMMA SendRaisesStep ==
    ASSUME OvInv, NEW t \in Task, SendRaises(t)
    PROVE  OvInv'
<1>0. OvTypes /\ TaskOK(t) /\ EscalationOK(t)
  BY DEF OvInv
<1>1. /\ UNCHANGED <<pending, session, known, used, overlapped, sinks, traced>>
      /\ task[t].pc = "sending" /\ task' = [task EXCEPT ![t].pc = "raised"]
  BY DEF SendRaises, link
<1>2. Moved(t, "raised")
  BY <1>0, <1>1, PcMoves DEF Moved
<1>4. TaskOK(t)'
  BY <1>0, <1>1, <1>2, MovedTask DEF Looping, InHand, HandOff
<1>5. SameMarks(Escalation(t)) => EscalationOK(t)'
  BY <1>0, <1>1, <1>2, MarksKept DEF Moved, InHand
<1>6. OthersStay(t) /\ task'[t].pc \notin {"sending"} \cup HandOff
  BY <1>2 DEF Moved, HandOff
<1>7. pending' \in [BudgetKind -> SUBSET Event]
  BY <1>0, <1>1 DEF OvTypes
<1> QED
  BY <1>1, <1>4, <1>5, <1>6, <1>7, QuietStep

LEMMA NoSessionLeftStep ==
    ASSUME OvInv, NEW t \in Task, NoSessionLeft(t)
    PROVE  OvInv'
<1>0. OvTypes /\ TaskOK(t) /\ EscalationOK(t)
  BY DEF OvInv
<1>1. /\ UNCHANGED <<pending, session, known, used, overlapped, sinks, traced>>
      /\ task[t].pc = "summarise" /\ task' = Done(t)
  BY DEF NoSessionLeft, link
<1>2. OthersStay(t) /\ task'[t].pc = "loop" /\ task'[t].next = task[t].next
  BY <1>0, <1>1, DoneFacts
<1>3. TaskOK(t)'
  BY <1>0, <1>1, DoneTask DEF InHand
<1>4. task'[t].todo = {}
  BY <1>0, <1>1, DoneFacts, CurrentIs DEF TaskOK, LoopOK, InHand, Looping
<1>5. SameMarks(Escalation(t)) => EscalationOK(t)'
  BY <1>0, <1>1, <1>2, <1>4, MarksKept DEF InHand
<1>6. task'[t].pc \notin {"sending"} \cup HandOff
  BY <1>2 DEF HandOff
<1>7. pending' \in [BudgetKind -> SUBSET Event]
  BY <1>0, <1>1 DEF OvTypes
<1> QED
  BY <1>1, <1>2, <1>3, <1>5, <1>6, <1>7, QuietStep

LEMMA SubstituteStep ==
    ASSUME OvInv, NEW t \in Task, Substitute(t)
    PROVE  OvInv'
<1> DEFINE e == Current(t)
<1>0. OvTypes /\ TaskOK(t) /\ EscalationOK(t) /\ LoopOK(t)
  BY DEF OvInv, TaskOK
<1>1. /\ task[t].pc = "loop" /\ task[t].todo # {}
      /\ UNCHANGED <<pending, session, known, used, overlapped>>
      /\ traced' = IF e.kind = "TaskEscalated" THEN traced \cup {e} ELSE traced
      /\ \/ /\ Moved(t, "raised") /\ UNCHANGED sinks
            /\ e.kind = "TaskEscalated"
         \/ /\ OthersStay(t) /\ task'[t].pc = "loop"
            /\ task'[t].attempt = task[t].attempt
            /\ task'[t].spent = task[t].spent
            /\ task'[t].todo = {} /\ task'[t].next = task[t].next
            /\ task'[t].issued = task[t].issued
            /\ sinks' = [sinks EXCEPT ![e] = @ + 1]
  BY <1>0, SubstituteFacts
<1>2. /\ e = Mine(t, task[t].next) /\ e \in Event /\ e.task = t
      /\ e.kind = task[t].next
  BY <1>0, <1>1, CurrentIs DEF Looping
<1>3. OthersStay(t) /\ task'[t].pc \in {"raised", "loop"} /\ task'[t].next = task[t].next
      /\ (task'[t].pc = "loop" => task'[t].todo = {})
  BY <1>1 DEF Moved
<1>4. TaskOK(t)'
  <2>1. CASE Moved(t, "raised") /\ UNCHANGED sinks
    BY <1>0, <1>1, <2>1, MovedTask DEF Looping, InHand, HandOff
  <2>2. CASE ~(Moved(t, "raised") /\ UNCHANGED sinks)
    BY <1>0, <1>1, <2>2, SentTask
  <2> QED
    BY <2>1, <2>2
<1> HIDE DEF e
<1>5. traced' \in SUBSET Event /\ sinks' \in [Event -> Nat]
      /\ \A f \in Event : f.task # t => sinks'[f] = sinks[f]
  BY <1>0, <1>1, <1>2 DEF OvTypes
<1>6. \A u \in Task : u # t => SameMarks(Escalation(u))
  BY <1>1, <1>2, EscalationIs DEF SameMarks, Told
<1>7. EscalationOK(t)'
  <2>1. CASE task[t].next # "TaskEscalated"
    <3>1. SameMarks(Escalation(t))
      BY <1>1, <1>2, <2>1 DEF SameMarks, Told
    <3> QED
      BY <1>0, <1>3, <2>1, <3>1, MarksKept
  <2>2. CASE task[t].next = "TaskEscalated"
    <3>1. e = Escalation(t)
      BY <1>0, <1>2, <2>2 DEF LoopOK, Mine, Escalation
    <3>2. Escalation(t) \in traced' /\ ~Told(Escalation(t))
      BY <1>0, <1>1, <1>2, <2>2, <3>1 DEF EscalationOK
    <3>3. ~Told(Escalation(t))'
      BY <1>1, <3>2 DEF Told, Escalation
    <3> QED
      BY <1>3, <2>2, <3>2, <3>3 DEF EscalationOK, InHand
  <2> QED
    BY <2>1, <2>2
<1>8. UnusedOK' /\ MemoryOK'
  <2>1. UnusedOK'
    BY <1>1 DEF OvInv, UnusedOK
  <2>2. MemoryOK'
    BY <1>1, <1>3, MemoryKept DEF OvInv, HandOff
  <2> QED
    BY <2>1, <2>2
<1>9. /\ pending' \in [BudgetKind -> SUBSET Event] /\ session' \in Session
      /\ known' \in [Session -> SUBSET Event] /\ used' \in [Session -> Nat]
  BY <1>0, <1>1 DEF OvTypes
<1> QED
  BY <1>1, <1>3, <1>4, <1>5, <1>6, <1>7, <1>8, <1>9, StepKeeps

LEMMA UsedIs ==
    ASSUME NEW n \in Nat
    PROVE  Used(n) \in Nat /\ Used(n) # 0
  BY OverseerLinkAssumption DEF Used

LEMMA SendStep ==
    ASSUME OvInv, NEW t \in Task, Send(t)
    PROVE  OvInv'
<1> DEFINE e == Current(t)
<1>0. OvTypes /\ TaskOK(t) /\ EscalationOK(t) /\ LoopOK(t)
  BY DEF OvInv, TaskOK
<1>1. /\ task[t].pc = "loop" /\ task[t].todo # {}
      /\ Moved(t, "sending")
      /\ UNCHANGED <<pending, session, sinks, traced>>
      /\ known' = [known EXCEPT ![session] = @ \cup {e}]
      /\ used' = [used EXCEPT ![session] = Used(@)]
      /\ overlapped' = (overlapped \/ HandingOff)
  BY <1>0, SendFacts
<1>2. /\ e = Mine(t, task[t].next) /\ e \in Event /\ e.task = t
      /\ e.kind = task[t].next
  BY <1>0, <1>1, CurrentIs DEF Looping
<1>3. OthersStay(t) /\ task'[t].pc = "sending" /\ task'[t].next = task[t].next
  BY <1>1 DEF Moved
<1>4. TaskOK(t)'
  BY <1>0, <1>1, MovedTask DEF Looping, InHand, HandOff
<1> HIDE DEF e
<1>5. /\ known' \in [Session -> SUBSET Event] /\ used' \in [Session -> Nat]
      /\ session \in Session /\ known \in [Session -> SUBSET Event]
      /\ \A s \in Session : used'[s] = 0 => s # session /\ used[s] = 0
  BY <1>0, <1>1, <1>2, UsedIs DEF OvTypes
<1>6. \A f : Told(f)' <=> Told(f) \/ f = e
  BY <1>1, <1>5 DEF Told
<1>7. \A u \in Task : u # t => SameMarks(Escalation(u))
  BY <1>1, <1>2, <1>6, EscalationIs DEF SameMarks
<1>8. EscalationOK(t)'
  <2>1. CASE task[t].next # "TaskEscalated"
    <3>1. SameMarks(Escalation(t))
      BY <1>1, <1>2, <1>6, <2>1, EscalationIs DEF SameMarks
    <3> QED
      BY <1>0, <1>3, <2>1, <3>1, MarksKept
  <2>2. CASE task[t].next = "TaskEscalated"
    <3>1. e = Escalation(t)
      BY <1>0, <1>2, <2>2 DEF LoopOK, Mine, Escalation
    <3>2. Escalation(t) \notin traced'
      BY <1>0, <1>1, <2>2 DEF EscalationOK
    <3>3. Told(Escalation(t))'
      BY <1>6, <3>1
    <3> QED
      BY <1>3, <2>2, <3>2, <3>3 DEF EscalationOK, InHand
  <2> QED
    BY <2>1, <2>2
<1>9. UnusedOK'
  BY <1>0, <1>1, <1>5 DEF OvInv, UnusedOK
<1>10. MemoryOK'
  <2> SUFFICES ASSUME ~overlapped'
               PROVE  /\ \A s \in Session : known'[s] \subseteq known'[session]
                      /\ \A u \in Task : task'[u].pc \notin HandOff
    BY <1>1 DEF MemoryOK, HandOff
  <2>1. ~overlapped /\ \A u \in Task : task[u].pc \notin HandOff
    BY <1>1 DEF HandingOff, HandOff
  <2>2. \A s \in Session : known[s] \subseteq known[session]
    BY <2>1 DEF OvInv, MemoryOK
  <2>3. \A s \in Session : known'[s] \subseteq known'[session]
    BY <1>1, <1>5, <2>2
  <2> QED
    BY <1>3, <2>1, <2>3 DEF OthersStay, HandOff
<1>11. /\ pending' \in [BudgetKind -> SUBSET Event] /\ session' \in Session
       /\ sinks' \in [Event -> Nat] /\ traced' \in SUBSET Event
  BY <1>0, <1>1 DEF OvTypes
<1> QED
  BY <1>1, <1>3, <1>4, <1>5, <1>7, <1>8, <1>9, <1>10, <1>11, StepKeeps

LEMMA AnswerStep ==
    ASSUME OvInv, NEW t \in Task, NEW answer \in Answers, Answer(t, answer)
    PROVE  OvInv'
<1> DEFINE e == Current(t)
<1>0. OvTypes /\ TaskOK(t) /\ EscalationOK(t) /\ LoopOK(t)
  BY DEF OvInv, TaskOK
<1>1. /\ task[t].pc = "sending"
      /\ UNCHANGED <<pending, session, known, traced, overlapped>>
      /\ used' = used \/ used' = [used EXCEPT ![session] = Used(@)]
      /\ \/ Moved(t, "sending") /\ UNCHANGED sinks
         \/ Moved(t, "handoff") /\ sinks' = [sinks EXCEPT ![e] = @ + 1]
  BY <1>0, AnswerFacts
<1>2. task[t].todo # {} /\ e \in Event /\ e.task = t
  BY <1>0, <1>1, CurrentIs DEF LoopOK, Looping, InHand
<1>3. OthersStay(t) /\ task'[t].pc \in {"sending", "handoff"} /\ task'[t].next = task[t].next
  BY <1>1 DEF Moved
<1>4. TaskOK(t)'
  <2>1. CASE Moved(t, "sending") /\ UNCHANGED sinks
    BY <1>0, <1>1, <1>2, <2>1, MovedTask DEF Looping, InHand, HandOff
  <2>2. CASE Moved(t, "handoff") /\ sinks' = [sinks EXCEPT ![e] = @ + 1]
    BY <1>0, <1>1, <1>2, <2>2, SentTask DEF Moved
  <2> QED
    BY <1>1, <2>1, <2>2
<1> HIDE DEF e
<1>5. /\ used' \in [Session -> Nat] /\ \A s \in Session : used'[s] = 0 => used[s] = 0
      /\ sinks' \in [Event -> Nat] /\ \A f \in Event : f.task # t => sinks'[f] = sinks[f]
  BY <1>0, <1>1, <1>2, UsedIs DEF OvTypes
<1>6. \A u \in Task : SameMarks(Escalation(u))
  BY <1>1 DEF SameMarks, Told
<1>7. EscalationOK(t)'
  BY <1>0, <1>1, <1>3, <1>6, MarksKept DEF InHand
<1>8. UnusedOK'
  BY <1>1, <1>5 DEF OvInv, UnusedOK
<1>9. MemoryOK'
  BY <1>1, <1>3, MemoryKept DEF OvInv, HandOff
<1>10. /\ pending' \in [BudgetKind -> SUBSET Event] /\ session' \in Session
       /\ known' \in [Session -> SUBSET Event] /\ traced' \in SUBSET Event
  BY <1>0, <1>1 DEF OvTypes
<1> QED
  BY <1>1, <1>3, <1>4, <1>5, <1>6, <1>7, <1>8, <1>9, <1>10, StepKeeps

LEMMA CheckHandoffStep ==
    ASSUME OvInv, NEW t \in Task, CheckHandoff(t)
    PROVE  OvInv'
<1>0. OvTypes /\ TaskOK(t) /\ EscalationOK(t) /\ LoopOK(t)
  BY DEF OvInv, TaskOK
<1>1. /\ UNCHANGED <<pending, session, known, used, sinks, traced>>
      /\ task[t].pc = "handoff"
      /\ overlapped => overlapped'
  BY DEF CheckHandoff
<1>2. /\ pending' \in [BudgetKind -> SUBSET Event] /\ session' \in Session
      /\ known' \in [Session -> SUBSET Event] /\ traced' \in SUBSET Event
      /\ sinks' \in [Event -> Nat] /\ used' \in [Session -> Nat]
      /\ session \in Session
  BY <1>0, <1>1 DEF OvTypes
<1>3. \A u \in Task : SameMarks(Escalation(u))
  BY <1>1 DEF SameMarks, Told
<1>4. UnusedOK'
  BY <1>1 DEF OvInv, UnusedOK
<1>5. OthersStay(t) /\ TaskOK(t)' /\ EscalationOK(t)' /\ MemoryOK'
  <2>1. CASE task' = Done(t)
    <3>1. OthersStay(t) /\ task'[t].pc = "loop" /\ task'[t].next = task[t].next
      BY <1>0, <2>1, DoneFacts
    <3>2. task'[t].todo = {}
      BY <1>0, <1>1, <2>1, DoneFacts, CurrentIs DEF LoopOK, InHand, Looping
    <3>3. TaskOK(t)'
      BY <1>0, <1>1, <2>1, DoneTask DEF InHand
    <3>4. EscalationOK(t)'
      BY <1>0, <1>1, <1>3, <3>1, <3>2, MarksKept DEF InHand
    <3>5. MemoryOK'
      BY <1>1, <3>1, MemoryKept DEF OvInv, HandOff
    <3> QED
      BY <3>1, <3>3, <3>4, <3>5
  <2>2. CASE /\ task' = [task EXCEPT ![t].pc = "summarise", ![t].session = session]
             /\ ~overlapped' => \A u \in Task : task[u].pc \notin {"sending"} \cup HandOff
    <3>1. Moved(t, "summarise") /\ task'[t].session = session
      BY <1>0, <1>2, <2>2, SessionMoves DEF Looping, InHand
    <3>2. OthersStay(t) /\ task'[t].pc = "summarise" /\ task'[t].next = task[t].next
      BY <3>1 DEF Moved
    <3>3. task[t].todo # {}
      BY <1>0, <1>1 DEF LoopOK, InHand
    <3>4. TaskOK(t)'
      BY <1>0, <1>1, <1>2, <3>1, <3>3, MovedTask DEF Looping, InHand, HandOff
    <3>5. EscalationOK(t)'
      BY <1>0, <1>1, <1>3, <3>2, MarksKept DEF InHand
    <3>6. MemoryOK'
      <4> SUFFICES ASSUME ~overlapped'
                   PROVE  /\ \A s \in Session : known[s] \subseteq known[session]
                          /\ \A u \in Task : task'[u].pc = "summarise" =>
                                task'[u].session = session
                          /\ \A u \in Task : task'[u].pc = "brief" =>
                                known[task'[u].session] = known[session]
                          /\ \A u, v \in Task : u # v /\ task'[u].pc \in HandOff =>
                                task'[v].pc \notin {"sending"} \cup HandOff
        BY <1>1 DEF MemoryOK
      <4>1. \A s \in Session : known[s] \subseteq known[session]
        BY <1>1 DEF OvInv, MemoryOK
      <4>2. \A u \in Task : u # t => task'[u].pc \notin {"sending"} \cup HandOff
        BY <2>2, <3>2 DEF OthersStay
      <4> QED
        BY <3>1, <3>2, <4>1, <4>2 DEF HandOff
    <3> QED
      BY <3>2, <3>4, <3>5, <3>6
  <2>3. \/ task' = Done(t)
        \/ /\ task' = [task EXCEPT ![t].pc = "summarise", ![t].session = session]
           /\ ~overlapped' => \A u \in Task : task[u].pc \notin {"sending"} \cup HandOff
    BY DEF CheckHandoff, HandingOff, HandOff
  <2> QED
    BY <2>1, <2>2, <2>3
<1> QED
  BY <1>1, <1>2, <1>3, <1>4, <1>5, StepKeeps

LEMMA SummariseStep ==
    ASSUME OvInv, NEW t \in Task, Summarise(t)
    PROVE  OvInv'
<1> DEFINE old == task[t].session
<1>0. OvTypes /\ TaskOK(t) /\ EscalationOK(t) /\ LoopOK(t)
  BY DEF OvInv, TaskOK
<1>1. /\ UNCHANGED <<pending, session, sinks, traced, overlapped>>
      /\ task[t].pc = "summarise"
  BY DEF Summarise
<1>2. old \in Session /\ task[t].todo # {}
  BY <1>0, <1>1 DEF LoopOK, InHand, HandOff
<1>3. PICK new \in Session :
          /\ used[new] = 0
          /\ known' = [known EXCEPT ![new] = known[old]]
          /\ used' = [used EXCEPT ![old] = Used(@), ![new] = 1]
          /\ task' = [task EXCEPT ![t].pc = "brief", ![t].session = new]
  BY DEF Summarise, Summary
<1>4. known[new] = {}
  BY <1>3 DEF OvInv, UnusedOK
<1>5. Moved(t, "brief") /\ task'[t].session = new
  BY <1>0, <1>3, SessionMoves DEF Looping, InHand
<1>6. OthersStay(t) /\ task'[t].pc = "brief" /\ task'[t].next = task[t].next
  BY <1>5 DEF Moved
<1>7. TaskOK(t)'
  BY <1>0, <1>1, <1>2, <1>5, MovedTask DEF Looping, InHand, HandOff
<1> HIDE DEF old
<1>8. /\ pending' \in [BudgetKind -> SUBSET Event] /\ session' \in Session
      /\ traced' \in SUBSET Event /\ sinks' \in [Event -> Nat]
      /\ known \in [Session -> SUBSET Event] /\ known' \in [Session -> SUBSET Event]
  BY <1>0, <1>1, <1>2, <1>3 DEF OvTypes
<1>9. used' \in [Session -> Nat] /\ \A s \in Session : used'[s] = 0 => s # new /\ used[s] = 0
  BY <1>0, <1>2, <1>3, UsedIs DEF OvTypes
<1>10. \A f : Told(f)' <=> Told(f)
  BY <1>2, <1>3, <1>4, <1>8 DEF Told
<1>11. \A u \in Task : SameMarks(Escalation(u))
  BY <1>1, <1>10 DEF SameMarks
<1>12. EscalationOK(t)'
  BY <1>0, <1>1, <1>6, <1>11, MarksKept DEF InHand
<1>13. UnusedOK'
  BY <1>3, <1>8, <1>9 DEF OvInv, UnusedOK
<1>14. MemoryOK'
  <2> SUFFICES ASSUME ~overlapped
               PROVE  /\ \A s \in Session : known'[s] \subseteq known'[session]
                      /\ \A u \in Task : task'[u].pc = "summarise" =>
                            task'[u].session = session
                      /\ \A u \in Task : task'[u].pc = "brief" =>
                            known'[task'[u].session] = known'[session]
                      /\ \A u, v \in Task : u # v /\ task'[u].pc \in HandOff =>
                            task'[v].pc \notin {"sending"} \cup HandOff
    BY <1>1 DEF MemoryOK
  <2>1. old = session /\ \A s \in Session : known[s] \subseteq known[session]
    BY <1>1 DEF OvInv, MemoryOK, old
  <2>2. \A u \in Task : u # t => task'[u].pc \notin {"sending"} \cup HandOff
    BY <1>1, <1>6 DEF OvInv, MemoryOK, OthersStay, HandOff
  <2>3. /\ known'[new] = known[session] /\ known'[session] = known[session]
        /\ \A s \in Session : known'[s] \subseteq known'[session]
    BY <1>2, <1>3, <1>4, <1>8, <2>1
  <2> QED
    BY <1>5, <1>6, <2>2, <2>3 DEF HandOff
<1> QED
  BY <1>1, <1>6, <1>7, <1>8, <1>9, <1>11, <1>12, <1>13, <1>14, StepKeeps

LEMMA InstallStep ==
    ASSUME OvInv, NEW t \in Task, Install(t)
    PROVE  OvInv'
<1>0. OvTypes /\ TaskOK(t) /\ EscalationOK(t) /\ LoopOK(t)
  BY DEF OvInv, TaskOK
<1>1. /\ UNCHANGED <<pending, known, used, overlapped, sinks, traced>>
      /\ task[t].pc = "brief" /\ task' = Done(t) /\ session' = task[t].session
  BY DEF Install
<1>2. OthersStay(t) /\ task'[t].pc = "loop" /\ task'[t].next = task[t].next
  BY <1>0, <1>1, DoneFacts
<1>3. task'[t].todo = {} /\ task[t].session \in Session
  BY <1>0, <1>1, DoneFacts, CurrentIs DEF LoopOK, InHand, Looping, HandOff
<1>4. TaskOK(t)'
  BY <1>0, <1>1, DoneTask DEF InHand
<1>5. \A u \in Task : SameMarks(Escalation(u))
  BY <1>1 DEF SameMarks, Told
<1>6. EscalationOK(t)'
  BY <1>0, <1>1, <1>2, <1>3, <1>5, MarksKept DEF InHand
<1>7. UnusedOK'
  BY <1>1 DEF OvInv, UnusedOK
<1>8. MemoryOK'
  <2> SUFFICES ASSUME ~overlapped
               PROVE  /\ \A s \in Session : known[s] \subseteq known[session']
                      /\ \A u \in Task : task'[u].pc \notin HandOff
    BY <1>1 DEF MemoryOK, HandOff
  <2>1. known[session'] = known[session] /\ \A s \in Session : known[s] \subseteq known[session]
    BY <1>1 DEF OvInv, MemoryOK
  <2>2. \A u \in Task : u # t => task[u].pc \notin HandOff
    BY <1>1 DEF OvInv, MemoryOK, HandOff
  <2> QED
    BY <1>2, <2>1, <2>2 DEF OthersStay, HandOff
<1>9. /\ pending' \in [BudgetKind -> SUBSET Event] /\ session' \in Session
      /\ known' \in [Session -> SUBSET Event] /\ traced' \in SUBSET Event
      /\ sinks' \in [Event -> Nat] /\ used' \in [Session -> Nat]
  BY <1>0, <1>1, <1>3 DEF OvTypes
<1> QED
  BY <1>1, <1>2, <1>4, <1>5, <1>6, <1>7, <1>8, <1>9, StepKeeps

LEMMA OvInvInit == OvInit => OvInv
<1> SUFFICES ASSUME OvInit PROVE OvInv
  OBVIOUS
<1>0. /\ MaxSessions \in Nat \ {0} /\ MaxAttempts \in Nat \ {0} /\ Budget \in Nat
  BY OverseerLinkAssumption
<1>1. NewTask \in TaskRow
  BY <1>0 DEF NewTask, TaskRow
<1>2. OvTypes
  BY <1>0, <1>1 DEF OvInit, OvTypes, BudgetKind, Session
<1>3. UnusedOK
  BY DEF OvInit, UnusedOK
<1>4. ASSUME NEW t \in Task
      PROVE  TaskOK(t) /\ EscalationOK(t)
  <2>1. /\ task[t].pc = "run" /\ task[t].attempt = 1 /\ task[t].spent = 0
        /\ task[t].todo = {} /\ task[t].next = "run" /\ task[t].issued = {}
    BY DEF OvInit, NewTask
  <2>2. /\ OwnEvents(pending["BudgetThresholdCrossed"], t) = {}
        /\ OwnEvents(pending["BudgetExhausted"], t) = {}
    BY DEF OvInit, OwnEvents, BudgetKind
  <2>3. Left(t) = {} /\ Thresholds(t) = {}
    BY <2>1 DEF Left, Waiting, Looping, InHand, Thresholds
  <2>4. LoopOK(t) /\ ListsOK(t) /\ IssuedOK(t)
    BY <2>1, <2>2, <2>3 DEF LoopOK, ListsOK, IssuedOK, Looping, InHand, HandOff
  <2>5. SinksOK(t)
    BY <2>1 DEF SinksOK, OvInit
  <2>6. ThresholdOK(t)
    BY <1>0, <2>1, <2>3 DEF ThresholdOK
  <2>7. EscalationOK(t)
    BY <2>1 DEF EscalationOK, Told, OvInit
  <2> QED
    BY <2>4, <2>5, <2>6, <2>7 DEF TaskOK
<1>5. MemoryOK
  BY <1>2 DEF MemoryOK, OvInit, NewTask, HandOff
<1> QED
  BY <1>2, <1>3, <1>4, <1>5 DEF OvInv

LEMMA OvInvNext == OvInv /\ [OvNext]_ovVars => OvInv'
<1> SUFFICES ASSUME OvInv, [OvNext]_ovVars PROVE OvInv'
  OBVIOUS
<1>1. CASE UNCHANGED ovVars
  <2>1. /\ task' = task /\ pending' = pending /\ session' = session /\ known' = known
        /\ used' = used /\ sinks' = sinks /\ traced' = traced /\ overlapped' = overlapped
    BY <1>1 DEF ovVars
  <2>2. OvTypes' /\ UnusedOK' /\ MemoryOK'
    BY <2>1 DEF OvInv, OvTypes, UnusedOK, MemoryOK
  <2>3. ASSUME NEW u \in Task PROVE TaskOK(u)' /\ EscalationOK(u)'
    <3>1. TaskOK(u) /\ EscalationOK(u)
      BY DEF OvInv
    <3>2. TaskOK(u)'
      BY <2>1, <3>1, OtherTask
    <3>3. EscalationOK(u)'
      BY <2>1, <3>1 DEF EscalationOK, Told, Escalation
    <3> QED
      BY <3>2, <3>3
  <2> QED
    BY <2>2, <2>3 DEF OvInv
<1>2. ASSUME NEW t \in Task, OvStep(t) PROVE OvInv'
  BY <1>2, AccumulateStep, EndLoopStep, CompleteStep, RetryStep, EscalateStep,
     EscalatedStep, SubstituteStep, SendStep, AnswerStep, SendRaisesStep,
     CheckHandoffStep, SummariseStep, NoSessionLeftStep, InstallStep DEF OvStep
<1> QED
  BY <1>1, <1>2 DEF OvNext

LEMMA OvInvMeans == OvInv => EventsAccounted
<1> SUFFICES ASSUME OvInv PROVE EventsAccounted
  OBVIOUS
<1>0. OvTypes
  BY DEF OvInv
<1>1. EventsReachSinks
  <2>1. ASSUME NEW t \in Task, task[t].pc = "done", NEW e \in task[t].issued
        PROVE  sinks[e] = 1
    <3>1. e \in Event /\ e.task = t /\ SinksOK(t)
      BY <1>0 DEF OvInv, OvTypes, TaskRow, TaskOK, IssuedOK
    <3>2. Left(t) = {}
      BY <2>1 DEF Left, Waiting, Looping, InHand
    <3> QED
      BY <2>1, <3>1, <3>2 DEF SinksOK
  <2>2. ASSUME NEW e \in Event PROVE sinks[e] <= 1
    <3>1. e.task \in Task
      BY DEF Event
    <3> QED
      BY <3>1 DEF OvInv, TaskOK, SinksOK
  <2> QED
    BY <2>1, <2>2 DEF EventsReachSinks
<1>2. ThresholdOnce
  <2>1. ASSUME NEW t \in Task
        PROVE  Cardinality(Thresholds(t)) =
                  IF 10 * task[t].spent >= 8 * Budget /\ Budget > 0 THEN 1 ELSE 0
    <3>1. ThresholdOK(t)
      BY DEF OvInv, TaskOK
    <3>2. CASE 10 * task[t].spent >= 8 * Budget /\ Budget > 0
      BY <3>1, <3>2, FS_Singleton DEF ThresholdOK
    <3>3. CASE ~(10 * task[t].spent >= 8 * Budget /\ Budget > 0)
      BY <3>1, <3>3, FS_EmptySet DEF ThresholdOK
    <3> QED
      BY <3>2, <3>3
  <2> QED
    BY <2>1 DEF ThresholdOnce, Thresholds
<1>3. EscalationRecorded
  <2> SUFFICES ASSUME NEW t \in Task, NEW e \in task[t].issued,
                      e.kind = "TaskEscalated", task[t].pc \in {"done", "raised"}
               PROVE  e \in traced <=> ~Told(e)
    BY DEF EscalationRecorded, Told
  <2>1. IssuedOK(t) /\ EscalationOK(t)
    BY DEF OvInv, TaskOK
  <2>2. e \in Event /\ e.task = t /\ e.attempt = MaxAttempts
        /\ task[t].next = "TaskEscalated"
    BY <1>0, <2>1 DEF OvTypes, TaskRow, IssuedOK
  <2>3. e = Escalation(t)
    BY <2>2 DEF Event, Escalation
  <2> QED
    BY <2>1, <2>2, <2>3 DEF EscalationOK, InHand
<1>4. Remembered
  BY DEF OvInv, MemoryOK, Remembered
<1> QED
  BY <1>1, <1>2, <1>3, <1>4 DEF EventsAccounted

\* What becomes of the events tasks issue is accounted for, with any number of tasks,
\* attempts and sessions: they reach the sinks once, the threshold is reported
\* once, an escalation leaves one mark, and a handoff forgets nothing
\* (_send_budget_events, _send_overseer_event, _check_session_handoff).
THEOREM EventsStayAccounted == OvSpec => []EventsAccounted
<1>1. OvInit => OvInv
  BY OvInvInit
<1>2. OvInv /\ [OvNext]_ovVars => OvInv'
  BY OvInvNext
<1>3. OvInv => EventsAccounted
  BY OvInvMeans
<1> QED
  BY <1>1, <1>2, <1>3, PTL DEF OvSpec
=============================================================================
