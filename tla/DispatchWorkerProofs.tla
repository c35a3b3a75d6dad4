------------------------ MODULE DispatchWorkerProofs ------------------------
(***************************************************************************)
(* Proofs about DispatchWorker, for every set of workers, subscriptions    *)
(* and actions and for every bound.                                        *)
(***************************************************************************)
EXTENDS DispatchWorker, FiniteSetTheorems, WellFoundedInduction, TLAPS

\* The labels while an event of the batch is processed, and while an action
\* is in hand.
InEvent == {"sub", "run", "count", "claim", "flush", "record"}
InAction == InEvent \ {"sub"}

\* A worker that processes an event has it in its batch.
EventInHand == \A w \in Workers : pc[w] \in InEvent => batch[w] # {}

\* A worker that processes an action knows which.
ActionInHand == \A w \in Workers : pc[w] \in InAction => cur[w] \in Actions

\* The loop awaits at most one flush of its own, and only at "flush".
OneInlineFlush ==
    \A w \in Workers : \A f \in flushes[w] :
        f.inline => /\ pc[w] = "flush"
                    /\ \A g \in flushes[w] : g.inline => g = f

TypeInv == TypeOK /\ EventInHand /\ ActionInHand /\ OneInlineFlush

-----------------------------------------------------------------------------
\* A batch that is not empty has a first event (ORDER BY id).
LEMMA FirstIsLeast ==
    ASSUME NEW E \in SUBSET EventId, E # {}
    PROVE  First(E) \in E /\ \A d \in E : First(E) <= d
<1>1. E \subseteq Nat
  BY DispatchAssumption DEF EventId
<1>2. PICK e \in E : \A d \in E : ~(<<d, e>> \in OpToRel(<, Nat))
  BY <1>1, NatLessThanWellFounded, WFMin, Zenon
<1>3. OpToRel(<, Nat) = {ss \in Nat \X Nat : ss[1] < ss[2]}
  BY Zenon DEF OpToRel
<1>4. ASSUME NEW d \in E PROVE e <= d
  <2>1. <<d, e>> \in Nat \X Nat
    BY <1>1
  <2>2. ~(d < e)
    BY <1>2, <1>3, <2>1
  <2> QED
    BY <1>1, <2>2
<1> QED
  BY <1>4 DEF First

\* The event in hand is an event of the batch.
LEMMA CurrentInBatch ==
    ASSUME TypeOK, NEW w \in Workers, batch[w] # {}
    PROVE  /\ Current(w) \in batch[w]
           /\ Current(w) \in EventId
           /\ \A d \in batch[w] : Current(w) <= d
<1>1. batch[w] \in SUBSET EventId
  BY DEF TypeOK
<1> QED
  BY <1>1, FirstIsLeast DEF Current

\* An EventAction's derived event keeps the types of the trace store.
LEMMA DeriveTypes ==
    ASSUME TypeOK, NEW a \in Actions, Derive(a)
    PROVE  /\ nextId' \in 1..(MaxEvent + 1)
           /\ open' \subseteq EventId
           /\ committed' \subseteq EventId
           /\ etype' \in [EventId -> EventTypes \cup {NoEvent}]
<1>1. CASE Fires[a] = NoEvent /\ UNCHANGED events
  BY <1>1 DEF TypeOK, events
<1>2. CASE Fires[a] # NoEvent /\ ~(Fires[a] = NoEvent /\ UNCHANGED events)
  <2>1. /\ nextId <= MaxEvent
        /\ etype' = [etype EXCEPT ![nextId] = Fires[a]]
        /\ committed' = committed \cup {nextId}
        /\ nextId' = nextId + 1
        /\ open' = open
    BY <1>2 DEF Derive
  <2>2. Fires[a] \in EventTypes
    BY <1>2, DispatchAssumption
  <2>3. nextId \in EventId /\ nextId' \in 1..(MaxEvent + 1)
    BY <2>1, DispatchAssumption DEF TypeOK, EventId
  <2> QED
    BY <2>1, <2>2, <2>3 DEF TypeOK
<1> QED
  BY <1>1, <1>2 DEF Derive

\* The end of a worker's process keeps the types.
LEMMA DieTypes ==
    ASSUME TypeInv, NEW w \in Workers, Die(w),
           UNCHANGED <<events, tables, runs, flushed, handled, late>>
    PROVE  TypeInv'
  BY DEF TypeInv, Die, LoseMemory, TypeOK, EventInHand, ActionInHand,
     OneInlineFlush, events, tables, Pc, InEvent, InAction

LEMMA TypeInvInit == Init => TypeInv
<1> SUFFICES ASSUME Init PROVE TypeInv
  OBVIOUS
<1>1. TypeOK
  BY DispatchAssumption DEF Init, TypeOK, EventId, Pc
<1>2. EventInHand /\ ActionInHand /\ OneInlineFlush
  BY DEF Init, EventInHand, ActionInHand, OneInlineFlush, InEvent, InAction
<1> QED
  BY <1>1, <1>2 DEF TypeInv

LEMMA TypeInvNext == TypeInv /\ [Next]_vars => TypeInv'
<1> SUFFICES ASSUME TypeInv, [Next]_vars PROVE TypeInv'
  OBVIOUS
<1> USE DEF TypeInv
<1>1. ASSUME NEW t \in EventTypes, DrawEventId(t) PROVE TypeInv'
  BY <1>1, DispatchAssumption DEF DrawEventId, TypeOK, EventInHand, ActionInHand,
     OneInlineFlush, tables, loop, tasks, history, EventId
<1>2. ASSUME NEW e \in EventId, CommitEvent(e) PROVE TypeInv'
  BY <1>2 DEF CommitEvent, TypeOK, EventInHand, ActionInHand,
     OneInlineFlush, tables, loop, tasks, ReadPast
<1>3. ASSUME NEW e \in EventId, RollBackEvent(e) PROVE TypeInv'
  BY <1>3 DEF RollBackEvent, TypeOK, EventInHand, ActionInHand,
     OneInlineFlush, tables, loop, tasks, history
<1>4. ASSUME NEW x \in Subs, SetEnabled(x) PROVE TypeInv'
  BY <1>4 DEF SetEnabled, TypeOK, EventInHand, ActionInHand,
     OneInlineFlush, events, loop, tasks, history
<1>5. ASSUME NEW x \in Subs, DeleteSubscription(x) PROVE TypeInv'
  BY <1>5 DEF DeleteSubscription, TypeOK, EventInHand, ActionInHand,
     OneInlineFlush, events, loop, tasks, history
<1>6. ASSUME NEW w \in Workers, StartWorker(w) PROVE TypeInv'
  BY <1>6 DEF StartWorker, TypeOK, EventInHand, ActionInHand,
     OneInlineFlush, events, tables, tasks, history, Pc, InEvent, InAction
<1>7. ASSUME NEW w \in Workers, Crash(w) PROVE TypeInv'
  BY <1>7, DieTypes DEF Crash
<1>8. ASSUME NEW w \in Workers, Stop(w) PROVE TypeInv'
  BY <1>8 DEF Stop, TypeOK, EventInHand, ActionInHand,
     OneInlineFlush, events, tables, tasks, history, Pc
<1>9. ASSUME NEW w \in Workers, NEW a \in Actions, TimerFires(w, a)
      PROVE  TypeInv'
  <2>1. Claimable(a) \subseteq buffer
    BY DEF Claimable, Pending
  <2>2. [act |-> a, entries |-> Claimable(a), inline |-> FALSE] \in Flush
    BY <2>1 DEF Flush, TypeOK
  <2>3. TypeOK'
    <3>1. timers' \in [Workers -> [Actions -> Nat]]
      BY <1>9 DEF TimerFires, TypeOK
    <3>2. flushes' \in [Workers -> SUBSET Flush] /\ buffer' \subseteq Entry
      BY <1>9, <2>2 DEF TimerFires, Claim, TypeOK
    <3> QED
      BY <1>9, <3>1, <3>2 DEF TimerFires, TypeOK, events, loop, history
  <2>4. OneInlineFlush'
    BY <1>9 DEF TimerFires, Claim, OneInlineFlush, loop, TypeOK
  <2> QED
    BY <1>9, <2>3, <2>4 DEF TimerFires, EventInHand, ActionInHand, loop
<1>10. ASSUME NEW w \in Workers, NEW f \in flushes[w], FinishFlush(w, f)
       PROVE  TypeInv'
  BY <1>10, DeriveTypes DEF FinishFlush, TypeOK, EventInHand,
     ActionInHand, OneInlineFlush, events, tables, Flush, Pc, InEvent, InAction
<1>11. ASSUME NEW w \in Workers, Exit(w) PROVE TypeInv'
  BY <1>11 DEF Exit, LoseMemory, TypeOK, EventInHand, ActionInHand,
     OneInlineFlush, events, tables, history, Pc, InEvent, InAction
<1>12. ASSUME NEW w \in Workers, PollEvents(w) PROVE TypeInv'
  BY <1>12 DEF PollEvents, EventsSince, TypeOK, EventInHand, ActionInHand,
     OneInlineFlush, events, tables, tasks, history, Pc, InEvent, InAction
<1>13. ASSUME NEW w \in Workers, Wake(w) PROVE TypeInv'
  BY <1>13 DEF Wake, TypeOK, EventInHand, ActionInHand,
     OneInlineFlush, events, tables, tasks, history, Pc, InEvent, InAction
<1>14. ASSUME NEW w \in Workers, LoadSubscriptions(w) PROVE TypeInv'
  BY <1>14 DEF LoadSubscriptions, TypeOK, EventInHand, ActionInHand,
     OneInlineFlush, events, tables, tasks, history, Pc, InEvent, InAction
<1>15. ASSUME NEW w \in Workers, TakeEvent(w) PROVE TypeInv'
  BY <1>15 DEF TakeEvent, TypeOK, EventInHand, ActionInHand,
     OneInlineFlush, events, tables, tasks, history, Pc, InEvent, InAction
<1>16. ASSUME NEW w \in Workers, LeaveBatch(w) PROVE TypeInv'
  BY <1>16 DEF LeaveBatch, TypeOK, EventInHand, ActionInHand,
     OneInlineFlush, events, tables, tasks, history, Pc, InEvent, InAction
<1>17. ASSUME NEW w \in Workers, NEW x \in Subs, ListActions(w, x)
       PROVE  TypeInv'
  BY <1>17 DEF ListActions, ActionsOf, TypeOK, EventInHand, ActionInHand,
     OneInlineFlush, events, tables, tasks, history, Pc, InEvent, InAction
<1>18. ASSUME NEW w \in Workers, NEW a \in Actions, CheckCompleted(w, a)
       PROVE  TypeInv'
  <2>1. /\ pc' = pc \/ pc' = [pc EXCEPT ![w] = "run"]
        /\ cur' = cur \/ cur' = [cur EXCEPT ![w] = a]
        /\ (pc' # pc => cur' = [cur EXCEPT ![w] = a])
        /\ pc[w] = "sub"
    BY <1>18 DEF CheckCompleted
  <2>2. TypeOK'
    <3>1. /\ pc' \in [Workers -> Pc]
          /\ cur' \in [Workers -> Actions \cup {NoAction}]
          /\ actsLeft' \in [Workers -> SUBSET Actions]
      <4>1. pc' \in [Workers -> Pc]
        BY <2>1 DEF TypeOK, Pc
      <4>2. cur' \in [Workers -> Actions \cup {NoAction}]
        BY <2>1, ZenonT(60) DEF TypeOK
      <4>3. actsLeft' \in [Workers -> SUBSET Actions]
        BY <1>18 DEF CheckCompleted, TypeOK
      <4> QED
        BY <4>1, <4>2, <4>3
    <3> QED
      BY <1>18, <3>1 DEF CheckCompleted, TypeOK, events, tables, tasks, history
  <2> QED
    BY <1>18, <2>1, <2>2, ZenonT(60) DEF CheckCompleted, TypeOK, EventInHand, ActionInHand,
       OneInlineFlush, tasks, InEvent, InAction
<1>19. ASSUME NEW w \in Workers, ExecuteImmediate(w) PROVE TypeInv'
  <2>1. /\ pc[w] = "run"
        /\ Current(w) \in EventId
        /\ cur[w] \in Actions
    BY <1>19, CurrentInBatch DEF ExecuteImmediate, EventInHand, ActionInHand,
       InEvent, InAction
  <2>2. /\ nextId' \in 1..(MaxEvent + 1)
        /\ open' \subseteq EventId
        /\ committed' \subseteq EventId
        /\ etype' \in [EventId -> EventTypes \cup {NoEvent}]
    <3>1. CASE Derive(cur[w])
      BY <2>1, <3>1, DeriveTypes
    <3>2. CASE UNCHANGED events
      BY <3>2 DEF events, TypeOK
    <3> QED
      BY <1>19, <3>1, <3>2 DEF ExecuteImmediate
  <2>3. <<Current(w), cur[w]>> \in Pair
    BY <2>1 DEF Pair
  <2>4. runs' \in [Workers -> [Pair -> Nat]]
    <3> DEFINE p == <<Current(w), cur[w]>>
    <3>1. runs' = [runs EXCEPT ![w][p] = @ + 1]
      BY <1>19 DEF ExecuteImmediate
    <3>2. p \in Pair
      BY <2>3
    <3> HIDE DEF p
    <3> QED
      BY <3>1, <3>2 DEF TypeOK
  <2>5. TypeOK'
    BY <1>19, <2>2, <2>4 DEF ExecuteImmediate, TypeOK, tables, tasks, Pc
  <2> QED
    BY <1>19, <2>1, <2>5 DEF ExecuteImmediate, TypeOK, EventInHand,
       ActionInHand, OneInlineFlush, tasks, InEvent, InAction
<1>20. ASSUME NEW w \in Workers, BufferEvent(w) PROVE TypeInv'
  <2>1. CASE cur[w] \in live
    <3>1. pc[w] = "run" /\ Current(w) \in EventId
      BY <1>20, CurrentInBatch DEF BufferEvent, EventInHand, InEvent
    <3>2. [id |-> nextEntry, act |-> cur[w], event |-> Current(w)] \in Entry
      BY <2>1, <3>1 DEF Entry, TypeOK
    <3>3. TypeOK'
      <4>1. /\ buffer' \subseteq Entry
            /\ nextEntry' \in Nat
            /\ pc' \in [Workers -> Pc]
        <5> DEFINE x == [id |-> nextEntry, act |-> cur[w], event |-> Current(w)]
        <5>1. /\ buffer' = buffer \cup {x}
              /\ nextEntry' = nextEntry + 1
              /\ pc' = [pc EXCEPT ![w] = "count"]
          BY <1>20, <2>1 DEF BufferEvent
        <5>2. x \in Entry
          BY <3>2
        <5> HIDE DEF x
        <5> QED
          BY <5>1, <5>2 DEF TypeOK, Pc
      <4>2. UNCHANGED <<batch, snapshot, subsLeft, actsLeft, cur, stopping,
                        timers, flushes, crashes>>
        BY <1>20, <2>1 DEF BufferEvent, tasks
      <4>3. UNCHANGED <<nextId, open, committed, etype, enabled, live, cursor,
                        completed, runs, flushed, handled, late>>
        BY <1>20 DEF BufferEvent, events
      <4> QED
        BY <4>1, <4>2, <4>3 DEF TypeOK
    <3> QED
      BY <1>20, <2>1, <3>1, <3>3 DEF BufferEvent, TypeOK, EventInHand,
         ActionInHand, OneInlineFlush, tasks, InEvent, InAction
  <2>2. CASE cur[w] \notin live
    <3>1. Die(w) /\ UNCHANGED <<events, tables, runs, flushed,
                                 handled, late>>
      BY <1>20, <2>2 DEF BufferEvent, tables
    <3> QED
      BY <3>1, DieTypes
  <2> QED
    BY <2>1, <2>2
<1>21. ASSUME NEW w \in Workers, CountPending(w) PROVE TypeInv'
  BY <1>21 DEF CountPending, TypeOK, EventInHand, ActionInHand,
     OneInlineFlush, events, tables, history, Pc, InEvent, InAction
<1>22. ASSUME NEW w \in Workers, ClaimInline(w) PROVE TypeInv'
  <2>1. Claimable(cur[w]) \subseteq buffer
    BY DEF Claimable, Pending
  <2>2. pc[w] = "claim" /\ cur[w] \in Actions
    BY <1>22 DEF ClaimInline, ActionInHand, InEvent, InAction
  <2>3. [act |-> cur[w], entries |-> Claimable(cur[w]), inline |-> TRUE]
           \in Flush
    BY <2>1, <2>2 DEF Flush, TypeOK
  <2>4. TypeOK'
    BY <1>22, <2>1, <2>3 DEF ClaimInline, Claim, TypeOK, events, history, Pc
  <2>5. OneInlineFlush'
    BY <1>22, <2>2 DEF ClaimInline, Claim, OneInlineFlush, TypeOK
  <2> QED
    BY <1>22, <2>2, <2>4, <2>5 DEF ClaimInline, TypeOK, EventInHand,
       ActionInHand, InEvent, InAction
<1>23. ASSUME NEW w \in Workers, RecordCompletion(w) PROVE TypeInv'
  <2>1. CASE cur[w] \in live
    <3>1. pc[w] = "record" /\ Current(w) \in EventId /\ cur[w] \in Actions
      BY <1>23, CurrentInBatch DEF RecordCompletion, EventInHand, ActionInHand,
         InEvent, InAction
    <3>2. CompletionKey(Current(w), cur[w]) \in Pair
      BY <3>1 DEF CompletionKey, Pair
    <3>3. TypeOK'
      BY <1>23, <2>1, <3>2 DEF RecordCompletion, TypeOK, events, tasks, Pc
    <3> QED
      BY <1>23, <2>1, <3>1, <3>3, ZenonT(60) DEF RecordCompletion, TypeOK, EventInHand,
         ActionInHand, OneInlineFlush, tasks, InEvent, InAction
  <2>2. CASE cur[w] \notin live
    <3>1. Die(w) /\ UNCHANGED <<events, tables, runs, flushed,
                                 handled, late>>
      BY <1>23, <2>2 DEF RecordCompletion, tables
    <3> QED
      BY <3>1, DieTypes
  <2> QED
    BY <2>1, <2>2
<1>24. ASSUME NEW w \in Workers, AdvanceCursor(w) PROVE TypeInv'
  <2>1. pc[w] = "sub" /\ Current(w) \in EventId
    BY <1>24, CurrentInBatch DEF AdvanceCursor, EventInHand, InEvent
  <2>2. Current(w) \in 0..MaxEvent
    BY <2>1, DispatchAssumption DEF EventId
  <2>3. TypeOK'
    BY <1>24, <2>1, <2>2 DEF AdvanceCursor, TypeOK, events, tasks, Pc
  <2> QED
    BY <1>24, <2>1, <2>3 DEF AdvanceCursor, TypeOK, EventInHand, ActionInHand,
       OneInlineFlush, tasks, InEvent, InAction
<1>25. CASE UNCHANGED vars
  BY <1>25 DEF vars, events, tables, loop, tasks, history, TypeOK,
     EventInHand, ActionInHand, OneInlineFlush
<1> QED
  BY <1>1, <1>2, <1>3, <1>4, <1>5, <1>6, <1>7, <1>8, <1>9, <1>10, <1>11,
     <1>12, <1>13, <1>14, <1>15, <1>16, <1>17, <1>18, <1>19, <1>20, <1>21,
     <1>22, <1>23, <1>24, <1>25 DEF Next, LoopStep

\* Whatever crashes, stops, edits and late commits do, every variable of the
\* dispatcher and of its tables keeps its type (DispatchWorker._poll_and_process).
THEOREM TypeCorrect == Spec => []TypeOK
<1>1. Init => TypeInv
  BY TypeInvInit
<1>2. TypeInv /\ [Next]_vars => TypeInv'
  BY TypeInvNext
<1>3. TypeInv => TypeOK
  BY DEF TypeInv
<1> QED
  BY <1>1, <1>2, <1>3, PTL DEF Spec

-----------------------------------------------------------------------------
(* The cursor                                                              *)

\* What worker w has polled lies ahead of its cursor.
BatchAhead == \A w \in Workers : \A e \in batch[w] : e > cursor[w]

\* The steps that touch a batch or a cursor.
LEMMA BatchSteps ==
    ASSUME Next
    PROVE  \/ UNCHANGED <<batch, cursor>>
           \/ \E w \in Workers :
                 \/ LoseMemory(w) /\ UNCHANGED cursor
                 \/ PollEvents(w)
                 \/ LeaveBatch(w)
                 \/ AdvanceCursor(w)
<1>1. CASE \/ \E t \in EventTypes : DrawEventId(t)
           \/ \E e \in EventId : CommitEvent(e) \/ RollBackEvent(e)
           \/ \E x \in Subs : SetEnabled(x) \/ DeleteSubscription(x)
  BY <1>1 DEF DrawEventId, CommitEvent, RollBackEvent, SetEnabled,
     DeleteSubscription, tables, loop
<1>2. ASSUME NEW w \in Workers,
             \/ StartWorker(w)
             \/ Stop(w)
             \/ \E a \in Actions : TimerFires(w, a)
             \/ \E f \in flushes[w] : FinishFlush(w, f)
             \/ Wake(w)
             \/ LoadSubscriptions(w)
             \/ TakeEvent(w)
             \/ \E x \in Subs : ListActions(w, x)
             \/ \E a \in Actions : CheckCompleted(w, a)
             \/ ExecuteImmediate(w)
             \/ CountPending(w)
             \/ ClaimInline(w)
      PROVE  UNCHANGED <<batch, cursor>>
  BY <1>2 DEF StartWorker, Stop, TimerFires, FinishFlush, Wake,
     LoadSubscriptions, TakeEvent, ListActions, CheckCompleted,
     ExecuteImmediate, CountPending, ClaimInline, tables, loop
<1>3. ASSUME NEW w \in Workers,
             Crash(w) \/ Exit(w) \/ BufferEvent(w) \/ RecordCompletion(w)
      PROVE  \/ UNCHANGED <<batch, cursor>>
             \/ LoseMemory(w) /\ UNCHANGED cursor
  BY <1>3 DEF Crash, Exit, BufferEvent, RecordCompletion, Die, tables
<1> QED
  BY <1>1, <1>2, <1>3 DEF Next, LoopStep

LEMMA BatchAheadNext ==
    ASSUME TypeInv, BatchAhead, Next
    PROVE  BatchAhead' /\ \A w \in Workers : cursor'[w] >= cursor[w]
<1> USE DEF TypeInv
<1>1. \A w \in Workers : cursor[w] \in Nat
  BY DispatchAssumption DEF TypeOK
<1>2. CASE UNCHANGED <<batch, cursor>>
  BY <1>1, <1>2 DEF BatchAhead
<1>3. ASSUME NEW w \in Workers, LoseMemory(w) /\ UNCHANGED cursor
      PROVE  BatchAhead' /\ \A v \in Workers : cursor'[v] >= cursor[v]
  BY <1>1, <1>3 DEF LoseMemory, BatchAhead, TypeOK
<1>4. ASSUME NEW w \in Workers, PollEvents(w)
      PROVE  BatchAhead' /\ \A v \in Workers : cursor'[v] >= cursor[v]
  BY <1>1, <1>4 DEF PollEvents, EventsSince, BatchAhead, TypeOK, tables
<1>5. ASSUME NEW w \in Workers, LeaveBatch(w)
      PROVE  BatchAhead' /\ \A v \in Workers : cursor'[v] >= cursor[v]
  BY <1>1, <1>5 DEF LeaveBatch, BatchAhead, TypeOK, tables
<1>6. ASSUME NEW w \in Workers, AdvanceCursor(w)
      PROVE  BatchAhead' /\ \A v \in Workers : cursor'[v] >= cursor[v]
  <2>1. batch[w] # {}
    BY <1>6 DEF AdvanceCursor, EventInHand, InEvent
  <2>2. /\ Current(w) \in batch[w]
        /\ \A d \in batch[w] : Current(w) <= d
        /\ batch[w] \subseteq Nat
    BY <2>1, CurrentInBatch DEF TypeOK, EventId
  <2>3. /\ cursor' = [cursor EXCEPT ![w] = Current(w)]
        /\ batch' = [batch EXCEPT ![w] = @ \ {Current(w)}]
    BY <1>6 DEF AdvanceCursor
  <2>4. /\ cursor'[w] = Current(w)
        /\ batch'[w] = batch[w] \ {Current(w)}
        /\ \A v \in Workers \ {w} :
              cursor'[v] = cursor[v] /\ batch'[v] = batch[v]
    BY <2>3 DEF TypeOK
  <2>5. \A e \in batch'[w] : e > cursor'[w]
    BY <2>2, <2>4
  <2>6. cursor'[w] >= cursor[w]
    BY <1>1, <2>2, <2>4 DEF BatchAhead
  <2> QED
    BY <1>1, <2>4, <2>5, <2>6 DEF BatchAhead
<1> QED
  BY <1>2, <1>3, <1>4, <1>5, <1>6, BatchSteps

\* A cursor never moves back, although advance_cursor overwrites it without
\* comparing (PgDispatchBackend.advance_cursor, _poll_and_process).
THEOREM CursorNeverBack == Spec => CursorMonotonic
<1>1. Init => TypeInv /\ BatchAhead
  BY TypeInvInit DEF Init, BatchAhead
<1>2. TypeInv /\ BatchAhead /\ [Next]_vars => (TypeInv /\ BatchAhead)'
  <2> SUFFICES ASSUME TypeInv, BatchAhead, [Next]_vars
               PROVE  TypeInv' /\ BatchAhead'
    OBVIOUS
  <2>1. TypeInv'
    BY TypeInvNext
  <2>2. CASE UNCHANGED vars
    BY <2>1, <2>2 DEF vars, loop, tables, BatchAhead
  <2>3. CASE Next
    BY <2>1, <2>3, BatchAheadNext
  <2> QED
    BY <2>2, <2>3
<1>3. TypeInv /\ BatchAhead /\ [Next]_vars
        => [\A w \in Workers : cursor'[w] >= cursor[w]]_vars
  BY BatchAheadNext
<1> QED
  BY <1>1, <1>2, <1>3, PTL DEF Spec, CursorMonotonic

-----------------------------------------------------------------------------
(* The accumulator                                                         *)

\* The number of the next entry is new, wherever older entries are by now.
EntriesNumbered ==
    /\ \A x \in buffer \cup flushed : x.id < nextEntry
    /\ \A w \in Workers : \A f \in flushes[w] :
          \A x \in f.entries : x.id < nextEntry

EntryInv == TypeInv /\ EntryInOnePlace /\ EntriesNumbered

\* The steps that touch an accumulator entry.
LEMMA EntrySteps ==
    ASSUME Next
    PROVE  \/ UNCHANGED <<buffer, nextEntry, flushes, flushed>>
           \/ \E x \in Subs : DeleteSubscription(x)
           \/ \E w \in Workers :
                 \/ LoseMemory(w) /\ UNCHANGED <<buffer, nextEntry, flushed>>
                 \/ BufferEvent(w)
                 \/ \E a : Claim(w, a, TRUE) /\ UNCHANGED <<nextEntry, flushed>>
                 \/ \E a : Claim(w, a, FALSE) /\ UNCHANGED <<nextEntry, flushed>>
                 \/ \E f \in flushes[w] : FinishFlush(w, f)
<1>1. CASE \/ \E t \in EventTypes : DrawEventId(t)
           \/ \E e \in EventId : CommitEvent(e) \/ RollBackEvent(e)
           \/ \E x \in Subs : SetEnabled(x)
  BY <1>1 DEF DrawEventId, CommitEvent, RollBackEvent, SetEnabled, tables,
     tasks, history
<1>2. ASSUME NEW w \in Workers,
             \/ StartWorker(w)
             \/ Stop(w)
             \/ PollEvents(w)
             \/ Wake(w)
             \/ LoadSubscriptions(w)
             \/ TakeEvent(w)
             \/ LeaveBatch(w)
             \/ \E x \in Subs : ListActions(w, x)
             \/ \E a \in Actions : CheckCompleted(w, a)
             \/ ExecuteImmediate(w)
             \/ CountPending(w)
             \/ AdvanceCursor(w)
      PROVE  UNCHANGED <<buffer, nextEntry, flushes, flushed>>
  BY <1>2 DEF StartWorker, Stop, PollEvents, Wake, LoadSubscriptions,
     TakeEvent, LeaveBatch, ListActions, CheckCompleted, ExecuteImmediate,
     CountPending, AdvanceCursor, tables, tasks, history
<1>3. ASSUME NEW w \in Workers, Crash(w) \/ Exit(w) \/ RecordCompletion(w)
      PROVE  \/ UNCHANGED <<buffer, nextEntry, flushes, flushed>>
             \/ LoseMemory(w) /\ UNCHANGED <<buffer, nextEntry, flushed>>
  BY <1>3 DEF Crash, Exit, RecordCompletion, Die, tables, tasks, history
<1>4. ASSUME NEW w \in Workers, ClaimInline(w)
      PROVE  \E a : Claim(w, a, TRUE) /\ UNCHANGED <<nextEntry, flushed>>
  BY <1>4 DEF ClaimInline, history
<1>5. ASSUME NEW w \in Workers, NEW a \in Actions, TimerFires(w, a)
      PROVE  Claim(w, a, FALSE) /\ UNCHANGED <<nextEntry, flushed>>
  BY <1>5 DEF TimerFires, history
<1> QED
  BY <1>1, <1>2, <1>3, <1>4, <1>5 DEF Next, LoopStep

\* A claim takes what it executes out of the table.
LEMMA ClaimKeepsEntries ==
    ASSUME EntryInv, NEW w \in Workers, NEW a, NEW inline, Claim(w, a, inline),
           UNCHANGED <<nextEntry, flushed>>
    PROVE  EntryInOnePlace' /\ EntriesNumbered'
<1> DEFINE C == Claimable(a)
           h == [act |-> a, entries |-> C, inline |-> inline]
<1>1. C \subseteq buffer
  BY DEF Claimable, Pending
<1>2. /\ buffer' = buffer \ C
      /\ flushes' = IF C = {} THEN flushes
                    ELSE [flushes EXCEPT ![w] = @ \cup {h}]
  BY DEF Claim
<1>3. h.entries = C
  OBVIOUS
<1> HIDE DEF C, h
<1>4. /\ \A v \in Workers \ {w} : flushes'[v] = flushes[v]
      /\ flushes'[w] \subseteq flushes[w] \cup {h}
  BY <1>2 DEF EntryInv, TypeInv, TypeOK
<1>5. EntriesNumbered'
  BY <1>1, <1>2, <1>3, <1>4 DEF EntryInv, EntriesNumbered
<1>6. EntryInOnePlace'
  BY <1>1, <1>2, <1>3, <1>4 DEF EntryInv, EntryInOnePlace
<1> QED
  BY <1>5, <1>6

LEMMA EntryInvNext == EntryInv /\ [Next]_vars => EntryInv'
<1> SUFFICES ASSUME EntryInv, [Next]_vars PROVE EntryInv'
  OBVIOUS
<1>1. TypeInv'
  BY TypeInvNext DEF EntryInv
<1>2. CASE UNCHANGED <<buffer, nextEntry, flushes, flushed>>
  BY <1>1, <1>2 DEF EntryInv, EntryInOnePlace, EntriesNumbered
<1>3. ASSUME NEW x \in Subs, DeleteSubscription(x)
      PROVE  EntryInOnePlace' /\ EntriesNumbered'
  BY <1>3 DEF DeleteSubscription, EntryInv, EntryInOnePlace, EntriesNumbered,
     tasks, history
<1>4. ASSUME NEW w \in Workers,
             LoseMemory(w) /\ UNCHANGED <<buffer, nextEntry, flushed>>
      PROVE  EntryInOnePlace' /\ EntriesNumbered'
  <2>1. \A v \in Workers : flushes'[v] \subseteq flushes[v]
    BY <1>4 DEF LoseMemory, EntryInv, TypeInv, TypeOK
  <2> QED
    BY <1>4, <2>1 DEF EntryInv, EntryInOnePlace, EntriesNumbered
<1>5. ASSUME NEW w \in Workers, BufferEvent(w)
      PROVE  EntryInOnePlace' /\ EntriesNumbered'
  <2>1. CASE cur[w] \in live
    <3> DEFINE n == [id |-> nextEntry, act |-> cur[w], event |-> Current(w)]
    <3>1. /\ buffer' = buffer \cup {n}
          /\ nextEntry' = nextEntry + 1
          /\ UNCHANGED <<flushes, flushed>>
      BY <1>5, <2>1 DEF BufferEvent, tasks
    <3>2. n.id = nextEntry
      OBVIOUS
    <3> HIDE DEF n
    <3>3. n \notin flushed /\ \A v \in Workers : \A f \in flushes[v] :
                                  n \notin f.entries
      BY <3>2 DEF EntryInv, EntriesNumbered, TypeInv, TypeOK
    <3>4. EntryInOnePlace'
      BY <3>1, <3>3 DEF EntryInv, EntryInOnePlace
    <3>5. ASSUME NEW x, x.id < nextEntry, x.id \in Nat PROVE x.id < nextEntry'
      BY <3>1, <3>5 DEF EntryInv, TypeInv, TypeOK
    <3>6. /\ \A x \in buffer \cup flushed : x.id \in Nat
          /\ \A v \in Workers : \A f \in flushes[v] :
                \A x \in f.entries : x.id \in Nat
      BY DEF EntryInv, TypeInv, TypeOK, Flush, Entry
    <3>7. EntriesNumbered'
      BY <3>1, <3>2, <3>5, <3>6 DEF EntryInv, EntriesNumbered, TypeInv, TypeOK
    <3> QED
      BY <3>4, <3>7
  <2>2. CASE cur[w] \notin live
    BY <1>4, <1>5, <2>2 DEF BufferEvent, Die
  <2> QED
    BY <2>1, <2>2
<1>6. ASSUME NEW w \in Workers, NEW f \in flushes[w], FinishFlush(w, f)
      PROVE  EntryInOnePlace' /\ EntriesNumbered'
  <2>1. /\ UNCHANGED <<buffer, nextEntry>>
        /\ flushed' \subseteq flushed \cup f.entries
        /\ flushes'[w] = flushes[w] \ {f}
        /\ \A v \in Workers \ {w} : flushes'[v] = flushes[v]
    BY <1>6 DEF FinishFlush, tables, EntryInv, TypeInv, TypeOK
  <2>2. EntryInOnePlace'
    BY <2>1 DEF EntryInv, EntryInOnePlace
  <2>3. EntriesNumbered'
    BY <2>1 DEF EntryInv, EntriesNumbered
  <2> QED
    BY <2>2, <2>3
<1>7. CASE Next
  BY <1>1, <1>2, <1>3, <1>4, <1>5, <1>6, <1>7, EntrySteps, ClaimKeepsEntries
     DEF EntryInv
<1>8. CASE UNCHANGED vars
  BY <1>2, <1>8 DEF vars, tables, tasks, history
<1> QED
  BY <1>7, <1>8

\* Inline flushes, due timers, other workers and crashes never execute an
\* accumulator's action twice for one entry: claim_batch selects and deletes
\* in one transaction (PgDispatchBackend.claim_batch, _flush_action).
THEOREM EntriesExecutedOnce == Spec => []EntryInOnePlace
<1>1. Init => EntryInv
  BY TypeInvInit DEF Init, EntryInv, EntryInOnePlace, EntriesNumbered
<1>2. EntryInv /\ [Next]_vars => EntryInv'
  BY EntryInvNext
<1>3. EntryInv => EntryInOnePlace
  BY DEF EntryInv
<1> QED
  BY <1>1, <1>2, <1>3, PTL DEF Spec

-----------------------------------------------------------------------------
(* Events behind the cursor                                                *)

\* Ids are drawn in order, an event is open or committed, and workers know
\* committed events only.
IdsDrawn ==
    /\ \A e \in open \cup committed : e < nextId
    /\ open \cap committed = {}
    /\ \A w \in Workers :
          /\ batch[w] \subseteq committed
          /\ cursor[w] = 0 \/ cursor[w] \in committed

\* A committed event behind the cursor or between two events of the batch is
\* in the batch, was processed, or came late.
BatchGapless ==
    \A w \in Workers : \A e \in committed :
        (e <= cursor[w] \/ \E d \in batch[w] : e < d)
            => e \in batch[w] \cup handled[w] \cup late[w]

SkipInv == TypeInv /\ BatchAhead /\ IdsDrawn /\ BatchGapless

\* The steps that touch the events, a batch, a cursor or the records of what
\* was processed.
LEMMA ReadingSteps ==
    ASSUME TypeInv, Next
    PROVE  \/ UNCHANGED <<nextId, open, committed, batch, cursor, handled, late>>
           \/ \E t \in EventTypes : DrawEventId(t)
           \/ \E e \in EventId : CommitEvent(e) \/ RollBackEvent(e)
           \/ \E a \in Actions :
                 Derive(a) /\ UNCHANGED <<batch, cursor, handled, late>>
           \/ \E w \in Workers :
                 \/ /\ LoseMemory(w)
                    /\ UNCHANGED <<nextId, open, committed, cursor, handled, late>>
                 \/ PollEvents(w)
                 \/ LeaveBatch(w)
                 \/ AdvanceCursor(w)
<1>1. CASE \E x \in Subs : SetEnabled(x) \/ DeleteSubscription(x)
  BY <1>1 DEF SetEnabled, DeleteSubscription, events, loop, history
<1>2. ASSUME NEW w \in Workers,
             \/ StartWorker(w)
             \/ Stop(w)
             \/ \E a \in Actions : TimerFires(w, a)
             \/ Wake(w)
             \/ LoadSubscriptions(w)
             \/ TakeEvent(w)
             \/ \E x \in Subs : ListActions(w, x)
             \/ \E a \in Actions : CheckCompleted(w, a)
             \/ CountPending(w)
             \/ ClaimInline(w)
      PROVE  UNCHANGED <<nextId, open, committed, batch, cursor, handled, late>>
  BY <1>2 DEF StartWorker, Stop, TimerFires, Wake, LoadSubscriptions,
     TakeEvent, ListActions, CheckCompleted, CountPending, ClaimInline,
     events, tables, loop, history
<1>3. ASSUME NEW w \in Workers,
             Crash(w) \/ Exit(w) \/ BufferEvent(w) \/ RecordCompletion(w)
      PROVE  \/ UNCHANGED <<nextId, open, committed, batch, cursor, handled, late>>
             \/ /\ LoseMemory(w)
                /\ UNCHANGED <<nextId, open, committed, cursor, handled, late>>
  BY <1>3 DEF Crash, Exit, BufferEvent, RecordCompletion, Die, events, tables,
     history
<1>4. ASSUME NEW w \in Workers, ExecuteImmediate(w)
      PROVE  \/ UNCHANGED <<nextId, open, committed, batch, cursor, handled, late>>
             \/ \E a \in Actions :
                   Derive(a) /\ UNCHANGED <<batch, cursor, handled, late>>
  <2>1. cur[w] \in Actions
    BY <1>4 DEF ExecuteImmediate, TypeInv, ActionInHand, InEvent, InAction
  <2> QED
    BY <1>4, <2>1 DEF ExecuteImmediate, events, tables
<1>5. ASSUME NEW w \in Workers, NEW f \in flushes[w], FinishFlush(w, f)
      PROVE  \/ UNCHANGED <<nextId, open, committed, batch, cursor, handled, late>>
             \/ \E a \in Actions :
                   Derive(a) /\ UNCHANGED <<batch, cursor, handled, late>>
  <2>1. f.act \in Actions
    BY DEF TypeInv, TypeOK, Flush
  <2> QED
    BY <1>5, <2>1 DEF FinishFlush, events, tables
<1> QED
  BY <1>1, <1>2, <1>3, <1>4, <1>5 DEF Next, LoopStep

\* poll_events_since leaves no gap before an event it returns.
LEMMA EventsSinceGapless ==
    ASSUME TypeOK, NEW w \in Workers, NEW d \in EventsSince(cursor[w]),
           NEW e \in committed, e > cursor[w], e < d
    PROVE  e \in EventsSince(cursor[w])
<1> DEFINE Before(x) == {c \in committed : c > cursor[w] /\ c < x}
<1>1. committed \subseteq Nat /\ d \in committed
  BY DEF TypeOK, EventId, EventsSince
<1>2. IsFiniteSet(committed)
  <2>1. IsFiniteSet(1..MaxEvent)
    BY FS_Interval, DispatchAssumption
  <2>2. committed \in SUBSET (1..MaxEvent)
    BY DEF TypeOK, EventId
  <2> QED
    BY <2>1, <2>2, FS_Subset
<1>3. Before(e) \in SUBSET Before(d)
  <2>1. ASSUME NEW c \in committed, c < e PROVE c < d
    BY <1>1, <2>1
  <2> QED
    BY <2>1
<1>4. IsFiniteSet(Before(d))
  BY <1>2, FS_Subset
<1>5. Cardinality(Before(e)) <= Cardinality(Before(d))
  BY <1>3, <1>4, FS_Subset
<1>6. Cardinality(Before(d)) < BatchSize
  BY DEF EventsSince
<1>7. Cardinality(Before(e)) \in Nat /\ Cardinality(Before(d)) \in Nat
  BY <1>3, <1>4, FS_Subset, FS_CardinalityType
<1>8. Cardinality(Before(e)) < BatchSize
  BY <1>5, <1>6, <1>7, DispatchAssumption
<1> QED
  BY <1>8 DEF EventsSince

LEMMA SkipInvNext == SkipInv /\ [Next]_vars => SkipInv'
<1> SUFFICES ASSUME SkipInv, [Next]_vars PROVE SkipInv'
  OBVIOUS
<1> USE DEF SkipInv, TypeInv
<1>1. TypeInv'
  BY TypeInvNext
<1>2. BatchAhead'
  <2>1. CASE UNCHANGED vars
    BY <2>1 DEF vars, tables, loop, BatchAhead
  <2> QED
    BY <2>1, BatchAheadNext
<1>3. /\ committed \subseteq Nat
      /\ open \subseteq Nat
      /\ nextId \in Nat
      /\ \A w \in Workers : cursor[w] \in Nat
      /\ 0 \notin open
      /\ 0 < nextId
  BY DispatchAssumption DEF TypeOK, EventId
<1>4. ASSUME UNCHANGED <<nextId, open, committed, batch, cursor, handled, late>>
      PROVE  IdsDrawn' /\ BatchGapless'
  BY <1>4 DEF IdsDrawn, BatchGapless
<1>5. ASSUME NEW t \in EventTypes, DrawEventId(t)
      PROVE  IdsDrawn' /\ BatchGapless'
  <2>1. /\ open' = open \cup {nextId}
        /\ nextId' = nextId + 1
        /\ UNCHANGED <<committed, batch, cursor, handled, late>>
    BY <1>5 DEF DrawEventId, tables, loop, history
  <2>2. nextId \notin committed
    BY <1>3 DEF IdsDrawn
  <2>3. IdsDrawn'
    BY <1>3, <2>1, <2>2 DEF IdsDrawn
  <2>4. BatchGapless'
    BY <2>1 DEF BatchGapless
  <2> QED
    BY <2>3, <2>4
<1>6. ASSUME NEW e \in EventId, CommitEvent(e)
      PROVE  IdsDrawn' /\ BatchGapless'
  <2>1. IdsDrawn'
    BY <1>6 DEF CommitEvent, IdsDrawn, tables, loop
  <2>2. \A w \in Workers : late[w] \subseteq late'[w]
    BY <1>6 DEF CommitEvent
  <2>3. ASSUME NEW w \in Workers, e <= cursor[w] \/ \E d \in batch[w] : e < d
        PROVE  e \in late'[w]
    <3>1. cursor[w] # e
      <4>1. e \in open /\ e # 0
        BY <1>3, <1>6 DEF CommitEvent
      <4> QED
        BY <4>1 DEF IdsDrawn
    <3>2. w \in ReadPast(e)
      <4>1. e \in Nat /\ cursor[w] \in Nat
        BY <1>3 DEF EventId
      <4>2. e < cursor[w] \/ \E d \in batch[w] : e < d
        BY <2>3, <3>1, <4>1
      <4> QED
        BY <4>2 DEF ReadPast
    <3> QED
      BY <1>6, <3>2 DEF CommitEvent
  <2>4. BatchGapless'
    BY <1>6, <2>2, <2>3 DEF CommitEvent, BatchGapless, tables, loop
  <2> QED
    BY <2>1, <2>4
<1>7. ASSUME NEW e \in EventId, RollBackEvent(e)
      PROVE  IdsDrawn' /\ BatchGapless'
  BY <1>7 DEF RollBackEvent, IdsDrawn, BatchGapless, tables, loop, history
<1>8. ASSUME NEW a \in Actions, Derive(a),
             UNCHANGED <<batch, cursor, handled, late>>
      PROVE  IdsDrawn' /\ BatchGapless'
  <2>1. CASE UNCHANGED events
    BY <1>4, <1>8, <2>1 DEF events
  <2>2. CASE ~UNCHANGED events
    <3>1. /\ committed' = committed \cup {nextId}
          /\ nextId' = nextId + 1
          /\ open' = open
      BY <1>8, <2>2 DEF Derive
    <3>2. \A w \in Workers : /\ cursor[w] < nextId
                             /\ \A d \in batch[w] : d < nextId
      BY <1>3 DEF IdsDrawn
    <3>3. IdsDrawn'
      BY <1>3, <1>8, <3>1 DEF IdsDrawn
    <3>4. BatchGapless'
      <4>1. ASSUME NEW w \in Workers
            PROVE  ~(nextId <= cursor[w] \/ \E d \in batch[w] : nextId < d)
        <5>1. batch[w] \subseteq Nat
          BY <1>3 DEF IdsDrawn
        <5> QED
          BY <1>3, <3>2, <5>1
      <4> QED
        BY <1>8, <3>1, <4>1 DEF BatchGapless
    <3> QED
      BY <3>3, <3>4
  <2> QED
    BY <2>1, <2>2
<1>9. ASSUME NEW w \in Workers,
             \/ /\ LoseMemory(w)
                /\ UNCHANGED <<nextId, open, committed, cursor, handled, late>>
             \/ LeaveBatch(w)
      PROVE  IdsDrawn' /\ BatchGapless'
  <2>1. /\ UNCHANGED <<nextId, open, committed, cursor, handled, late>>
        /\ batch'[w] = {}
        /\ \A v \in Workers \ {w} : batch'[v] = batch[v]
    BY <1>9 DEF LoseMemory, LeaveBatch, events, tables, history, TypeOK
  <2>2. IdsDrawn'
    BY <2>1 DEF IdsDrawn
  <2>3. BatchGapless'
    BY <1>3, <2>1 DEF BatchGapless, BatchAhead
  <2> QED
    BY <2>2, <2>3
<1>10. ASSUME NEW w \in Workers, PollEvents(w)
       PROVE  IdsDrawn' /\ BatchGapless'
  <2>1. /\ UNCHANGED <<nextId, open, committed, cursor, handled, late>>
        /\ batch'[w] = EventsSince(cursor[w])
        /\ \A v \in Workers \ {w} : batch'[v] = batch[v]
    BY <1>10 DEF PollEvents, events, tables, history, TypeOK
  <2>2. IdsDrawn'
    BY <2>1 DEF IdsDrawn, EventsSince
  <2>3. ASSUME NEW e \in committed,
               e <= cursor[w] \/ \E d \in batch'[w] : e < d
        PROVE  e \in batch'[w] \cup handled[w] \cup late[w]
    <3>1. CASE e <= cursor[w]
      BY <1>3, <3>1 DEF BatchGapless, BatchAhead
    <3>2. CASE ~(e <= cursor[w])
      BY <1>3, <2>1, <2>3, <3>2, EventsSinceGapless
    <3> QED
      BY <3>1, <3>2
  <2>4. BatchGapless'
    BY <2>1, <2>3 DEF BatchGapless
  <2> QED
    BY <2>2, <2>4
<1>11. ASSUME NEW w \in Workers, AdvanceCursor(w)
       PROVE  IdsDrawn' /\ BatchGapless'
  <2> DEFINE c == Current(w)
  <2>1. batch[w] # {}
    BY <1>11 DEF AdvanceCursor, EventInHand, InEvent
  <2>2. c \in batch[w] /\ c \in committed /\ \A d \in batch[w] : c <= d
    BY <2>1, CurrentInBatch DEF IdsDrawn
  <2>3. /\ UNCHANGED <<nextId, open, committed, late>>
        /\ cursor'[w] = c
        /\ batch'[w] = batch[w] \ {c}
        /\ handled'[w] = handled[w] \cup {c}
        /\ \A v \in Workers \ {w} : /\ cursor'[v] = cursor[v]
                                    /\ batch'[v] = batch[v]
                                    /\ handled'[v] = handled[v]
    BY <1>11 DEF AdvanceCursor, events, TypeOK
  <2> HIDE DEF c
  <2>4. IdsDrawn'
    BY <2>2, <2>3 DEF IdsDrawn
  <2>5. ASSUME NEW e \in committed,
               e <= c \/ \E d \in batch'[w] : e < d
        PROVE  e \in batch'[w] \cup handled'[w] \cup late[w]
    <3>1. e = c \/ \E d \in batch[w] : e < d
      BY <1>3, <2>2, <2>3, <2>5
    <3>2. e = c \/ e \in batch[w] \cup handled[w] \cup late[w]
      BY <3>1 DEF BatchGapless
    <3> QED
      BY <2>3, <3>2
  <2>6. BatchGapless'
    BY <2>3, <2>5 DEF BatchGapless
  <2> QED
    BY <2>4, <2>6
<1>12. CASE Next
  BY <1>1, <1>2, <1>4, <1>5, <1>6, <1>7, <1>8, <1>9, <1>10, <1>11, <1>12,
     ReadingSteps
<1>13. CASE UNCHANGED vars
  BY <1>1, <1>2, <1>4, <1>13 DEF vars, events, tables, loop, history
<1> QED
  BY <1>12, <1>13

\* No event is skipped but by committing behind the reader: what a worker's
\* cursor has passed it has processed, unless the event became visible after
\* the worker had read beyond its id (poll_events_since, _poll_and_process).
THEOREM NoEventSkipped == Spec => []NothingSkipped
<1>1. Init => SkipInv
  BY TypeInvInit DEF Init, SkipInv, BatchAhead, IdsDrawn, BatchGapless
<1>2. SkipInv /\ [Next]_vars => SkipInv'
  BY SkipInvNext
<1>3. SkipInv => NothingSkipped
  <2> SUFFICES ASSUME SkipInv, NEW w \in Workers, NEW e \in committed,
                      e <= cursor[w]
               PROVE  e \in handled[w] \cup late[w]
    BY DEF NothingSkipped
  <2>1. e \in Nat /\ cursor[w] \in Nat
    BY DispatchAssumption DEF SkipInv, TypeInv, TypeOK, EventId
  <2> QED
    BY <2>1 DEF SkipInv, BatchGapless, BatchAhead
<1> QED
  BY <1>1, <1>2, <1>3, PTL DEF Spec

-----------------------------------------------------------------------------
(* How often an action runs                                                *)

\* What the steps of other workers and of writers leave alone of worker v.
Own(v) == <<pc[v], batch[v], snapshot[v], subsLeft[v], actsLeft[v], cur[v],
            cursor[v], runs[v], crashes[v]>>

\* The subscriptions and actions still to visit, and the action in hand, are
\* apart from each other: none is visited twice for one event.
WalkOK(v) ==
    /\ pc[v] \notin InEvent => subsLeft[v] = {} /\ actsLeft[v] = {}
    /\ \A a \in actsLeft[v] : SubOf[a] \notin subsLeft[v]
    /\ pc[v] \in InAction => /\ cur[v] \notin actsLeft[v]
                            /\ SubOf[cur[v]] \notin subsLeft[v]

\* Worker v will not run a for e again unless it crashes.
Settled(v, e, a) ==
    \/ e <= cursor[v]
    \/ /\ pc[v] \in InEvent
       /\ e = Current(v)
       /\ a \notin actsLeft[v]
       /\ SubOf[a] \notin subsLeft[v]
       /\ ~(pc[v] = "run" /\ cur[v] = a)

RunsOK(v) ==
    \A e \in EventId : \A a \in Actions :
        /\ runs[v][<<e, a>>] <= 1 + crashes[v]
        /\ ~Settled(v, e, a) => runs[v][<<e, a>>] <= crashes[v]

RunsInv ==
    /\ TypeInv
    /\ BatchAhead
    /\ \A v \in Workers : WalkOK(v) /\ RunsOK(v)

\* The steps that touch what worker v owns are its own.
LEMMA OwnSteps ==
    ASSUME TypeInv, Next, NEW v \in Workers
    PROVE  \/ Own(v)' = Own(v)
           \/ StartWorker(v)
           \/ Die(v) /\ UNCHANGED <<cursor, runs>>
           \/ Exit(v)
           \/ PollEvents(v)
           \/ Wake(v)
           \/ LoadSubscriptions(v)
           \/ TakeEvent(v)
           \/ LeaveBatch(v)
           \/ \E x \in Subs : ListActions(v, x)
           \/ \E a \in Actions : CheckCompleted(v, a)
           \/ ExecuteImmediate(v)
           \/ BufferEvent(v) /\ cur[v] \in live
           \/ CountPending(v)
           \/ ClaimInline(v)
           \/ \E f \in flushes[v] : f.inline /\ FinishFlush(v, f)
           \/ RecordCompletion(v) /\ cur[v] \in live
           \/ AdvanceCursor(v)
<1>1. CASE \/ \E t \in EventTypes : DrawEventId(t)
           \/ \E e \in EventId : CommitEvent(e) \/ RollBackEvent(e)
           \/ \E x \in Subs : SetEnabled(x) \/ DeleteSubscription(x)
  BY <1>1 DEF DrawEventId, CommitEvent, RollBackEvent, SetEnabled,
     DeleteSubscription, tables, loop, history, Own
<1>2. ASSUME NEW w \in Workers,
             \/ Stop(w)
             \/ \E a \in Actions : TimerFires(w, a)
             \/ \E f \in flushes[w] : ~f.inline /\ FinishFlush(w, f)
      PROVE  Own(v)' = Own(v)
  BY <1>2 DEF Stop, TimerFires, FinishFlush, tables, loop, history, Own
<1>3. ASSUME NEW w \in Workers, w # v,
             \/ StartWorker(w)
             \/ Wake(w)
             \/ PollEvents(w)
             \/ LoadSubscriptions(w)
             \/ TakeEvent(w)
             \/ LeaveBatch(w)
      PROVE  Own(v)' = Own(v)
  BY <1>3 DEF StartWorker, Wake, PollEvents, LoadSubscriptions, TakeEvent,
     LeaveBatch, tables, history, Own, TypeInv, TypeOK
<1>4. ASSUME NEW w \in Workers, w # v,
             \/ \E x \in Subs : ListActions(w, x)
             \/ \E a \in Actions : CheckCompleted(w, a)
             \/ ExecuteImmediate(w)
             \/ CountPending(w)
             \/ ClaimInline(w)
             \/ \E f \in flushes[w] : FinishFlush(w, f)
             \/ AdvanceCursor(w)
      PROVE  Own(v)' = Own(v)
  <2>1. CASE ExecuteImmediate(w)
    BY <1>4, <2>1 DEF ExecuteImmediate, tables, Own, TypeInv, TypeOK
  <2>2. CASE \/ \E x \in Subs : ListActions(w, x)
             \/ \E a \in Actions : CheckCompleted(w, a)
             \/ CountPending(w)
             \/ ClaimInline(w)
    BY <1>4, <2>2 DEF ListActions, CheckCompleted, CountPending, ClaimInline,
       tables, history, Own, TypeInv, TypeOK
  <2>3. CASE (\E f \in flushes[w] : FinishFlush(w, f)) \/ AdvanceCursor(w)
    BY <1>4, <2>3 DEF FinishFlush, AdvanceCursor, tables, history, Own,
       TypeInv, TypeOK
  <2> QED
    BY <1>4, <2>1, <2>2, <2>3
<1>5. ASSUME NEW w \in Workers, w # v,
             Crash(w) \/ Exit(w) \/ BufferEvent(w) \/ RecordCompletion(w)
      PROVE  Own(v)' = Own(v)
  BY <1>5 DEF Crash, Exit, BufferEvent, RecordCompletion, Die, LoseMemory,
     tables, tasks, history, Own, TypeInv, TypeOK
<1>6. ASSUME Crash(v) \/ BufferEvent(v) \/ RecordCompletion(v)
      PROVE  \/ Die(v) /\ UNCHANGED <<cursor, runs>>
             \/ BufferEvent(v) /\ cur[v] \in live
             \/ RecordCompletion(v) /\ cur[v] \in live
  BY <1>6 DEF Crash, BufferEvent, RecordCompletion, tables
<1> QED
  BY <1>1, <1>2, <1>3, <1>4, <1>5, <1>6 DEF Next, LoopStep

LEMMA WalkNext ==
    ASSUME TypeInv, Next, NEW v \in Workers, WalkOK(v)
    PROVE  WalkOK(v)'
<1> USE DEF WalkOK, TypeInv, TypeOK, InEvent, InAction
<1>1. CASE Own(v)' = Own(v)
  BY <1>1 DEF Own
<1>2. CASE \/ Die(v) /\ UNCHANGED <<cursor, runs>>
           \/ Exit(v)
  BY <1>2 DEF Die, Exit, LoseMemory
<1>3. CASE \/ StartWorker(v)
           \/ PollEvents(v)
           \/ Wake(v)
           \/ LoadSubscriptions(v)
           \/ LeaveBatch(v)
  BY <1>3 DEF StartWorker, PollEvents, Wake, LoadSubscriptions, LeaveBatch
<1>4. CASE TakeEvent(v)
  BY <1>4 DEF TakeEvent
<1>5. ASSUME NEW x \in Subs, ListActions(v, x) PROVE WalkOK(v)'
  <2>1. /\ pc' = pc /\ pc[v] = "sub"
        /\ subsLeft'[v] = subsLeft[v] \ {x}
        /\ actsLeft'[v] = ActionsOf(x)
    BY <1>5 DEF ListActions
  <2>2. \A a \in actsLeft'[v] : SubOf[a] \notin subsLeft'[v]
    BY <2>1 DEF ActionsOf
  <2> QED
    BY <2>1, <2>2
<1>6. ASSUME NEW a \in Actions, CheckCompleted(v, a) PROVE WalkOK(v)'
  BY <1>6 DEF CheckCompleted
<1>7. CASE ExecuteImmediate(v) \/ CountPending(v) \/ ClaimInline(v)
  BY <1>7 DEF ExecuteImmediate, CountPending, ClaimInline
<1>8. CASE BufferEvent(v) /\ cur[v] \in live
  BY <1>8 DEF BufferEvent
<1>9. ASSUME NEW f \in flushes[v], f.inline, FinishFlush(v, f)
      PROVE  WalkOK(v)'
  <2>1. pc[v] = "flush"
    BY <1>9 DEF OneInlineFlush
  <2> QED
    BY <1>9, <2>1 DEF FinishFlush
<1>10. CASE RecordCompletion(v) /\ cur[v] \in live
  BY <1>10 DEF RecordCompletion
<1>11. CASE AdvanceCursor(v)
  BY <1>11 DEF AdvanceCursor
<1> QED
  BY <1>1, <1>2, <1>3, <1>4, <1>5, <1>6, <1>7, <1>8, <1>9, <1>10, <1>11,
     OwnSteps

\* A step that runs nothing keeps RunsOK when it settles no less than before.
LEMMA RunsKept ==
    ASSUME NEW v \in Workers, RunsOK(v), runs'[v] = runs[v],
           crashes'[v] = crashes[v],
           \A e \in EventId, a \in Actions :
               Settled(v, e, a) => Settled(v, e, a)'
    PROVE  RunsOK(v)'
  BY DEF RunsOK

LEMMA RunsNext ==
    ASSUME TypeInv, BatchAhead, Next, NEW v \in Workers, WalkOK(v), RunsOK(v)
    PROVE  RunsOK(v)'
<1> USE DEF TypeInv
<1>1. CASE Own(v)' = Own(v)
  BY <1>1, RunsKept DEF Own, Settled, Current
<1>2. CASE Die(v) /\ UNCHANGED <<cursor, runs>>
  <2>1. runs'[v] = runs[v] /\ crashes'[v] = crashes[v] + 1
    BY <1>2 DEF Die, TypeOK
  <2>2. /\ crashes[v] \in Nat
        /\ \A e \in EventId, a \in Actions : runs[v][<<e, a>>] \in Nat
    BY DEF TypeOK, Pair
  <2>3. ASSUME NEW e \in EventId, NEW a \in Actions
        PROVE  runs'[v][<<e, a>>] <= crashes'[v]
    <3>1. runs[v][<<e, a>>] <= 1 + crashes[v]
      BY DEF RunsOK
    <3> QED
      BY <2>1, <2>2, <3>1
  <2>4. ASSUME NEW e \in EventId, NEW a \in Actions
        PROVE  runs'[v][<<e, a>>] <= 1 + crashes'[v]
    BY <2>1, <2>2, <2>3
  <2> QED
    BY <2>3, <2>4 DEF RunsOK
<1>3. CASE Exit(v)
  BY <1>3, RunsKept DEF Exit, LoseMemory, history, tables, Settled, InEvent, TypeOK
<1>4. CASE \/ StartWorker(v)
           \/ PollEvents(v)
           \/ Wake(v)
           \/ LoadSubscriptions(v)
           \/ LeaveBatch(v)
  BY <1>4, RunsKept DEF StartWorker, PollEvents, Wake, LoadSubscriptions,
     LeaveBatch, tables, history, Settled, InEvent, TypeOK
<1>5. CASE TakeEvent(v)
  BY <1>5, RunsKept DEF TakeEvent, tables, history, Settled, InEvent, TypeOK
<1>6. ASSUME NEW x \in Subs, ListActions(v, x) PROVE RunsOK(v)'
  <2>1. /\ UNCHANGED <<pc, batch, cur, cursor, runs, crashes>>
        /\ subsLeft'[v] = subsLeft[v] \ {x}
        /\ actsLeft'[v] = ActionsOf(x)
        /\ x \in subsLeft[v]
    BY <1>6 DEF ListActions, tables, history, TypeOK
  <2>2. \A a \in actsLeft'[v] : SubOf[a] \in subsLeft[v]
    BY <2>1 DEF ActionsOf
  <2> QED
    BY <2>1, <2>2, RunsKept DEF Settled, Current
<1>7. ASSUME NEW a \in Actions, CheckCompleted(v, a) PROVE RunsOK(v)'
  <2>1. /\ UNCHANGED <<batch, subsLeft, cursor, runs, crashes>>
        /\ actsLeft'[v] = actsLeft[v] \ {a}
        /\ a \in actsLeft[v]
        /\ pc[v] = "sub"
        /\ \/ pc'[v] = "sub" /\ cur'[v] = cur[v]
           \/ pc'[v] = "run" /\ cur'[v] = a
    BY <1>7 DEF CheckCompleted, tables, history, TypeOK
  <2> QED
    BY <2>1, RunsKept DEF Settled, Current, InEvent
<1>8. CASE ExecuteImmediate(v)
  <2> DEFINE c == Current(v)
             b == cur[v]
  <2>1. /\ pc[v] = "run"
        /\ pc'[v] = "record"
        /\ runs' = [runs EXCEPT ![v][<<c, b>>] = @ + 1]
        /\ UNCHANGED <<batch, subsLeft, actsLeft, cur, cursor, crashes>>
    BY <1>8 DEF ExecuteImmediate, tables, TypeOK
  <2>2. c \in EventId /\ b \in Actions /\ c > cursor[v] /\ cursor[v] \in Nat
    BY <2>1, CurrentInBatch, DispatchAssumption DEF EventInHand, ActionInHand,
       InEvent, InAction, BatchAhead, TypeOK
  <2>3. b \notin actsLeft[v] /\ SubOf[b] \notin subsLeft[v]
    BY <2>1 DEF WalkOK, InEvent, InAction
  <2>4. runs[v][<<c, b>>] <= crashes[v]
    <3>1. ~Settled(v, c, b)
      BY <2>1, <2>2 DEF Settled, EventId
    <3> QED
      BY <2>2, <3>1 DEF RunsOK
  <2>5. \A e \in EventId, a \in Actions :
            e = c /\ a = b => Settled(v, e, a)'
    BY <2>1, <2>3 DEF Settled, Current, InEvent
  <2>6. \A e \in EventId, a \in Actions :
            Settled(v, e, a) => Settled(v, e, a)'
    BY <2>1 DEF Settled, Current, InEvent
  <2>7. \A e \in EventId, a \in Actions :
            runs'[v][<<e, a>>] = IF e = c /\ a = b
                                 THEN runs[v][<<e, a>>] + 1
                                 ELSE runs[v][<<e, a>>]
    BY <2>1, <2>2, ZenonT(60) DEF TypeOK, Pair
  <2>8. /\ crashes[v] \in Nat
        /\ \A e \in EventId, a \in Actions : runs[v][<<e, a>>] \in Nat
    BY DEF TypeOK, Pair
  <2>9. ASSUME NEW e \in EventId, NEW a \in Actions
        PROVE  /\ runs'[v][<<e, a>>] <= 1 + crashes'[v]
               /\ ~Settled(v, e, a)' => runs'[v][<<e, a>>] <= crashes'[v]
    <3>1. CASE e = c /\ a = b
      BY <2>1, <2>4, <2>5, <2>7, <2>8, <3>1
    <3>2. CASE ~(e = c /\ a = b)
      BY <2>1, <2>6, <2>7, <3>2 DEF RunsOK
    <3> QED
      BY <3>1, <3>2
  <2> QED
    BY <2>9 DEF RunsOK
<1>9. CASE \/ BufferEvent(v) /\ cur[v] \in live
           \/ CountPending(v)
           \/ ClaimInline(v)
           \/ RecordCompletion(v) /\ cur[v] \in live
  <2>1. /\ UNCHANGED <<batch, subsLeft, actsLeft, cursor, runs, crashes>>
        /\ pc'[v] \in InEvent /\ pc'[v] # "run"
        /\ pc[v] \in InEvent
    BY <1>9 DEF BufferEvent, CountPending, ClaimInline, RecordCompletion,
       tables, history, InEvent, TypeOK
  <2> QED
    BY <2>1, RunsKept DEF Settled, Current
<1>10. ASSUME NEW f \in flushes[v], f.inline, FinishFlush(v, f)
       PROVE  RunsOK(v)'
  <2>1. /\ UNCHANGED <<batch, subsLeft, actsLeft, cursor, runs, crashes>>
        /\ pc'[v] = "record"
    BY <1>10 DEF FinishFlush, tables, TypeOK
  <2> QED
    BY <2>1, RunsKept DEF Settled, Current, InEvent
<1>11. CASE AdvanceCursor(v)
  <2>1. /\ UNCHANGED <<runs, crashes>>
        /\ cursor'[v] = Current(v)
        /\ pc[v] = "sub"
    BY <1>11 DEF AdvanceCursor, TypeOK
  <2>2. Current(v) \in Nat /\ cursor[v] \in Nat /\ Current(v) > cursor[v]
    BY <2>1, CurrentInBatch, DispatchAssumption DEF EventInHand, InEvent,
       BatchAhead, TypeOK, EventId
  <2>3. \A e \in EventId, a \in Actions :
            Settled(v, e, a) => e <= Current(v)
    BY <2>1, <2>2 DEF Settled, EventId
  <2> QED
    BY <2>1, <2>3, RunsKept DEF Settled
<1> QED
  BY <1>1, <1>2, <1>3, <1>4, <1>5, <1>6, <1>7, <1>8, <1>9, <1>10, <1>11,
     OwnSteps

\* Without a crash a worker never runs an immediate action twice for an event,
\* and each crash costs at most one more run, whatever is edited, stopped or
\* committed meanwhile (_poll_and_process, _execute_action_immediate).
THEOREM RunsBounded == Spec => []RunsBoundedByCrashes
<1>1. Init => RunsInv
  <2> SUFFICES ASSUME Init PROVE RunsInv
    OBVIOUS
  <2>1. TypeInv /\ BatchAhead
    BY TypeInvInit DEF Init, BatchAhead
  <2>2. \A v \in Workers : WalkOK(v)
    BY DEF Init, WalkOK, InEvent, InAction
  <2>3. \A v \in Workers : RunsOK(v)
    BY DEF Init, RunsOK, Pair
  <2> QED
    BY <2>1, <2>2, <2>3 DEF RunsInv
<1>2. RunsInv /\ [Next]_vars => RunsInv'
  <2> SUFFICES ASSUME RunsInv, [Next]_vars PROVE RunsInv'
    OBVIOUS
  <2>1. CASE Next
    BY <2>1, TypeInvNext, BatchAheadNext, WalkNext, RunsNext DEF RunsInv
  <2>2. CASE UNCHANGED vars
    <3>1. TypeInv' /\ BatchAhead'
      BY <2>2, TypeInvNext DEF RunsInv, vars, tables, loop, BatchAhead
    <3>2. \A v \in Workers : WalkOK(v)' /\ RunsOK(v)'
      BY <2>2 DEF RunsInv, vars, tables, loop, history, WalkOK, RunsOK,
         Settled, Current
    <3> QED
      BY <3>1, <3>2 DEF RunsInv
  <2> QED
    BY <2>1, <2>2
<1>3. RunsInv => RunsBoundedByCrashes
  BY DEF RunsInv, RunsOK, RunsBoundedByCrashes, Pair
<1> QED
  BY <1>1, <1>2, <1>3, PTL DEF Spec

-----------------------------------------------------------------------------
(* What the cursor promises                                                *)

\* While v processes an event, each due action is completed, to be visited,
\* or in hand.
DueOK(v) ==
    pc[v] \in InEvent =>
        \A a \in ActionsDue(v) :
            \/ <<Current(v), a>> \in completed
            \/ SubOf[a] \in subsLeft[v]
            \/ a \in actsLeft[v]
            \/ pc[v] \in InAction /\ cur[v] = a

DueInv == SkipInv /\ \A v \in Workers : WalkOK(v) /\ DueOK(v)

\* Actions are only ever deleted, completion records go with them, and the
\* type of an event is never rewritten.
LEMMA TableSteps ==
    ASSUME TypeInv, Next
    PROVE  /\ live' \subseteq live
           /\ \A e \in EventId, a \in live' :
                 <<e, a>> \in completed => <<e, a>> \in completed'
           /\ \A e \in EventId : e < nextId => etype'[e] = etype[e]
<1> USE DEF TypeInv, TypeOK
<1>0. ASSUME NEW t, etype' = [etype EXCEPT ![nextId] = t],
             NEW e \in EventId, e < nextId
      PROVE  etype'[e] = etype[e]
  <2>1. nextId \in Nat /\ e \in Nat
    BY DispatchAssumption DEF EventId
  <2>2. e # nextId
    BY <1>0, <2>1
  <2>3. etype \in [EventId -> EventTypes \cup {NoEvent}]
    OBVIOUS
  <2> HIDE DEF TypeInv, TypeOK
  <2> QED
    BY <1>0, <2>2, <2>3
<1>1. ASSUME NEW a, Derive(a) \/ UNCHANGED events
      PROVE  \A e \in EventId : e < nextId => etype'[e] = etype[e]
  <2>1. etype' = etype \/ \E t : etype' = [etype EXCEPT ![nextId] = t]
    BY <1>1 DEF Derive, events
  <2> QED
    BY <1>0, <2>1
<1>2. CASE \/ \E t \in EventTypes : DrawEventId(t)
           \/ \E e \in EventId : CommitEvent(e) \/ RollBackEvent(e)
  <2>1. /\ UNCHANGED <<live, completed>>
        /\ etype' = etype \/ \E t : etype' = [etype EXCEPT ![nextId] = t]
    BY <1>2 DEF DrawEventId, CommitEvent, RollBackEvent, tables
  <2> QED
    BY <1>0, <2>1
<1>3. CASE \E x \in Subs : SetEnabled(x)
  BY <1>3 DEF SetEnabled, events
<1>4. CASE \E x \in Subs : DeleteSubscription(x)
  BY <1>4 DEF DeleteSubscription, events
<1>5. ASSUME NEW w \in Workers,
             \/ StartWorker(w)
             \/ Crash(w)
             \/ Stop(w)
             \/ \E a \in Actions : TimerFires(w, a)
             \/ Exit(w)
             \/ PollEvents(w)
             \/ Wake(w)
             \/ LoadSubscriptions(w)
             \/ TakeEvent(w)
             \/ LeaveBatch(w)
             \/ \E x \in Subs : ListActions(w, x)
             \/ \E a \in Actions : CheckCompleted(w, a)
             \/ BufferEvent(w)
             \/ CountPending(w)
             \/ ClaimInline(w)
             \/ AdvanceCursor(w)
      PROVE  UNCHANGED <<live, completed, etype>>
  BY <1>5 DEF StartWorker, Crash, Stop, TimerFires, Exit, PollEvents, Wake,
     LoadSubscriptions, TakeEvent, LeaveBatch, ListActions, CheckCompleted,
     BufferEvent, CountPending, ClaimInline, AdvanceCursor, events, tables
<1>6. ASSUME NEW w \in Workers,
             ExecuteImmediate(w) \/ \E f \in flushes[w] : FinishFlush(w, f)
      PROVE  /\ UNCHANGED <<live, completed>>
             /\ \A e \in EventId : e < nextId => etype'[e] = etype[e]
  BY <1>1, <1>6 DEF ExecuteImmediate, FinishFlush, tables
<1>7. ASSUME NEW w \in Workers, RecordCompletion(w)
      PROVE  UNCHANGED <<live, etype>> /\ completed \subseteq completed'
  BY <1>7 DEF RecordCompletion, events
<1> QED
  BY <1>2, <1>3, <1>4, <1>5, <1>6, <1>7 DEF Next, LoopStep

LEMMA DueNext ==
    ASSUME DueInv, Next, NEW v \in Workers
    PROVE  DueOK(v)'
<1> USE DEF DueInv, SkipInv, TypeInv
<1>1. DueOK(v) /\ WalkOK(v)
  OBVIOUS
<1>2. ASSUME pc[v] \in InEvent \/ TakeEvent(v)
      PROVE  Current(v) \in EventId /\ Current(v) < nextId
  <2>1. batch[v] # {}
    BY <1>2 DEF EventInHand, TakeEvent
  <2> QED
    BY <2>1, CurrentInBatch DEF IdsDrawn
\* A step that keeps the event and the snapshot makes no action due.
<1>3. ASSUME pc[v] \in InEvent, batch'[v] = batch[v], snapshot'[v] = snapshot[v]
      PROVE  /\ Current(v)' = Current(v)
             /\ ActionsDue(v)' \subseteq ActionsDue(v)
             /\ \A a \in ActionsDue(v)' : <<Current(v), a>> \in completed
                    => <<Current(v), a>> \in completed'
  <2>1. Current(v)' = Current(v)
    BY <1>3 DEF Current
  <2>2. etype'[Current(v)] = etype[Current(v)]
    BY <1>2, <1>3, TableSteps
  <2>3. ActionsDue(v)' \subseteq ActionsDue(v)
    BY <1>3, <2>1, <2>2, TableSteps DEF ActionsDue, Matches
  <2>4. ActionsDue(v)' \subseteq live'
    BY DEF ActionsDue
  <2> QED
    BY <1>2, <1>3, <2>1, <2>3, <2>4, TableSteps
<1>4. CASE Own(v)' = Own(v)
  <2>1. /\ pc'[v] = pc[v]
        /\ batch'[v] = batch[v]
        /\ snapshot'[v] = snapshot[v]
        /\ subsLeft'[v] = subsLeft[v]
        /\ actsLeft'[v] = actsLeft[v]
        /\ cur'[v] = cur[v]
    BY <1>4 DEF Own
  <2> QED
    BY <1>1, <1>3, <2>1 DEF DueOK
<1>5. CASE \/ Die(v) /\ UNCHANGED <<cursor, runs>>
           \/ Exit(v)
           \/ StartWorker(v)
           \/ PollEvents(v)
           \/ Wake(v)
           \/ LoadSubscriptions(v)
           \/ LeaveBatch(v)
           \/ AdvanceCursor(v)
  <2>1. pc'[v] \notin InEvent
    BY <1>5 DEF Die, Exit, LoseMemory, StartWorker, PollEvents, Wake,
       LoadSubscriptions, LeaveBatch, AdvanceCursor, InEvent, TypeOK
  <2> QED
    BY <2>1 DEF DueOK
<1>6. CASE TakeEvent(v)
  <2>1. /\ UNCHANGED <<etype, batch, snapshot, live>>
        /\ subsLeft'[v] = {x \in snapshot[v] : Matches(Current(v), x)}
    BY <1>6 DEF TakeEvent, events, tables, TypeOK
  <2>2. \A a \in ActionsDue(v)' : SubOf[a] \in subsLeft'[v]
    BY <2>1 DEF ActionsDue, Matches, Current
  <2> QED
    BY <2>2 DEF DueOK
<1>7. ASSUME NEW x \in Subs, ListActions(v, x) PROVE DueOK(v)'
  <2>1. /\ UNCHANGED <<pc, batch, snapshot, live>>
        /\ pc[v] = "sub"
        /\ actsLeft[v] = {}
        /\ subsLeft'[v] = subsLeft[v] \ {x}
        /\ actsLeft'[v] = ActionsOf(x)
    BY <1>7 DEF ListActions, tables, TypeOK
  <2>2. \A a \in live : SubOf[a] = x => a \in actsLeft'[v]
    BY <2>1 DEF ActionsOf
  <2>3. ActionsDue(v) \subseteq live
    BY DEF ActionsDue
  <2> QED
    BY <1>1, <1>3, <2>1, <2>2, <2>3 DEF DueOK, InEvent, InAction
<1>8. ASSUME NEW a \in Actions, CheckCompleted(v, a) PROVE DueOK(v)'
  <2>1. /\ UNCHANGED <<batch, snapshot, subsLeft>>
        /\ pc[v] = "sub"
        /\ actsLeft'[v] = actsLeft[v] \ {a}
        /\ \/ <<Current(v), a>> \in completed
           \/ pc'[v] = "run" /\ cur'[v] = a
    BY <1>8 DEF CheckCompleted, IsActionCompleted, CompletionKey, TypeOK
  <2> QED
    BY <1>1, <1>3, <2>1 DEF DueOK, InEvent, InAction
<1>9. CASE \/ ExecuteImmediate(v)
           \/ BufferEvent(v) /\ cur[v] \in live
           \/ CountPending(v)
           \/ ClaimInline(v)
           \/ \E f \in flushes[v] : f.inline /\ FinishFlush(v, f)
  <2>1. UNCHANGED <<batch, snapshot, subsLeft, actsLeft, cur>>
    BY <1>9 DEF ExecuteImmediate, BufferEvent, CountPending, ClaimInline,
       FinishFlush
  <2>2. pc[v] \in InAction /\ pc'[v] \in InAction
    <3>1. CASE \/ ExecuteImmediate(v)
               \/ BufferEvent(v) /\ cur[v] \in live
               \/ CountPending(v)
               \/ ClaimInline(v)
      BY <3>1 DEF ExecuteImmediate, BufferEvent, CountPending, ClaimInline,
         InEvent, InAction, TypeOK
    <3>2. ASSUME NEW f \in flushes[v], f.inline, FinishFlush(v, f)
          PROVE  pc[v] \in InAction /\ pc'[v] \in InAction
      <4>1. pc[v] = "flush"
        BY <3>2 DEF OneInlineFlush
      <4>2. pc' = [pc EXCEPT ![v] = "record"]
        BY <3>2 DEF FinishFlush
      <4> QED
        BY <4>1, <4>2 DEF InEvent, InAction, TypeOK
    <3> QED
      BY <1>9, <3>1, <3>2
  <2> QED
    BY <1>1, <1>3, <2>1, <2>2 DEF DueOK, InAction
<1>10. CASE RecordCompletion(v) /\ cur[v] \in live
  <2>1. /\ UNCHANGED <<batch, snapshot, subsLeft, actsLeft>>
        /\ pc[v] = "record"
        /\ <<Current(v), cur[v]>> \in completed'
    BY <1>10 DEF RecordCompletion, CompletionKey
  <2> QED
    BY <1>1, <1>3, <2>1 DEF DueOK, InEvent, InAction
<1> QED
  BY <1>4, <1>5, <1>6, <1>7, <1>8, <1>9, <1>10, OwnSteps

LEMMA DueInvInit == Init => DueInv
<1> SUFFICES ASSUME Init PROVE DueInv
  OBVIOUS
<1>1. SkipInv
  BY TypeInvInit DEF Init, SkipInv, BatchAhead, IdsDrawn, BatchGapless
<1>2. \A v \in Workers : WalkOK(v) /\ DueOK(v)
  BY DEF Init, WalkOK, DueOK, InEvent, InAction
<1> QED
  BY <1>1, <1>2 DEF DueInv

LEMMA DueInvNext == DueInv /\ [Next]_vars => DueInv'
<1> SUFFICES ASSUME DueInv, [Next]_vars PROVE DueInv'
  OBVIOUS
<1>1. SkipInv'
  BY SkipInvNext DEF DueInv
<1>2. CASE Next
  BY <1>1, <1>2, WalkNext, DueNext DEF DueInv, SkipInv
<1>3. CASE UNCHANGED vars
  BY <1>1, <1>3 DEF DueInv, WalkOK, DueOK, ActionsDue, Matches, Current,
     vars, events, tables, loop
<1> QED
  BY <1>2, <1>3

\* A cursor passes an event only when every action of a loaded, matching
\* subscription that still exists has its completion record, so a worker that
\* restarts at its cursor owes nothing to the events behind it
\* (_poll_and_process: advance_cursor comes last).
THEOREM CursorAfterCompletions == Spec => CursorFollowsCompletions
<1>1. Init => DueInv
  BY DueInvInit
<1>2. DueInv /\ [Next]_vars => DueInv'
  BY DueInvNext
<1>3. DueInv /\ [Next]_vars
        => [\A w \in Workers : cursor'[w] # cursor[w] =>
              \A a \in ActionsDue(w) : <<Current(w), a>> \in completed]_vars
  <2> SUFFICES ASSUME DueInv, Next, NEW w \in Workers, cursor'[w] # cursor[w],
                      NEW a \in ActionsDue(w)
               PROVE  <<Current(w), a>> \in completed
    OBVIOUS
  <2>1. AdvanceCursor(w)
    BY BatchSteps DEF PollEvents, LeaveBatch, AdvanceCursor, tables, DueInv,
       SkipInv, TypeInv, TypeOK
  <2> QED
    BY <2>1 DEF AdvanceCursor, DueInv, DueOK, InEvent, InAction
<1> QED
  BY <1>1, <1>2, <1>3, PTL DEF Spec, CursorFollowsCompletions

-----------------------------------------------------------------------------
(* What was handed on                                                      *)

\* Some worker has run action a for event e.
Ran(e, a) == \E v \in Workers : runs[v][<<e, a>>] > 0

\* While nobody edits, every subscription is enabled and every batch was
\* loaded with all of them.
Unedited ==
    /\ enabled = Subs
    /\ live = Actions
    /\ \A v \in Workers : pc[v] \in InEvent \cup {"event"} => snapshot[v] = Subs

\* The way to "record" leads through the buffer or through a run.
PathOK(v) ==
    /\ pc[v] \in {"count", "claim", "flush"} => cur[v] \in Accumulating
    /\ pc[v] = "record" /\ cur[v] \notin Accumulating => Ran(Current(v), cur[v])

\* What is recorded as completed was run.
CompletedRan ==
    \A e \in EventId : \A a \in Actions \ Accumulating :
        <<e, a>> \in completed => Ran(e, a)

\* What is handled was drawn before, and was run for all it matches.
HandledRan ==
    \A v \in Workers : \A e \in handled[v] :
        /\ e < nextId
        /\ \A a \in Actions \ Accumulating : Matches(e, SubOf[a]) => Ran(e, a)

AttemptInv ==
    /\ DueInv
    /\ ~MayEdit => /\ Unedited
                   /\ \A v \in Workers : PathOK(v)
                   /\ CompletedRan
                   /\ HandledRan

\* Runs are only ever added, completions by RecordCompletion, handled events
\* by AdvanceCursor, and ids are drawn upwards.
LEMMA RecordSteps ==
    ASSUME TypeInv, Next
    PROVE  /\ \/ UNCHANGED runs
              \/ \E w \in Workers : ExecuteImmediate(w)
           /\ \/ completed' \subseteq completed
              \/ \E w \in Workers : RecordCompletion(w) /\ cur[w] \in live
           /\ \/ UNCHANGED handled
              \/ \E w \in Workers : AdvanceCursor(w)
           /\ nextId' >= nextId
<1> USE DEF TypeInv, TypeOK
<1>0. nextId \in Nat
  BY DispatchAssumption
<1>1. CASE \/ \E t \in EventTypes : DrawEventId(t)
           \/ \E e \in EventId : CommitEvent(e) \/ RollBackEvent(e)
  BY <1>0, <1>1 DEF DrawEventId, CommitEvent, RollBackEvent, tables, history
<1>2. CASE \E x \in Subs : SetEnabled(x) \/ DeleteSubscription(x)
  BY <1>0, <1>2 DEF SetEnabled, DeleteSubscription, events, history
<1>3. ASSUME NEW w \in Workers,
             \/ StartWorker(w)
             \/ Crash(w)
             \/ Stop(w)
             \/ \E a \in Actions : TimerFires(w, a)
             \/ Exit(w)
             \/ PollEvents(w)
             \/ Wake(w)
             \/ LoadSubscriptions(w)
             \/ TakeEvent(w)
             \/ LeaveBatch(w)
             \/ \E x \in Subs : ListActions(w, x)
             \/ \E a \in Actions : CheckCompleted(w, a)
             \/ BufferEvent(w)
             \/ CountPending(w)
             \/ ClaimInline(w)
      PROVE  UNCHANGED <<nextId, completed, runs, handled>>
  BY <1>3 DEF StartWorker, Crash, Stop, TimerFires, Exit, PollEvents, Wake,
     LoadSubscriptions, TakeEvent, LeaveBatch, ListActions, CheckCompleted,
     BufferEvent, CountPending, ClaimInline, events, tables, history
<1>4. ASSUME NEW a, Derive(a) \/ UNCHANGED events
      PROVE  nextId' >= nextId
  BY <1>0, <1>4 DEF Derive, events
<1>5. ASSUME NEW w \in Workers, ExecuteImmediate(w)
      PROVE  nextId' >= nextId /\ UNCHANGED <<completed, handled>>
  BY <1>4, <1>5 DEF ExecuteImmediate, tables
<1>6. ASSUME NEW w \in Workers, NEW f \in flushes[w], FinishFlush(w, f)
      PROVE  nextId' >= nextId /\ UNCHANGED <<completed, runs, handled>>
  BY <1>4, <1>6 DEF FinishFlush, tables
<1>7. ASSUME NEW w \in Workers, RecordCompletion(w)
      PROVE  /\ UNCHANGED <<nextId, runs, handled>>
             /\ cur[w] \in live \/ UNCHANGED completed
  BY <1>7 DEF RecordCompletion, events
<1>8. ASSUME NEW w \in Workers, AdvanceCursor(w)
      PROVE  UNCHANGED <<nextId, completed, runs>>
  BY <1>8 DEF AdvanceCursor, events
<1> HIDE DEF TypeInv, TypeOK
<1> QED
  BY <1>0, <1>1, <1>2, <1>3, <1>5, <1>6, <1>7, <1>8 DEF Next, LoopStep

\* An action that was run stays run.
LEMMA RanStays ==
    ASSUME TypeInv, Next, NEW e \in EventId, NEW a \in Actions, Ran(e, a)
    PROVE  Ran(e, a)'
<1>1. PICK v \in Workers : runs[v][<<e, a>>] > 0
  BY DEF Ran
<1>2. runs \in [Workers -> [Pair -> Nat]] /\ <<e, a>> \in Pair
  BY DEF TypeInv, TypeOK, Pair
<1>3. runs'[v][<<e, a>>] >= runs[v][<<e, a>>]
  <2>1. CASE UNCHANGED runs
    BY <1>2, <2>1
  <2>2. ASSUME NEW w \in Workers, ExecuteImmediate(w)
        PROVE  runs'[v][<<e, a>>] >= runs[v][<<e, a>>]
    <3>1. runs' = [runs EXCEPT ![w][<<Current(w), cur[w]>>] = @ + 1]
      BY <2>2 DEF ExecuteImmediate
    <3> QED
      BY <1>2, <3>1
  <2> QED
    BY <2>1, <2>2, RecordSteps
<1>4. runs' \in [Workers -> [Pair -> Nat]]
  BY TypeInvNext DEF TypeInv, TypeOK
<1>5. runs'[v][<<e, a>>] > 0
  BY <1>1, <1>2, <1>3, <1>4
<1> QED
  BY <1>5 DEF Ran

\* The action that ExecuteImmediate has in hand was run by it.
LEMMA ExecuteRuns ==
    ASSUME TypeInv, NEW w \in Workers, ExecuteImmediate(w)
    PROVE  Ran(Current(w), cur[w])'
<1>1. pc[w] = "run" /\ runs' = [runs EXCEPT ![w][<<Current(w), cur[w]>>] = @ + 1]
      /\ UNCHANGED <<batch, cur>>
  BY DEF ExecuteImmediate
<1>2. Current(w) \in EventId /\ cur[w] \in Actions
  BY <1>1, CurrentInBatch DEF TypeInv, EventInHand, ActionInHand, InEvent, InAction
<1>3. runs \in [Workers -> [Pair -> Nat]] /\ <<Current(w), cur[w]>> \in Pair
  BY <1>2 DEF TypeInv, TypeOK, Pair
<1>4. runs'[w][<<Current(w), cur[w]>>] = runs[w][<<Current(w), cur[w]>>] + 1
  BY <1>1, <1>3
<1>5. runs'[w][<<Current(w), cur[w]>>] > 0
  BY <1>3, <1>4
<1>6. Current(w)' = Current(w) /\ cur'[w] = cur[w]
  BY <1>1 DEF Current
<1> QED
  BY <1>5, <1>6 DEF Ran

LEMMA UneditedNext ==
    ASSUME TypeInv, Next, ~MayEdit, Unedited
    PROVE  Unedited'
<1> USE DEF TypeInv, TypeOK
<1>1. UNCHANGED <<enabled, live>>
  <2>1. CASE \/ \E t \in EventTypes : DrawEventId(t)
             \/ \E e \in EventId : CommitEvent(e) \/ RollBackEvent(e)
    BY <2>1 DEF DrawEventId, CommitEvent, RollBackEvent, tables
  <2>2. CASE \E x \in Subs : SetEnabled(x) \/ DeleteSubscription(x)
    BY <2>2 DEF SetEnabled, DeleteSubscription
  <2>3. ASSUME NEW w \in Workers,
               \/ StartWorker(w)
               \/ Crash(w)
               \/ Stop(w)
               \/ \E a \in Actions : TimerFires(w, a)
               \/ \E f \in flushes[w] : FinishFlush(w, f)
               \/ Exit(w)
               \/ PollEvents(w)
               \/ Wake(w)
               \/ LoadSubscriptions(w)
               \/ TakeEvent(w)
               \/ LeaveBatch(w)
        PROVE  UNCHANGED <<enabled, live>>
    BY <2>3 DEF StartWorker, Crash, Stop, TimerFires, FinishFlush, Exit,
       PollEvents, Wake, LoadSubscriptions, TakeEvent, LeaveBatch, tables
  <2>4. ASSUME NEW w \in Workers,
               \/ \E x \in Subs : ListActions(w, x)
               \/ \E a \in Actions : CheckCompleted(w, a)
               \/ ExecuteImmediate(w)
               \/ BufferEvent(w)
               \/ CountPending(w)
               \/ ClaimInline(w)
               \/ RecordCompletion(w)
               \/ AdvanceCursor(w)
        PROVE  UNCHANGED <<enabled, live>>
    BY <2>4 DEF ListActions, CheckCompleted, ExecuteImmediate, BufferEvent,
       CountPending, ClaimInline, RecordCompletion, AdvanceCursor, tables
  <2> HIDE DEF TypeInv, TypeOK
  <2> QED
    BY <2>1, <2>2, <2>3, <2>4 DEF Next, LoopStep
<1>2. ASSUME NEW v \in Workers, pc'[v] \in InEvent \cup {"event"}
      PROVE  snapshot'[v] = Subs
  <2>1. CASE Own(v)' = Own(v)
    BY <1>2, <2>1 DEF Own, Unedited
  <2>2. CASE \/ StartWorker(v)
             \/ Die(v) /\ UNCHANGED <<cursor, runs>>
             \/ Exit(v)
             \/ PollEvents(v)
             \/ Wake(v)
             \/ LeaveBatch(v)
    BY <1>2, <2>2 DEF StartWorker, Die, LoseMemory, Exit, PollEvents, Wake,
       LeaveBatch, InEvent
  <2>3. CASE LoadSubscriptions(v)
    BY <2>3 DEF LoadSubscriptions, Unedited
  <2>4. CASE \/ TakeEvent(v)
             \/ \E x \in Subs : ListActions(v, x)
             \/ \E a \in Actions : CheckCompleted(v, a)
             \/ ExecuteImmediate(v)
             \/ BufferEvent(v) /\ cur[v] \in live
             \/ CountPending(v)
             \/ ClaimInline(v)
             \/ RecordCompletion(v) /\ cur[v] \in live
             \/ AdvanceCursor(v)
    BY <2>4 DEF TakeEvent, ListActions, CheckCompleted, ExecuteImmediate,
       BufferEvent, CountPending, ClaimInline, RecordCompletion, AdvanceCursor,
       InEvent, Unedited
  <2>5. ASSUME NEW f \in flushes[v], f.inline, FinishFlush(v, f)
        PROVE  snapshot'[v] = Subs
    BY <2>5 DEF FinishFlush, OneInlineFlush, InEvent, Unedited
  <2> QED
    BY <2>1, <2>2, <2>3, <2>4, <2>5, OwnSteps
<1> QED
  BY <1>1, <1>2 DEF Unedited

LEMMA PathNext ==
    ASSUME TypeInv, Next, NEW v \in Workers, PathOK(v)
    PROVE  PathOK(v)'
<1>1. CASE Own(v)' = Own(v)
  <2>1. pc'[v] = pc[v] /\ batch'[v] = batch[v] /\ cur'[v] = cur[v]
    BY <1>1 DEF Own
  <2>2. Current(v)' = Current(v)
    BY <2>1 DEF Current
  <2>3. ASSUME pc[v] = "record", cur[v] \notin Accumulating
        PROVE  Ran(Current(v), cur[v])'
    <3>1. Current(v) \in EventId /\ cur[v] \in Actions
      BY <2>3, CurrentInBatch
         DEF TypeInv, EventInHand, ActionInHand, InEvent, InAction
    <3>2. PICK e \in EventId, a \in Actions : e = Current(v) /\ a = cur[v]
      BY <3>1
    <3>3. Ran(e, a)
      BY <2>3, <3>2 DEF PathOK
    <3>4. Ran(e, a)'
      BY <3>3, RanStays
    <3> QED
      BY <2>1, <2>2, <3>2, <3>4 DEF Ran
  <2> QED
    BY <2>1, <2>3 DEF PathOK
<1>2. CASE \/ StartWorker(v)
           \/ Die(v) /\ UNCHANGED <<cursor, runs>>
           \/ Exit(v)
           \/ PollEvents(v)
           \/ Wake(v)
           \/ LoadSubscriptions(v)
           \/ TakeEvent(v)
           \/ LeaveBatch(v)
           \/ \E x \in Subs : ListActions(v, x)
           \/ \E a \in Actions : CheckCompleted(v, a)
           \/ RecordCompletion(v) /\ cur[v] \in live
           \/ AdvanceCursor(v)
  <2>1. pc'[v] \notin {"count", "claim", "flush", "record"}
    BY <1>2 DEF StartWorker, Die, LoseMemory, Exit, PollEvents, Wake,
       LoadSubscriptions, TakeEvent, LeaveBatch, ListActions, CheckCompleted,
       RecordCompletion, AdvanceCursor, TypeInv, TypeOK
  <2> QED
    BY <2>1 DEF PathOK
<1>3. CASE ExecuteImmediate(v)
  BY <1>3, ExecuteRuns DEF ExecuteImmediate, PathOK, TypeInv, TypeOK
<1>4. CASE \/ BufferEvent(v) /\ cur[v] \in live
           \/ CountPending(v)
           \/ ClaimInline(v)
           \/ \E f \in flushes[v] : f.inline /\ FinishFlush(v, f)
  <2>1. cur[v] \in Accumulating /\ cur' = cur
    BY <1>4 DEF BufferEvent, CountPending, ClaimInline, FinishFlush, PathOK,
       TypeInv, OneInlineFlush
  <2> QED
    BY <2>1 DEF PathOK
<1> QED
  BY <1>1, <1>2, <1>3, <1>4, OwnSteps

LEMMA CompletedRanNext ==
    ASSUME TypeInv, Next, CompletedRan, \A v \in Workers : PathOK(v)
    PROVE  CompletedRan'
<1> SUFFICES ASSUME NEW e \in EventId, NEW a \in Actions \ Accumulating,
                    <<e, a>> \in completed'
             PROVE  Ran(e, a)'
  BY DEF CompletedRan
<1>1. CASE <<e, a>> \in completed
  BY <1>1, RanStays DEF CompletedRan
<1>2. ASSUME NEW w \in Workers, RecordCompletion(w), cur[w] \in live,
             <<e, a>> \notin completed
      PROVE  Ran(e, a)'
  <2>1. pc[w] = "record" /\ e = Current(w) /\ a = cur[w]
    BY <1>2 DEF RecordCompletion, CompletionKey
  <2>2. Ran(e, a)
    BY <2>1 DEF PathOK
  <2> QED
    BY <2>2, RanStays
<1> QED
  BY <1>1, <1>2, RecordSteps

LEMMA HandledRanNext ==
    ASSUME DueInv, Next, Unedited, CompletedRan, HandledRan
    PROVE  HandledRan'
<1> USE DEF DueInv, SkipInv, TypeInv
<1> SUFFICES ASSUME NEW v \in Workers, NEW e \in handled'[v]
             PROVE  /\ e < nextId'
                    /\ \A a \in Actions \ Accumulating :
                          Matches(e, SubOf[a])' => Ran(e, a)'
  BY DEF HandledRan
<1>1. nextId \in Nat /\ nextId' >= nextId /\ nextId' \in Nat
  BY RecordSteps, TypeInvNext, DispatchAssumption DEF TypeOK
<1>2. /\ e \in EventId
      /\ e < nextId
      /\ \A a \in Actions \ Accumulating : Matches(e, SubOf[a]) => Ran(e, a)
  <2>1. CASE e \in handled[v]
    BY <2>1 DEF HandledRan, TypeOK
  <2>2. ASSUME NEW w \in Workers, AdvanceCursor(w), e \notin handled[v]
        PROVE  /\ e \in EventId
               /\ e < nextId
               /\ \A a \in Actions \ Accumulating :
                     Matches(e, SubOf[a]) => Ran(e, a)
    <3>1. e = Current(w) /\ pc[w] = "sub" /\ subsLeft[w] = {} /\ actsLeft[w] = {}
      BY <2>2 DEF AdvanceCursor, TypeOK
    <3>2. batch[w] # {}
      BY <3>1 DEF EventInHand, InEvent
    <3>3. e \in EventId /\ e < nextId
      BY <3>1, <3>2, CurrentInBatch DEF IdsDrawn
    <3>4. ASSUME NEW a \in Actions \ Accumulating, Matches(e, SubOf[a])
          PROVE  Ran(e, a)
      <4>1. a \in ActionsDue(w)
        BY <3>1, <3>4, DispatchAssumption DEF Unedited, ActionsDue, InEvent
      <4>2. <<e, a>> \in completed
        BY <3>1, <4>1 DEF DueOK, InEvent, InAction
      <4> QED
        BY <3>3, <4>2 DEF CompletedRan
    <3> QED
      BY <3>3, <3>4
  <2> QED
    BY <2>1, <2>2, RecordSteps
<1>3. etype'[e] = etype[e]
  BY <1>2, TableSteps
<1>4. e < nextId'
  BY <1>1, <1>2 DEF EventId
<1>5. ASSUME NEW a \in Actions \ Accumulating, Matches(e, SubOf[a])'
      PROVE  Ran(e, a)'
  BY <1>2, <1>3, <1>5, RanStays DEF Matches
<1> QED
  BY <1>4, <1>5

\* At least once, from end to end: whatever is behind a cursor was handed to each
\* immediate action whose subscription matches it, by this worker or another,
\* for any number of workers, events and crashes (_poll_and_process).
THEOREM AttemptsBehindCursor == Spec => []AttemptedBehindCursor
<1>1. Init => AttemptInv
  <2> SUFFICES ASSUME Init PROVE AttemptInv
    OBVIOUS
  <2>1. DueInv
    BY DueInvInit
  <2>2. Unedited /\ \A v \in Workers : PathOK(v)
    BY DEF Init, Unedited, PathOK, InEvent
  <2>3. CompletedRan /\ HandledRan
    BY DEF Init, CompletedRan, HandledRan
  <2> QED
    BY <2>1, <2>2, <2>3 DEF AttemptInv
<1>2. AttemptInv /\ [Next]_vars => AttemptInv'
  <2> SUFFICES ASSUME AttemptInv, [Next]_vars PROVE AttemptInv'
    OBVIOUS
  <2>1. DueInv /\ TypeInv /\ DueInv'
    BY DueInvNext DEF AttemptInv, DueInv, SkipInv
  <2>2. CASE Next /\ ~MayEdit
    <3>1. Unedited /\ CompletedRan /\ HandledRan /\ \A v \in Workers : PathOK(v)
      BY <2>2 DEF AttemptInv
    <3>2. Unedited' /\ CompletedRan' /\ HandledRan'
      BY <2>1, <2>2, <3>1, UneditedNext, CompletedRanNext, HandledRanNext
    <3>3. \A v \in Workers : PathOK(v)'
      BY <2>1, <2>2, <3>1, PathNext
    <3> QED
      BY <2>1, <3>2, <3>3 DEF AttemptInv
  <2>3. CASE MayEdit
    BY <2>1, <2>3 DEF AttemptInv
  <2>4. CASE UNCHANGED vars
    BY <2>1, <2>4 DEF AttemptInv, Unedited, PathOK, CompletedRan, HandledRan,
       Ran, Matches, Current, vars, events, tables, loop, history
  <2> QED
    BY <2>2, <2>3, <2>4
<1>3. AttemptInv => AttemptedBehindCursor
  BY DEF AttemptInv, HandledRan, Ran, AttemptedBehindCursor
<1> QED
  BY <1>1, <1>2, <1>3, PTL DEF Spec

-----------------------------------------------------------------------------
(* How much is buffered                                                    *)

\* Below the threshold but for one entry per crash, and for the one that
\* worker v has just added and not counted or claimed yet.
RoomOK(v) ==
    \A a \in Accumulating : Threshold[a] \in 1..ClaimLimit =>
        /\ Cardinality(Pending(a)) <= Threshold[a] + crashes[v]
        /\ ~(pc[v] \in {"count", "claim"} /\ cur[v] = a) =>
              Cardinality(Pending(a)) < Threshold[a] + crashes[v]

BufferInv ==
    /\ TypeInv
    /\ IsFiniteSet(buffer)
    /\ \A v \in Workers : RoomOK(v)

LEMMA LeastNumber ==
    ASSUME NEW S \in SUBSET Nat, S # {}
    PROVE  \E m \in S : \A n \in S : m <= n
<1>1. PICK m \in S : \A n \in S : ~(<<n, m>> \in OpToRel(<, Nat))
  BY NatLessThanWellFounded, WFMin, Zenon
<1>2. OpToRel(<, Nat) = {ss \in Nat \X Nat : ss[1] < ss[2]}
  BY Zenon DEF OpToRel
<1>3. ASSUME NEW n \in S PROVE m <= n
  <2>1. <<n, m>> \in Nat \X Nat
    OBVIOUS
  <2>2. ~(n < m)
    BY <1>1, <1>2, <2>1
  <2> QED
    BY <2>2
<1> QED
  BY <1>3

\* claim_batch takes all entries of an action, or as many as its limit allows.
LEMMA ClaimLeaves ==
    ASSUME TypeOK, IsFiniteSet(buffer), NEW a \in Actions
    PROVE  \/ Pending(a) \ Claimable(a) = {}
           \/ Cardinality(Pending(a) \ Claimable(a)) + ClaimLimit
                <= Cardinality(Pending(a))
<1> DEFINE P == Pending(a)
           C == Claimable(a)
           Older(x) == {y \in P : y.id < x.id}
<1> SUFFICES ASSUME P \ C # {} PROVE Cardinality(P \ C) + ClaimLimit <= Cardinality(P)
  OBVIOUS
<1>1. P \in SUBSET buffer /\ IsFiniteSet(P) /\ \A x \in P : x.id \in Nat
  BY FS_Subset DEF Pending, TypeOK, Entry
<1>2. C \in SUBSET P /\ \A x \in P : x \in C <=> Cardinality(Older(x)) < ClaimLimit
  BY DEF Claimable
<1>3. PICK x \in P \ C : \A y \in P \ C : x.id <= y.id
  <2> DEFINE S == {y.id : y \in P \ C}
  <2>1. S \in SUBSET Nat /\ S # {}
    BY <1>1
  <2>2. PICK m \in S : \A n \in S : m <= n
    BY <2>1, LeastNumber
  <2> QED
    BY <2>2
<1>4. Older(x) \in SUBSET C
  BY <1>1, <1>3
<1>5. IsFiniteSet(C) /\ IsFiniteSet(Older(x))
  BY <1>1, <1>2, <1>4, FS_Subset
<1>6. Cardinality(Older(x)) >= ClaimLimit
  BY <1>2, <1>3, <1>5, FS_CardinalityType, DispatchAssumption
<1>7. Cardinality(Older(x)) <= Cardinality(C)
  BY <1>4, <1>5, FS_Subset
<1>8. Cardinality(P \ C) = Cardinality(P) - Cardinality(C)
  <2>1. P \cap C = C
    BY <1>2
  <2> QED
    BY <1>1, <2>1, FS_Difference
<1>9. /\ Cardinality(P) \in Nat /\ Cardinality(C) \in Nat
      /\ Cardinality(Older(x)) \in Nat /\ ClaimLimit \in Nat
  BY <1>1, <1>5, FS_CardinalityType, DispatchAssumption
<1> HIDE DEF P, C, Older
<1> QED
  BY <1>6, <1>7, <1>8, <1>9

\* Only buffer_event adds to the table.
LEMMA BufferSteps ==
    ASSUME Next
    PROVE  \/ buffer' \subseteq buffer
           \/ \E w \in Workers : BufferEvent(w) /\ cur[w] \in live
  BY EntrySteps DEF DeleteSubscription, BufferEvent, Claim, FinishFlush, tables

\* A step that adds nothing keeps the room, unless worker v stops being about
\* to claim.
LEMMA RoomKept ==
    ASSUME BufferInv, TypeInv', NEW v \in Workers, buffer' \subseteq buffer,
           crashes'[v] >= crashes[v],
           \A a \in Accumulating :
               pc[v] \in {"count", "claim"} /\ cur[v] = a =>
                   \/ pc'[v] \in {"count", "claim"} /\ cur'[v] = a
                   \/ crashes'[v] > crashes[v]
    PROVE  RoomOK(v)'
<1> SUFFICES ASSUME NEW a \in Accumulating, Threshold[a] \in 1..ClaimLimit
             PROVE  /\ Cardinality(Pending(a)') <= Threshold[a] + crashes'[v]
                    /\ ~(pc'[v] \in {"count", "claim"} /\ cur'[v] = a) =>
                          Cardinality(Pending(a)') < Threshold[a] + crashes'[v]
  BY DEF RoomOK
<1>1. Pending(a)' \in SUBSET Pending(a) /\ Pending(a) \in SUBSET buffer
  BY DEF Pending
<1>2. IsFiniteSet(Pending(a)) /\ IsFiniteSet(Pending(a)')
  BY <1>1, FS_Subset DEF BufferInv
<1>3. /\ Cardinality(Pending(a)') <= Cardinality(Pending(a))
      /\ Cardinality(Pending(a)') \in Nat
      /\ Cardinality(Pending(a)) \in Nat
  BY <1>1, <1>2, FS_Subset, FS_CardinalityType
<1>4. Threshold[a] \in Nat /\ crashes[v] \in Nat /\ crashes'[v] \in Nat
  BY DispatchAssumption DEF BufferInv, TypeInv, TypeOK
<1>5. RoomOK(v)
  BY DEF BufferInv
<1>6. /\ Cardinality(Pending(a)) <= Threshold[a] + crashes[v]
      /\ ~(pc[v] \in {"count", "claim"} /\ cur[v] = a) =>
            Cardinality(Pending(a)) < Threshold[a] + crashes[v]
  BY <1>5 DEF RoomOK
<1> QED
  BY <1>3, <1>4, <1>6

LEMMA RoomNext ==
    ASSUME BufferInv, Next, NEW v \in Workers, \A w \in Workers : w = v
    PROVE  RoomOK(v)'
<1>1. TypeInv /\ TypeInv' /\ RoomOK(v) /\ crashes[v] \in Nat
  BY TypeInvNext DEF BufferInv, TypeInv, TypeOK
<1>2. ASSUME NEW a \in Accumulating, Threshold[a] \in 1..ClaimLimit
      PROVE  /\ Cardinality(Pending(a)) \in Nat
             /\ IsFiniteSet(Pending(a))
             /\ Threshold[a] \in Nat
             /\ Cardinality(Pending(a)) <= Threshold[a] + crashes[v]
             /\ ~(pc[v] \in {"count", "claim"} /\ cur[v] = a) =>
                   Cardinality(Pending(a)) < Threshold[a] + crashes[v]
  <2>1. Pending(a) \in SUBSET buffer
    BY DEF Pending
  <2> QED
    BY <1>1, <1>2, <2>1, FS_Subset, FS_CardinalityType DEF BufferInv, RoomOK
<1>3. CASE BufferEvent(v) /\ cur[v] \in live
  <2>1. /\ pc[v] = "run" /\ pc'[v] = "count" /\ UNCHANGED <<cur, crashes>>
        /\ buffer' = buffer \cup
             {[id |-> nextEntry, act |-> cur[v], event |-> Current(v)]}
    BY <1>1, <1>3 DEF BufferEvent, TypeInv, TypeOK
  <2> DEFINE x == [id |-> nextEntry, act |-> cur[v], event |-> Current(v)]
  <2>2. ASSUME NEW a \in Accumulating, Threshold[a] \in 1..ClaimLimit
        PROVE  /\ Cardinality(Pending(a)') <= Threshold[a] + crashes'[v]
               /\ ~(pc'[v] \in {"count", "claim"} /\ cur'[v] = a) =>
                     Cardinality(Pending(a)') < Threshold[a] + crashes'[v]
    <3>1. CASE cur[v] = a
      <4>1. Pending(a)' = Pending(a) \cup {x}
        BY <2>1, <3>1 DEF Pending
      <4>0. IsFiniteSet(Pending(a)) /\ Cardinality(Pending(a)) \in Nat
        BY <1>2, <2>2
      <4>2. Cardinality(Pending(a)') <= Cardinality(Pending(a)) + 1
        <5>1. Cardinality(Pending(a)') =
                IF x \in Pending(a) THEN Cardinality(Pending(a))
                                    ELSE Cardinality(Pending(a)) + 1
          BY <4>0, <4>1, FS_AddElement
        <5> HIDE DEF x
        <5> QED
          BY <4>0, <5>1
      <4>3. Cardinality(Pending(a)') \in Nat
        BY <1>2, <2>2, <4>1, FS_AddElement, FS_CardinalityType
      <4> HIDE DEF x
      <4> QED
        BY <1>1, <1>2, <2>1, <2>2, <3>1, <4>2, <4>3
    <3>2. CASE cur[v] # a
      <4>1. Pending(a)' = Pending(a)
        BY <2>1, <3>2 DEF Pending
      <4> QED
        BY <1>1, <1>2, <2>1, <2>2, <3>2, <4>1
    <3> QED
      BY <3>1, <3>2
  <2> QED
    BY <2>2 DEF RoomOK
<1>4. ASSUME CountPending(v), ~ThresholdReached(cur[v]) PROVE RoomOK(v)'
  <2>1. /\ pc[v] = "count" /\ pc'[v] = "record"
        /\ UNCHANGED <<buffer, cur, crashes>>
    BY <1>1, <1>4 DEF CountPending, TypeInv, TypeOK, tables, history
  <2>2. ASSUME NEW a \in Accumulating, Threshold[a] \in 1..ClaimLimit
        PROVE  Cardinality(Pending(a)') < Threshold[a] + crashes'[v]
    <3>1. Pending(a)' = Pending(a)
      BY <2>1 DEF Pending
    <3>2. CASE cur[v] = a
      <4>1. Cardinality(Pending(a)) < Threshold[a]
        BY <1>2, <1>4, <2>2, <3>2 DEF ThresholdReached
      <4> QED
        BY <1>1, <1>2, <2>1, <2>2, <3>1, <4>1
    <3>3. CASE cur[v] # a
      BY <1>1, <1>2, <2>1, <2>2, <3>1, <3>3
    <3> QED
      BY <3>2, <3>3
  <2>3. ASSUME NEW a \in Accumulating, Threshold[a] \in 1..ClaimLimit
        PROVE  Cardinality(Pending(a)') <= Threshold[a] + crashes'[v]
    <3>1. Pending(a)' = Pending(a)
      BY <2>1 DEF Pending
    <3> QED
      BY <1>1, <1>2, <2>1, <2>3, <3>1
  <2> QED
    BY <2>2, <2>3 DEF RoomOK
<1>5. ASSUME ClaimInline(v) PROVE RoomOK(v)'
  <2>1. /\ pc[v] = "claim" /\ UNCHANGED <<cur, crashes>>
        /\ buffer' = buffer \ Claimable(cur[v])
    BY <1>5 DEF ClaimInline, Claim, history
  <2>2. cur[v] \in Actions
    BY <1>1, <2>1 DEF TypeInv, ActionInHand, InEvent, InAction
  <2>3. ASSUME NEW a \in Accumulating, Threshold[a] \in 1..ClaimLimit
        PROVE  /\ Cardinality(Pending(a)') \in Nat
               /\ Cardinality(Pending(a)') < Threshold[a] + crashes'[v]
    <3>1. CASE cur[v] = a
      <4>1. Pending(a)' = Pending(a) \ Claimable(a)
        BY <2>1, <3>1 DEF Pending
      <4>2. \/ Pending(a)' = {}
            \/ Cardinality(Pending(a)') + ClaimLimit <= Cardinality(Pending(a))
        BY <1>1, <2>2, <3>1, <4>1, ClaimLeaves DEF BufferInv, TypeInv
      <4>3. Cardinality(Pending(a)') \in Nat
        BY <1>2, <2>3, <4>1, FS_Difference, FS_CardinalityType
      <4>4. Pending(a)' = {} => Cardinality(Pending(a)') = 0
        BY FS_EmptySet
      <4>5. ClaimLimit \in Nat /\ Threshold[a] >= 1 /\ Threshold[a] <= ClaimLimit
        BY <1>2, <2>3, DispatchAssumption
      <4> QED
        BY <1>1, <1>2, <2>1, <2>3, <4>2, <4>3, <4>4, <4>5
    <3>2. CASE cur[v] # a
      <4>1. Pending(a)' = Pending(a)
        BY <2>1, <3>2 DEF Pending, Claimable
      <4> QED
        BY <1>1, <1>2, <2>1, <2>3, <3>2, <4>1
    <3> QED
      BY <3>1, <3>2
  <2>4. ASSUME NEW a \in Accumulating, Threshold[a] \in 1..ClaimLimit
        PROVE  Cardinality(Pending(a)') <= Threshold[a] + crashes'[v]
    BY <1>1, <1>2, <2>1, <2>3, <2>4
  <2> QED
    BY <2>3, <2>4 DEF RoomOK
<1>6. ASSUME buffer' \subseteq buffer,
             ~ClaimInline(v),
             ~(CountPending(v) /\ ~ThresholdReached(cur[v]))
      PROVE  RoomOK(v)'
  <2>1. CASE Own(v)' = Own(v)
    BY <1>1, <1>6, <2>1, RoomKept DEF Own
  <2>2. CASE Die(v)
    <3>1. crashes'[v] = crashes[v] + 1
      BY <1>1, <2>2 DEF Die, TypeInv, TypeOK
    <3> QED
      BY <1>1, <1>6, <3>1, RoomKept
  <2>3. CASE \/ StartWorker(v)
             \/ Exit(v)
             \/ PollEvents(v)
             \/ Wake(v)
             \/ LoadSubscriptions(v)
             \/ TakeEvent(v)
             \/ LeaveBatch(v)
             \/ \E x \in Subs : ListActions(v, x)
             \/ \E a \in Actions : CheckCompleted(v, a)
             \/ ExecuteImmediate(v)
             \/ BufferEvent(v) /\ cur[v] \in live
             \/ \E f \in flushes[v] : f.inline /\ FinishFlush(v, f)
             \/ RecordCompletion(v) /\ cur[v] \in live
             \/ AdvanceCursor(v)
    <3>1. pc[v] \notin {"count", "claim"}
      BY <1>1, <2>3 DEF StartWorker, Exit, PollEvents, Wake,
         LoadSubscriptions, TakeEvent, LeaveBatch, ListActions,
         CheckCompleted, ExecuteImmediate, BufferEvent, FinishFlush,
         RecordCompletion, AdvanceCursor, TypeInv, OneInlineFlush
    <3>2. UNCHANGED crashes
      BY <2>3 DEF StartWorker, Exit, PollEvents, Wake,
         LoadSubscriptions, TakeEvent, LeaveBatch, ListActions,
         CheckCompleted, ExecuteImmediate, BufferEvent, FinishFlush,
         RecordCompletion, AdvanceCursor, history
    <3> QED
      BY <1>1, <1>6, <3>1, <3>2, RoomKept
  <2>4. CASE CountPending(v) /\ ThresholdReached(cur[v])
    <3>1. pc'[v] = "claim" /\ UNCHANGED <<cur, crashes>>
      BY <1>1, <2>4 DEF CountPending, TypeInv, TypeOK, history
    <3> QED
      BY <1>1, <1>6, <3>1, RoomKept
  <2> QED
    BY <1>1, <1>6, <2>1, <2>2, <2>3, <2>4, OwnSteps
<1> QED
  BY <1>3, <1>4, <1>5, <1>6, BufferSteps

\* What waits for the accumulating actions of a single worker never exceeds their
\* thresholds by more than one entry per crash, whichever of inline flushes and
\* timers claims it (_buffer_or_flush, PgDispatchBackend.claim_batch).  Two workers
\* can both buffer before either counts, so it is about one.
THEOREM BufferStaysBounded ==
    ASSUME \A v, w \in Workers : v = w
    PROVE  Spec => []BufferBounded
<1>1. Init => BufferInv
  <2> SUFFICES ASSUME Init PROVE BufferInv
    OBVIOUS
  <2>1. TypeInv /\ IsFiniteSet(buffer)
    BY TypeInvInit, FS_EmptySet DEF Init
  <2>2. ASSUME NEW v \in Workers PROVE RoomOK(v)
    <3>1. \A a : Pending(a) = {}
      BY DEF Init, Pending
    <3>2. crashes[v] = 0
      BY DEF Init
    <3>3. \A a \in Accumulating : Threshold[a] \in 1..ClaimLimit =>
              0 < Threshold[a] + crashes[v]
      BY <3>2, DispatchAssumption
    <3>4. \A a \in Accumulating : Threshold[a] \in 1..ClaimLimit =>
              0 <= Threshold[a] + crashes[v]
      BY <3>2, DispatchAssumption
    <3>5. \A a : Cardinality(Pending(a)) = 0
      BY <3>1, FS_EmptySet
    <3> QED
      BY <3>3, <3>4, <3>5 DEF RoomOK
  <2> QED
    BY <2>1, <2>2 DEF BufferInv
<1>2. BufferInv /\ [Next]_vars => BufferInv'
  <2> SUFFICES ASSUME BufferInv, [Next]_vars PROVE BufferInv'
    OBVIOUS
  <2>1. TypeInv'
    BY TypeInvNext DEF BufferInv
  <2>2. CASE Next
    <3>1. \A v \in Workers : RoomOK(v)'
      BY <2>2, RoomNext
    <3>2. IsFiniteSet(buffer')
      <4>1. CASE buffer' \subseteq buffer
        BY <4>1, FS_Subset DEF BufferInv
      <4>2. ASSUME NEW w \in Workers, BufferEvent(w), cur[w] \in live
            PROVE  IsFiniteSet(buffer')
        BY <4>2, FS_AddElement DEF BufferEvent, BufferInv
      <4> QED
        BY <2>2, <4>1, <4>2, BufferSteps
    <3> QED
      BY <2>1, <3>1, <3>2 DEF BufferInv
  <2>3. CASE UNCHANGED vars
    BY <2>1, <2>3 DEF BufferInv, RoomOK, Pending, vars, tables, loop, history
  <2> QED
    BY <2>2, <2>3
<1>3. BufferInv => BufferBounded
  BY DEF BufferInv, RoomOK, BufferBounded
<1> QED
  BY <1>1, <1>2, <1>3, PTL DEF Spec
=============================================================================
