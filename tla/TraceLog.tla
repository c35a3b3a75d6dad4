------------------------------ MODULE TraceLog ------------------------------
(***************************************************************************)
(* What a StorageBackend of orxtra.trace promises about the rows that have *)
(* a life of their own: the status of a run and of a task, the event log   *)
(* that records every change of it, and the inbox.  Every operation takes  *)
(* effect at one instant, completely or not at all.                        *)
(***************************************************************************)
EXTENDS TaskStates, Naturals, Sequences

CONSTANTS
    Item,      \* inbox items
    Key        \* idempotency keys

VARIABLES
    status,    \* runs.status and tasks.status of one run and one task of it
    events,    \* the events table, in commit order
    inbox      \* inbox_items.status; "absent" before create_inbox_item

logVars == <<status, events, inbox>>

Object == {"run", "task"}
NoKey == "none"
Resolution == {"answered", "skipped", "rejected", "expired"}

Valid(o, old, new) ==
    IF o = "run" THEN ValidRunTransition(old, new)
    ELSE ValidTaskTransition(old, new)

\* The row that records a change of o's status.
Change(o, old, new) == [object |-> o, old |-> old, new |-> new, key |-> NoKey]

\* The row of write_event.
Plain(k) == [object |-> "none", old |-> "", new |-> "", key |-> k]

Init ==
    /\ status = [o \in Object |-> "created"]
    /\ events = <<>>
    /\ inbox = [i \in Item |-> "absent"]

\* A status changes together with the event that says so.
Move(o, new) ==
    /\ status' = [status EXCEPT ![o] = new]
    /\ events' = Append(events, Change(o, status[o], new))
    /\ UNCHANGED inbox

\* transition_task, transition_run: only along the tables.
Transition(o, new) == Valid(o, status[o], new) /\ Move(o, new)

\* reclaim_interrupted and clean_orphaned, which the tables do not bind.
Recover ==
    \/ /\ status["task"] \in {"active", "prechecking", "postchecking"}
       /\ Move("task", "cancelled")
    \/ /\ status["run"] \in {"running", "paused"}
       /\ Move("run", "failed")

\* write_event: a key is stored once.
WriteEvent(k) ==
    /\ k = NoKey \/ \A n \in DOMAIN events : events[n].key # k
    /\ events' = Append(events, Plain(k))
    /\ UNCHANGED <<status, inbox>>

\* create_inbox_item.
CreateItem(i) ==
    /\ inbox[i] = "absent"
    /\ inbox' = [inbox EXCEPT ![i] = "pending"]
    /\ UNCHANGED <<status, events>>

\* answer_, skip_, reject_ and expire_inbox_item, expire_due_inbox_items: only
\* pending items are resolved.
Resolve(S, to) ==
    /\ \A i \in S : inbox[i] = "pending"
    /\ inbox' = [i \in Item |-> IF i \in S THEN to ELSE inbox[i]]
    /\ UNCHANGED <<status, events>>

Next ==
    \/ \E o \in Object : \E new \in TaskState \cup RunState : Transition(o, new)
    \/ Recover
    \/ \E k \in Key \cup {NoKey} : WriteEvent(k)
    \/ \E i \in Item : CreateItem(i)
    \/ \E S \in SUBSET Item : \E to \in Resolution : Resolve(S, to)

Spec == Init /\ [][Next]_logVars

-----------------------------------------------------------------------------

\* The first n events of a log say that o has status s: the last of them about
\* o ends there.
Said(log, o, n, s) ==
    \/ s = "created" /\ \A m \in 1 .. n : log[m].object # o
    \/ \E m \in 1 .. n : /\ log[m].object = o /\ log[m].new = s
                         /\ \A l \in m + 1 .. n : log[l].object # o

\* The event log explains every status: the changes recorded for a run or a
\* task start at "created", each begins where the one before it ended, and the
\* last one ends at the status the row has now.
HistoryExplains ==
    \A o \in Object :
        /\ \A n \in DOMAIN events :
              events[n].object = o => Said(events, o, n - 1, events[n].old)
        /\ Said(events, o, Len(events), status[o])
=============================================================================
