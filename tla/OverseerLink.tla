---------------------------- MODULE OverseerLink ----------------------------
(***************************************************************************)
(* How the tasks of a run reach the Overseer: _accumulate_cost appends     *)
(* budget events, _send_budget_events and the escalation of a task send    *)
(* them through _send_overseer_event, and OverseerAdapter verifies what    *)
(* the Overseer's session answers, three times at most.  Without an        *)
(* Overseer, or once HealthMonitor has it down as degraded for the type of *)
(* event, a fallback handler acts instead.  A session that has used up its *)
(* context is handed off to a new one.                                     *)
(*                                                                         *)
(* The tasks of a parallel group run this code at the same time, on one    *)
(* adapter, one session and one list of pending events per kind.           *)
(***************************************************************************)
EXTENDS Naturals, Sequences, FiniteSets

CONSTANTS
    Task,
    Budget,        \* budget of each task, in units of cost
    Costs,         \* bound: the costs an attempt may have
    MaxAttempts,   \* task.max_attempts
    Window,        \* HealthMonitor's window_size (10 in the code)
    ContextLimit,  \* messages after which a session must be handed off
    Answers,       \* bound: what the Overseer may answer
    MaxSessions    \* bound: sessions created

ASSUME OverseerLinkAssumption ==
    /\ {Budget} \cup Costs \subseteq Nat
    /\ {MaxAttempts, Window, ContextLimit, MaxSessions} \subseteq Nat \ {0}

VARIABLES
    headless,   \* _overseer_interface is None
    task,       \* what each task is doing
    pending,    \* _budget_threshold_events and _budget_exhausted_events
    window,     \* HealthMonitor._windows
    previous,   \* OverseerAdapter._previous_tool_calls
    session,    \* the adapter's session
    known,      \* per session: the events its history tells of
    used,       \* per session: messages sent
    sinks,      \* how often each event was dispatched to the overseer sinks
    traced,     \* events a fallback wrote to the trace
    reviewed,   \* events for which a fallback created an inbox item
    overlapped  \* observation: a handoff overlapped a send or a handoff

ovVars == <<headless, task, pending, window, previous, session, known, used,
            sinks, traced, reviewed, overlapped>>

BudgetKind == {"BudgetThresholdCrossed", "BudgetExhausted"}
Kind == BudgetKind \cup {"TaskEscalated"}
Event == [task : Task, kind : Kind, attempt : 1 .. MaxAttempts]
Session == 1 .. MaxSessions

NewTask == [pc |-> "run", attempt |-> 1, spent |-> 0, todo |-> {},
            next |-> "run", tries |-> 0, session |-> 0, issued |-> {}]

OvInit ==
    /\ headless \in BOOLEAN
    /\ task = [t \in Task |-> NewTask]
    /\ pending = [k \in BudgetKind |-> {}]
    /\ window = [k \in Kind |-> <<>>]
    /\ previous = [k \in Kind |-> "none"]
    /\ session = 1
    /\ known = [s \in Session |-> {}]
    /\ used = [s \in Session |-> 0]
    /\ sinks = [e \in Event |-> 0]
    /\ traced = {}
    /\ reviewed = {}
    /\ overlapped = FALSE

link == <<window, previous, session, known, used, overlapped>>

-----------------------------------------------------------------------------
(* HealthMonitor                                                           *)

Count(w, S) == Cardinality({i \in DOMAIN w : w[i] \in S})

\* is_degraded, with the default threshold of 0.3.
Degraded(k) ==
    LET w == window[k]
        Above(S) == 10 * Count(w, S) > 3 * Len(w)
    IN  Above({"bad", "repeated"}) \/ Above({"repeated"}) \/ Above({"bad"})

\* record_event: a deque of at most Window outcomes.
Recorded(w, outcome) ==
    LET v == Append(w, outcome)
    IN  IF Len(v) > Window THEN Tail(v) ELSE v

-----------------------------------------------------------------------------
(* Budget events                                                           *)

\* _accumulate_cost: 80% of the budget was not yet spent before this attempt.
Crosses(spent, cost) ==
    /\ 10 * (spent + cost) >= 8 * Budget
    /\ 10 * spent < 8 * Budget

\* A list of events as a set: a task appends at most one event to a list in an
\* attempt, and nobody looks at the order of different tasks' events.
OwnEvents(list, t) == {e \in list : e.task = t}

\* An attempt is over: its cost is added, what that means is appended, and
\* _send_budget_events starts to iterate over the first list.  It skips the
\* events of other tasks, and no event of this task is appended while it is
\* at it, so that what it will send is settled, whoever replaces the list.
Accumulate(t, cost) ==
    LET e(k) == [task |-> t, kind |-> k, attempt |-> task[t].attempt]
        crossed == Crosses(task[t].spent, cost)
        exhausted == task[t].spent + cost >= Budget
        T == "BudgetThresholdCrossed"
        E == "BudgetExhausted"
    IN  /\ task[t].pc = "run"
        /\ pending' = [pending EXCEPT
              ![T] = IF crossed THEN @ \cup {e(T)} ELSE @,
              ![E] = IF exhausted THEN @ \cup {e(E)} ELSE @]
        /\ task' = [task EXCEPT
              ![t].pc = "loop", ![t].next = T,
              ![t].todo = OwnEvents(pending'[T], t),
              ![t].spent = @ + cost,
              ![t].issued = @ \cup {e(k) : k \in
                    (IF crossed THEN {T} ELSE {}) \cup
                    (IF exhausted THEN {E} ELSE {})}]
        /\ UNCHANGED <<headless, link, sinks, traced, reviewed>>

\* Mutant: the whole list is dropped.
FilteredAll(k, t) == {}

\* The list without the events of this task.
Filtered(k, t) == {e \in pending[k] : e.task # t}

\* The loop ends: the list is replaced, and the other one is next.
EndLoop(t) ==
    LET k == task[t].next
    IN  /\ task[t].pc = "loop" /\ task[t].todo = {}
        /\ k # "TaskEscalated"
        /\ pending' = [pending EXCEPT ![k] = Filtered(k, t)]
        /\ task' = IF k = "BudgetExhausted"
                   THEN [task EXCEPT ![t].pc = "checked"]
                   ELSE [task EXCEPT
                           ![t].next = "BudgetExhausted",
                           ![t].todo = OwnEvents(pending["BudgetExhausted"], t)]
        /\ UNCHANGED <<headless, link, sinks, traced, reviewed>>

\* The attempt succeeded, is retried, or was the last and is escalated.
Complete(t) ==
    /\ task[t].pc = "checked"
    /\ task' = [task EXCEPT ![t].pc = "done"]
    /\ UNCHANGED <<headless, pending, link, sinks, traced, reviewed>>

Retry(t) ==
    /\ task[t].pc = "checked" /\ task[t].attempt < MaxAttempts
    /\ task' = [task EXCEPT ![t].pc = "run", ![t].attempt = @ + 1]
    /\ UNCHANGED <<headless, pending, link, sinks, traced, reviewed>>

Escalate(t) ==
    LET e == [task |-> t, kind |-> "TaskEscalated", attempt |-> MaxAttempts]
    IN  /\ task[t].pc = "checked" /\ task[t].attempt = MaxAttempts
        /\ task' = [task EXCEPT ![t].pc = "loop", ![t].todo = {e},
                                ![t].next = "TaskEscalated",
                                ![t].issued = @ \cup {e}]
        /\ UNCHANGED <<headless, pending, link, sinks, traced, reviewed>>

\* The escalation is sent: the task is over.
Escalated(t) ==
    /\ task[t].pc = "loop" /\ task[t].todo = {}
    /\ task[t].next = "TaskEscalated"
    /\ task' = [task EXCEPT ![t].pc = "done"]
    /\ UNCHANGED <<headless, pending, link, sinks, traced, reviewed>>

-----------------------------------------------------------------------------
(* _send_overseer_event                                                    *)

\* The first event that is to be sent: a task's events are in the order of its
\* attempts.
Current(t) ==
    CHOOSE e \in task[t].todo : \A f \in task[t].todo : e.attempt <= f.attempt
HandingOff == \E t \in Task : task[t].pc \in {"summarise", "brief"}

\* The arguments without which create_inbox_item raises, whatever the backend.
RequiredArguments ==
    {"run_id", "decision_type", "question", "options", "assumed_option",
     "work_proceeding", "contradiction_impact"}

\* The arguments _write_to_trace passes to it.
PassedArguments == {"run_id", "decision_type", "question", "options"}

InboxCallRaises == ~(RequiredArguments \subseteq PassedArguments)

\* An event of the trace, and then an inbox item for a failure or an
\* escalation.
WriteToTrace(e) ==
    /\ traced' = traced \cup {e}
    /\ reviewed' = IF InboxCallRaises THEN reviewed ELSE reviewed \cup {e}

\* FALLBACK_BEHAVIORS: budget events keep the current allocations, which takes
\* no action.
Fallback(e) ==
    IF e.kind = "TaskEscalated" THEN WriteToTrace(e)
    ELSE UNCHANGED <<traced, reviewed>>

FallbackRaises(e) == e.kind = "TaskEscalated" /\ InboxCallRaises

\* No Overseer, or a degraded one: the fallback, then the sinks.  An exception
\* of the fallback skips the sinks and ends the task.
Substitute(t) ==
    LET e == Current(t)
    IN  /\ task[t].pc = "loop" /\ task[t].todo # {}
        /\ headless \/ Degraded(e.kind)
        /\ Fallback(e)
        /\ IF FallbackRaises(e)
           THEN /\ task' = [task EXCEPT ![t].pc = "raised"]
                /\ UNCHANGED sinks
           ELSE /\ task' = [task EXCEPT ![t].todo = @ \ {e}]
                /\ sinks' = [sinks EXCEPT ![e] = @ + 1]
        /\ UNCHANGED <<headless, pending, link>>

\* Tokens used are counted up to the limit.
Used(n) == IF n < ContextLimit THEN n + 1 ELSE n

SendTo(t, s, e) ==
    /\ known' = [known EXCEPT ![s] = @ \cup {e}]
    /\ used' = [used EXCEPT ![s] = Used(@)]
    /\ overlapped' = (overlapped \/ HandingOff)
    /\ task' = [task EXCEPT ![t].pc = "sending", ![t].tries = 1]

\* send_event on the adapter's session of the moment.
Send(t) ==
    /\ task[t].pc = "loop" /\ task[t].todo # {}
    /\ ~headless /\ ~Degraded(Current(t).kind)
    /\ SendTo(t, session, Current(t))
    /\ UNCHANGED <<headless, pending, window, previous, session, sinks, traced, reviewed>>

\* _check_repetition: the calls of the previous answer to this kind of event
\* again; "none" is an answer without calls.
Repeats(k, calls) == calls # "none" /\ previous[k] = calls

\* verify_actions on the calls of the answer: "invalid" ones fail the schema,
\* constraint or proportionality checks, others pass them.
Outcome(k, calls) ==
    IF Repeats(k, calls) THEN "repeated"
    ELSE IF calls = "invalid" THEN "bad" ELSE "ok"

\* Mutant: corrections are sent for as long as there are errors.
MoreTriesEndless(t) == TRUE

MoreTries(t) == task[t].tries < 3

\* send_correction is the next attempt.
Correct(t) == [task EXCEPT ![t].tries = (@ % 3) + 1]

\* The stream ends, and nothing runs between that and the verification: the
\* outcome is recorded, and a failed one is corrected, on the session of the
\* moment, or given up.
Answer(t, calls) ==
    LET e == Current(t)
        outcome == Outcome(e.kind, calls)
        again == outcome # "ok" /\ MoreTries(t)
    IN  /\ task[t].pc = "sending"
        /\ previous' = [previous EXCEPT ![e.kind] = calls]
        /\ window' = [window EXCEPT ![e.kind] = Recorded(@, outcome)]
        /\ task' = IF again
                   THEN Correct(t)
                   ELSE [task EXCEPT ![t].pc = "handoff", ![t].tries = 0]
        /\ used' = IF again THEN [used EXCEPT ![session] = Used(@)] ELSE used
        /\ sinks' = IF again THEN sinks ELSE [sinks EXCEPT ![e] = @ + 1]
        /\ UNCHANGED <<headless, pending, session, known, traced, reviewed, overlapped>>

\* The session raises: the exception leaves _send_overseer_event before the
\* sinks are reached, and ends the task.
SendRaises(t) ==
    /\ task[t].pc = "sending"
    /\ task' = [task EXCEPT ![t].pc = "raised"]
    /\ UNCHANGED <<headless, pending, link, sinks, traced, reviewed>>

-----------------------------------------------------------------------------
(* _check_session_handoff                                                  *)

Done(t) == [task EXCEPT ![t].pc = "loop", ![t].todo = @ \ {Current(t)}, ![t].tries = 0,
                        ![t].session = 0]

\* check_handoff_needed.  (MaxSessions bounds the sessions created.)
CheckHandoff(t) ==
    LET needed == /\ used[session] >= ContextLimit
                  /\ \E s \in Session : used[s] = 0
    IN  /\ task[t].pc = "handoff"
        /\ task' = IF needed
                   THEN [task EXCEPT ![t].pc = "summarise",
                                     ![t].session = session]
                   ELSE Done(t)
        /\ overlapped' = (overlapped \/ (needed /\ (HandingOff \/
              \E u \in Task : task[u].pc = "sending")))
        /\ UNCHANGED <<headless, pending, window, previous, session, known,
                       used, sinks, traced, reviewed>>

Summary(t) == known[task[t].session]

\* perform_handoff: the old session's summary is what the new one starts with.
Summarise(t) ==
    LET old == task[t].session
    IN  /\ task[t].pc = "summarise"
        /\ \E new \in Session :
              /\ used[new] = 0 /\ \A s \in Session : used[s] = 0 => new <= s
              /\ known' = [known EXCEPT ![new] = Summary(t)]
              /\ used' = [used EXCEPT ![old] = Used(@), ![new] = 1]
              /\ task' = [task EXCEPT ![t].pc = "brief", ![t].session = new]
        /\ UNCHANGED <<headless, pending, window, previous, session, sinks,
                       traced, reviewed, overlapped>>

\* Another handoff has used up the model's sessions.
NoSessionLeft(t) ==
    /\ task[t].pc = "summarise"
    /\ \A s \in Session : used[s] # 0
    /\ task' = Done(t)
    /\ UNCHANGED <<headless, pending, link, sinks, traced, reviewed>>

\* update_session, once the new session has answered.
Install(t) ==
    /\ task[t].pc = "brief"
    /\ session' = task[t].session
    /\ task' = Done(t)
    /\ UNCHANGED <<headless, pending, window, previous, known, used, sinks,
                   traced, reviewed, overlapped>>

-----------------------------------------------------------------------------

OvStep(t) ==
    \/ \E cost \in Costs : Accumulate(t, cost)
    \/ EndLoop(t)
    \/ Complete(t)
    \/ Retry(t)
    \/ Escalate(t)
    \/ Escalated(t)
    \/ Substitute(t)
    \/ Send(t)
    \/ \E calls \in Answers : Answer(t, calls)
    \/ SendRaises(t)
    \/ CheckHandoff(t)
    \/ Summarise(t)
    \/ NoSessionLeft(t)
    \/ Install(t)

Over == \A t \in Task : task[t].pc \in {"done", "raised"}

OvNext ==
    \/ \E t \in Task : OvStep(t)
    \/ Over /\ UNCHANGED ovVars

OvSpec == OvInit /\ [][OvNext]_ovVars

-----------------------------------------------------------------------------
(* Properties                                                              *)

\* Every event a task issues reaches the sinks exactly once, whatever mode it
\* is sent in and whatever other tasks do to the pending lists meanwhile; only
\* an exception, of the Overseer's session or of a fallback, loses one.
EventsReachSinks ==
    /\ \A t \in Task : task[t].pc = "done" =>
          \A e \in task[t].issued : sinks[e] = 1
    /\ \A e \in Event : sinks[e] <= 1

\* A task reports the threshold once, however many attempts spend more, and
\* has reported it whenever it has spent that much (a budget of nothing has no
\* threshold to cross).
ThresholdOnce ==
    \A t \in Task :
        LET T == {e \in task[t].issued : e.kind = "BudgetThresholdCrossed"}
        IN  Cardinality(T) = IF 10 * task[t].spent >= 8 * Budget
                                /\ Budget > 0 THEN 1 ELSE 0

\* An escalation leaves a mark before its task is over: it is in the history
\* of a session of the Overseer, or the trace has the fallback's record of it,
\* never both.
EscalationRecorded ==
    \A t \in Task : \A e \in task[t].issued :
        (e.kind = "TaskEscalated" /\ task[t].pc \in {"done", "raised"}) =>
            (e \in traced) # (\E s \in Session : e \in known[s])

\* An escalation that no Overseer sees is an inbox item for human review
\* (_write_to_trace: "For TaskFailed/TaskEscalated, also creates an inbox item").
EscalationReviewed == \A e \in traced : e \in reviewed

\* What the Overseer was told it still knows: the session in use has every
\* event that was sent, itself or by summary, unless a send or a second
\* handoff overlapped a handoff.
Remembered ==
    overlapped \/ \A s \in Session : used[s] > 0 /\ s <= session
                     => known[s] \subseteq known[session]

\* What became of each event is accounted for: the sinks, the budget's threshold, the
\* escalations and what the Overseer's sessions know.
EventsAccounted ==
    EventsReachSinks /\ ThresholdOnce /\ EscalationRecorded /\ Remembered
=============================================================================
