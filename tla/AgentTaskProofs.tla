--------------------------- MODULE AgentTaskProofs --------------------------
(***************************************************************************)
(* Theorems about AgentTask, for every group of tasks, any number of       *)
(* subtasks, paths, attempts and database errors and every budget policy;  *)
(* about Checks, for every list of checks, tree and constraint; and about  *)
(* Toolset, for every allow list and set of tools.                         *)
(***************************************************************************)
EXTENDS AgentTask, Checks, Toolset, SequenceTheorems, FiniteSetTheorems,
        WellFoundedInduction, NaturalsInduction, TLAPS

USE AgentTaskAssumption

-----------------------------------------------------------------------------
(* Types and labels                                                        *)

\* What a coroutine's label says of its other variables: the tool in progress
\* has a task, a status is awaited only at a label that awaits one, and the
\* number of the attempt is within the limit where it is read.
LabelsFit(t) ==
    /\ pc[t] \in {"prechecks", "activate", "postchecks", "finish"}
          => target[t] \in Tasks
    /\ pc[t] \in {"creating", "adding"}
          => target[t] \in Kids /\ write[t] = NoWrite
    /\ write[t] # NoWrite
          => target[t] \in Tasks /\ pc[t] \in InSession \cup {"leave"}
    /\ pc[t] = "attempt" => attempt[t] <= Retry
    /\ pc[t] = "open" => attempt[t] \in Attempts
    /\ (pc[t] = "prechecks" /\ write[t] # NoWrite) => write[t] = "prechecking"
    /\ (pc[t] = "activate" /\ write[t] # NoWrite) => write[t] = "active"

TypeInv == TypeOK /\ \A t \in Roots : LabelsFit(t)

-----------------------------------------------------------------------------
(* Who works on what                                                       *)

\* The store has let t's session past created -> prechecking for u, and the
\* task is not its active task yet.
Past(t, u) ==
    /\ target[t] = u
    /\ \/ pc[t] = "prechecks" /\ write[t] = NoWrite
       \/ pc[t] = "activate"

Started(u) == traced[u] \notin {"none", "created"}

\* Whoever is past the store for a task, or has it as its active task, is the
\* only one, and the store will let nobody else past.
HolderStands ==
    /\ \A t \in Roots : \A u \in Tasks : Past(t, u) => Started(u)
    /\ \A t \in Roots : \A n \in Attempts :
          active[t][n] # NoTask => Started(active[t][n])
    /\ \A s, t \in Roots : \A u \in Tasks : Past(s, u) /\ Past(t, u) => s = t
    /\ \A s, t \in Roots : \A u \in Tasks : \A n \in Attempts :
          Past(s, u) => active[t][n] # u
    /\ OneActivation

-----------------------------------------------------------------------------
(* abort()                                                                 *)

\* Once abort() has begun nobody runs, and toCancel holds exactly the tasks
\* that are left in an active state.
AbortInv ==
    aborting \in {"running", "done"} =>
        /\ \A t \in Roots : pc[t] \in Over
        /\ \A u \in Tasks : state[u] \in ActiveStates => u \in toCancel
        /\ \A u \in toCancel : state[u] \in ActiveStates
        /\ aborting = "done" => toCancel = {}

-----------------------------------------------------------------------------
(* What a coroutine returns                                                *)

\* A session works on no other root than its own task.
OwnRoot(t) ==
    /\ target[t] \in Roots => target[t] = t
    /\ \A n \in Attempts : active[t][n] \in Roots => active[t][n] = t

\* A task that is completed in memory is so in the trace, or the write is under
\* way, or has failed and the attempt with it.
CompletedTraced(t) ==
    state[t] = "completed" =>
        \/ traced[t] = "completed"
        \/ write[t] = "completed" /\ target[t] = t
        \/ pc[t] \in {"failing", "timedout", "raised", "cancelled"}

\* A final state that is not "completed" is assigned on the way out.
LeavesFinal(t) ==
    /\ pc[t] = "leave" =>
          /\ target[t] = t
          /\ state[t] \in {"escalated", "cancelled"}
          /\ \/ write[t] = state[t]
             \/ write[t] = NoWrite /\ traced[t] = state[t]
    /\ write[t] = "cancelled" => pc[t] = "leave"

ReturnInv ==
    /\ \A t \in Roots : OwnRoot(t) /\ CompletedTraced(t) /\ LeavesFinal(t)
    /\ ReturnedAgrees

-----------------------------------------------------------------------------
(* The steps                                                               *)

\* Every step is a step of one coroutine or of abort().
LEMMA NextCases ==
    ASSUME [Next]_vars
    PROVE  \/ \E t \in Roots :
                \/ Persist(t) \/ DatabaseError(t) \/ BeginAttempt(t)
                \/ PreRetryAborts(t) \/ OpenSession(t) \/ CannotOpenSession(t)
                \/ Handoff(t) \/ RunPrechecks(t) \/ Activate(t) \/ EndTask(t)
                \/ RunPostchecks(t) \/ Finish(t) \/ RegisterTask(t)
                \/ SessionEnds(t) \/ SessionFails(t) \/ Timeout(t)
                \/ CancelTimedOut(t) \/ Charge(t) \/ Judge(t) \/ FailAttempt(t)
                \/ Return(t)
                \/ \E u \in Tasks : StartTask(t, u)
                \/ \E k \in Kids : \E l \in {"creating", "adding"} :
                      InsertTask(t, k, l)
           \/ Abort
           \/ \E u \in Tasks : CancelTask(u)
           \/ AbortReturns
           \/ UNCHANGED vars
  BY DEF Next, Step, GroupOver, CreateTask, CreateWorkflow, CreateWaitFor

LEMMA TypeInit == Init => TypeInv
<1> SUFFICES ASSUME Init PROVE TypeInv
  OBVIOUS
<1>1. \A t \in Roots : pc[t] = "attempt" /\ write[t] = NoWrite /\ attempt[t] = 0
  BY DEF Init
<1>2. \A t \in Roots : LabelsFit(t)
  BY <1>1 DEF LabelsFit, NoWrite
<1>3. state \in [Tasks -> TaskState \cup {"none"}]
  BY DEF Init, TaskState
<1>4. 1 \in Attempts /\ 0 \in 0..(Retry + 1) /\ 0 \in 0..MaxFault
  BY DEF Attempts
<1>5. active \in [Roots -> [Attempts -> Tasks \cup {NoTask}]]
  BY DEF Init
<1>6. TypeOK
  BY <1>3, <1>4, <1>5 DEF Init, TypeOK, InSession, Outside, Over, NoWrite
<1> QED
  BY <1>2, <1>6 DEF TypeInv

LEMMA TypeNext == TypeInv /\ [Next]_vars => TypeInv'
<1> SUFFICES ASSUME TypeInv, [Next]_vars PROVE TypeInv'
  OBVIOUS
<1> USE DEF TypeInv, TypeOK, LabelsFit, InSession, Outside, Over, NoWrite, Attempts
<1>1. ASSUME NEW t \in Roots, Persist(t) PROVE TypeInv'
  <2>1. target[t] \in Tasks /\ write[t] \in TaskState
    BY <1>1 DEF Persist
  <2>2. CASE /\ traced' = [traced EXCEPT ![target[t]] = write[t]]
             /\ write' = [write EXCEPT ![t] = NoWrite]
             /\ UNCHANGED <<pc, attempt, sess, target>>
    BY <1>1, <2>1, <2>2 DEF Persist, budget
  <2>3. CASE UNCHANGED traced /\ Raise(t)
    BY <1>1, <2>1, <2>3 DEF Persist, Raise, budget
  <2> QED
    BY <1>1, <2>2, <2>3 DEF Persist
<1>2. ASSUME NEW t \in Roots, DatabaseError(t) PROVE TypeInv'
  BY <1>2 DEF DatabaseError, Raise, task, coroutine, budget, TaskState, Tasks
<1>3. ASSUME NEW t \in Roots, BeginAttempt(t) PROVE TypeInv'
  BY <1>3 DEF BeginAttempt, At, task, coroutine, budget, TaskState, Tasks
<1>4. ASSUME NEW t \in Roots, PreRetryAborts(t) PROVE TypeInv'
  BY <1>4 DEF PreRetryAborts, At, Await, task, coroutine, budget, TaskState, Tasks
<1>5. ASSUME NEW t \in Roots, OpenSession(t) PROVE TypeInv'
  BY <1>5 DEF OpenSession, At, task, coroutine, budget, TaskState, Tasks
<1>6. ASSUME NEW t \in Roots, CannotOpenSession(t) PROVE TypeInv'
  BY <1>6 DEF CannotOpenSession, At, Goto, task, coroutine, budget, TaskState, Tasks
<1>7. ASSUME NEW t \in Roots, Handoff(t) PROVE TypeInv'
  BY <1>7 DEF Handoff, At, task, coroutine, budget, TaskState, Tasks
<1>8. ASSUME NEW t \in Roots, NEW u \in Tasks, StartTask(t, u) PROVE TypeInv'
  BY <1>8 DEF StartTask, At, Await, Named, task, coroutine, budget, TaskState, Tasks
<1>9. ASSUME NEW t \in Roots, RunPrechecks(t) PROVE TypeInv'
  <2> DEFINE u == target[t]
  <2>1. u \in Tasks
    BY <1>9 DEF RunPrechecks, At
  <2>2. PICK s \in {"active", "precheck_failed"} : \E l \in {"activate", "idle"} :
           /\ state' = [state EXCEPT ![u] = s]
           /\ Await(t, u, s, l)
           /\ l = "activate" => s = "active"
    BY <1>9 DEF RunPrechecks
  <2> HIDE DEF u
  <2> QED
    BY <1>9, <2>1, <2>2 DEF RunPrechecks, Await, budget, TaskState
<1>10. ASSUME NEW t \in Roots, Activate(t) PROVE TypeInv'
  BY <1>10 DEF Activate, At, Goto, task, coroutine, budget, TaskState, Tasks
<1>11. ASSUME NEW t \in Roots, EndTask(t) PROVE TypeInv'
  BY <1>11 DEF EndTask, At, Await, ActiveTask, task, coroutine, budget,
     TaskState, Tasks
<1>12. ASSUME NEW t \in Roots, RunPostchecks(t) PROVE TypeInv'
  <2> DEFINE u == target[t]
  <2>1. u \in Tasks
    BY <1>12 DEF RunPostchecks, At
  <2>2. PICK s \in {"completed", "postcheck_failed"}, l \in {"finish", "idle"} :
           /\ state' = [state EXCEPT ![u] = s]
           /\ Await(t, u, s, l)
    BY <1>12 DEF RunPostchecks
  <2>3. claims' = claims \/ claims' = [claims EXCEPT ![u] = {}]
    BY <1>12 DEF RunPostchecks
  <2>4. claims' \in [Tasks -> SUBSET Paths]
    BY <2>1, <2>3
  <2>5. /\ UNCHANGED <<traced, parent, creator, active, attempt, sess, blocked>>
        /\ UNCHANGED <<aborting, toCancel, faults>>
    BY <1>12 DEF RunPostchecks, budget
  <2> HIDE DEF u
  <2> QED
    <3>1. s \in TaskState /\ s # NoWrite
      BY DEF TaskState
    <3>2. TypeOK'
      BY <2>1, <2>2, <2>4, <2>5, <3>1 DEF Await
    <3>3. \A r \in Roots : LabelsFit(r)'
      BY <2>1, <2>2, <2>5, <3>1 DEF Await
    <3> QED
      BY <3>2, <3>3
<1>13. ASSUME NEW t \in Roots, Finish(t) PROVE TypeInv'
  BY <1>13 DEF Finish, At, Goto, task, coroutine, budget, TaskState, Tasks
<1>14. ASSUME NEW t \in Roots, NEW k \in Kids, NEW l \in {"creating", "adding"}, InsertTask(t, k, l)
      PROVE  TypeInv'
  BY <1>14 DEF InsertTask, At, ActiveTask, task, coroutine, budget, TaskState, Tasks
<1>15. ASSUME NEW t \in Roots, RegisterTask(t) PROVE TypeInv'
  BY <1>15 DEF RegisterTask, At, Goto, task, coroutine, budget, TaskState, Tasks
<1>16. ASSUME NEW t \in Roots, SessionEnds(t) PROVE TypeInv'
  BY <1>16 DEF SessionEnds, At, Goto, task, coroutine, budget, TaskState, Tasks
<1>17. ASSUME NEW t \in Roots, SessionFails(t) PROVE TypeInv'
  BY <1>17 DEF SessionFails, At, Goto, task, coroutine, budget, TaskState, Tasks
<1>18. ASSUME NEW t \in Roots, Timeout(t) PROVE TypeInv'
  BY <1>18 DEF Timeout, task, coroutine, budget, TaskState, Tasks
<1>19. ASSUME NEW t \in Roots, CancelTimedOut(t) PROVE TypeInv'
  BY <1>19 DEF CancelTimedOut, At, Await, task, coroutine, budget, TaskState, Tasks
<1>20. ASSUME NEW t \in Roots, Charge(t) PROVE TypeInv'
  BY <1>20 DEF Charge, At, Goto, task, coroutine, budget, TaskState, Tasks
<1>21. ASSUME NEW t \in Roots, Judge(t) PROVE TypeInv'
  <2>1. PICK l \in {"returned", "failing"} : Goto(t, l)
    BY <1>21 DEF Judge
  <2> QED
    BY <1>21, <2>1 DEF Judge, At, Goto, task, budget
<1>22. ASSUME NEW t \in Roots, FailAttempt(t) PROVE TypeInv'
  <2>1. t \in Tasks
    BY DEF Tasks
  <2>2. CASE /\ attempt[t] <= Retry
             /\ state' = [state EXCEPT ![t] = "created"]
             /\ Goto(t, "attempt")
             /\ UNCHANGED claims
    BY <1>22, <2>1, <2>2 DEF FailAttempt, At, Goto, budget, TaskState
  <2>3. CASE /\ state' = [state EXCEPT ![t] = "escalated"]
             /\ claims' = [claims EXCEPT ![t] = {}]
             /\ Await(t, t, "escalated", "leave")
             /\ UNCHANGED <<attempt, sess>>
    BY <1>22, <2>1, <2>3 DEF FailAttempt, At, Await, budget, TaskState
  <2> QED
    BY <1>22, <2>2, <2>3 DEF FailAttempt
<1>23. ASSUME NEW t \in Roots, Return(t) PROVE TypeInv'
  BY <1>23 DEF Return, At, Goto, task, coroutine, budget, TaskState, Tasks
<1>24. CASE Abort
  BY <1>24 DEF Abort, task, coroutine, budget, TaskState, Tasks
<1>25. ASSUME NEW u \in Tasks, CancelTask(u) PROVE TypeInv'
  BY <1>25 DEF CancelTask, task, coroutine, budget, TaskState, Tasks
<1>26. CASE AbortReturns
  BY <1>26 DEF AbortReturns, task, coroutine, budget, TaskState, Tasks
<1>27. CASE UNCHANGED vars
  BY <1>27 DEF vars, task, coroutine, budget, TaskState, Tasks
<1> HIDE DEF TypeInv
<1> QED
  BY <1>1, <1>2, <1>3, <1>4, <1>5, <1>6, <1>7, <1>8, <1>9, <1>10, <1>11,
     <1>12, <1>13, <1>14, <1>15, <1>16, <1>17, <1>18, <1>19, <1>20, <1>21,
     <1>22, <1>23, <1>24, <1>25, <1>26, <1>27, NextCases

\* The scheduler's and the trace's states, the claims and every variable of the
\* coroutines keep their types.
THEOREM TypesKept == Spec => []TypeOK
<1>1. Spec => []TypeInv
  BY TypeInit, TypeNext, PTL DEF Spec
<1>2. TypeInv => TypeOK
  BY DEF TypeInv
<1> QED
  BY <1>1, <1>2, PTL

-----------------------------------------------------------------------------
(* Path claims and activations                                             *)

\* Claims only shrink, but for the kid that is registered.
LEMMA ClaimsNext == TypeInv /\ ClaimsDisjoint /\ [Next]_vars => ClaimsDisjoint'
<1> SUFFICES ASSUME TypeInv, ClaimsDisjoint, [Next]_vars PROVE ClaimsDisjoint'
  OBVIOUS
<1>1. ASSUME NEW t \in Roots, RegisterTask(t) PROVE ClaimsDisjoint'
  <2> DEFINE k == target[t]
             P == IF pc[t] = "creating" THEN WritePaths[k] ELSE {}
  <2>1. k \in Kids /\ k \in Tasks
    BY <1>1 DEF RegisterTask, At, TypeInv, LabelsFit, Tasks
  <2>2. P \subseteq Paths
    BY <2>1
  <2>3. claims \in [Tasks -> SUBSET Paths]
    BY DEF TypeInv, TypeOK
  <2>4. CASE claims' = claims
    BY <2>4 DEF ClaimsDisjoint
  <2>5. CASE ~Conflict(P) /\ claims' = [claims EXCEPT ![k] = P]
    <3>1. \A u \in Tasks : \A p \in P, q \in claims[u] :
             <<p, q>> \notin Overlap /\ <<q, p>> \notin Overlap
      BY <2>2, <2>3, <2>5 DEF Conflict
    <3>2. claims'[k] = P /\ \A u \in Tasks \ {k} : claims'[u] = claims[u]
      BY <2>1, <2>3, <2>5
    <3> HIDE DEF P, k
    <3> QED
      BY <3>1, <3>2 DEF ClaimsDisjoint
  <2> QED
    BY <1>1, <2>4, <2>5 DEF RegisterTask
<1>2. ASSUME claims' = claims \/ \E x \in Tasks : claims' = [claims EXCEPT ![x] = {}]
      PROVE  ClaimsDisjoint'
  BY <1>2, SMTT(30) DEF ClaimsDisjoint, TypeInv, TypeOK
<1>3. ASSUME NEW t \in Roots, RunPostchecks(t) PROVE ClaimsDisjoint'
  BY <1>2, <1>3 DEF RunPostchecks, At, TypeInv, LabelsFit
<1>4. ASSUME NEW t \in Roots, FailAttempt(t) PROVE ClaimsDisjoint'
  BY <1>2, <1>4 DEF FailAttempt, Tasks
<1>5. ASSUME NEW u \in Tasks, CancelTask(u) PROVE ClaimsDisjoint'
  BY <1>2, <1>5 DEF CancelTask
<1>6. ASSUME claims' = claims PROVE ClaimsDisjoint'
  BY <1>2, <1>6
<1> QED
  BY <1>1, <1>3, <1>4, <1>5, <1>6, NextCases DEF Persist, DatabaseError,
     BeginAttempt, PreRetryAborts, OpenSession, CannotOpenSession, Handoff,
     StartTask, RunPrechecks, Activate, EndTask, Finish, InsertTask, SessionEnds,
     SessionFails, Timeout, CancelTimedOut, Charge, Judge, Return, Abort,
     AbortReturns, task, vars

LEMMA HolderInit == Init => HolderStands /\ ClaimsDisjoint
  BY DEF Init, HolderStands, OneActivation, Past, ClaimsDisjoint

\* A step that starts nothing and activates nothing disturbs no holder.
LEMMA HolderKept ==
    ASSUME HolderStands, active' = active,
           \A u \in Tasks : Started(u) => Started(u)',
           \A t \in Roots : \A u \in Tasks : Past(t, u)' => Past(t, u),
           active \in [Roots -> [Attempts -> Tasks \cup {NoTask}]]
    PROVE  HolderStands'
<1>1. \A t \in Roots : \A n \in Attempts :
         active[t][n] # NoTask => active[t][n] \in Tasks
  OBVIOUS
<1> HIDE DEF Past, Started
<1> QED
  BY <1>1 DEF HolderStands, OneActivation

LEMMA HolderNext == TypeInv /\ HolderStands /\ [Next]_vars => HolderStands'
<1> SUFFICES ASSUME TypeInv, HolderStands, [Next]_vars PROVE HolderStands'
  OBVIOUS
<1> USE DEF TypeInv, TypeOK, LabelsFit, HolderStands, OneActivation, Past, Started, NoWrite
<1>1. ASSUME NEW t \in Roots, Persist(t) PROVE HolderStands'
  <2>0. PICK u \in Tasks : u = target[t]
    BY <1>1 DEF Persist
  <2>1. active' = active /\ write[t] # NoWrite /\ write[t] \in TaskState
    BY <1>1 DEF Persist
  <2>2. CASE UNCHANGED traced /\ Raise(t)
    BY <2>1, <2>2, HolderKept DEF Raise, InSession
  <2>3. CASE /\ ValidTaskTransition(traced[u], write[t])
             /\ traced' = [traced EXCEPT ![u] = write[t]]
             /\ write' = [write EXCEPT ![t] = NoWrite]
             /\ UNCHANGED <<pc, attempt, sess, target>>
    <3>1. write[t] \notin {"none", "created"}
      BY <2>1, <2>3 DEF ValidTaskTransition, TASK_TRANSITIONS, TaskState
    <3>2. \A x \in Tasks : Started(x) => Started(x)'
      BY <2>1, <2>3, <3>1
    <3>3. Started(u)'
      BY <2>1, <2>3, <3>1
    <3>4. CASE pc[t] = "prechecks"
      <4>1. write[t] = "prechecking"
        BY <2>1, <3>4
      <4>2. traced[u] = "created"
        BY <2>3, <4>1 DEF ValidTaskTransition, TASK_TRANSITIONS
      <4>3. ~Started(u)
        BY <4>2
      <4>4. \A r \in Roots : \A x \in Tasks :
               Past(r, x)' => Past(r, x) \/ (r = t /\ x = u)
        BY <2>0, <2>3
      <4>5. \A r \in Roots : \A n \in Attempts : active[r][n] # u
        BY <2>1, <4>3
      <4>6. \A r \in Roots : ~Past(r, u)
        BY <2>1, <4>3
      <4>7. \A r \in Roots : \A n \in Attempts :
               active[r][n] # NoTask => active[r][n] \in Tasks
        OBVIOUS
      <4> HIDE DEF Past, Started
      <4> QED
        BY <2>1, <3>2, <3>3, <4>4, <4>5, <4>6, <4>7
    <3>5. CASE pc[t] # "prechecks"
      <4>1. \A r \in Roots : \A x \in Tasks : Past(r, x)' => Past(r, x)
        BY <2>3, <3>5
      <4> QED
        BY <2>1, <3>2, <4>1, HolderKept
    <3> QED
      BY <3>4, <3>5
  <2> QED
    BY <1>1, <2>0, <2>2, <2>3 DEF Persist
<1>2. ASSUME NEW t \in Roots, DatabaseError(t) PROVE HolderStands'
  BY <1>2 DEF DatabaseError, Raise, task, coroutine, budget
<1>3. ASSUME NEW t \in Roots, BeginAttempt(t) PROVE HolderStands'
  BY <1>3 DEF BeginAttempt, At, task, coroutine, budget
<1>4. ASSUME NEW t \in Roots, PreRetryAborts(t) PROVE HolderStands'
  BY <1>4 DEF PreRetryAborts, At, Await, task, coroutine, budget
<1>5. ASSUME NEW t \in Roots, OpenSession(t) PROVE HolderStands'
  BY <1>5 DEF OpenSession, At, task, coroutine, budget
<1>6. ASSUME NEW t \in Roots, CannotOpenSession(t) PROVE HolderStands'
  BY <1>6 DEF CannotOpenSession, At, Goto, task, coroutine, budget
<1>7. ASSUME NEW t \in Roots, Handoff(t) PROVE HolderStands'
  BY <1>7 DEF Handoff, At, task, coroutine, budget
<1>8. ASSUME NEW t \in Roots, NEW u \in Tasks, StartTask(t, u) PROVE HolderStands'
  BY <1>8 DEF StartTask, At, Await, Named, task, coroutine, budget
<1>9. ASSUME NEW t \in Roots, RunPrechecks(t) PROVE HolderStands'
  <2>1. active' = active /\ traced' = traced
    BY <1>9 DEF RunPrechecks, At, Await
  <2>2. \A r \in Roots : \A x \in Tasks : Past(r, x)' => Past(r, x)
    BY <1>9 DEF RunPrechecks, At, Await
  <2> QED
    BY <2>1, <2>2, HolderKept
<1>10. ASSUME NEW t \in Roots, Activate(t) PROVE HolderStands'
  BY <1>10 DEF Activate, At, Goto, task, coroutine, budget
<1>11. ASSUME NEW t \in Roots, EndTask(t) PROVE HolderStands'
  BY <1>11 DEF EndTask, At, Await, ActiveTask, task, coroutine, budget
<1>12. ASSUME NEW t \in Roots, RunPostchecks(t) PROVE HolderStands'
  <2>1. active' = active /\ traced' = traced
    BY <1>12 DEF RunPostchecks, At, Await
  <2>2. \A r \in Roots : \A x \in Tasks : Past(r, x)' => Past(r, x)
    BY <1>12 DEF RunPostchecks, At, Await
  <2> QED
    BY <2>1, <2>2, HolderKept
<1>13. ASSUME NEW t \in Roots, Finish(t) PROVE HolderStands'
  BY <1>13 DEF Finish, At, Goto, task, coroutine, budget
<1>14. ASSUME NEW t \in Roots, NEW k \in Kids, NEW l \in {"creating", "adding"}, InsertTask(t, k, l)
      PROVE  HolderStands'
  BY <1>14 DEF InsertTask, At, ActiveTask, task, coroutine, budget
<1>15. ASSUME NEW t \in Roots, RegisterTask(t) PROVE HolderStands'
  BY <1>15 DEF RegisterTask, At, Goto, task, coroutine, budget
<1>16. ASSUME NEW t \in Roots, SessionEnds(t) PROVE HolderStands'
  BY <1>16 DEF SessionEnds, At, Goto, task, coroutine, budget
<1>17. ASSUME NEW t \in Roots, SessionFails(t) PROVE HolderStands'
  BY <1>17 DEF SessionFails, At, Goto, task, coroutine, budget
<1>18. ASSUME NEW t \in Roots, Timeout(t) PROVE HolderStands'
  BY <1>18 DEF Timeout, task, coroutine, budget
<1>19. ASSUME NEW t \in Roots, CancelTimedOut(t) PROVE HolderStands'
  BY <1>19 DEF CancelTimedOut, At, Await, task, coroutine, budget
<1>20. ASSUME NEW t \in Roots, Charge(t) PROVE HolderStands'
  BY <1>20 DEF Charge, At, Goto, task, coroutine, budget
<1>21. ASSUME NEW t \in Roots, Judge(t) PROVE HolderStands'
  <2>1. active' = active /\ traced' = traced
    BY <1>21 DEF Judge, At, Goto, task
  <2>2. \A r \in Roots : \A x \in Tasks : Past(r, x)' => Past(r, x)
    BY <1>21 DEF Judge, At, Goto, task
  <2> QED
    BY <2>1, <2>2, HolderKept
<1>22. ASSUME NEW t \in Roots, FailAttempt(t) PROVE HolderStands'
  <2>1. active' = active /\ traced' = traced
    BY <1>22 DEF FailAttempt, At, Goto, Await
  <2>2. \A r \in Roots : \A x \in Tasks : Past(r, x)' => Past(r, x)
    BY <1>22 DEF FailAttempt, At, Goto, Await
  <2> QED
    BY <2>1, <2>2, HolderKept
<1>23. ASSUME NEW t \in Roots, Return(t) PROVE HolderStands'
  BY <1>23 DEF Return, At, Goto, task, coroutine, budget
<1>24. CASE Abort
  <2>1. active' = active /\ traced' = traced
    BY <1>24 DEF Abort, Over, task
  <2>2. \A r \in Roots : \A x \in Tasks : Past(r, x)' => Past(r, x)
    BY <1>24 DEF Abort, Over, task
  <2> QED
    BY <2>1, <2>2, HolderKept
<1>25. ASSUME NEW u \in Tasks, CancelTask(u) PROVE HolderStands'
  BY <1>25 DEF CancelTask, task, coroutine, budget
<1>26. CASE AbortReturns
  BY <1>26 DEF AbortReturns, task, coroutine, budget
<1>27. CASE UNCHANGED vars
  BY <1>27 DEF vars, task, coroutine, budget
<1> HIDE DEF TypeInv, HolderStands
<1> QED
  BY <1>1, <1>2, <1>3, <1>4, <1>5, <1>6, <1>7, <1>8, <1>9, <1>10, <1>11,
     <1>12, <1>13, <1>14, <1>15, <1>16, <1>17, <1>18, <1>19, <1>20, <1>21,
     <1>22, <1>23, <1>24, <1>25, <1>26, <1>27, NextCases

\* Tasks with overlapping write paths are never both granted them, and a task is
\* active in one session only, although start_task takes any id and memory may
\* offer a task twice: the trace store lets one session past.
THEOREM ClaimsKept == Spec => []ClaimsExclusive
<1>1. Spec => []TypeInv
  BY TypeInit, TypeNext, PTL DEF Spec
<1>2. Spec => []HolderStands
  BY <1>1, HolderInit, HolderNext, PTL DEF Spec
<1>3. Spec => []ClaimsDisjoint
  BY <1>1, HolderInit, ClaimsNext, PTL DEF Spec
<1>4. HolderStands /\ ClaimsDisjoint => ClaimsExclusive
  BY DEF HolderStands, ClaimsExclusive
<1> QED
  BY <1>2, <1>3, <1>4, PTL

-----------------------------------------------------------------------------
(* abort()                                                                 *)

\* The steps of t's coroutine.
Moves(t) ==
    \/ Step(t) \/ DatabaseError(t) \/ PreRetryAborts(t) \/ CannotOpenSession(t)
    \/ Handoff(t) \/ EndTask(t) \/ SessionEnds(t) \/ SessionFails(t) \/ Timeout(t)
    \/ \E u \in Tasks : StartTask(t, u)
    \/ \E k \in Kids : \E l \in {"creating", "adding"} : InsertTask(t, k, l)

LEMMA MovesOrAborts ==
    ASSUME [Next]_vars
    PROVE  \/ \E t \in Roots : Moves(t)
           \/ Abort \/ (\E u \in Tasks : CancelTask(u)) \/ AbortReturns
           \/ UNCHANGED vars
  BY DEF Next, Moves, GroupOver, CreateTask, CreateWorkflow, CreateWaitFor

\* Only a coroutine that is not over moves, and it starts no abort() by itself.
LEMMA MovesWhileRunning ==
    ASSUME TypeInv, NEW t \in Roots, Moves(t)
    PROVE  pc[t] \notin Over /\ aborting' \in {aborting, "due"}
<1> USE DEF TypeInv, LabelsFit, InSession, Over
<1>1. CASE Persist(t) \/ DatabaseError(t)
  BY <1>1 DEF Persist, DatabaseError, budget
<1>2. CASE Timeout(t)
  BY <1>2 DEF Timeout, budget
<1>3. CASE Charge(t)
  BY <1>3 DEF Charge, At
<1>4. CASE FailAttempt(t) \/ Judge(t) \/ RunPostchecks(t) \/ RunPrechecks(t)
  BY <1>4 DEF FailAttempt, Judge, RunPostchecks, RunPrechecks, At, budget
<1>5. CASE RegisterTask(t) \/ EndTask(t)
  BY <1>5 DEF RegisterTask, EndTask, At, budget
<1>6. CASE \/ BeginAttempt(t) \/ OpenSession(t) \/ Activate(t) \/ Finish(t)
           \/ CancelTimedOut(t) \/ Return(t) \/ PreRetryAborts(t)
           \/ CannotOpenSession(t) \/ Handoff(t) \/ SessionEnds(t) \/ SessionFails(t)
  BY <1>6 DEF BeginAttempt, OpenSession, Activate, Finish, CancelTimedOut, Return,
     PreRetryAborts, CannotOpenSession, Handoff, SessionEnds, SessionFails, At, budget
<1>7. CASE \E u \in Tasks : StartTask(t, u)
  BY <1>7 DEF StartTask, At, budget
<1>8. CASE \E k \in Kids : \E l \in {"creating", "adding"} : InsertTask(t, k, l)
  BY <1>8 DEF InsertTask, At, budget
<1> QED
  BY <1>1, <1>2, <1>3, <1>4, <1>5, <1>6, <1>7, <1>8 DEF Moves, Step

LEMMA AbortInit == Init => AbortInv
  BY DEF Init, AbortInv

LEMMA AbortNext == TypeInv /\ AbortInv /\ [Next]_vars => AbortInv'
<1> SUFFICES ASSUME TypeInv, AbortInv, [Next]_vars PROVE AbortInv'
  OBVIOUS
<1>1. ASSUME NEW t \in Roots, Moves(t) PROVE AbortInv'
  <2>1. aborting \notin {"running", "done"}
    BY <1>1, MovesWhileRunning DEF AbortInv
  <2> QED
    BY <1>1, <2>1, MovesWhileRunning DEF AbortInv
<1>2. CASE Abort
  BY <1>2 DEF Abort, AbortInv, TypeInv, TypeOK, Over, task
<1>3. ASSUME NEW u \in Tasks, CancelTask(u) PROVE AbortInv'
  BY <1>3 DEF CancelTask, AbortInv, TypeInv, TypeOK, coroutine, ActiveStates
<1>4. CASE AbortReturns
  BY <1>4 DEF AbortReturns, AbortInv, coroutine, task
<1>5. CASE UNCHANGED vars
  BY <1>5 DEF vars, AbortInv, coroutine, task, budget
<1> QED
  BY <1>1, <1>2, <1>3, <1>4, <1>5, MovesOrAborts

\* When the abort() that a budget policy schedules has returned, no coroutine of
\* the group runs and no task is left active, whatever each was doing when the
\* cancellation reached it.
THEOREM AbortLeavesNothing == Spec => []AbortStops
<1>1. Spec => []TypeInv
  BY TypeInit, TypeNext, PTL DEF Spec
<1>2. Spec => []AbortInv
  BY <1>1, AbortInit, AbortNext, PTL DEF Spec
<1>3. TypeInv /\ AbortInv => AbortStops
  BY DEF AbortInv, AbortStops, TypeInv, TypeOK
<1> QED
  BY <1>1, <1>2, <1>3, PTL

-----------------------------------------------------------------------------
(* What a coroutine returns, when sessions know their own tasks only       *)

\* What ReturnInv says of one root.
Answers(t) ==
    /\ OwnRoot(t) /\ CompletedTraced(t) /\ LeavesFinal(t)
    /\ pc[t] = "returned" =>
          /\ state[t] = traced[t]
          /\ state[t] \in {"completed", "escalated", "cancelled"}

LEMMA ReturnInvSplits == ReturnInv <=> \A t \in Roots : Answers(t)
  BY DEF ReturnInv, Answers, ReturnedAgrees

\* What a coroutine does leaves the other roots alone.
LEMMA OthersAlone ==
    ASSUME ~Shared, TypeInv, ReturnInv, NEW t \in Roots, Moves(t),
           NEW r \in Roots, r # t
    PROVE  /\ state'[r] = state[r] /\ traced'[r] = traced[r]
           /\ pc'[r] = pc[r] /\ write'[r] = write[r] /\ target'[r] = target[r]
           /\ active'[r] = active[r]
<1> USE DEF TypeInv, TypeOK, LabelsFit, ReturnInv, OwnRoot
<1> DEFINE Alone == /\ state'[r] = state[r] /\ traced'[r] = traced[r]
                    /\ pc'[r] = pc[r] /\ write'[r] = write[r]
                    /\ target'[r] = target[r] /\ active'[r] = active[r]
<1>1. CASE Persist(t)
  BY <1>1 DEF Persist, Raise, task, coroutine, Tasks
<1>2. CASE DatabaseError(t)
  BY <1>2 DEF DatabaseError, Raise, task, coroutine, Tasks
<1>3. CASE BeginAttempt(t)
  BY <1>3 DEF BeginAttempt, At, task, coroutine, Tasks
<1>4. CASE PreRetryAborts(t)
  BY <1>4 DEF PreRetryAborts, At, Await, task, coroutine, Tasks
<1>5. CASE OpenSession(t)
  BY <1>5 DEF OpenSession, At, task, coroutine, Tasks
<1>6. CASE CannotOpenSession(t)
  BY <1>6 DEF CannotOpenSession, At, Goto, task, coroutine, Tasks
<1>7. CASE Handoff(t)
  BY <1>7 DEF Handoff, At, task, coroutine, Tasks
<1>8. ASSUME NEW u \in Tasks, StartTask(t, u) PROVE Alone
  BY <1>8 DEF StartTask, At, Await, Named, task, coroutine, Tasks
<1>9. CASE RunPrechecks(t)
  BY <1>9 DEF RunPrechecks, At, Await, task, coroutine, Tasks
<1>10. CASE Activate(t)
  BY <1>10 DEF Activate, At, Goto, task, coroutine, Tasks
<1>11. CASE EndTask(t)
  BY <1>11 DEF EndTask, At, Await, ActiveTask, task, coroutine, Tasks
<1>12. CASE RunPostchecks(t)
  BY <1>12 DEF RunPostchecks, At, Await, task, coroutine, Tasks
<1>13. CASE Finish(t)
  BY <1>13 DEF Finish, At, Goto, task, coroutine, Tasks
<1>14. ASSUME NEW k \in Kids, NEW l \in {"creating", "adding"}, InsertTask(t, k, l)
      PROVE  Alone
  BY <1>14 DEF InsertTask, At, ActiveTask, task, coroutine, Tasks
<1>15. CASE RegisterTask(t)
  BY <1>15 DEF RegisterTask, At, Goto, task, coroutine, Tasks
<1>16. CASE SessionEnds(t)
  BY <1>16 DEF SessionEnds, At, Goto, task, coroutine, Tasks
<1>17. CASE SessionFails(t)
  BY <1>17 DEF SessionFails, At, Goto, task, coroutine, Tasks
<1>18. CASE Timeout(t)
  BY <1>18 DEF Timeout, task, coroutine, Tasks
<1>19. CASE CancelTimedOut(t)
  BY <1>19 DEF CancelTimedOut, At, Await, task, coroutine, Tasks
<1>20. CASE Charge(t)
  BY <1>20 DEF Charge, At, Goto, task, coroutine, Tasks
<1>21. CASE Judge(t)
  BY <1>21 DEF Judge, At, Goto, task, coroutine, Tasks
<1>22. CASE FailAttempt(t)
  BY <1>22 DEF FailAttempt, At, Goto, Await, task, coroutine, Tasks
<1>23. CASE Return(t)
  BY <1>23 DEF Return, At, Goto, task, coroutine, Tasks
<1> HIDE DEF TypeInv, ReturnInv
<1> QED
  BY <1>1, <1>2, <1>3, <1>4, <1>5, <1>6, <1>7, <1>8, <1>9, <1>10, <1>11,
     <1>12, <1>13, <1>14, <1>15, <1>16, <1>17, <1>18, <1>19, <1>20, <1>21,
     <1>22, <1>23 DEF Moves, Step

\* The coroutine's own steps keep what is said of its answer.
LEMMA OwnAnswer ==
    ASSUME ~Shared, TypeInv, ReturnInv, NEW t \in Roots, Moves(t)
    PROVE  Answers(t)'
<1>a. TypeOK /\ LabelsFit(t) /\ t \in Tasks
  BY DEF TypeInv, Tasks
<1>b. Answers(t)
  BY ReturnInvSplits
<1> USE DEF TypeOK, LabelsFit, OwnRoot, CompletedTraced, LeavesFinal, Answers,
            NoWrite, InSession
<1>1. CASE Persist(t)
  <2>1. write[t] # NoWrite /\ target[t] \in Tasks
    BY <1>1, <1>a DEF Persist
  <2>2. UNCHANGED <<state, active, target>>
    BY <1>1 DEF Persist, Raise
  <2>3. CASE UNCHANGED traced /\ Raise(t)
    BY <1>a, <1>b, <2>1, <2>2, <2>3 DEF Raise
  <2>4. CASE /\ ValidTaskTransition(traced[target[t]], write[t])
             /\ traced' = [traced EXCEPT ![target[t]] = write[t]]
             /\ write' = [write EXCEPT ![t] = NoWrite]
             /\ UNCHANGED <<pc, attempt, sess, target>>
    <3>1. pc'[t] = pc[t] /\ write'[t] = NoWrite
      BY <1>a, <2>4
    <3>2. pc[t] # "returned"
      BY <1>a, <2>1
    <3>3. CASE target[t] # t
      <4>1. traced'[t] = traced[t]
        BY <1>a, <2>1, <2>4, <3>3
      <4> QED
        BY <1>b, <2>1, <2>2, <3>1, <3>2, <3>3, <4>1
    <3>4. CASE target[t] = t
      <4>1. traced'[t] = write[t]
        BY <1>a, <2>1, <2>4, <3>4
      <4>2. traced[t] = "completed" => write[t] = "cancelled"
        BY <2>4, <3>4 DEF ValidTaskTransition, TASK_TERMINAL_STATES
      <4> QED
        BY <1>b, <2>1, <2>2, <3>1, <3>2, <3>4, <4>1, <4>2
    <3> QED
      BY <3>3, <3>4
  <2> QED
    BY <1>1, <2>3, <2>4 DEF Persist
<1>2. CASE DatabaseError(t)
  BY <1>2, <1>a, <1>b DEF DatabaseError, Raise, task, coroutine
<1>3. CASE BeginAttempt(t)
  BY <1>3, <1>a, <1>b DEF BeginAttempt, At, task, coroutine
<1>4. CASE PreRetryAborts(t)
  BY <1>4, <1>a, <1>b DEF PreRetryAborts, At, Await, task, coroutine
<1>5. CASE OpenSession(t)
  BY <1>5, <1>a, <1>b DEF OpenSession, At, task, coroutine
<1>6. CASE CannotOpenSession(t)
  BY <1>6, <1>a, <1>b DEF CannotOpenSession, At, Goto, task, coroutine
<1>7. CASE Handoff(t)
  BY <1>7, <1>a, <1>b DEF Handoff, At, task, coroutine
<1>8. ASSUME NEW u \in Tasks, StartTask(t, u) PROVE Answers(t)'
  BY <1>8, <1>a, <1>b DEF StartTask, At, Await, Named, task, coroutine
<1>9. CASE RunPrechecks(t)
  BY <1>9, <1>a, <1>b DEF RunPrechecks, At, Await, task, coroutine
<1>10. CASE Activate(t)
  BY <1>10, <1>a, <1>b DEF Activate, At, Goto, task, coroutine
<1>11. CASE EndTask(t)
  BY <1>11, <1>a, <1>b DEF EndTask, At, Await, ActiveTask, task, coroutine
<1>12. CASE RunPostchecks(t)
  BY <1>12, <1>a, <1>b DEF RunPostchecks, At, Await, task, coroutine
<1>13. CASE Finish(t)
  <2>1. NoTask \notin Roots
    BY DEF Tasks
  <2>2. \A n \in Attempts : active'[t][n] \in {active[t][n], NoTask}
    BY <1>13, <1>a DEF Finish
  <2>3. /\ UNCHANGED <<state, traced, target, write>>
        /\ pc'[t] = "idle"
    BY <1>13, <1>a DEF Finish, Goto, task
  <2> QED
    BY <1>13, <1>b, <2>1, <2>2, <2>3 DEF Finish, At
<1>14. ASSUME NEW k \in Kids, NEW l \in {"creating", "adding"}, InsertTask(t, k, l)
      PROVE  Answers(t)'
  BY <1>14, <1>a, <1>b DEF InsertTask, At, ActiveTask, task, coroutine
<1>15. CASE RegisterTask(t)
  BY <1>15, <1>a, <1>b DEF RegisterTask, At, Goto, task, coroutine
<1>16. CASE SessionEnds(t)
  BY <1>16, <1>a, <1>b DEF SessionEnds, At, Goto, task, coroutine
<1>17. CASE SessionFails(t)
  BY <1>17, <1>a, <1>b DEF SessionFails, At, Goto, task, coroutine
<1>18. CASE Timeout(t)
  BY <1>18, <1>a, <1>b DEF Timeout, task, coroutine
<1>19. CASE CancelTimedOut(t)
  BY <1>19, <1>a, <1>b DEF CancelTimedOut, At, Await, task, coroutine
<1>20. CASE Charge(t)
  BY <1>20, <1>a, <1>b DEF Charge, At, Goto, task, coroutine
<1>21. CASE Judge(t)
  BY <1>21, <1>a, <1>b DEF Judge, At, Goto, task, coroutine
<1>22. CASE FailAttempt(t)
  BY <1>22, <1>a, <1>b DEF FailAttempt, At, Goto, Await, task, coroutine
<1>23. CASE Return(t)
  BY <1>23, <1>a, <1>b DEF Return, At, Goto, task, coroutine
<1> HIDE DEF Answers
<1> QED
  BY <1>1, <1>2, <1>3, <1>4, <1>5, <1>6, <1>7, <1>8, <1>9, <1>10, <1>11,
     <1>12, <1>13, <1>14, <1>15, <1>16, <1>17, <1>18, <1>19, <1>20, <1>21,
     <1>22, <1>23 DEF Moves, Step

LEMMA ReturnInit == Init => ReturnInv
  BY DEF Init, ReturnInv, OwnRoot, CompletedTraced, LeavesFinal, ReturnedAgrees,
     Tasks, NoWrite

LEMMA ReturnNext ==
    ASSUME ~Shared
    PROVE  TypeInv /\ AbortInv /\ ReturnInv /\ [Next]_vars => ReturnInv'
<1> SUFFICES ASSUME TypeInv, AbortInv, ReturnInv, [Next]_vars PROVE ReturnInv'
  OBVIOUS
<1>1. ASSUME NEW t \in Roots, Moves(t) PROVE ReturnInv'
  <2>1. Answers(t)'
    BY <1>1, OwnAnswer
  <2>2. ASSUME NEW r \in Roots, r # t PROVE Answers(r)'
    <3>1. Answers(r)
      BY ReturnInvSplits
    <3> QED
      BY <1>1, <2>2, <3>1, OthersAlone DEF Answers, OwnRoot, CompletedTraced,
         LeavesFinal
  <2> QED
    BY <2>1, <2>2 DEF ReturnInv, Answers, ReturnedAgrees
<1>2. CASE Abort
  BY <1>2 DEF Abort, ReturnInv, ReturnedAgrees, OwnRoot, CompletedTraced,
     LeavesFinal, TypeInv, TypeOK, LabelsFit, Over, NoWrite, InSession, task
<1>3. ASSUME NEW u \in Tasks, CancelTask(u) PROVE ReturnInv'
  BY <1>3 DEF CancelTask, AbortInv, ActiveStates, ReturnInv, ReturnedAgrees, OwnRoot,
     CompletedTraced, LeavesFinal, TypeInv, TypeOK, LabelsFit, Over, NoWrite, coroutine
<1>4. CASE AbortReturns \/ UNCHANGED vars
  BY <1>4 DEF AbortReturns, vars, ReturnInv, ReturnedAgrees, OwnRoot,
     CompletedTraced, LeavesFinal, coroutine, task
<1> QED
  BY <1>1, <1>2, <1>3, <1>4, MovesOrAborts

-----------------------------------------------------------------------------
(* Subtasks, when sessions know their own tasks only                       *)

\* The tasks of t's sessions: its own, and those they created.
Owned(t, u) == u = t \/ (u \in Kids /\ creator[u] = t)

\* Labels from which no session of the task is entered any more.
Dead == {"timedout", "leave"} \cup Over

\* Session n of t is not entered any more: a hand-off leads to the first one only.
Expired(t, n) ==
    /\ n # 1
    /\ \/ n < attempt[t]
       \/ n = attempt[t] /\ pc[t] \in {"attempt", "ended", "judge", "failing"}

\* The session a coroutine is in, and whose tasks it works on.
SessionFits(t) ==
    /\ pc[t] \in InSession => sess[t] \in {1, attempt[t]} /\ attempt[t] >= 1
    /\ \A n \in Attempts : active[t][n] # NoTask =>
          n <= attempt[t] /\ Owned(t, active[t][n])
    /\ pc[t] \in {"prechecks", "activate", "postchecks", "finish"} =>
          Owned(t, target[t])
    /\ write[t] # NoWrite => Owned(t, target[t])
    /\ write[t] = "completed" => pc[t] = "finish"
    /\ pc[t] \in {"postchecks", "finish"} => active[t][sess[t]] = target[t]

\* The state of the kid a tool is working on.
KidInHand(t) ==
    /\ (pc[t] = "prechecks" /\ target[t] \in Kids) => state[target[t]] = "prechecking"
    /\ (pc[t] = "activate" /\ target[t] \in Kids) => state[target[t]] = "active"
    /\ (pc[t] = "postchecks" /\ target[t] \in Kids) => state[target[t]] = "postchecking"
    /\ (pc[t] = "finish" /\ target[t] \in Kids) => state[target[t]] = "completed"
    /\ pc[t] \in {"creating", "adding"} =>
          /\ state[target[t]] = "none"
          /\ parent[target[t]] \in Tasks
          /\ Owned(t, parent[target[t]])

\* A kid has a row, a parent and a creator in this order, all of one root; it
\* is unregistered only while it is being created, or for good.
KidFits(k) ==
    /\ traced[k] = "none" => parent[k] = NoTask
    /\ parent[k] = NoTask => state[k] = "none"
    /\ parent[k] # NoTask => parent[k] # k /\ Started(parent[k])
    /\ state[k] = "none" <=> creator[k] = NoTask
    /\ creator[k] # NoTask => Owned(creator[k], parent[k])
    /\ (parent[k] # NoTask /\ state[k] = "none") =>
          \E t \in Roots :
              /\ Owned(t, parent[k])
              /\ \/ pc[t] \in {"creating", "adding"} /\ target[t] = k
                 \/ pc[t] \in Dead

\* A task that is being started has neither subtasks nor a result.
FreshPast(t) ==
    \A u \in Tasks : Past(t, u) =>
        traced[u] # "completed" /\ \A k \in Kids : parent[k] # u

\* A task that is being ended has completed subtasks only.
EndsWhole(t) ==
    pc[t] \in {"postchecks", "finish"} =>
        /\ \A k \in Kids : parent[k] = target[t] => state[k] = "completed"
        /\ (target[t] \in Kids /\ ~(pc[t] = "finish" /\ write[t] = NoWrite)) =>
              traced[parent[target[t]]] # "completed"

\* A session lets go of a task that is recorded as completed.
LetGo(t) ==
    \A n \in Attempts :
        (active[t][n] # NoTask /\ traced[active[t][n]] = "completed") =>
            \/ pc[t] \in Dead
            \/ pc[t] = "finish" /\ write[t] = NoWrite /\ n = sess[t]

\* A kid whose completion was not recorded stays active in its session; only if
\* that is the first one can it be ended again, and then its parent's is over.
StaleKid(t) ==
    \A n \in Attempts : \A k \in Kids :
        (active[t][n] = k /\ state[k] = "completed") =>
            \/ pc[t] \in Dead
            \/ Expired(t, n)
            \/ pc[t] = "finish" /\ n = sess[t]
            \/ /\ n = 1
               /\ traced[parent[k]] # "completed"
               /\ \A m \in Attempts : active[t][m] = parent[k] => Expired(t, m)

SubtreeInv ==
    /\ \A t \in Roots :
          /\ SessionFits(t) /\ KidInHand(t) /\ FreshPast(t)
          /\ EndsWhole(t) /\ LetGo(t) /\ StaleKid(t)
    /\ \A k \in Kids : KidFits(k)
    /\ CompletedSubtree

LEMMA OneOwner ==
    ASSUME NEW s \in Roots, NEW t \in Roots, NEW u, Owned(s, u), Owned(t, u)
    PROVE  s = t
  BY DEF Owned

\* What t's coroutine does leaves the coroutines of the others alone.
LEMMA CoroutinesApart ==
    ASSUME TypeInv, NEW t \in Roots, Moves(t), NEW r \in Roots, r # t
    PROVE  /\ pc'[r] = pc[r] /\ attempt'[r] = attempt[r] /\ sess'[r] = sess[r]
           /\ target'[r] = target[r] /\ write'[r] = write[r]
           /\ active'[r] = active[r]
<1>0. TypeOK
  BY DEF TypeInv
<1> USE DEF TypeOK
<1> DEFINE Apart == /\ pc'[r] = pc[r] /\ attempt'[r] = attempt[r]
                    /\ sess'[r] = sess[r] /\ target'[r] = target[r]
                    /\ write'[r] = write[r] /\ active'[r] = active[r]
<1>1. CASE Persist(t)
  BY <1>1, <1>0 DEF Persist, Raise, coroutine
<1>2. CASE DatabaseError(t)
  BY <1>2, <1>0 DEF DatabaseError, Raise, coroutine
<1>3. CASE BeginAttempt(t)
  BY <1>3, <1>0 DEF BeginAttempt, At, coroutine
<1>4. CASE PreRetryAborts(t)
  BY <1>4, <1>0 DEF PreRetryAborts, At, Await, coroutine
<1>5. CASE OpenSession(t)
  BY <1>5, <1>0 DEF OpenSession, At, coroutine
<1>6. CASE CannotOpenSession(t)
  BY <1>6, <1>0 DEF CannotOpenSession, At, Goto, coroutine
<1>7. CASE Handoff(t)
  BY <1>7, <1>0 DEF Handoff, At, coroutine
<1>8. ASSUME NEW u \in Tasks, StartTask(t, u) PROVE Apart
  BY <1>8, <1>0 DEF StartTask, At, Await, Named, coroutine
<1>9. CASE RunPrechecks(t)
  BY <1>9, <1>0 DEF RunPrechecks, At, Await, coroutine
<1>10. CASE Activate(t)
  BY <1>10, <1>0 DEF Activate, At, Goto, coroutine
<1>11. CASE EndTask(t)
  BY <1>11, <1>0 DEF EndTask, At, Await, ActiveTask, coroutine
<1>12. CASE RunPostchecks(t)
  BY <1>12, <1>0 DEF RunPostchecks, At, Await, coroutine
<1>13. CASE Finish(t)
  BY <1>13, <1>0 DEF Finish, At, Goto, coroutine
<1>14. ASSUME NEW k \in Kids, NEW l \in {"creating", "adding"}, InsertTask(t, k, l)
      PROVE  Apart
  BY <1>14, <1>0 DEF InsertTask, At, ActiveTask, coroutine
<1>15. CASE RegisterTask(t)
  BY <1>15, <1>0 DEF RegisterTask, At, Goto, coroutine
<1>16. CASE SessionEnds(t)
  BY <1>16, <1>0 DEF SessionEnds, At, Goto, coroutine
<1>17. CASE SessionFails(t)
  BY <1>17, <1>0 DEF SessionFails, At, Goto, coroutine
<1>18. CASE Timeout(t)
  BY <1>18, <1>0 DEF Timeout, coroutine
<1>19. CASE CancelTimedOut(t)
  BY <1>19, <1>0 DEF CancelTimedOut, At, Await, coroutine
<1>20. CASE Charge(t)
  BY <1>20, <1>0 DEF Charge, At, Goto, coroutine
<1>21. CASE Judge(t)
  BY <1>21, <1>0 DEF Judge, At, Goto, coroutine
<1>22. CASE FailAttempt(t)
  BY <1>22, <1>0 DEF FailAttempt, At, Goto, Await, coroutine
<1>23. CASE Return(t)
  BY <1>23, <1>0 DEF Return, At, Goto, coroutine
<1>a. Apart
  BY <1>1, <1>2, <1>3, <1>4, <1>5, <1>6, <1>7, <1>8, <1>9, <1>10, <1>11,
     <1>12, <1>13, <1>14, <1>15, <1>16, <1>17, <1>18, <1>19, <1>20, <1>21,
     <1>22, <1>23 DEF Moves, Step
<1> QED
  BY <1>a

\* ... and their tasks, with what becomes of them: a task gets its creator when it
\* is registered, and its parent when its row is inserted.
LEMMA TasksApart ==
    ASSUME ~Shared, TypeInv, SubtreeInv, NEW t \in Roots, Moves(t),
           NEW u \in Tasks, ~Owned(t, u),
           ~(pc[t] \in {"creating", "adding"} /\ target[t] = u),
           u \in Kids => traced[u] # "none"
    PROVE  /\ state'[u] = state[u] /\ traced'[u] = traced[u]
           /\ u \in Kids => creator'[u] = creator[u] /\ parent'[u] = parent[u]
<1>0. TypeOK /\ LabelsFit(t) /\ SessionFits(t) /\ t \in Tasks /\ u # t
  BY DEF TypeInv, SubtreeInv, Owned, Tasks
<1> USE DEF TypeOK, LabelsFit, SessionFits, NoWrite
<1> DEFINE Apart == /\ state'[u] = state[u] /\ traced'[u] = traced[u]
                    /\ u \in Kids => /\ creator'[u] = creator[u]
                                     /\ parent'[u] = parent[u]
<1>1. CASE Persist(t)
  BY <1>1, <1>0 DEF Persist, Raise
<1>2. CASE DatabaseError(t)
  BY <1>2, <1>0 DEF DatabaseError, Raise, task
<1>3. CASE BeginAttempt(t)
  BY <1>3, <1>0 DEF BeginAttempt, At, task
<1>4. CASE PreRetryAborts(t)
  BY <1>4, <1>0 DEF PreRetryAborts, At, Await, task
<1>5. CASE OpenSession(t)
  BY <1>5, <1>0 DEF OpenSession, At, task
<1>6. CASE CannotOpenSession(t)
  BY <1>6, <1>0 DEF CannotOpenSession, At, Goto, task
<1>7. CASE Handoff(t)
  BY <1>7, <1>0 DEF Handoff, At, task
<1>8. ASSUME NEW v \in Tasks, StartTask(t, v) PROVE Apart
  BY <1>8, <1>0 DEF StartTask, At, Await, Named, Owned, task
<1>9. CASE RunPrechecks(t)
  BY <1>9, <1>0 DEF RunPrechecks, At, Await, task
<1>10. CASE Activate(t)
  BY <1>10, <1>0 DEF Activate, At, Goto, task
<1>11. CASE EndTask(t)
  BY <1>11, <1>0 DEF EndTask, At, Await, ActiveTask, task
<1>12. CASE RunPostchecks(t)
  BY <1>12, <1>0 DEF RunPostchecks, At, Await, task
<1>13. CASE Finish(t)
  BY <1>13, <1>0 DEF Finish, At, Goto, task
<1>14. ASSUME NEW k \in Kids, NEW l \in {"creating", "adding"}, InsertTask(t, k, l)
      PROVE  Apart
  BY <1>14, <1>0 DEF InsertTask, At, ActiveTask, task
<1>15. CASE RegisterTask(t)
  BY <1>15, <1>0 DEF RegisterTask, At, Goto, task
<1>16. CASE SessionEnds(t)
  BY <1>16, <1>0 DEF SessionEnds, At, Goto, task
<1>17. CASE SessionFails(t)
  BY <1>17, <1>0 DEF SessionFails, At, Goto, task
<1>18. CASE Timeout(t)
  BY <1>18, <1>0 DEF Timeout, task
<1>19. CASE CancelTimedOut(t)
  BY <1>19, <1>0 DEF CancelTimedOut, At, Await, task
<1>20. CASE Charge(t)
  BY <1>20, <1>0 DEF Charge, At, Goto, task
<1>21. CASE Judge(t)
  BY <1>21, <1>0 DEF Judge, At, Goto, task
<1>22. CASE FailAttempt(t)
  BY <1>22, <1>0 DEF FailAttempt, At, Goto, Await, task
<1>23. CASE Return(t)
  BY <1>23, <1>0 DEF Return, At, Goto, task
<1>a. Apart
  BY <1>1, <1>2, <1>3, <1>4, <1>5, <1>6, <1>7, <1>8, <1>9, <1>10, <1>11,
     <1>12, <1>13, <1>14, <1>15, <1>16, <1>17, <1>18, <1>19, <1>20, <1>21,
     <1>22, <1>23 DEF Moves, Step
<1> QED
  BY <1>a

\* A row is inserted for a task under the active task of its session ...
LEMMA ParentsGrow ==
    ASSUME TypeInv, NEW t \in Roots, Moves(t), NEW k \in Kids
    PROVE  \/ parent'[k] = parent[k]
           \/ /\ traced[k] = "none" /\ traced'[k] = "created"
              /\ At(t, "idle")
              /\ parent'[k] = ActiveTask(t) /\ ActiveTask(t) # NoTask
              /\ pc'[t] \in {"creating", "adding"} /\ target'[t] = k
              /\ UNCHANGED <<state, creator, active, sess>>
<1>0. TypeOK
  BY DEF TypeInv
<1> USE DEF TypeOK
<1>1. CASE \E v \in Kids : \E l \in {"creating", "adding"} : InsertTask(t, v, l)
  BY <1>0, <1>1 DEF InsertTask, Tasks
<1>2. CASE UNCHANGED parent
  BY <1>2
<1> QED
  BY <1>1, <1>2 DEF Moves, Step, Persist, DatabaseError, BeginAttempt,
     PreRetryAborts, OpenSession, CannotOpenSession, Handoff, StartTask,
     RunPrechecks, Activate, EndTask, RunPostchecks, Finish, RegisterTask,
     SessionEnds, SessionFails, Timeout, CancelTimedOut, Charge, Judge,
     FailAttempt, Return, task

\* ... and the session that is creating it becomes its creator.
LEMMA CreatorsGrow ==
    ASSUME TypeInv, NEW t \in Roots, Moves(t), NEW k \in Kids
    PROVE  \/ creator'[k] = creator[k]
           \/ /\ pc[t] \in {"creating", "adding"} /\ target[t] = k
              /\ creator'[k] = t /\ state'[k] = "created"
<1>0. TypeOK /\ LabelsFit(t)
  BY DEF TypeInv
<1>1. CASE RegisterTask(t)
  BY <1>0, <1>1 DEF RegisterTask, At, TypeOK, LabelsFit, Tasks
<1>2. CASE UNCHANGED creator
  BY <1>2
<1> QED
  BY <1>1, <1>2 DEF Moves, Step, Persist, DatabaseError, BeginAttempt,
     PreRetryAborts, OpenSession, CannotOpenSession, Handoff, StartTask,
     RunPrechecks, Activate, EndTask, RunPostchecks, Finish, InsertTask,
     SessionEnds, SessionFails, Timeout, CancelTimedOut, Charge, Judge,
     FailAttempt, Return, task

LEMMA OwnedKept ==
    ASSUME TypeInv, SubtreeInv, NEW t \in Roots, Moves(t), NEW r \in Roots,
           NEW u, Owned(r, u)
    PROVE  Owned(r, u)'
<1>1. CASE u \in Kids
  <2>1. KidFits(u) /\ KidInHand(t) /\ NoTask \notin Roots
    BY <1>1 DEF SubtreeInv, Tasks
  <2>2. creator[u] = r
    BY <1>1 DEF Owned, Tasks
  <2>3. state[u] # "none"
    BY <2>1, <2>2 DEF KidFits
  <2> QED
    BY <1>1, <2>1, <2>2, <2>3, CreatorsGrow DEF Owned, KidInHand
<1>2. CASE u \notin Kids
  BY <1>2 DEF Owned
<1> QED
  BY <1>1, <1>2

\* What the invariant says of one root.
Rooted(t) ==
    /\ SessionFits(t) /\ KidInHand(t) /\ FreshPast(t)
    /\ EndsWhole(t) /\ LetGo(t) /\ StaleKid(t)

\* A step of one coroutine keeps what is said of the other roots.
LEMMA OthersRooted ==
    ASSUME ~Shared, TypeInv, SubtreeInv, NEW t \in Roots, Moves(t),
           NEW r \in Roots, r # t
    PROVE  Rooted(r)'
<1>1. /\ pc'[r] = pc[r] /\ attempt'[r] = attempt[r] /\ sess'[r] = sess[r]
      /\ target'[r] = target[r] /\ write'[r] = write[r] /\ active'[r] = active[r]
  BY CoroutinesApart
<1>2. SessionFits(t) /\ KidInHand(t) /\ TypeOK /\ NoTask \notin Roots /\ NoTask \notin Kids
  BY DEF SubtreeInv, TypeInv, Tasks
<1>3. /\ SessionFits(r) /\ KidInHand(r) /\ FreshPast(r) /\ EndsWhole(r)
      /\ LetGo(r) /\ StaleKid(r) /\ LabelsFit(r)
  BY DEF SubtreeInv, TypeInv
<1>4. ASSUME NEW u \in Tasks, Owned(r, u)
      PROVE  /\ Owned(r, u)' /\ state'[u] = state[u] /\ traced'[u] = traced[u]
             /\ u \in Kids => parent'[u] = parent[u]
  <2>1. ~Owned(t, u)
    BY <1>4, OneOwner
  <2>2. u \in Kids => KidFits(u) /\ creator[u] = r
    BY <1>4 DEF SubtreeInv, Owned, Tasks
  <2>3. u \in Kids => state[u] # "none" /\ traced[u] # "none"
    BY <1>2, <2>2 DEF KidFits
  <2>4. ~(pc[t] \in {"creating", "adding"} /\ target[t] = u)
    BY <1>2, <1>4, <2>1, <2>3 DEF KidInHand, Owned, Tasks, TypeInv, LabelsFit
  <2> QED
    BY <1>4, <2>1, <2>3, <2>4, TasksApart, OwnedKept
<1>5. ASSUME NEW k \in Kids, parent[k] # NoTask, Owned(r, parent[k])
      PROVE  state'[k] = state[k] /\ traced'[k] = traced[k] /\ parent'[k] = parent[k]
  <2>1. k \in Tasks /\ KidFits(k) /\ traced[k] # "none"
    BY <1>5 DEF SubtreeInv, Tasks, KidFits
  <2>2. ~Owned(t, parent[k])
    BY <1>5, OneOwner
  <2>3. CASE state[k] = "none"
    <3>1. ~Owned(t, k)
      BY <1>2, <2>1, <2>3 DEF KidFits, Owned
    <3>2. ~(pc[t] \in {"creating", "adding"} /\ target[t] = k)
      BY <1>2, <2>2 DEF KidInHand
    <3> QED
      BY <2>1, <3>1, <3>2, TasksApart
  <2>4. CASE state[k] # "none"
    <3>1. creator[k] \in Roots /\ Owned(creator[k], parent[k])
      BY <1>2, <2>1, <2>4 DEF KidFits, TypeOK
    <3>2. creator[k] = r
      BY <1>5, <3>1, OneOwner
    <3> QED
      BY <1>4, <2>1, <3>2 DEF Owned
  <2> QED
    BY <2>3, <2>4
<1>6. ASSUME NEW k \in Kids, NEW u \in Tasks, Owned(r, u), parent'[k] = u
      PROVE  parent[k] = u
  <2>1. Owned(t, ActiveTask(t)) \/ ActiveTask(t) = NoTask
    BY <1>2 DEF SessionFits, ActiveTask, TypeOK
  <2> QED
    BY <1>6, <2>1, ParentsGrow, OneOwner
<1>7. ASSUME NEW k \in Kids, Owned(r, k)
      PROVE  parent[k] \in Tasks /\ Owned(r, parent[k])
  <2>1. KidFits(k) /\ creator[k] = r
    BY <1>7 DEF SubtreeInv, Owned
  <2>2. state[k] # "none" /\ parent[k] # NoTask /\ Owned(r, parent[k])
    BY <1>2, <2>1 DEF KidFits
  <2> QED
    BY <1>2, <2>2 DEF TypeOK
<1> USE DEF Tasks
<1>8. SessionFits(r)'
  BY <1>1, <1>2, <1>3, <1>4 DEF SessionFits, TypeOK, LabelsFit
<1>9. KidInHand(r)'
  BY <1>1, <1>2, <1>3, <1>4, <1>5, <1>7 DEF KidInHand, SessionFits, LabelsFit
<1>10. FreshPast(r)'
  BY <1>1, <1>3, <1>4, <1>6 DEF FreshPast, SessionFits, Past
<1>11. EndsWhole(r)'
  BY <1>1, <1>2, <1>3, <1>4, <1>5, <1>6, <1>7 DEF EndsWhole, SessionFits, LabelsFit
<1>12. LetGo(r)'
  BY <1>1, <1>2, <1>3, <1>4 DEF LetGo, SessionFits, TypeOK
<1>13. StaleKid(r)'
  BY <1>1, <1>2, <1>3, <1>4, <1>7 DEF StaleKid, Expired, SessionFits, TypeOK
<1> QED
  BY <1>8, <1>9, <1>10, <1>11, <1>12, <1>13 DEF Rooted

\* Steps that touch no subtask and end up at no tool: they only move t along its
\* attempts.
Quiet(t) ==
    /\ UNCHANGED <<traced, parent, creator, active>>
    /\ \A k \in Kids : state'[k] = state[k]
    /\ pc'[t] \in {"idle"} \cup Outside \cup Over
    /\ pc'[t] = "idle" => sess'[t] \in {1, attempt'[t]} /\ attempt'[t] >= 1
    /\ write'[t] # NoWrite => target'[t] = t /\ write'[t] # "completed"
    /\ pc[t] \in Dead => pc'[t] \in Dead
    /\ pc[t] = "finish" => pc'[t] \in Dead
    /\ attempt'[t] >= attempt[t]
    /\ \A n \in Attempts : Expired(t, n) => Expired(t, n)' \/ pc'[t] \in Dead

LEMMA QuietRooted ==
    ASSUME TypeInv, SubtreeInv, NEW t \in Roots, Quiet(t), TypeInv'
    PROVE  Rooted(t)'
<1>1. /\ SessionFits(t) /\ KidInHand(t) /\ LetGo(t) /\ StaleKid(t)
      /\ TypeOK /\ TypeOK'
  BY DEF SubtreeInv, TypeInv
<1>2. pc'[t] \notin {"prechecks", "activate", "postchecks", "finish", "creating", "adding"}
  BY DEF Quiet, Outside, Over
<1>3. SessionFits(t)'
  <2>1. \A n \in Attempts : active'[t][n] # NoTask =>
           n <= attempt'[t] /\ Owned(t, active[t][n])'
    <3>1. attempt[t] \in Int /\ attempt'[t] \in Int /\ attempt'[t] >= attempt[t]
      BY <1>1 DEF Quiet, TypeOK
    <3>2. \A n \in Attempts : n \in Int
      BY DEF Attempts
    <3>3. UNCHANGED <<creator, active>>
      BY DEF Quiet
    <3>4. \A n \in Attempts : active[t][n] # NoTask =>
             n <= attempt[t] /\ Owned(t, active[t][n])
      BY <1>1 DEF SessionFits
    <3> QED
      BY <3>1, <3>2, <3>3, <3>4 DEF Owned
  <2>2. pc'[t] \in InSession => sess'[t] \in {1, attempt'[t]} /\ attempt'[t] >= 1
    BY <1>2 DEF Quiet, InSession
  <2> QED
    <3>1. write'[t] # NoWrite => Owned(t, target[t])' /\ write'[t] # "completed"
      BY DEF Quiet, Owned
    <3> QED
      BY <1>2, <2>1, <2>2, <3>1 DEF SessionFits, NoWrite
<1>4. KidInHand(t)' /\ FreshPast(t)' /\ EndsWhole(t)'
  BY <1>2 DEF KidInHand, FreshPast, EndsWhole, Past
<1>5. LetGo(t)'
  BY <1>1 DEF Quiet, LetGo
<1>6. StaleKid(t)'
  <2> SUFFICES ASSUME NEW n \in Attempts, NEW k \in Kids,
                      active'[t][n] = k, state'[k] = "completed",
                      pc'[t] \notin Dead
               PROVE  \/ Expired(t, n)'
                      \/ /\ n = 1
                         /\ traced'[parent'[k]] # "completed"
                         /\ \A m \in Attempts :
                               active'[t][m] = parent'[k] => Expired(t, m)'
    BY DEF StaleKid
  <2>1. active[t][n] = k /\ state[k] = "completed" /\ pc[t] \notin Dead
    BY DEF Quiet
  <2>2. \A m \in Attempts : Expired(t, m) => Expired(t, m)'
    BY DEF Quiet
  <2>3. pc[t] # "finish" /\ UNCHANGED <<traced, parent, active>>
    BY DEF Quiet
  <2> QED
    BY <1>1, <2>1, <2>2, <2>3 DEF StaleKid
<1> QED
  BY <1>3, <1>4, <1>5, <1>6 DEF Rooted

\* A write that is refused or fails ends the attempt; a completion that was not
\* recorded leaves its kid active in a session of the attempt.
LEMMA RaiseRooted ==
    ASSUME TypeInv, HolderStands, SubtreeInv, NEW t \in Roots, write[t] # NoWrite,
           Raise(t), UNCHANGED <<state, traced, parent, creator, active>>, TypeInv'
    PROVE  Rooted(t)'
<1>1. /\ SessionFits(t) /\ EndsWhole(t) /\ LetGo(t) /\ StaleKid(t) /\ LabelsFit(t)
      /\ TypeOK
  BY DEF SubtreeInv, TypeInv
<1>2. UNCHANGED <<attempt, sess, target>> /\ write'[t] = NoWrite
  BY <1>1 DEF Raise, TypeOK
<1>3. CASE pc[t] \notin InSession
  <2>1. pc[t] = "leave" /\ pc'[t] = "raised"
    BY <1>1, <1>3 DEF Raise, LabelsFit, TypeOK
  <2>2. Quiet(t)
    BY <1>2, <2>1 DEF Quiet, Dead, Over, TypeInv, TypeOK
  <2> QED
    BY <2>2, QuietRooted
<1>4. CASE pc[t] \in InSession
  <2>1. pc'[t] = "failing" /\ pc[t] \notin Dead
    BY <1>1, <1>4 DEF Raise, TypeOK, InSession, Dead, Over
  <2>2. \A n \in Attempts : Expired(t, n) => Expired(t, n)'
    BY <1>2, <1>4, <2>1 DEF Expired, InSession
  <2>3. \A n \in Attempts : active[t][n] # NoTask /\ n # 1 => Expired(t, n)'
    BY <1>1, <1>2, <2>1 DEF Expired, SessionFits, TypeOK, Attempts
  <2>4. SessionFits(t)' /\ KidInHand(t)' /\ FreshPast(t)' /\ EndsWhole(t)'
    BY <1>1, <1>2, <2>1 DEF SessionFits, KidInHand, FreshPast, EndsWhole, Past,
       InSession, Owned, NoWrite
  <2>5. LetGo(t)'
    BY <1>1, <1>2, <2>1 DEF LetGo
  <2>6. StaleKid(t)'
    <3> SUFFICES ASSUME NEW n \in Attempts, NEW k \in Kids,
                        active[t][n] = k, state[k] = "completed",
                        ~Expired(t, n)'
                 PROVE  /\ n = 1
                        /\ traced[parent[k]] # "completed"
                        /\ \A m \in Attempts :
                              active[t][m] = parent[k] => Expired(t, m)'
      BY DEF StaleKid
    <3>1. n = 1
      BY <2>3 DEF Tasks
    <3>2. CASE pc[t] = "finish" /\ n = sess[t]
      <4>1. target[t] = k
        BY <1>1, <3>2 DEF SessionFits
      <4>2. traced[parent[k]] # "completed"
        BY <1>1, <3>2, <4>1 DEF EndsWhole
      <4>3. parent[k] # NoTask /\ parent[k] # k
        BY DEF SubtreeInv, KidFits
      <4> QED
        BY <2>3, <3>1, <4>2, <4>3
    <3>3. CASE ~(pc[t] = "finish" /\ n = sess[t])
      BY <1>1, <2>1, <2>2, <3>1, <3>3 DEF StaleKid, Expired
    <3> QED
      BY <3>2, <3>3
  <2> QED
    BY <2>4, <2>5, <2>6 DEF Rooted
<1> QED
  BY <1>3, <1>4

\* A write that commits.  Only a completion matters: it is the end of end_task.
LEMMA CommitRooted ==
    ASSUME TypeInv, HolderStands, SubtreeInv, NEW t \in Roots, write[t] # NoWrite,
           ValidTaskTransition(traced[target[t]], write[t]),
           traced' = [traced EXCEPT ![target[t]] = write[t]],
           write' = [write EXCEPT ![t] = NoWrite],
           UNCHANGED <<state, parent, creator, active, pc, attempt, sess, target>>
    PROVE  Rooted(t)'
<1>1. /\ SessionFits(t) /\ KidInHand(t) /\ FreshPast(t) /\ EndsWhole(t) /\ LetGo(t)
      /\ StaleKid(t) /\ LabelsFit(t) /\ TypeOK
  BY DEF SubtreeInv, TypeInv
<1>2. PICK u \in Tasks : u = target[t]
  BY <1>1 DEF LabelsFit
<1>3. /\ traced'[u] = write[t] /\ \A x \in Tasks \ {u} : traced'[x] = traced[x]
      /\ write'[t] = NoWrite
  BY <1>1, <1>2 DEF TypeOK
<1>4. SessionFits(t)' /\ KidInHand(t)'
  BY <1>1, <1>3 DEF SessionFits, KidInHand, Owned, NoWrite
<1>5. FreshPast(t)'
  <2> SUFFICES ASSUME NEW x \in Tasks, Past(t, x)'
               PROVE  traced'[x] # "completed" /\ \A k \in Kids : parent[k] # x
    BY DEF FreshPast
  <2>1. x = u /\ pc[t] \in {"prechecks", "activate"}
    BY <1>2 DEF Past
  <2>2. traced'[u] # "completed"
    BY <1>1, <1>3, <2>1 DEF SessionFits
  <2>3. CASE pc[t] = "activate"
    BY <1>1, <1>2, <2>1, <2>2, <2>3 DEF FreshPast, Past
  <2>4. CASE pc[t] = "prechecks"
    <3>1. traced[u] = "created"
      BY <1>1, <1>2, <2>4 DEF LabelsFit, ValidTaskTransition, TASK_TRANSITIONS
    <3>2. \A k \in Kids : parent[k] # u
      BY <1>2, <3>1 DEF SubtreeInv, KidFits, Started, Tasks
    <3> QED
      BY <2>1, <2>2, <3>2
  <2> QED
    BY <2>1, <2>3, <2>4
<1>6. EndsWhole(t)'
  <2>1. u \in Kids => (parent[u] \in Tasks /\ parent[u] # u) \/ parent[u] = NoTask
    BY <1>1 DEF SubtreeInv, KidFits, TypeOK
  <2>2. u \in Kids /\ pc[t] \in {"postchecks", "finish"} => parent[u] # NoTask
    BY <1>1, <1>2 DEF KidInHand, SubtreeInv, KidFits
  <2> QED
    BY <1>1, <1>2, <1>3, <2>1, <2>2 DEF EndsWhole
<1>7. LetGo(t)'
  <2> SUFFICES ASSUME NEW n \in Attempts, active[t][n] # NoTask,
                      traced'[active[t][n]] = "completed", pc[t] \notin Dead
               PROVE  pc[t] = "finish" /\ n = sess[t]
    BY <1>3 DEF LetGo
  <2>1. active[t][n] \in Tasks /\ sess[t] \in Attempts
    BY <1>1 DEF TypeOK
  <2>2. CASE active[t][n] # u
    BY <1>1, <1>3, <2>1, <2>2 DEF LetGo
  <2>3. CASE active[t][n] = u
    <3>1. pc[t] = "finish"
      BY <1>1, <1>3, <2>3 DEF SessionFits
    <3>2. active[t][sess[t]] = u
      BY <1>1, <1>2, <3>1 DEF SessionFits
    <3> QED
      BY <2>1, <2>3, <3>1, <3>2 DEF HolderStands, OneActivation, Tasks
  <2> QED
    BY <2>2, <2>3
<1>8. StaleKid(t)'
  <2> SUFFICES ASSUME NEW n \in Attempts, NEW k \in Kids, active[t][n] = k,
                      state[k] = "completed", pc[t] \notin Dead,
                      ~Expired(t, n), ~(pc[t] = "finish" /\ n = sess[t])
               PROVE  /\ n = 1
                      /\ traced'[parent[k]] # "completed"
                      /\ \A m \in Attempts :
                            active[t][m] = parent[k] => Expired(t, m)
    BY DEF StaleKid, Expired
  <2>1. /\ n = 1
        /\ traced[parent[k]] # "completed"
        /\ \A m \in Attempts : active[t][m] = parent[k] => Expired(t, m)
    BY <1>1 DEF StaleKid
  <2>2. parent[k] \in Tasks
    BY <1>1 DEF SubtreeInv, KidFits, TypeOK
  <2>3. ASSUME parent[k] = u, write[t] = "completed" PROVE FALSE
    <3>1. pc[t] = "finish" /\ active[t][sess[t]] = u /\ sess[t] \in Attempts
      BY <1>1, <1>2, <2>3 DEF SessionFits, TypeOK
    <3>2. Expired(t, sess[t])
      BY <2>1, <2>3, <3>1
    <3> QED
      BY <1>1, <3>1, <3>2 DEF Expired, SessionFits, InSession, TypeOK, Attempts
  <2> QED
    BY <1>3, <2>1, <2>2, <2>3
<1> QED
  BY <1>4, <1>5, <1>6, <1>7, <1>8 DEF Rooted

\* The lifecycle tools.
LEMMA ToolsRooted ==
    ASSUME ~Shared, TypeInv, HolderStands, SubtreeInv, NEW t \in Roots, TypeInv',
           \/ \E u \in Tasks : StartTask(t, u)
           \/ RunPrechecks(t) \/ Activate(t) \/ EndTask(t) \/ RunPostchecks(t)
           \/ Finish(t) \/ RegisterTask(t)
           \/ \E k \in Kids : \E l \in {"creating", "adding"} : InsertTask(t, k, l)
    PROVE  Rooted(t)'
<1>1. /\ SessionFits(t) /\ KidInHand(t) /\ FreshPast(t) /\ EndsWhole(t) /\ LetGo(t)
      /\ StaleKid(t) /\ LabelsFit(t) /\ TypeOK /\ NoTask \notin Tasks
  BY DEF SubtreeInv, TypeInv
<1>2. \A k \in Kids : KidFits(k)
  BY DEF SubtreeInv
<1>3. ASSUME NEW u \in Tasks, StartTask(t, u) PROVE Rooted(t)'
  <2>1. /\ UNCHANGED <<traced, parent, creator, active, attempt, sess>>
        /\ pc[t] = "idle" /\ pc'[t] = "prechecks" /\ target'[t] = u
        /\ write'[t] = "prechecking" /\ state[u] = "created"
        /\ state'[u] = "prechecking" /\ \A x \in Tasks \ {u} : state'[x] = state[x]
    BY <1>1, <1>3 DEF StartTask, At, Await, TypeOK
  <2>2. Owned(t, u)
    BY <1>3 DEF StartTask, Named, Owned
  <2>3. SessionFits(t)' /\ KidInHand(t)' /\ FreshPast(t)' /\ EndsWhole(t)'
    BY <1>1, <2>1, <2>2 DEF SessionFits, KidInHand, FreshPast, EndsWhole, Past,
       Owned, InSession, NoWrite
  <2>4. LetGo(t)' /\ StaleKid(t)'
    BY <1>1, <2>1 DEF LetGo, StaleKid, Expired, Dead, Over, Tasks
  <2> QED
    BY <2>3, <2>4 DEF Rooted
<1>4. CASE RunPrechecks(t)
  <2>1. PICK u \in Tasks : u = target[t]
    BY <1>1, <1>4 DEF RunPrechecks, At, LabelsFit
  <2>2. /\ UNCHANGED <<traced, parent, creator, active, attempt, sess>>
        /\ pc[t] = "prechecks" /\ write[t] = NoWrite
        /\ \A x \in Tasks \ {u} : state'[x] = state[x]
        /\ \/ pc'[t] = "activate" /\ state'[u] = "active" /\ write'[t] = "active"
           \/ /\ pc'[t] = "idle" /\ state'[u] = "precheck_failed"
              /\ write'[t] = "precheck_failed"
        /\ target'[t] = u
    BY <1>1, <1>4, <2>1 DEF RunPrechecks, At, Await, TypeOK
  <2>3. SessionFits(t)' /\ KidInHand(t)' /\ FreshPast(t)' /\ EndsWhole(t)'
    BY <1>1, <2>1, <2>2 DEF SessionFits, KidInHand, FreshPast, EndsWhole, Past,
       Owned, InSession, NoWrite
  <2>4. LetGo(t)' /\ StaleKid(t)'
    BY <1>1, <2>1, <2>2 DEF LetGo, StaleKid, Expired, Dead, Over, Tasks
  <2> QED
    BY <2>3, <2>4 DEF Rooted
<1>5. CASE Activate(t)
  <2>1. PICK u \in Tasks : u = target[t]
    BY <1>1, <1>5 DEF Activate, At, LabelsFit
  <2>2. /\ UNCHANGED <<state, traced, parent, creator, attempt, sess, target, write>>
        /\ pc[t] = "activate" /\ pc'[t] = "idle" /\ write[t] = NoWrite
        /\ active'[t][sess[t]] = u /\ sess[t] \in Attempts
        /\ \A n \in Attempts \ {sess[t]} : active'[t][n] = active[t][n]
    BY <1>1, <1>5, <2>1 DEF Activate, At, Goto, task, TypeOK
  <2>3. traced[u] # "completed" /\ \A k \in Kids : parent[k] # u
    BY <1>1, <2>1, <2>2 DEF FreshPast, Past
  <2>4. u \in Kids => state[u] = "active"
    BY <1>1, <2>1, <2>2 DEF KidInHand
  <2>5. SessionFits(t)'
    <3>1. Owned(t, u) /\ sess[t] <= attempt[t] /\ sess[t] \in {1, attempt[t]} /\ attempt[t] >= 1
      BY <1>1, <2>1, <2>2 DEF SessionFits, InSession, TypeOK, Attempts
    <3> QED
      BY <1>1, <2>1, <2>2, <3>1 DEF SessionFits, Owned, InSession, NoWrite
  <2>6. KidInHand(t)' /\ FreshPast(t)' /\ EndsWhole(t)'
    BY <2>2 DEF KidInHand, FreshPast, EndsWhole, Past
  <2>7. LetGo(t)'
    BY <1>1, <2>1, <2>2, <2>3 DEF LetGo, Dead, Over
  <2>8. StaleKid(t)'
    BY <1>1, <2>1, <2>2, <2>3, <2>4 DEF StaleKid, Expired, Dead, Over
  <2> QED
    BY <2>5, <2>6, <2>7, <2>8 DEF Rooted
<1>6. CASE EndTask(t)
  <2>1. PICK u \in Tasks : u = active[t][sess[t]]
    BY <1>1, <1>6 DEF EndTask, ActiveTask, TypeOK
  <2>2. /\ UNCHANGED <<traced, parent, creator, active, attempt, sess>>
        /\ pc[t] = "idle" /\ pc'[t] = "postchecks" /\ target'[t] = u
        /\ write'[t] = "postchecking" /\ sess[t] \in Attempts
        /\ state'[u] = "postchecking" /\ \A x \in Tasks \ {u} : state'[x] = state[x]
    BY <1>1, <1>6, <2>1 DEF EndTask, ActiveTask, At, Await, TypeOK
  <2>3. Owned(t, u) /\ sess[t] \in {1, attempt[t]} /\ attempt[t] >= 1
    BY <1>1, <2>1, <2>2 DEF SessionFits, InSession
  <2>4. SessionFits(t)' /\ KidInHand(t)' /\ FreshPast(t)'
    BY <1>1, <2>1, <2>2, <2>3 DEF SessionFits, KidInHand, FreshPast, Past,
       Owned, InSession, NoWrite
  <2>5. EndsWhole(t)'
    <3>1. ASSUME NEW k \in Kids, parent[k] = u PROVE state'[k] = "completed"
      <4>1. k # u /\ k \in Tasks
        BY <1>1, <1>2, <3>1 DEF KidFits, Tasks
      <4>2. state[k] # "none"
        BY <1>1, <1>2, <2>2, <2>3, <3>1, OneOwner DEF KidFits, Dead, Over
      <4>3. state[k] = "completed"
        BY <1>6, <2>1, <3>1, <4>2 DEF EndTask, ActiveTask, Incomplete, Children
      <4> QED
        BY <2>2, <4>1, <4>3
    <3>2. ASSUME u \in Kids PROVE traced[parent[u]] # "completed"
      <4>1. parent[u] \in Tasks
        <5>1. creator[u] = t /\ t # NoTask
          BY <2>3, <3>2 DEF Owned, Tasks
        <5> QED
          BY <1>1, <1>2, <3>2, <5>1 DEF KidFits, TypeOK
      <4>2. ~Expired(t, sess[t])
        BY <1>1, <2>2, <2>3 DEF Expired, TypeOK
      <4>3. state[u] = "completed" => traced[parent[u]] # "completed"
        BY <1>1, <2>1, <2>2, <3>2, <4>2 DEF StaleKid, Dead, Over
      <4> QED
        BY <3>2, <4>1, <4>3 DEF SubtreeInv, CompletedSubtree
    <3> QED
      BY <2>2, <3>1, <3>2 DEF EndsWhole
  <2>6. LetGo(t)' /\ StaleKid(t)'
    BY <1>1, <2>2 DEF LetGo, StaleKid, Expired, Dead, Over, Tasks
  <2> QED
    BY <2>4, <2>5, <2>6 DEF Rooted
<1>7. CASE RunPostchecks(t)
  <2>1. PICK u \in Tasks : u = target[t]
    BY <1>1, <1>7 DEF RunPostchecks, At, LabelsFit
  <2>2. /\ UNCHANGED <<traced, parent, creator, active, attempt, sess>>
        /\ pc[t] = "postchecks" /\ write[t] = NoWrite /\ target'[t] = u
        /\ \A x \in Tasks \ {u} : state'[x] = state[x]
        /\ \/ pc'[t] = "finish" /\ state'[u] = "completed" /\ write'[t] = "completed"
           \/ /\ pc'[t] = "idle" /\ state'[u] = "postcheck_failed"
              /\ write'[t] = "postcheck_failed"
    BY <1>1, <1>7, <2>1 DEF RunPostchecks, At, Await, TypeOK
  <2>3. active[t][sess[t]] = u /\ sess[t] \in Attempts /\ Owned(t, u)
    BY <1>1, <2>1, <2>2 DEF SessionFits, TypeOK
  <2>4. SessionFits(t)' /\ KidInHand(t)' /\ FreshPast(t)'
    BY <1>1, <2>1, <2>2, <2>3 DEF SessionFits, KidInHand, FreshPast, Past,
       Owned, InSession, NoWrite
  <2>5. EndsWhole(t)'
    <3>1. \A k \in Kids : parent[k] = u => k # u
      BY <1>1, <1>2 DEF KidFits
    <3> QED
      BY <1>1, <2>1, <2>2, <3>1 DEF EndsWhole, Tasks
  <2>6. LetGo(t)'
    BY <1>1, <2>2 DEF LetGo, Dead, Over
  <2>7. \A n \in Attempts : active[t][n] = u => n = sess[t]
    BY <1>1, <2>3 DEF HolderStands, OneActivation
  <2>8. StaleKid(t)'
    BY <1>1, <2>2, <2>7 DEF StaleKid, Expired, Dead, Over, Tasks
  <2> QED
    BY <2>4, <2>5, <2>6, <2>8 DEF Rooted
<1>8. CASE Finish(t)
  <2>1. /\ UNCHANGED <<state, traced, parent, creator, attempt, sess, target, write>>
        /\ pc[t] = "finish" /\ pc'[t] = "idle" /\ write[t] = NoWrite
        /\ active'[t][sess[t]] = NoTask /\ sess[t] \in Attempts
        /\ \A n \in Attempts \ {sess[t]} : active'[t][n] = active[t][n]
    BY <1>1, <1>8 DEF Finish, At, Goto, task, TypeOK
  <2>2. SessionFits(t)' /\ KidInHand(t)' /\ FreshPast(t)' /\ EndsWhole(t)'
    BY <1>1, <2>1 DEF SessionFits, KidInHand, FreshPast, EndsWhole, Past,
       Owned, InSession, NoWrite
  <2>3. LetGo(t)'
    BY <1>1, <2>1 DEF LetGo, Dead, Over
  <2>4. StaleKid(t)'
    <3> SUFFICES ASSUME NEW n \in Attempts, NEW k \in Kids,
                        active'[t][n] = k, state[k] = "completed"
                 PROVE  \/ Expired(t, n)'
                        \/ /\ n = 1 /\ traced[parent[k]] # "completed"
                           /\ \A m \in Attempts :
                                active'[t][m] = parent[k] => Expired(t, m)'
      BY <2>1 DEF StaleKid
    <3>1. n # sess[t] /\ active[t][n] = k /\ parent[k] # NoTask
      BY <1>1, <1>2, <2>1 DEF KidFits, Tasks
    <3>2. \A m \in Attempts : Expired(t, m) => Expired(t, m)'
      BY <2>1 DEF Expired
    <3> QED
      BY <1>1, <2>1, <3>1, <3>2 DEF StaleKid, Dead, Over
  <2> QED
    BY <2>2, <2>3, <2>4 DEF Rooted
<1>9. CASE RegisterTask(t)
  <2>1. PICK k \in Kids : k = target[t]
    BY <1>1, <1>9 DEF RegisterTask, At, LabelsFit
  <2>2. /\ UNCHANGED <<traced, parent, active, attempt, sess, target, write>>
        /\ pc[t] \in {"creating", "adding"} /\ pc'[t] = "idle" /\ write[t] = NoWrite
        /\ state'[k] = "created" /\ \A x \in Tasks \ {k} : state'[x] = state[x]
        /\ creator'[k] = t /\ \A x \in Kids \ {k} : creator'[x] = creator[x]
    BY <1>1, <1>9, <2>1 DEF RegisterTask, At, Goto, TypeOK, Tasks
  <2>3. SessionFits(t)'
    <3>1. \A x : Owned(t, x) => Owned(t, x)'
      BY <2>2 DEF Owned
    <3> QED
      BY <1>1, <2>2, <3>1 DEF SessionFits, InSession, NoWrite, Owned
  <2>4. KidInHand(t)' /\ FreshPast(t)' /\ EndsWhole(t)'
    BY <2>2 DEF KidInHand, FreshPast, EndsWhole, Past
  <2>5. LetGo(t)' /\ StaleKid(t)'
    BY <1>1, <2>2 DEF LetGo, StaleKid, Expired, Dead, Over, Tasks
  <2> QED
    BY <2>3, <2>4, <2>5 DEF Rooted
<1>10. ASSUME NEW k \in Kids, NEW l \in {"creating", "adding"}, InsertTask(t, k, l)
       PROVE  Rooted(t)'
  <2>1. PICK u \in Tasks : u = active[t][sess[t]]
    BY <1>1, <1>10 DEF InsertTask, ActiveTask, TypeOK
  <2>2. /\ UNCHANGED <<state, creator, active, attempt, sess, write>>
        /\ pc[t] = "idle" /\ pc'[t] = l /\ write[t] = NoWrite /\ target'[t] = k
        /\ traced[k] = "none" /\ sess[t] \in Attempts
        /\ traced'[k] = "created" /\ \A x \in Tasks \ {k} : traced'[x] = traced[x]
        /\ parent'[k] = u /\ \A x \in Kids \ {k} : parent'[x] = parent[x]
    BY <1>1, <1>10, <2>1 DEF InsertTask, ActiveTask, At, TypeOK, Tasks
  <2>3. state[k] = "none" /\ Owned(t, u)
    BY <1>1, <1>2, <2>1, <2>2 DEF KidFits, SessionFits
  <2>4. SessionFits(t)' /\ KidInHand(t)' /\ FreshPast(t)' /\ EndsWhole(t)'
    BY <1>1, <2>2, <2>3 DEF SessionFits, KidInHand, FreshPast, EndsWhole, Past,
       Owned, InSession, NoWrite
  <2>5. LetGo(t)'
    BY <1>1, <2>2 DEF LetGo, Dead, Over, TypeOK
  <2>6. StaleKid(t)'
    <3> SUFFICES ASSUME NEW n \in Attempts, NEW x \in Kids,
                        active[t][n] = x, state[x] = "completed"
                 PROVE  \/ Expired(t, n)'
                        \/ /\ n = 1 /\ traced'[parent'[x]] # "completed"
                           /\ \A m \in Attempts :
                                active[t][m] = parent'[x] => Expired(t, m)'
      BY <2>2 DEF StaleKid
    <3>1. x # k /\ parent[x] \in Tasks /\ parent'[x] = parent[x]
      BY <1>1, <1>2, <2>2, <2>3 DEF KidFits, TypeOK
    <3>2. \A m \in Attempts : Expired(t, m) => Expired(t, m)'
      BY <2>2 DEF Expired
    <3> QED
      BY <1>1, <2>2, <3>1, <3>2 DEF StaleKid, Dead, Over
  <2> QED
    BY <2>4, <2>5, <2>6 DEF Rooted
<1> QED
  BY <1>3, <1>4, <1>5, <1>6, <1>7, <1>8, <1>9, <1>10

\* The attempt loop and the ends of a session.
LEMMA LoopQuiet ==
    ASSUME TypeInv, SubtreeInv, NEW t \in Roots,
           \/ BeginAttempt(t) \/ PreRetryAborts(t) \/ OpenSession(t)
           \/ CannotOpenSession(t) \/ Handoff(t) \/ SessionEnds(t) \/ SessionFails(t)
           \/ Timeout(t) \/ CancelTimedOut(t) \/ Charge(t) \/ Judge(t)
           \/ FailAttempt(t) \/ Return(t)
    PROVE  Quiet(t)
<1>0. TypeOK /\ LabelsFit(t) /\ SessionFits(t) /\ t \notin Kids
  BY DEF TypeInv, SubtreeInv
<1> USE DEF TypeOK, LabelsFit, Quiet, Outside, Over, Dead, Expired, Attempts, NoWrite,
        Tasks
<1>1. CASE BeginAttempt(t)
  BY <1>0, <1>1 DEF BeginAttempt, At, task
<1>2. CASE PreRetryAborts(t)
  BY <1>0, <1>2 DEF PreRetryAborts, At, Await
<1>3. CASE OpenSession(t)
  BY <1>0, <1>3 DEF OpenSession, At, task
<1>4. CASE CannotOpenSession(t)
  BY <1>0, <1>4 DEF CannotOpenSession, At, Goto, task
<1>5. CASE Handoff(t)
  BY <1>0, <1>5 DEF Handoff, At, SessionFits, InSession, task
<1>6. CASE SessionEnds(t)
  BY <1>0, <1>6 DEF SessionEnds, At, Goto, task
<1>7. CASE SessionFails(t)
  BY <1>0, <1>7 DEF SessionFails, At, Goto, task
<1>8. CASE Timeout(t)
  BY <1>0, <1>8 DEF Timeout, task
<1>9. CASE CancelTimedOut(t)
  BY <1>0, <1>9 DEF CancelTimedOut, At, Await
<1>10. CASE Charge(t)
  BY <1>0, <1>10 DEF Charge, At, Goto, task
<1>11. CASE Judge(t)
  BY <1>0, <1>11 DEF Judge, At, Goto, task
<1>12. CASE FailAttempt(t)
  BY <1>0, <1>12 DEF FailAttempt, At, Goto, Await
<1>13. CASE Return(t)
  BY <1>0, <1>13 DEF Return, At, Goto, task
<1> QED
  BY <1>1, <1>2, <1>3, <1>4, <1>5, <1>6, <1>7, <1>8, <1>9, <1>10, <1>11,
     <1>12, <1>13

\* A step of a coroutine keeps what is said of its own root.
LEMMA OwnRooted ==
    ASSUME ~Shared, TypeInv, HolderStands, SubtreeInv, NEW t \in Roots, Moves(t),
           TypeInv'
    PROVE  Rooted(t)'
<1>1. CASE \/ BeginAttempt(t) \/ PreRetryAborts(t) \/ OpenSession(t)
           \/ CannotOpenSession(t) \/ Handoff(t) \/ SessionEnds(t) \/ SessionFails(t)
           \/ Timeout(t) \/ CancelTimedOut(t) \/ Charge(t) \/ Judge(t)
           \/ FailAttempt(t) \/ Return(t)
  BY <1>1, LoopQuiet, QuietRooted
<1>2. CASE DatabaseError(t)
  <2>1. /\ write[t] # NoWrite /\ Raise(t)
        /\ UNCHANGED <<state, traced, parent, creator, active>>
    BY <1>2 DEF DatabaseError, task
  <2> QED
    BY <2>1, RaiseRooted
<1>3. CASE Persist(t)
  <2>1. CASE ValidTaskTransition(traced[target[t]], write[t])
    BY <1>3, <2>1, CommitRooted DEF Persist
  <2>2. CASE ~ValidTaskTransition(traced[target[t]], write[t])
    BY <1>3, <2>2, RaiseRooted DEF Persist
  <2> QED
    BY <2>1, <2>2
<1>4. CASE \/ \E u \in Tasks : StartTask(t, u)
           \/ RunPrechecks(t) \/ Activate(t) \/ EndTask(t) \/ RunPostchecks(t)
           \/ Finish(t) \/ RegisterTask(t)
           \/ \E k \in Kids : \E l \in {"creating", "adding"} : InsertTask(t, k, l)
  BY <1>4, ToolsRooted
<1> QED
  BY <1>1, <1>2, <1>3, <1>4 DEF Moves, Step

\* How a step of t's coroutine moves a kid on: what is started, recorded or
\* registered stays so, and only the end of a create tool registers it.
KidAdvances(t, k) ==
    /\ \A u \in Tasks : Started(u) => Started(u)'
    /\ traced[k] # "none" => traced'[k] # "none"
    /\ state[k] # "none" => state'[k] # "none"
    /\ (state[k] = "none" /\ state'[k] # "none") =>
          /\ pc[t] \in {"creating", "adding"} /\ target[t] = k
          /\ creator'[k] = t
    /\ pc[t] \in {"creating", "adding"} =>
          pc'[t] \in Dead \/ state'[target[t]] # "none"
    /\ pc[t] \in Dead => pc'[t] \in Dead

LEMMA KidsAdvance ==
    ASSUME ~Shared, TypeInv, SubtreeInv, NEW t \in Roots, Moves(t), NEW k \in Kids
    PROVE  KidAdvances(t, k)
<1>0. /\ TypeOK /\ LabelsFit(t) /\ SessionFits(t) /\ KidInHand(t) /\ KidFits(k)
      /\ NoTask \notin Tasks /\ "none" \notin TaskState /\ k \in Tasks /\ t \in Tasks
      /\ k # t
  BY DEF TypeInv, SubtreeInv, Tasks, TaskState
<1>1. CASE \/ BeginAttempt(t) \/ PreRetryAborts(t) \/ OpenSession(t)
           \/ CannotOpenSession(t) \/ Handoff(t) \/ SessionEnds(t) \/ SessionFails(t)
           \/ Timeout(t) \/ CancelTimedOut(t) \/ Charge(t) \/ Judge(t)
           \/ FailAttempt(t) \/ Return(t)
  <2>1. Quiet(t)
    BY <1>1, LoopQuiet
  <2>2. pc[t] \in {"creating", "adding"} => pc'[t] \in Dead
    BY <1>0, <1>1 DEF BeginAttempt, PreRetryAborts, OpenSession, CannotOpenSession,
       Handoff, SessionEnds, SessionFails, Timeout, CancelTimedOut, Charge, Judge,
       FailAttempt, Return, At, Dead, TypeOK
  <2> QED
    BY <1>0, <2>1, <2>2 DEF Quiet, KidAdvances, Started
<1>2. CASE Persist(t) \/ DatabaseError(t)
  <2>1. write[t] # NoWrite /\ pc[t] \in InSession \cup {"leave"} /\ target[t] \in Tasks
    BY <1>0, <1>2 DEF Persist, DatabaseError, LabelsFit
  <2>2. pc[t] \notin {"creating", "adding"}
    BY <1>0, <2>1 DEF LabelsFit
  <2>3. UNCHANGED state
    BY <1>2 DEF Persist, DatabaseError, task
  <2>4. pc[t] \in Dead => pc'[t] \in Dead
    BY <1>0, <1>2, <2>1 DEF Persist, DatabaseError, Raise, Dead, Over, InSession, TypeOK
  <2>5. \/ UNCHANGED traced
        \/ /\ ValidTaskTransition(traced[target[t]], write[t])
           /\ traced' = [traced EXCEPT ![target[t]] = write[t]]
    BY <1>2 DEF Persist, DatabaseError, task
  <2>6. write[t] \in TaskState /\ (ValidTaskTransition(traced[target[t]], write[t]) =>
           write[t] \notin {"none", "created"})
    BY <1>0, <2>1 DEF TypeOK, ValidTaskTransition, TASK_TRANSITIONS
  <2> QED
    BY <1>0, <2>1, <2>2, <2>3, <2>4, <2>5, <2>6 DEF KidAdvances, Started, TypeOK
<1>3. ASSUME NEW u \in Tasks, StartTask(t, u) PROVE KidAdvances(t, k)
  BY <1>0, <1>3 DEF StartTask, At, Await, KidAdvances, Started, TypeOK, Dead, Over
<1>4. CASE RunPrechecks(t) \/ RunPostchecks(t)
  BY <1>0, <1>4 DEF RunPrechecks, RunPostchecks, At, Await, KidAdvances, Started,
     KidInHand, LabelsFit, TypeOK, Dead, Over
<1>5. CASE Activate(t) \/ Finish(t)
  BY <1>0, <1>5 DEF Activate, Finish, At, Goto, KidAdvances, Started, TypeOK, Dead,
     Over, task
<1>6. CASE EndTask(t)
  <2>1. active[t][sess[t]] \in Tasks /\ Owned(t, active[t][sess[t]])
    BY <1>0, <1>6 DEF EndTask, ActiveTask, SessionFits, TypeOK
  <2>2. active[t][sess[t]] = k => state[k] # "none"
    BY <1>0, <2>1 DEF Owned, KidFits
  <2> QED
    BY <1>0, <1>6, <2>1, <2>2 DEF EndTask, ActiveTask, At, Await, KidAdvances, Started,
       TypeOK, Dead, Over
<1>7. CASE RegisterTask(t)
  <2>1. target[t] \in Kids /\ target[t] \in Tasks
    BY <1>0, <1>7 DEF RegisterTask, At, LabelsFit, Tasks
  <2> QED
    BY <1>0, <1>7, <2>1 DEF RegisterTask, At, Goto, KidAdvances, Started, LabelsFit,
       TypeOK, Dead, Over
<1>8. ASSUME NEW v \in Kids, NEW l \in {"creating", "adding"}, InsertTask(t, v, l)
      PROVE  KidAdvances(t, k)
  BY <1>0, <1>8 DEF InsertTask, At, KidAdvances, Started, TypeOK, Dead, Over, Tasks
<1> QED
  BY <1>1, <1>2, <1>3, <1>4, <1>5, <1>6, <1>7, <1>8 DEF Moves, Step

LEMMA KidsFit ==
    ASSUME ~Shared, TypeInv, HolderStands, SubtreeInv, NEW t \in Roots, Moves(t),
           NEW k \in Kids
    PROVE  KidFits(k)'
<1>0. /\ TypeOK /\ SessionFits(t) /\ KidInHand(t) /\ KidFits(k) /\ KidAdvances(t, k)
      /\ NoTask \notin Tasks /\ k \in Tasks
  BY KidsAdvance DEF TypeInv, SubtreeInv, Tasks
<1>1. \/ parent'[k] = parent[k]
      \/ /\ traced[k] = "none" /\ traced'[k] = "created"
         /\ parent'[k] = ActiveTask(t) /\ ActiveTask(t) # NoTask
         /\ pc'[t] \in {"creating", "adding"} /\ target'[t] = k
         /\ UNCHANGED <<state, creator, active, sess>>
  BY ParentsGrow
<1>2. \/ creator'[k] = creator[k]
      \/ /\ pc[t] \in {"creating", "adding"} /\ target[t] = k
         /\ creator'[k] = t /\ state'[k] = "created"
  BY CreatorsGrow
<1>3. traced'[k] = "none" => parent'[k] = NoTask
  BY <1>0, <1>1 DEF KidFits, KidAdvances
<1>4. parent'[k] = NoTask => state'[k] = "none"
  BY <1>0, <1>1 DEF KidFits, KidAdvances, KidInHand
<1>5. parent'[k] # NoTask => parent'[k] # k /\ Started(parent[k])'
  <2>1. CASE parent'[k] = parent[k]
    BY <1>0, <2>1 DEF KidFits, KidAdvances, TypeOK, Started
  <2>2. CASE parent'[k] # parent[k]
    <3>1. PICK u \in Tasks : u = ActiveTask(t)
      BY <1>0, <1>1, <2>2 DEF ActiveTask, TypeOK
    <3>2. Started(u)
      BY <1>0, <3>1 DEF HolderStands, ActiveTask, TypeOK
    <3> QED
      BY <1>0, <1>1, <2>2, <3>1, <3>2 DEF KidAdvances, Started
  <2> QED
    BY <2>1, <2>2
<1>6. state'[k] = "none" <=> creator'[k] = NoTask
  BY <1>0, <1>2 DEF KidFits, KidAdvances, Tasks
<1>7. creator'[k] # NoTask => Owned(creator[k], parent[k])'
  <2> SUFFICES ASSUME creator'[k] # NoTask
               PROVE  \E r \in Roots : r = creator'[k] /\ Owned(r, parent[k])'
    BY DEF Owned
  <2>1. CASE creator'[k] = creator[k]
    <3>1. PICK r \in Roots : r = creator[k]
      BY <1>0, <2>1 DEF TypeOK
    <3>2. state[k] # "none" /\ parent[k] # NoTask /\ Owned(r, parent[k])
      BY <1>0, <2>1, <3>1 DEF KidFits, Tasks
    <3>3. parent'[k] = parent[k]
      BY <1>0, <1>1, <3>2 DEF KidFits
    <3>4. PICK u : u = parent[k]
      OBVIOUS
    <3>5. Owned(r, u)'
      BY <3>2, <3>4, OwnedKept
    <3> QED
      BY <2>1, <3>1, <3>3, <3>4, <3>5 DEF Owned
  <2>2. CASE creator'[k] # creator[k]
    <3>1. parent[k] \in Tasks /\ Owned(t, parent[k]) /\ creator'[k] = t
      BY <1>0, <1>2, <2>2 DEF KidInHand
    <3>2. parent'[k] = parent[k]
      BY <1>0, <1>1, <3>1 DEF KidFits
    <3>3. PICK u : u = parent[k]
      OBVIOUS
    <3>4. Owned(t, u)'
      BY <3>1, <3>3, OwnedKept
    <3> QED
      BY <3>1, <3>2, <3>3, <3>4 DEF Owned
  <2> QED
    BY <2>1, <2>2
<1>8. ASSUME parent'[k] # NoTask, state'[k] = "none"
      PROVE  \E r \in Roots :
                 /\ Owned(r, parent[k])'
                 /\ \/ pc'[r] \in {"creating", "adding"} /\ target'[r] = k
                    \/ pc'[r] \in Dead
  <2>1. CASE parent'[k] = parent[k]
    <3>1. PICK u : u = parent[k]
      OBVIOUS
    <3>2. state[k] = "none"
      BY <1>0, <1>8 DEF KidAdvances
    <3>3. PICK r \in Roots :
             /\ Owned(r, parent[k])
             /\ \/ pc[r] \in {"creating", "adding"} /\ target[r] = k
                \/ pc[r] \in Dead
      BY <1>0, <1>8, <2>1, <3>2 DEF KidFits
    <3>4. Owned(r, u)'
      BY <3>1, <3>3, OwnedKept
    <3>5. \/ pc'[r] \in {"creating", "adding"} /\ target'[r] = k
          \/ pc'[r] \in Dead
      <4>1. CASE r = t
        BY <1>0, <1>8, <3>3, <4>1 DEF KidAdvances
      <4>2. CASE r # t
        BY <3>3, <4>2, CoroutinesApart
      <4> QED
        BY <4>1, <4>2
    <3> QED
      BY <2>1, <3>1, <3>4, <3>5 DEF Owned
  <2>2. CASE parent'[k] # parent[k]
    <3>1. PICK u \in Tasks : u = ActiveTask(t)
      BY <1>0, <1>1, <2>2 DEF ActiveTask, TypeOK
    <3>2. Owned(t, u)
      BY <1>0, <3>1 DEF SessionFits, ActiveTask, TypeOK
    <3>3. Owned(t, u)'
      BY <3>2, OwnedKept
    <3> QED
      BY <1>1, <2>2, <3>1, <3>3 DEF Owned
  <2> QED
    BY <2>1, <2>2
<1> QED
  BY <1>3, <1>4, <1>5, <1>6, <1>7, <1>8 DEF KidFits

\* A completed kid stays so, unless a session ends it again.
LEMMA CompletedKidStays ==
    ASSUME ~Shared, TypeInv, SubtreeInv, NEW t \in Roots, Moves(t), NEW k \in Kids,
           state[k] = "completed"
    PROVE  \/ state'[k] = "completed"
           \/ pc'[t] = "postchecks" /\ target'[t] = k
<1>0. /\ TypeOK /\ LabelsFit(t) /\ KidInHand(t) /\ k \in Tasks /\ k # t
  BY DEF TypeInv, SubtreeInv, Tasks
<1>1. CASE \/ BeginAttempt(t) \/ PreRetryAborts(t) \/ OpenSession(t)
           \/ CannotOpenSession(t) \/ Handoff(t) \/ SessionEnds(t) \/ SessionFails(t)
           \/ Timeout(t) \/ CancelTimedOut(t) \/ Charge(t) \/ Judge(t)
           \/ FailAttempt(t) \/ Return(t)
  BY <1>1, LoopQuiet DEF Quiet
<1>2. CASE Persist(t) \/ DatabaseError(t) \/ Activate(t) \/ Finish(t)
  BY <1>2 DEF Persist, DatabaseError, Activate, Finish, task
<1>3. ASSUME NEW u \in Tasks, StartTask(t, u) PROVE state'[k] = "completed"
  BY <1>0, <1>3 DEF StartTask, TypeOK
<1>4. CASE RunPrechecks(t) \/ RunPostchecks(t)
  BY <1>0, <1>4 DEF RunPrechecks, RunPostchecks, At, KidInHand, TypeOK
<1>5. CASE EndTask(t)
  BY <1>0, <1>5 DEF EndTask, At, Await, TypeOK
<1>6. CASE RegisterTask(t)
  BY <1>0, <1>6 DEF RegisterTask, At, KidInHand, TypeOK
<1>7. CASE \E v \in Kids : \E l \in {"creating", "adding"} : InsertTask(t, v, l)
  BY <1>7 DEF InsertTask
<1> QED
  BY <1>1, <1>2, <1>3, <1>4, <1>5, <1>6, <1>7 DEF Moves, Step

\* A task is recorded as completed at the end of end_task only.
LEMMA RecordedAtFinish ==
    ASSUME TypeInv, SubtreeInv, NEW t \in Roots, Moves(t), NEW u \in Tasks,
           traced[u] # "completed", traced'[u] = "completed"
    PROVE  /\ pc[t] = "finish" /\ target[t] = u
           /\ UNCHANGED <<state, parent>>
<1>0. TypeOK /\ LabelsFit(t) /\ SessionFits(t)
  BY DEF TypeInv, SubtreeInv
<1>1. CASE Persist(t)
  BY <1>0, <1>1 DEF Persist, TypeOK, LabelsFit, SessionFits
<1>2. CASE \E v \in Kids : \E l \in {"creating", "adding"} : InsertTask(t, v, l)
  BY <1>0, <1>2 DEF InsertTask, TypeOK
<1>3. CASE UNCHANGED traced
  BY <1>3
<1> QED
  BY <1>1, <1>2, <1>3 DEF Moves, Step, DatabaseError, BeginAttempt,
     PreRetryAborts, OpenSession, CannotOpenSession, Handoff, StartTask,
     RunPrechecks, Activate, EndTask, RunPostchecks, Finish, RegisterTask,
     SessionEnds, SessionFails, Timeout, CancelTimedOut, Charge, Judge,
     FailAttempt, Return, task

LEMMA SubtreeWhole ==
    ASSUME ~Shared, TypeInv, HolderStands, SubtreeInv, NEW t \in Roots, Moves(t),
           Rooted(t)'
    PROVE  CompletedSubtree'
<1> SUFFICES ASSUME NEW u \in Tasks, NEW k \in Kids,
                    traced'[u] = "completed", parent'[k] = u
             PROVE  state'[k] = "completed"
  BY DEF CompletedSubtree
<1>0. /\ TypeOK /\ EndsWhole(t) /\ LetGo(t) /\ EndsWhole(t)' /\ CompletedSubtree
      /\ k \in Tasks
  BY DEF TypeInv, SubtreeInv, Rooted, Tasks
<1>1. CASE parent[k] # u
  <2>1. /\ traced'[k] = "created" /\ At(t, "idle") /\ u = ActiveTask(t)
    BY <1>1, ParentsGrow
  <2>2. traced[u] # "completed"
    BY <1>0, <2>1 DEF LetGo, ActiveTask, At, Dead, Over, TypeOK, Tasks
  <2> QED
    BY <2>1, <2>2, RecordedAtFinish DEF At
<1>2. CASE parent[k] = u /\ traced[u] # "completed"
  BY <1>0, <1>2, RecordedAtFinish DEF EndsWhole
<1>3. CASE parent[k] = u /\ traced[u] = "completed"
  <2>1. state[k] = "completed"
    BY <1>0, <1>3 DEF CompletedSubtree
  <2>2. ~(pc'[t] = "postchecks" /\ target'[t] = k)
    BY <1>0 DEF EndsWhole
  <2> QED
    BY <2>1, <2>2, CompletedKidStays
<1> QED
  BY <1>1, <1>2, <1>3

LEMMA SubtreeInit == Init => SubtreeInv
<1> SUFFICES ASSUME Init PROVE SubtreeInv
  OBVIOUS
<1>1. ASSUME NEW t \in Roots PROVE Rooted(t)
  BY <1>1 DEF Init, Rooted, SessionFits, KidInHand, FreshPast, EndsWhole, LetGo,
     StaleKid, Past, InSession, NoWrite, Tasks
<1>2. ASSUME NEW k \in Kids PROVE KidFits(k)
  BY <1>2 DEF Init, KidFits, Tasks
<1>3. CompletedSubtree
  BY DEF Init, CompletedSubtree, Tasks
<1> QED
  BY <1>1, <1>2, <1>3 DEF SubtreeInv, Rooted

LEMMA SubtreeNext ==
    ASSUME ~Shared
    PROVE  TypeInv /\ HolderStands /\ AbortInv /\ SubtreeInv /\ [Next]_vars
              => SubtreeInv'
<1> SUFFICES ASSUME TypeInv, HolderStands, AbortInv, SubtreeInv, [Next]_vars
             PROVE  SubtreeInv'
  OBVIOUS
<1>0. TypeInv' /\ TypeOK
  BY TypeNext DEF TypeInv
<1>1. ASSUME NEW t \in Roots, Moves(t) PROVE SubtreeInv'
  <2>1. Rooted(t)'
    BY <1>0, <1>1, OwnRooted
  <2>2. ASSUME NEW r \in Roots, r # t PROVE Rooted(r)'
    BY <1>1, <2>2, OthersRooted
  <2>3. ASSUME NEW k \in Kids PROVE KidFits(k)'
    BY <1>1, <2>3, KidsFit
  <2>4. CompletedSubtree'
    BY <1>1, <2>1, SubtreeWhole
  <2> QED
    BY <2>1, <2>2, <2>3, <2>4 DEF SubtreeInv, Rooted
<1>2. CASE Abort
  <2>1. /\ UNCHANGED <<state, traced, parent, creator, active, attempt, sess, target>>
        /\ \A t \in Roots : pc'[t] \in Over /\ write'[t] = NoWrite
    BY <1>2 DEF Abort, task, Over
  <2>2. ASSUME NEW t \in Roots PROVE Rooted(t)'
    <3>1. SessionFits(t)
      BY DEF SubtreeInv
    <3>2. pc'[t] \notin InSession /\ pc'[t] \in Dead /\ write'[t] = NoWrite
      BY <2>1 DEF InSession, Over, Dead
    <3> QED
      BY <2>1, <3>1, <3>2 DEF Rooted, SessionFits, KidInHand, FreshPast, EndsWhole,
         LetGo, StaleKid, Past, InSession, NoWrite, Owned
  <2>3. ASSUME NEW k \in Kids PROVE KidFits(k)'
    <3>1. KidFits(k) /\ \A t \in Roots : pc'[t] \in Dead
      BY <2>1 DEF SubtreeInv, Dead
    <3> QED
      BY <2>1, <3>1 DEF KidFits, Owned, Started
  <2>4. CompletedSubtree'
    BY <2>1 DEF SubtreeInv, CompletedSubtree
  <2> QED
    BY <2>2, <2>3, <2>4 DEF SubtreeInv, Rooted
<1>3. ASSUME NEW v \in Tasks, CancelTask(v) PROVE SubtreeInv'
  <2>1. /\ UNCHANGED <<parent, creator, active, pc, attempt, sess, target, write>>
        /\ state[v] \in ActiveStates /\ state'[v] = "cancelled"
        /\ traced'[v] = "cancelled"
        /\ \A x \in Tasks \ {v} : state'[x] = state[x] /\ traced'[x] = traced[x]
        /\ \A t \in Roots : pc[t] \in Over
    BY <1>0, <1>3 DEF CancelTask, coroutine, AbortInv, TypeOK
  <2>2. ASSUME NEW t \in Roots PROVE Rooted(t)'
    <3>1. SessionFits(t)
      BY DEF SubtreeInv
    <3>2. pc[t] \notin InSession /\ pc[t] \in Dead
      BY <2>1 DEF InSession, Over, Dead
    <3> QED
      BY <2>1, <3>1, <3>2 DEF Rooted, SessionFits, KidInHand, FreshPast, EndsWhole,
         LetGo, StaleKid, Past, InSession, NoWrite, Owned
  <2>3. ASSUME NEW k \in Kids PROVE KidFits(k)'
    <3>1. KidFits(k) /\ k \in Tasks /\ (parent[k] # NoTask => parent[k] \in Tasks)
      BY <1>0 DEF SubtreeInv, Tasks, TypeOK
    <3> QED
      BY <2>1, <3>1 DEF KidFits, Owned, Started, ActiveStates
  <2>4. CompletedSubtree'
    BY <2>1 DEF SubtreeInv, CompletedSubtree, ActiveStates, Tasks
  <2> QED
    BY <2>2, <2>3, <2>4 DEF SubtreeInv, Rooted
<1>4. CASE AbortReturns \/ UNCHANGED vars
  <2>1. UNCHANGED <<state, traced, parent, creator, active, pc, attempt, sess,
                    target, write>>
    BY <1>4 DEF AbortReturns, vars, task, coroutine
  <2> QED
    BY <2>1 DEF SubtreeInv, SessionFits, KidInHand, FreshPast, EndsWhole, LetGo,
       StaleKid, KidFits, CompletedSubtree, Past, Owned, Started, Expired
<1> QED
  BY <1>1, <1>2, <1>3, <1>4, MovesOrAborts

\* Where a session knows its own task and its subtasks only, a coroutine that
\* returns leaves a final state, the same one in memory and in the trace, and a
\* task recorded as completed has completed subtasks only: whatever timed out,
\* failed, was retried, handed off or aborted in between (handle_end_task,
\* _execute_task_groups).
THEOREM OutcomesReported ==
    ASSUME ~Shared
    PROVE  Spec => [](ReturnedAgrees /\ CompletedSubtree)
<1> DEFINE Inv == TypeInv /\ HolderStands /\ AbortInv /\ ReturnInv /\ SubtreeInv
<1>1. Init => Inv
  BY TypeInit, HolderInit, AbortInit, ReturnInit, SubtreeInit
<1>2. Inv /\ [Next]_vars => Inv'
  BY TypeNext, HolderNext, AbortNext, ReturnNext, SubtreeNext
<1>3. Inv => ReturnedAgrees /\ CompletedSubtree
  BY DEF ReturnInv, SubtreeInv
<1> QED
  BY <1>1, <1>2, <1>3, PTL DEF Spec

-----------------------------------------------------------------------------
(* Checks: the loop of run_checks, for every list of checks                *)

\* A set of numbers that is not empty has a least one.
LEMMA LeastExists ==
    ASSUME NEW S \in SUBSET Nat, S # {}
    PROVE  \E m \in S : \A y \in S : m <= y
<1>1. PICK e \in S : \A d \in S : ~(<<d, e>> \in OpToRel(<, Nat))
  BY NatLessThanWellFounded, WFMin, Zenon
<1>2. OpToRel(<, Nat) = {ss \in Nat \X Nat : ss[1] < ss[2]}
  BY Zenon DEF OpToRel
<1>3. ASSUME NEW d \in S PROVE e <= d
  <2>1. <<d, e>> \in Nat \X Nat
    OBVIOUS
  <2>2. ~(d < e)
    BY <1>1, <1>2, <2>1
  <2> QED
    BY <2>2
<1> QED
  BY <1>3

\* Induction, for a set of numbers.
LEMMA Reaches ==
    ASSUME NEW S, NEW n \in Nat, 0 \in S,
           \A k \in Nat : k < n /\ k \in S => k + 1 \in S
    PROVE  n \in S
<1> DEFINE Bad == {k \in Nat : k <= n /\ k \notin S}
<1>1. ASSUME Bad # {} PROVE FALSE
  <2>1. PICK m \in Bad : \A y \in Bad : m <= y
    <3>1. Bad \in SUBSET Nat
      OBVIOUS
    <3> HIDE DEF Bad
    <3> QED
      BY <1>1, <3>1, LeastExists
  <2>2. m \in Nat /\ m <= n /\ m \notin S /\ m # 0
    OBVIOUS
  <2>3. m - 1 \in Nat /\ m - 1 < n /\ m - 1 \notin Bad
    <3> HIDE DEF Bad
    <3> QED
      BY <2>1, <2>2
  <2>4. m - 1 \in S
    BY <2>3
  <2>5. (m - 1) + 1 \in S /\ (m - 1) + 1 = m
    BY <2>2, <2>3, <2>4
  <2> QED
    BY <2>2, <2>5
<1>2. n \notin Bad
  BY <1>1
<1> QED
  BY <1>2

FixKind == {"none", "repairs", "breaks", "useless", "raises"}
AnyScript == [kind : {"script"}, callable : {"runs", "no module"},
              fix : FixKind]
AnyAgentCheck == [kind : {"agent"}, answer : {"raises", "invalid", "verdict"},
                  issues : SUBSET DOMAIN SEVERITY_ORDER,
                  threshold : DOMAIN SEVERITY_ORDER, fix : {"none"}]
AnyWorkflowCheck == [kind : {"workflow"}, tasks : {"none", "fail"},
                     postchecks : {"none", "fail"}, fix : {"none"}]
AnyCheck == AnyScript \union AnyAgentCheck \union AnyWorkflowCheck

AnyVerdict == [passed : BOOLEAN, fix : FixKind, raises : BOOLEAN]
GateState == [results : Seq(BOOLEAN), broken : SUBSET Nat, over : BOOLEAN,
              raised : BOOLEAN]

\* A check passes exactly when it is satisfied.
LEMMA PassedIsSatisfied ==
    ASSUME NEW c \in AnyCheck, NEW h \in BOOLEAN
    PROVE  /\ ExecuteCheck(c, h) \in AnyVerdict
           /\ ExecuteCheck(c, h).passed <=> Satisfied(c, h)
           /\ ExecuteCheck(c, h).raises => ~ExecuteCheck(c, h).passed
<1>0. \A p \in BOOLEAN, f \in FixKind :
        /\ Verdict(p, f) \in AnyVerdict /\ Verdict(p, f).passed = p
        /\ ~Verdict(p, f).raises
  <2> SUFFICES ASSUME NEW p \in BOOLEAN, NEW f \in FixKind
               PROVE  /\ Verdict(p, f) \in AnyVerdict /\ Verdict(p, f).passed = p
                      /\ ~Verdict(p, f).raises
    OBVIOUS
  <2> QED
    BY DEF Verdict, AnyVerdict
<1>k. "none" \in FixKind
  BY DEF FixKind
<1>n. NoVerdict \in AnyVerdict /\ ~NoVerdict.passed /\ NoVerdict.raises
  BY <1>k DEF NoVerdict, AnyVerdict
<1>1. CASE c \in AnyScript
  <2>1. c.kind = "script" /\ c.fix \in FixKind
    BY <1>1 DEF AnyScript
  <2>2. ExecuteCheck(c, h) = RunScript(c, h)
    BY <2>1 DEF ExecuteCheck
  <2>3. Satisfied(c, h) <=> c.callable = "runs" /\ h
    BY <2>1 DEF Satisfied
  <2>4. CASE c.callable = "runs"
    <3>1. ExecuteCheck(c, h) = Verdict(h, c.fix)
      BY <2>2, <2>4 DEF RunScript
    <3> QED
      BY <1>0, <2>1, <2>3, <2>4, <3>1
  <2>5. CASE c.callable # "runs"
    <3>1. ExecuteCheck(c, h) = Verdict(FALSE, "none")
      BY <2>2, <2>5 DEF RunScript
    <3> QED
      BY <1>0, <1>k, <2>3, <2>5, <3>1
  <2> QED
    BY <2>4, <2>5
<1>2. CASE c \in AnyAgentCheck
  <2> DEFINE rank == <<"nit", "minor", "major", "critical">>
             blocking == {s \in c.issues : SEVERITY_ORDER[s] >= SEVERITY_ORDER[c.threshold]}
  <2>1. /\ DOMAIN SEVERITY_ORDER = {"critical", "major", "minor", "nit"}
        /\ SEVERITY_ORDER["critical"] = 4 /\ SEVERITY_ORDER["major"] = 3
        /\ SEVERITY_ORDER["minor"] = 2 /\ SEVERITY_ORDER["nit"] = 1
    BY DEF SEVERITY_ORDER
  <2>2. /\ c.kind = "agent" /\ c.answer \in {"raises", "invalid", "verdict"}
        /\ c.issues \subseteq {"critical", "major", "minor", "nit"}
        /\ c.threshold \in {"critical", "major", "minor", "nit"}
    BY <1>2, <2>1 DEF AnyAgentCheck
  <2>3. blocking = {} <=>
          \A i, j \in 1 .. 4 : rank[i] \in c.issues /\ rank[j] = c.threshold => i < j
    <3>1. 1 .. 4 = {1, 2, 3, 4}
      OBVIOUS
    <3>2. /\ rank[1] = "nit" /\ rank[2] = "minor" /\ rank[3] = "major"
          /\ rank[4] = "critical"
      OBVIOUS
    <3>3. \A i \in 1 .. 4 : SEVERITY_ORDER[rank[i]] = i
      BY <2>1, <3>1, <3>2
    <3>4. \A s \in {"critical", "major", "minor", "nit"} : \E i \in 1 .. 4 : rank[i] = s
      BY <3>1, <3>2
    <3> HIDE DEF rank
    <3>5. ASSUME blocking = {}, NEW i \in 1 .. 4, NEW j \in 1 .. 4,
                 rank[i] \in c.issues, rank[j] = c.threshold
          PROVE  i < j
      <4>1. ~(SEVERITY_ORDER[rank[i]] >= SEVERITY_ORDER[rank[j]])
        BY <3>5
      <4> QED
        BY <3>3, <4>1
    <3>6. ASSUME \A i, j \in 1 .. 4 : rank[i] \in c.issues /\ rank[j] = c.threshold => i < j
          PROVE  blocking = {}
      <4> SUFFICES ASSUME NEW s \in c.issues,
                          SEVERITY_ORDER[s] >= SEVERITY_ORDER[c.threshold]
                   PROVE  FALSE
        OBVIOUS
      <4>1. PICK i \in 1 .. 4 : rank[i] = s
        BY <2>2, <3>4
      <4>2. PICK j \in 1 .. 4 : rank[j] = c.threshold
        BY <2>2, <3>4
      <4>3. i < j /\ i >= j
        BY <3>3, <3>6, <4>1, <4>2
      <4> QED
        BY <4>3
    <3> QED
      BY <3>5, <3>6
  <2>4. ExecuteCheck(c, h) = RunAgent(c)
    BY <2>2 DEF ExecuteCheck
  <2>5. Satisfied(c, h) <=> c.answer = "verdict" /\ blocking = {}
    BY <2>2, <2>3 DEF Satisfied
  <2>6. RunAgent(c) = IF c.answer = "raises" THEN NoVerdict
                      ELSE IF c.answer = "invalid" THEN Verdict(FALSE, "none")
                      ELSE Verdict(blocking = {}, "none")
    BY <2>2 DEF RunAgent
  <2>7. (blocking = {}) \in BOOLEAN
    OBVIOUS
  <2> HIDE DEF blocking
  <2>8. CASE c.answer = "raises"
    BY <1>n, <2>4, <2>5, <2>6, <2>8
  <2>9. CASE c.answer = "invalid"
    <3>1. ExecuteCheck(c, h) = Verdict(FALSE, "none") /\ ~Satisfied(c, h)
      BY <2>4, <2>5, <2>6, <2>9
    <3> QED
      BY <1>0, <1>k, <3>1
  <2>10. CASE c.answer = "verdict"
    <3>1. ExecuteCheck(c, h) = Verdict(blocking = {}, "none")
      BY <2>4, <2>6, <2>10
    <3> QED
      BY <1>0, <1>k, <2>5, <2>7, <2>10, <3>1
  <2> QED
    BY <2>2, <2>8, <2>9, <2>10
<1>3. CASE c \in AnyWorkflowCheck
  <2>1. c.kind = "workflow"
    BY <1>3 DEF AnyWorkflowCheck
  <2> DEFINE p == c.tasks = "none" \/ c.postchecks # "fail"
  <2>2. ExecuteCheck(c, h) = Verdict(p, "none") /\ p \in BOOLEAN
    BY <2>1 DEF ExecuteCheck, RunWorkflowCheck
  <2>3. Satisfied(c, h) <=> p
    BY <2>1 DEF Satisfied
  <2> HIDE DEF p
  <2> QED
    BY <1>0, <1>k, <2>2, <2>3
<1> QED
  BY <1>1, <1>2, <1>3 DEF AnyCheck

\* What holds of a broken workspace holds of a better one.
LEMMA SatisfiedGrows ==
    ASSUME NEW c \in AnyCheck, NEW h \in BOOLEAN, NEW k \in BOOLEAN, h => k,
           Satisfied(c, h)
    PROVE  Satisfied(c, k)
BY DEF Satisfied, AnyCheck, AnyScript, AnyAgentCheck, AnyWorkflowCheck

LEMMA FixKeeps ==
    ASSUME NEW c \in AnyCheck, NEW i \in Nat, NEW b \in SUBSET Nat
    PROVE  /\ Fix(c, i, b) \in SUBSET Nat
           /\ \A j \in Nat : j \notin b =>
                 j \notin Fix(c, i, b) \/ (j = 1 /\ c.fix = "breaks")
           /\ c.fix = "breaks" => 1 \in Fix(c, i, b)
BY DEF Fix

\* Where the loop is after i checks.
Start(broken) == [results |-> <<>>, broken |-> broken, over |-> FALSE, raised |-> FALSE]
Rebroken(checks, j, i) == j = 1 /\ \E k \in 2 .. i : checks[k].fix = "breaks"
AllSatisfied(checks, broken) ==
    \A j \in 1 .. Len(checks) : Satisfied(checks[j], j \notin broken)

After(checks, broken, s, i) ==
    /\ s \in GateState
    /\ ~s.over =>
          /\ ~s.raised
          /\ \A j \in 1 .. Len(s.results) : s.results[j]
          /\ \A j \in 1 .. i :
                Satisfied(checks[j], j \notin s.broken \/ Rebroken(checks, j, i))
    /\ s.over => s.raised \/ (s.results # <<>> /\ ~s.results[Len(s.results)])
    /\ \A j \in 1 .. Len(s.results) - 1 : s.results[j]
    /\ AllSatisfied(checks, broken) => ~s.over /\ s.broken = broken

LEMMA StartFits ==
    ASSUME NEW checks \in Seq(AnyCheck), NEW broken \in SUBSET Nat
    PROVE  After(checks, broken, Start(broken), 0)
BY DEF After, Start, GateState

LEMMA AppendResult ==
    ASSUME NEW r \in Seq(BOOLEAN), NEW v \in BOOLEAN,
           \A j \in 1 .. Len(r) : r[j]
    PROVE  /\ Append(r, v) \in Seq(BOOLEAN) /\ Append(r, v) # <<>>
           /\ Append(r, v)[Len(Append(r, v))] = v
           /\ \A j \in 1 .. Len(Append(r, v)) - 1 : Append(r, v)[j]
           /\ v => \A j \in 1 .. Len(Append(r, v)) : Append(r, v)[j]
<1> DEFINE g == Append(r, v)
<1>1. /\ g \in Seq(BOOLEAN) /\ Len(g) = Len(r) + 1 /\ g[Len(r) + 1] = v
      /\ Len(r) \in Nat /\ \A j \in 1 .. Len(r) : g[j] = r[j]
  OBVIOUS
<1> HIDE DEF g
<1>2. g # <<>> /\ g[Len(g)] = v
  BY <1>1
<1>3. \A j \in 1 .. Len(g) - 1 : g[j]
  BY <1>1
<1>4. v => \A j \in 1 .. Len(g) : g[j]
  <2> SUFFICES ASSUME v, NEW j \in 1 .. Len(g) PROVE g[j]
    OBVIOUS
  <2>1. j = Len(r) + 1 \/ j \in 1 .. Len(r)
    BY <1>1
  <2> QED
    BY <1>1, <2>1
<1> QED
  BY <1>1, <1>2, <1>3, <1>4 DEF g

\* The first n checks are satisfied where b is broken, but for the first if one of the
\* first m has broken it again.
Said(checks, b, n, m) ==
    \A j \in 1 .. n : Satisfied(checks[j], j \notin b \/ Rebroken(checks, j, m))

\* What has been said of the checks before i stays said, whatever i's fix did.
LEMMA SaidBefore ==
    ASSUME NEW checks \in Seq(AnyCheck), NEW i \in 1 .. Len(checks),
           NEW b \in SUBSET Nat, NEW d \in SUBSET Nat,
           d = b \/ d = Fix(checks[i], i, b), Said(checks, b, i - 1, i - 1)
    PROVE  Said(checks, d, i - 1, i)
<1> SUFFICES ASSUME NEW j \in 1 .. i - 1
             PROVE  Satisfied(checks[j], j \notin d \/ Rebroken(checks, j, i))
  BY DEF Said
<1> DEFINE h == j \notin b \/ Rebroken(checks, j, i - 1)
           k == j \notin d \/ Rebroken(checks, j, i)
<1>0. /\ Len(checks) \in Nat /\ i \in Nat /\ j \in Nat /\ j # i /\ j \in 1 .. Len(checks)
      /\ checks[i] \in AnyCheck /\ checks[j] \in AnyCheck /\ j < i
  OBVIOUS
<1>1. Rebroken(checks, j, i - 1) => Rebroken(checks, j, i)
  BY <1>0 DEF Rebroken
<1>2. j = 1 /\ checks[i].fix = "breaks" => Rebroken(checks, j, i)
  BY <1>0 DEF Rebroken
<1>3. h => k
  <2> SUFFICES ASSUME j \notin b PROVE k
    BY <1>1
  <2>1. j \notin Fix(checks[i], i, b) \/ (j = 1 /\ checks[i].fix = "breaks")
    BY <1>0, FixKeeps
  <2> QED
    BY <1>2, <2>1
<1>4. Satisfied(checks[j], h) /\ h \in BOOLEAN /\ k \in BOOLEAN
  BY DEF Rebroken, Said
<1> HIDE DEF h, k
<1>5. Satisfied(checks[j], k)
  BY <1>0, <1>3, <1>4, SatisfiedGrows
<1> QED
  BY <1>5 DEF k

\* One turn of the loop.
LEMMA StepFits ==
    ASSUME NEW checks \in Seq(AnyCheck), NEW broken \in SUBSET Nat,
           NEW i \in 1 .. Len(checks), NEW s, After(checks, broken, s, i - 1)
    PROVE  After(checks, broken, CheckStep(checks, s, i), i)
<1> DEFINE c == checks[i]
           r == ExecuteCheck(c, i \notin s.broken)
           d == Fix(c, i, s.broken)
           rerun == ExecuteCheck(c, i \notin d)
           g(v) == Append(s.results, v)
<1>0. c \in AnyCheck /\ i \in Nat /\ s \in GateState
  BY DEF After
<1>1. /\ s.results \in Seq(BOOLEAN) /\ s.broken \in SUBSET Nat /\ s.over \in BOOLEAN
      /\ s.raised \in BOOLEAN
  BY <1>0 DEF GateState
<1>2. d \in SUBSET Nat
  BY <1>0, <1>1, FixKeeps
<1>3. /\ r \in AnyVerdict /\ (r.passed <=> Satisfied(c, i \notin s.broken))
      /\ r.raises => ~r.passed
  BY <1>0, PassedIsSatisfied
<1>4. rerun \in AnyVerdict /\ (rerun.passed <=> Satisfied(c, i \notin d))
  BY <1>0, PassedIsSatisfied
<1>5. r.passed \in BOOLEAN /\ r.raises \in BOOLEAN /\ rerun.passed \in BOOLEAN
  BY <1>3, <1>4 DEF AnyVerdict
<1>6. CASE s.over
  <2>1. CheckStep(checks, s, i) = s
    BY <1>6 DEF CheckStep
  <2> QED
    BY <1>6, <2>1 DEF After
<1>7. ASSUME ~s.over PROVE After(checks, broken, CheckStep(checks, s, i), i)
  <2>1. /\ ~s.raised /\ \A j \in 1 .. Len(s.results) : s.results[j]
        /\ \A j \in 1 .. i - 1 :
              Satisfied(checks[j], j \notin s.broken \/ Rebroken(checks, j, i - 1))
        /\ AllSatisfied(checks, broken) => s.broken = broken
    BY <1>7 DEF After
  <2>2. AllSatisfied(checks, broken) => r.passed
    BY <1>3, <2>1 DEF AllSatisfied
  <2>3. \A v \in BOOLEAN :
          /\ g(v) \in Seq(BOOLEAN) /\ g(v) # <<>> /\ g(v)[Len(g(v))] = v
          /\ \A j \in 1 .. Len(g(v)) - 1 : g(v)[j]
          /\ v => \A j \in 1 .. Len(g(v)) : g(v)[j]
    BY <1>1, <2>1, AppendResult
  <2>4. ASSUME NEW b \in SUBSET Nat, b = s.broken \/ b = d, Satisfied(c, i \notin b)
        PROVE  \A j \in 1 .. i : Satisfied(checks[j], j \notin b \/ Rebroken(checks, j, i))
    <3>1. \A j \in 1 .. i - 1 : Satisfied(checks[j], j \notin b \/ Rebroken(checks, j, i))
      <4> HIDE DEF r, rerun
      <4>1. s.broken \in SUBSET Nat /\ (b = s.broken \/ b = Fix(checks[i], i, s.broken))
        BY <1>1, <2>4
      <4>2. Said(checks, s.broken, i - 1, i - 1)
        BY <2>1 DEF Said
      <4>3. Said(checks, b, i - 1, i)
        BY <4>1, <4>2, SaidBefore
      <4> QED
        BY <4>3 DEF Said
    <3> DEFINE h == i \notin b
               k == i \notin b \/ Rebroken(checks, i, i)
    <3>2. h \in BOOLEAN /\ k \in BOOLEAN /\ (h => k) /\ Satisfied(c, h)
      BY <2>4 DEF Rebroken
    <3> HIDE DEF h, k, c
    <3>3. Satisfied(c, k)
      BY <1>0, <3>2, SatisfiedGrows
    <3>4. Satisfied(checks[i], i \notin b \/ Rebroken(checks, i, i))
      BY <3>3 DEF k, c
    <3>5. \A j \in 1 .. i : j = i \/ j \in 1 .. i - 1
      BY <1>0
    <3> QED
      BY <3>1, <3>4, <3>5
  <2>5. CASE r.raises
    <3> DEFINE t == [s EXCEPT !.over = TRUE, !.raised = TRUE]
    <3>1. CheckStep(checks, s, i) = t
      BY <1>7, <2>5 DEF CheckStep
    <3>2. /\ t \in GateState /\ t.over /\ t.raised /\ t.results = s.results
      BY <1>0 DEF GateState
    <3>3. ~AllSatisfied(checks, broken)
      BY <1>3, <2>2, <2>5
    <3> HIDE DEF t
    <3>4. \A j \in 1 .. Len(t.results) - 1 : t.results[j]
      BY <1>1, <2>1, <3>2
    <3> QED
      BY <3>1, <3>2, <3>3, <3>4 DEF After
  <2>6. CASE ~r.raises /\ r.passed
    <3> DEFINE t == [s EXCEPT !.results = g(TRUE)]
    <3>1. CheckStep(checks, s, i) = t
      BY <1>7, <2>6 DEF CheckStep
    <3>2. /\ t \in GateState /\ ~t.over /\ ~t.raised /\ t.results = g(TRUE)
          /\ t.broken = s.broken
      BY <1>0, <1>7, <2>1, <2>3 DEF GateState
    <3> HIDE DEF t, g
    <3>3. \A j \in 1 .. i :
             Satisfied(checks[j], j \notin t.broken \/ Rebroken(checks, j, i))
      BY <1>1, <1>3, <2>4, <2>6, <3>2
    <3> QED
      BY <2>1, <2>3, <3>1, <3>2, <3>3 DEF After
  <2>7. CASE ~r.raises /\ ~r.passed /\ r.fix \in {"none", "raises"}
    <3> DEFINE t == [s EXCEPT !.results = g(FALSE), !.over = TRUE]
    <3>1. CheckStep(checks, s, i) = t
      BY <1>7, <2>7 DEF CheckStep
    <3>2. t \in GateState /\ t.over /\ t.results = g(FALSE)
      BY <1>0, <2>3 DEF GateState
    <3>3. ~AllSatisfied(checks, broken)
      BY <2>2, <2>7
    <3> HIDE DEF t, g
    <3> QED
      BY <2>3, <3>1, <3>2, <3>3 DEF After
  <2>8. CASE ~r.raises /\ ~r.passed /\ r.fix \notin {"none", "raises"}
    <3> DEFINE v == rerun.passed
               t == [s EXCEPT !.results = g(v), !.over = ~v, !.broken = d]
    <3>1. CheckStep(checks, s, i) = t
      BY <1>7, <2>8 DEF CheckStep
    <3>2. /\ t \in GateState /\ t.over = ~v /\ t.raised = s.raised /\ t.results = g(v)
          /\ t.broken = d
      BY <1>0, <1>2, <1>5, <2>3 DEF GateState
    <3>3. ~AllSatisfied(checks, broken)
      BY <2>2, <2>8
    <3>4. v => \A j \in 1 .. i : Satisfied(checks[j], j \notin d \/ Rebroken(checks, j, i))
      BY <1>2, <1>4, <2>4
    <3>5. v \in BOOLEAN
      BY <1>5
    <3> HIDE DEF t, g, v, d
    <3> QED
      BY <2>1, <2>3, <3>1, <3>2, <3>3, <3>4, <3>5 DEF After
  <2> QED
    BY <1>5, <2>5, <2>6, <2>7, <2>8
<1> QED
  BY <1>1, <1>6, <1>7

\* The first n turns of the loop.
Turns(f, checks, broken, n) ==
    /\ f[0] = Start(broken)
    /\ \A i \in 1 .. n : f[i] = CheckStep(checks, f[i - 1], i)

\* The loop can always be run.
LEMMA TurnsExist ==
    ASSUME NEW checks, NEW broken, NEW n \in Nat
    PROVE  \E f : f = [i \in 0 .. n |-> f[i]] /\ Turns(f, checks, broken, n)
<1> DEFINE S == {m \in Nat : \E f : /\ f = [i \in 0 .. m |-> f[i]]
                                    /\ Turns(f, checks, broken, m)}
<1>1. 0 \in S
  <2> DEFINE f == [i \in 0 .. 0 |-> Start(broken)]
  <2>1. f[0] = Start(broken) /\ f = [i \in 0 .. 0 |-> f[i]]
    OBVIOUS
  <2>2. Turns(f, checks, broken, 0)
    BY <2>1 DEF Turns
  <2> HIDE DEF f
  <2> QED
    BY <2>1, <2>2
<1>2. ASSUME NEW m \in Nat, m \in S PROVE m + 1 \in S
  <2>1. PICK f : f = [i \in 0 .. m |-> f[i]] /\ Turns(f, checks, broken, m)
    BY <1>2
  <2> DEFINE g == [i \in 0 .. m + 1 |->
                     IF i = m + 1 THEN CheckStep(checks, f[m], m + 1) ELSE f[i]]
  <2>2. /\ g = [i \in 0 .. m + 1 |-> g[i]]
        /\ g[m + 1] = CheckStep(checks, f[m], m + 1) /\ \A i \in 0 .. m : g[i] = f[i]
    OBVIOUS
  <2> HIDE DEF g
  <2>3. ASSUME NEW i \in 1 .. m + 1 PROVE g[i] = CheckStep(checks, g[i - 1], i)
    <3>1. CASE i = m + 1
      <4>1. i - 1 = m /\ m \in 0 .. m
        BY <3>1
      <4> QED
        BY <2>2, <3>1, <4>1
    <3>2. CASE i # m + 1
      <4>1. i \in 1 .. m /\ i \in 0 .. m /\ i - 1 \in 0 .. m
        BY <3>2
      <4>2. f[i] = CheckStep(checks, f[i - 1], i)
        BY <2>1, <4>1 DEF Turns
      <4> QED
        BY <2>2, <4>1, <4>2
    <3> QED
      BY <3>1, <3>2
  <2>4. g[0] = Start(broken)
    <3>1. 0 \in 0 .. m /\ f[0] = Start(broken)
      BY <2>1 DEF Turns
    <3> QED
      BY <2>2, <3>1
  <2>5. Turns(g, checks, broken, m + 1)
    BY <2>3, <2>4 DEF Turns
  <2> QED
    BY <2>2, <2>5
<1>3. n \in S
  <2> HIDE DEF S
  <2> QED
    BY <1>1, <1>2, Reaches
<1> QED
  BY <1>3

\* What is known of the loop after every turn is known at its end.
LEMMA RunFits ==
    ASSUME NEW checks \in Seq(AnyCheck), NEW broken \in SUBSET Nat
    PROVE  After(checks, broken, RunChecks(checks, broken), Len(checks))
<1> DEFINE n == Len(checks)
           Body(f) == [i \in 0 .. n |-> IF i = 0 THEN Start(broken)
                                        ELSE CheckStep(checks, f[i - 1], i)]
           run == CHOOSE f : f = Body(f)
<1>0. n \in Nat
  OBVIOUS
<1>1. PICK f : f = [i \in 0 .. n |-> f[i]] /\ Turns(f, checks, broken, n)
  BY <1>0, TurnsExist
<1>2. f = Body(f)
  <2>1. ASSUME NEW i \in 0 .. n
        PROVE  f[i] = IF i = 0 THEN Start(broken) ELSE CheckStep(checks, f[i - 1], i)
    <3>1. f[0] = Start(broken) /\ \A j \in 1 .. n : f[j] = CheckStep(checks, f[j - 1], j)
      BY <1>1 DEF Turns
    <3>2. i = 0 \/ (i # 0 /\ i \in 1 .. n)
      BY <1>0
    <3> HIDE DEF n
    <3> QED
      BY <3>1, <3>2
  <2>2. [i \in 0 .. n |-> f[i]] = Body(f)
    BY <2>1
  <2> HIDE DEF Body
  <2> QED
    BY <1>1, <2>2
<1>3. run = Body(run)
  <2> HIDE DEF Body
  <2> QED
    BY <1>2
<1>4. RunChecks(checks, broken) = run[n]
  BY DEF RunChecks, Start
<1> HIDE DEF run
<1>5. run[0] = Start(broken) /\ \A i \in 1 .. n : run[i] = CheckStep(checks, run[i - 1], i)
  BY <1>0, <1>3
<1> DEFINE S == {i \in Nat : After(checks, broken, run[i], i)}
<1>6. 0 \in S
  BY <1>5, StartFits
<1>7. ASSUME NEW k \in Nat, k < n, k \in S PROVE k + 1 \in S
  <2>1. k + 1 \in 1 .. n /\ (k + 1) - 1 = k
    BY <1>0, <1>7
  <2>2. After(checks, broken, run[(k + 1) - 1], (k + 1) - 1)
    BY <1>7, <2>1
  <2>3. After(checks, broken, CheckStep(checks, run[(k + 1) - 1], k + 1), k + 1)
    BY <2>1, <2>2, StepFits
  <2>4. run[k + 1] = CheckStep(checks, run[(k + 1) - 1], k + 1)
    BY <1>5, <2>1
  <2> QED
    BY <2>3, <2>4
<1>8. n \in S
  <2> HIDE DEF S, n
  <2> QED
    BY <1>0, <1>6, <1>7, Reaches
<1> QED
  BY <1>4, <1>8

\* The gate, for every list of checks and whatever is broken at its start.
LEMMA GateAlwaysHolds ==
    ASSUME case.on = "checks" => case.checks \in Seq(AnyCheck) /\ case.broken \in SUBSET Nat
    PROVE  GateHolds
<1> SUFFICES ASSUME case.on = "checks" PROVE GateHolds
  BY DEF GateHolds
<1> DEFINE s == RunTaskChecks(case.checks, case.broken)
           n == Len(case.checks)
           open == ~s.raised /\ \A i \in DOMAIN s.results : s.results[i]
           Again(i) == i = 1 /\ \E j \in 2 .. n : case.checks[j].fix = "breaks"
<1>0. case.checks \in Seq(AnyCheck) /\ case.broken \in SUBSET Nat /\ n \in Nat
  OBVIOUS
<1>1. \A i : Again(i) <=> Rebroken(case.checks, i, n)
  BY DEF Rebroken
<1> SUFFICES /\ open => \A i \in 1 .. n :
                           Satisfied(case.checks[i], i \notin s.broken \/ Again(i))
             /\ (\A i \in 1 .. n : Satisfied(case.checks[i], i \notin case.broken))
                   => open /\ s.broken = case.broken
             /\ \A i \in 1 .. Len(s.results) - 1 : s.results[i]
  BY DEF GateHolds
<1>2. CASE case.checks = <<>>
  <2>1. s = [results |-> <<TRUE>>, broken |-> case.broken, over |-> FALSE, raised |-> FALSE]
    BY <1>2 DEF RunTaskChecks
  <2> HIDE DEF s
  <2>2. s.results = <<TRUE>> /\ s.raised = FALSE /\ s.broken = case.broken
    BY <2>1
  <2>3. n = 0 /\ 1 .. n = {}
    BY <1>2
  <2>4. Len(s.results) = 1 /\ DOMAIN s.results = {1} /\ s.results[1] = TRUE
    BY <2>2
  <2>5. open
    BY <2>2, <2>4
  <2>6. 1 .. Len(s.results) - 1 = {}
    BY <2>4
  <2> HIDE DEF n, open
  <2> QED
    BY <2>2, <2>3, <2>5, <2>6
<1>3. CASE case.checks # <<>>
  <2>1. After(case.checks, case.broken, s, n)
    BY <1>0, <1>3, RunFits DEF RunTaskChecks
  <2> HIDE DEF s, Again
  <2>2. /\ s.results \in Seq(BOOLEAN) /\ s.over \in BOOLEAN /\ s.raised \in BOOLEAN
    BY <2>1 DEF After, GateState
  <2>3. DOMAIN s.results = 1 .. Len(s.results) /\ Len(s.results) \in Nat
    BY <2>2
  <2>4. open <=> ~s.over
    <3>1. ~s.over => open
      BY <2>1, <2>3 DEF After
    <3>2. ASSUME s.over, ~s.raised PROVE ~open
      <4>1. s.results # <<>> /\ ~s.results[Len(s.results)]
        BY <2>1, <3>2 DEF After
      <4>2. Len(s.results) \in DOMAIN s.results
        BY <2>2, <2>3, <4>1
      <4> QED
        BY <4>1, <4>2
    <3> QED
      BY <3>1, <3>2
  <2>5. open => \A i \in 1 .. n : Satisfied(case.checks[i], i \notin s.broken \/ Again(i))
    <3> SUFFICES ASSUME ~s.over, NEW i \in 1 .. n
                 PROVE  Satisfied(case.checks[i], i \notin s.broken \/ Again(i))
      BY <2>4
    <3> DEFINE h == i \notin s.broken \/ Rebroken(case.checks, i, n)
               k == i \notin s.broken \/ Again(i)
    <3>1. Satisfied(case.checks[i], h) /\ h \in BOOLEAN /\ k \in BOOLEAN /\ (h => k)
      BY <1>1, <2>1 DEF After, Rebroken, Again
    <3>2. case.checks[i] \in AnyCheck
      BY <1>0
    <3> HIDE DEF h, k
    <3>3. Satisfied(case.checks[i], k)
      BY <3>1, <3>2, SatisfiedGrows
    <3> QED
      BY <3>3 DEF k
  <2>6. (\A i \in 1 .. n : Satisfied(case.checks[i], i \notin case.broken))
           => open /\ s.broken = case.broken
    BY <2>1, <2>4 DEF After, AllSatisfied
  <2>7. \A i \in 1 .. Len(s.results) - 1 : s.results[i]
    BY <2>1 DEF After
  <2> HIDE DEF open, n
  <2> QED
    BY <2>5, <2>6, <2>7
<1> QED
  BY <1>2, <1>3

-----------------------------------------------------------------------------
(* Checks: the output schema and the constraints, for every tree           *)

LEMMA OutputAlwaysHolds ==
    ASSUME case.on = "output" => case.schema \in {"text", "schema", "no schema"}
    PROVE  OutputHolds
<1> SUFFICES ASSUME case.on = "output" PROVE OutputHolds
  BY DEF OutputHolds
<1>1. CASE case.schema = "text"
  BY <1>1 DEF OutputHolds, ValidateOutput
<1>2. CASE case.schema = "no schema"
  BY <1>2 DEF OutputHolds, ValidateOutput
<1>3. CASE case.schema = "schema"
  BY <1>3 DEF OutputHolds, ValidateOutput
<1> QED
  BY <1>1, <1>2, <1>3

TreeKinds == Expensive \union {"no_new_dependencies", "no_new_files_outside"}

\* A constraint about the working tree, its state and the checkers in place.
TreeInput ==
    /\ case.constraint.kind \in TreeKinds
    /\ case.subtasks \in BOOLEAN
    /\ DOMAIN case.custom \subseteq ConstraintKinds
    /\ \A k \in DOMAIN case.custom : case.custom[k] \in BOOLEAN

LEMMA TreeAlwaysKept == ASSUME case.on = "tree" => TreeInput PROVE TreeKept
<1> SUFFICES ASSUME case.on = "tree", TreeInput PROVE TreeKept
  BY DEF TreeKept
<1> DEFINE c == case.constraint
           w == World(<<>>, <<>>, case.status, case.custom, case.exitcode, case.subtasks)
           r == RunConstraints(<<c>>, w)
           Passes == 1 \in DOMAIN r /\ r[1]
           own == c.kind \in DOMAIN case.custom
<1>1. /\ w.status = case.status /\ w.custom = case.custom /\ w.exitcode = case.exitcode
      /\ w.subtasks = case.subtasks
  BY DEF World
<1>2. /\ c.kind \in TreeKinds /\ TreeKinds \subseteq ConstraintKinds
      /\ case.subtasks \in BOOLEAN
  BY DEF TreeInput, TreeKinds, ConstraintKinds
<1>3. DOMAIN <<c>> = {1} /\ <<c>>[1] = c
  OBVIOUS
<1> HIDE DEF w, c
<1>4. r = [i \in {j \in DOMAIN <<c>> : <<c>>[j].kind \in Expensive => w.subtasks} |->
             <<c>>[i].kind \in ConstraintKinds /\ CheckConstraint(<<c>>[i], w)]
  BY DEF RunConstraints
<1>5. /\ 1 \in DOMAIN r <=> (c.kind \in Expensive => case.subtasks)
      /\ 1 \in DOMAIN r => r[1] = (c.kind \in ConstraintKinds /\ CheckConstraint(c, w))
  <2> HIDE DEF r
  <2> QED
    BY <1>1, <1>3, <1>4
<1>6. Passes <=> (c.kind \in Expensive => case.subtasks) /\ CheckConstraint(c, w)
  <2> HIDE DEF r
  <2> QED
    BY <1>2, <1>5
<1> HIDE DEF Passes
<1>7. own => CheckConstraint(c, w) = case.custom[c.kind] /\ case.custom[c.kind] \in BOOLEAN
  BY <1>1 DEF CheckConstraint, TreeInput
<1> SUFFICES CASE c.kind \in DOMAIN case.custom \ Expensive -> Passes <=> case.custom[c.kind]
              [] c.kind = "no_new_files_outside" /\ c.kind \notin DOMAIN case.custom ->
                    Passes => \A i \in DOMAIN case.status :
                        <<case.status[i].x, case.status[i].y>> \in {<<"?", "?">>, <<"A", " ">>}
                            => case.status[i].path.dir = c.directory
              [] c.kind = "no_new_dependencies" /\ c.kind \notin DOMAIN case.custom ->
                    Passes <=> \A i \in DOMAIN case.status :
                        case.status[i].path.dependency => case.status[i].y \notin {"M", "D"}
              [] OTHER -> Passes <=> /\ case.subtasks
                                     /\ IF c.kind \in DOMAIN case.custom THEN case.custom[c.kind]
                                        ELSE case.exitcode = 0
  BY DEF TreeKept, Passes, c, w
<1>8. CASE own /\ c.kind \notin Expensive
  BY <1>6, <1>7, <1>8
<1>9. CASE ~own /\ c.kind = "no_new_files_outside"
  <2>1. c.kind \notin Expensive
    BY <1>9 DEF Expensive
  <2>2. CheckConstraint(c, w) = NoNewFilesOutside(c.directory, case.status)
    BY <1>1, <1>9, <2>1 DEF CheckConstraint
  <2>3. NoNewFilesOutside(c.directory, case.status) =>
          \A i \in DOMAIN case.status :
              <<case.status[i].x, case.status[i].y>> \in {<<"?", "?">>, <<"A", " ">>}
                  => case.status[i].path.dir = c.directory
    BY DEF NoNewFilesOutside, New
  <2> QED
    BY <1>6, <1>9, <2>1, <2>2, <2>3
<1>10. CASE ~own /\ c.kind = "no_new_dependencies"
  <2>1. c.kind \notin Expensive
    BY <1>10 DEF Expensive
  <2>2. CheckConstraint(c, w) = NoNewDependencies(case.status)
    BY <1>1, <1>10, <2>1 DEF CheckConstraint
  <2>3. NoNewDependencies(case.status) <=>
          \A i \in DOMAIN case.status :
              case.status[i].path.dependency => case.status[i].y \notin {"M", "D"}
    BY DEF NoNewDependencies
  <2> QED
    BY <1>6, <1>10, <2>1, <2>2, <2>3
<1>11. CASE c.kind \in Expensive
  <2>1. c.kind # "no_new_files_outside" /\ c.kind # "no_new_dependencies"
    BY <1>11 DEF Expensive
  <2>2. ~own => (CheckConstraint(c, w) <=> case.exitcode = 0)
    <3>1. ~own => CheckConstraint(c, w) = ToolPasses(w.exitcode)
      BY <1>1, <1>11, <2>1, Zenon DEF CheckConstraint, Expensive
    <3> QED
      BY <1>1, <3>1 DEF ToolPasses
  <2> QED
    BY <1>2, <1>6, <1>7, <1>11, <2>1, <2>2
<1> QED
  BY <1>2, <1>8, <1>9, <1>10, <1>11 DEF TreeKinds

SourceKinds == {"no_removed_exports", "no_changed_signatures"}

\* What a constraint of one of these kinds compares with.
SourceSnapshot(c, tree) ==
    IF c.kind = "no_removed_exports" THEN SnapshotExports(tree, c.glob)
    ELSE SnapshotSignatures(tree, c.glob)

\* The snapshot under a constraint's key is the one of the constraint, whichever of
\* the constraints with its key was the last.
LEMMA SnapshotIsOwn ==
    ASSUME NEW C, NEW cs \in Seq(C), NEW tree, NEW i \in DOMAIN cs,
           cs[i].glob # {}, cs[i].kind \in SourceKinds
    PROVE  /\ SnapshotKey(cs[i]) \in DOMAIN CaptureSnapshots(cs, tree)
           /\ CaptureSnapshots(cs, tree)[SnapshotKey(cs[i])] = SourceSnapshot(cs[i], tree)
<1> DEFINE Kept(j) == /\ cs[j].glob # {}
                      /\ cs[j].kind \in {"no_removed_exports", "no_changed_signatures"}
           keys == {SnapshotKey(cs[j]) : j \in {l \in DOMAIN cs : Kept(l)}}
           LastOf(j, k) == /\ Kept(j) /\ SnapshotKey(cs[j]) = k
                         /\ \A l \in j + 1 .. Len(cs) : Kept(l) => SnapshotKey(cs[l]) # k
           Latest(k) == CHOOSE j \in DOMAIN cs : LastOf(j, k)
           k0 == SnapshotKey(cs[i])
<1>0. DOMAIN cs = 1 .. Len(cs) /\ Len(cs) \in Nat /\ Kept(i)
  BY DEF SourceKinds
<1>1. CaptureSnapshots(cs, tree) = [k \in keys |-> SourceSnapshot(cs[Latest(k)], tree)]
  BY DEF CaptureSnapshots, SourceSnapshot
<1> HIDE DEF Kept
<1>2. k0 \in keys
  BY <1>0
<1>3. \E j \in DOMAIN cs : LastOf(j, k0)
  <2> DEFINE D == {d \in Nat : \E j \in DOMAIN cs :
                      d = Len(cs) - j /\ Kept(j) /\ SnapshotKey(cs[j]) = k0}
  <2>1. D \in SUBSET Nat /\ D # {}
    <3>1. Len(cs) - i \in D
      BY <1>0
    <3> QED
      BY <3>1
  <2>2. PICK d \in D : \A y \in D : d <= y
    <3> HIDE DEF D
    <3> QED
      BY <2>1, LeastExists
  <2>3. PICK j \in DOMAIN cs : d = Len(cs) - j /\ Kept(j) /\ SnapshotKey(cs[j]) = k0
    BY <2>2
  <2>4. ASSUME NEW l \in j + 1 .. Len(cs), Kept(l), SnapshotKey(cs[l]) = k0 PROVE FALSE
    <3>1. l \in DOMAIN cs /\ Len(cs) - l \in Nat /\ Len(cs) - l < d
      BY <1>0, <2>3
    <3>2. Len(cs) - l \in D
      BY <2>4, <3>1
    <3> HIDE DEF D
    <3>3. d <= Len(cs) - l /\ d \in Nat
      BY <2>1, <2>2, <3>2
    <3> QED
      BY <3>1, <3>3
  <2> QED
    BY <2>3, <2>4
<1> HIDE DEF LastOf
<1>4. Latest(k0) \in DOMAIN cs /\ LastOf(Latest(k0), k0)
  BY <1>3
<1>5. cs[Latest(k0)].kind = cs[i].kind /\ cs[Latest(k0)].glob = cs[i].glob
  BY <1>4 DEF LastOf, SnapshotKey
<1> HIDE DEF Latest, keys
<1>6. SourceSnapshot(cs[Latest(k0)], tree) = SourceSnapshot(cs[i], tree)
  BY <1>5 DEF SourceSnapshot
<1> QED
  BY <1>1, <1>2, <1>6

\* The parameters of a signature; the code marks the starred ones with stars.
Signature(Ident, Starred) == [posonly : Seq(Ident), args : Seq(Ident), kwonly : Seq(Ident),
                             star : Seq(Starred)]

Joined(s, t) == s \o t
Apart(S, T) == \A x \in S : x \notin T

\* A list of plain names followed by starred ones splits in one way.
LEMMA SplitsOnce ==
    ASSUME NEW Ident, NEW Starred, Apart(Ident, Starred),
           NEW p \in Seq(Ident), NEW q \in Seq(Ident), NEW u \in Seq(Starred),
           NEW v \in Seq(Starred), Joined(p, u) = Joined(q, v)
    PROVE  p = q /\ u = v
<1> DEFINE s == p \o u
<1>0. /\ p \in Seq(Ident \union Starred) /\ q \in Seq(Ident \union Starred)
      /\ u \in Seq(Ident \union Starred) /\ v \in Seq(Ident \union Starred)
  OBVIOUS
<1>1. /\ Len(p) \in Nat /\ Len(q) \in Nat /\ Len(u) \in Nat /\ Len(v) \in Nat
      /\ Len(s) = Len(p) + Len(u) /\ Len(s) = Len(q) + Len(v)
  BY <1>0, ConcatProperties DEF Joined
<1>2. /\ \A n \in 1 .. Len(p) : s[n] = p[n]
      /\ \A n \in 1 .. Len(u) : s[Len(p) + n] = u[n]
  <2>1. \A i \in 1 .. Len(p) + Len(u) : s[i] = IF i <= Len(p) THEN p[i] ELSE u[i - Len(p)]
    BY <1>0, ConcatProperties
  <2> HIDE DEF s
  <2> QED
    <3>1. ASSUME NEW n \in 1 .. Len(p) PROVE s[n] = p[n]
      <4>1. n \in 1 .. Len(p) + Len(u) /\ n <= Len(p)
        BY <1>1
      <4> QED
        BY <2>1, <4>1
    <3>2. ASSUME NEW n \in 1 .. Len(u) PROVE s[Len(p) + n] = u[n]
      <4>1. /\ Len(p) + n \in 1 .. Len(p) + Len(u) /\ ~(Len(p) + n <= Len(p))
            /\ (Len(p) + n) - Len(p) = n
        BY <1>1
      <4> QED
        BY <2>1, <4>1
    <3> QED
      BY <3>1, <3>2
<1>3. /\ \A n \in 1 .. Len(q) : s[n] = q[n]
      /\ \A n \in 1 .. Len(v) : s[Len(q) + n] = v[n]
  <2>1. \A i \in 1 .. Len(q) + Len(v) :
          (q \o v)[i] = IF i <= Len(q) THEN q[i] ELSE v[i - Len(q)]
    BY <1>0, ConcatProperties
  <2>2. q \o v = s
    BY DEF Joined
  <2> HIDE DEF s
  <2> QED
    <3>1. ASSUME NEW n \in 1 .. Len(q) PROVE s[n] = q[n]
      <4>1. n \in 1 .. Len(q) + Len(v) /\ n <= Len(q)
        BY <1>1
      <4> QED
        BY <2>1, <2>2, <4>1
    <3>2. ASSUME NEW n \in 1 .. Len(v) PROVE s[Len(q) + n] = v[n]
      <4>1. /\ Len(q) + n \in 1 .. Len(q) + Len(v) /\ ~(Len(q) + n <= Len(q))
            /\ (Len(q) + n) - Len(q) = n
        BY <1>1
      <4> QED
        BY <2>1, <2>2, <4>1
    <3> QED
      BY <3>1, <3>2
<1>t. /\ \A n \in 1 .. Len(p) : p[n] \in Ident
      /\ \A n \in 1 .. Len(q) : q[n] \in Ident
      /\ \A n \in 1 .. Len(u) : u[n] \in Starred
      /\ \A n \in 1 .. Len(v) : v[n] \in Starred
  OBVIOUS
<1> HIDE DEF s
<1>4. ASSUME Len(p) < Len(q) PROVE FALSE
  <2>1. Len(p) + 1 \in 1 .. Len(q) /\ 1 \in 1 .. Len(u)
    BY <1>1, <1>4
  <2>2. s[Len(p) + 1] \in Ident /\ s[Len(p) + 1] \in Starred
    BY <1>2, <1>3, <1>t, <2>1
  <2> QED
    BY <2>2 DEF Apart
<1>5. ASSUME Len(q) < Len(p) PROVE FALSE
  <2>1. Len(q) + 1 \in 1 .. Len(p) /\ 1 \in 1 .. Len(v)
    BY <1>1, <1>5
  <2>2. s[Len(q) + 1] \in Ident /\ s[Len(q) + 1] \in Starred
    BY <1>2, <1>3, <1>t, <2>1
  <2> QED
    BY <2>2 DEF Apart
<1>6. Len(p) = Len(q) /\ Len(u) = Len(v)
  BY <1>1, <1>4, <1>5
<1>7. p = q
  <2>1. \A n \in 1 .. Len(p) : p[n] = q[n]
    BY <1>2, <1>3, <1>6
  <2> QED
    BY <1>6, <2>1, SeqEqual
<1>8. u = v
  <2>1. \A n \in 1 .. Len(u) : u[n] = v[n]
    BY <1>2, <1>3, <1>6
  <2> QED
    BY <1>6, <2>1, SeqEqual
<1> QED
  BY <1>7, <1>8

\* Without positional-only and keyword-only parameters the list of the snapshot has
\* all there is to a signature.
LEMMA PlainIsTold ==
    ASSUME NEW Ident, NEW Starred, Apart(Ident, Starred),
           NEW a \in Signature(Ident, Starred), NEW b \in Signature(Ident, Starred),
           a.posonly = <<>>, a.kwonly = <<>>, b.posonly = <<>>, b.kwonly = <<>>,
           a.args \o a.posonly \o a.kwonly \o a.star
               = b.args \o b.posonly \o b.kwonly \o b.star
    PROVE  a = b
<1>1. /\ a.args \in Seq(Ident) /\ b.args \in Seq(Ident)
      /\ a.star \in Seq(Starred) /\ b.star \in Seq(Starred)
  BY DEF Signature
<1>2. a.args \o <<>> = a.args /\ b.args \o <<>> = b.args
  BY <1>1
<1>3. a.args \o a.star = b.args \o b.star
  BY <1>2
<1>4. a.args = b.args /\ a.star = b.star
  <2> DEFINE a1 == a.args
             b1 == b.args
             a2 == a.star
             b2 == b.star
  <2>1. /\ a1 \in Seq(Ident) /\ b1 \in Seq(Ident) /\ a2 \in Seq(Starred) /\ b2 \in Seq(Starred)
        /\ Joined(a1, a2) = Joined(b1, b2)
    BY <1>1, <1>3 DEF Joined
  <2> HIDE DEF a1, b1, a2, b2
  <2>2. a1 = b1 /\ a2 = b2
    BY <2>1, SplitsOnce
  <2> QED
    BY <2>2 DEF a1, b1, a2, b2
<1>5. /\ a = [posonly |-> a.posonly, args |-> a.args, kwonly |-> a.kwonly, star |-> a.star]
      /\ b = [posonly |-> b.posonly, args |-> b.args, kwonly |-> b.kwonly, star |-> b.star]
  BY DEF Signature
<1> QED
  BY <1>4, <1>5

\* Constraints about the sources, or of kinds nobody knows, and two trees.
SourceInput(Ident, Starred) ==
    /\ case.constraints \in Seq([kind : STRING, glob : SUBSET STRING, directory : STRING])
    /\ \A i \in DOMAIN case.constraints :
          case.constraints[i].kind \in SourceKinds \union (STRING \ ConstraintKinds)
    /\ \A p \in DOMAIN case.before : case.before[p].signature \in Signature(Ident, Starred)
    /\ \A p \in DOMAIN case.after : case.after[p].signature \in Signature(Ident, Starred)

LEMMA ExportsKept ==
    ASSUME NEW c, NEW snapshots, NEW before, NEW after,
           c.kind = "no_removed_exports", SnapshotKey(c) \in DOMAIN snapshots,
           snapshots[SnapshotKey(c)] = SnapshotExports(before, c.glob)
    PROVE  /\ NoRemovedExports(c, snapshots, after) =>
                 \A p \in Parsable(before, c.glob) :
                     before[p].names # {} => /\ p \in Parsable(after, c.glob)
                                             /\ before[p].names \subseteq after[p].names
           /\ c.glob # {} /\ before = after => NoRemovedExports(c, snapshots, after)
<1> DEFINE old == SnapshotExports(before, c.glob)
           new == SnapshotExports(after, c.glob)
           Now(p) == IF p \in DOMAIN new THEN new[p] ELSE {}
<1>1. /\ DOMAIN old = Parsable(before, c.glob) /\ DOMAIN new = Parsable(after, c.glob)
      /\ \A p \in Parsable(before, c.glob) : old[p] = before[p].names
      /\ \A p \in Parsable(after, c.glob) : new[p] = after[p].names
  BY DEF SnapshotExports
<1>2. NoRemovedExports(c, snapshots, after)
        <=> c.glob # {} /\ \A p \in DOMAIN old : old[p] \subseteq Now(p)
  BY DEF NoRemovedExports
<1> HIDE DEF old, new
<1> QED
  BY <1>1, <1>2 DEF old, new

LEMMA SignaturesKept ==
    ASSUME NEW c, NEW snapshots, NEW before, NEW after,
           c.kind = "no_changed_signatures", SnapshotKey(c) \in DOMAIN snapshots,
           snapshots[SnapshotKey(c)] = SnapshotSignatures(before, c.glob),
           NEW Ident, NEW Starred, Apart(Ident, Starred),
           \A p \in DOMAIN before : before[p].signature \in Signature(Ident, Starred),
           \A p \in DOMAIN after : after[p].signature \in Signature(Ident, Starred)
    PROVE  /\ NoChangedSignatures(c, snapshots, after) =>
                 \A p \in Parsable(before, c.glob) :
                     (/\ p \in Parsable(after, c.glob)
                      /\ "f" \in before[p].functions \intersect after[p].functions
                      /\ before[p].signature.posonly = <<>>
                      /\ before[p].signature.kwonly = <<>>
                      /\ after[p].signature.posonly = <<>>
                      /\ after[p].signature.kwonly = <<>>)
                         => before[p].signature = after[p].signature
           /\ c.glob # {} /\ before = after => NoChangedSignatures(c, snapshots, after)
<1> DEFINE old == SnapshotSignatures(before, c.glob)
           new == SnapshotSignatures(after, c.glob)
           Params(sig) == sig.args \o sig.posonly \o sig.kwonly \o sig.star
           F(tree) == {q \in Parsable(tree, c.glob) : "f" \in tree[q].functions}
<1>1. /\ DOMAIN old = F(before) /\ DOMAIN new = F(after)
      /\ \A p \in F(before) : old[p] = Params(before[p].signature)
      /\ \A p \in F(after) : new[p] = Params(after[p].signature)
  BY DEF SnapshotSignatures
<1>2. NoChangedSignatures(c, snapshots, after)
        <=> c.glob # {} /\ \A p \in DOMAIN old \intersect DOMAIN new : old[p] = new[p]
  BY DEF NoChangedSignatures
<1>3. before = after => old = new
  OBVIOUS
<1> HIDE DEF old, new
<1>4. c.glob # {} /\ before = after => NoChangedSignatures(c, snapshots, after)
  BY <1>2, <1>3
<1>5. ASSUME NoChangedSignatures(c, snapshots, after), NEW p \in Parsable(before, c.glob),
             p \in Parsable(after, c.glob),
             "f" \in before[p].functions, "f" \in after[p].functions,
             before[p].signature.posonly = <<>>, before[p].signature.kwonly = <<>>,
             after[p].signature.posonly = <<>>, after[p].signature.kwonly = <<>>
      PROVE  before[p].signature = after[p].signature
  <2>1. p \in F(before) /\ p \in F(after) /\ p \in DOMAIN before /\ p \in DOMAIN after
    BY <1>5 DEF Parsable
  <2>2. old[p] = new[p]
    BY <1>1, <1>2, <1>5, <2>1
  <2>3. Params(before[p].signature) = Params(after[p].signature)
    <3> HIDE DEF Params, F
    <3> QED
      BY <1>1, <2>1, <2>2
  <2>4. /\ before[p].signature \in Signature(Ident, Starred)
        /\ after[p].signature \in Signature(Ident, Starred)
    BY <2>1
  <2> DEFINE a0 == before[p].signature
             b0 == after[p].signature
  <2> QED
    BY <1>5, <2>3, <2>4, PlainIsTold
<1> QED
  BY <1>4, <1>5

LEMMA SourcesAlwaysKept ==
    ASSUME NEW Ident, NEW Starred, Apart(Ident, Starred),
           case.on = "sources" => SourceInput(Ident, Starred)
    PROVE  SourcesKept
<1> SUFFICES ASSUME case.on = "sources", SourceInput(Ident, Starred) PROVE SourcesKept
  BY DEF SourcesKept
<1> DEFINE cs == case.constraints
           snapshots == CaptureSnapshots(cs, case.before)
           w == World(case.after, snapshots, <<>>, <<>>, 0, FALSE)
           results == RunConstraints(cs, w)
           Plain(sig) == sig.posonly = <<>> /\ sig.kwonly = <<>>
           Kept(c) ==
                \A p \in Parsable(case.before, c.glob) :
                    LET old == case.before[p]
                        new == case.after[p]
                    IN  IF c.kind = "no_removed_exports"
                        THEN old.names # {} => /\ p \in Parsable(case.after, c.glob)
                                               /\ old.names \subseteq new.names
                        ELSE (/\ p \in Parsable(case.after, c.glob)
                              /\ "f" \in old.functions \intersect new.functions
                              /\ Plain(old.signature) /\ Plain(new.signature))
                                 => old.signature = new.signature
<1> SUFFICES ASSUME NEW i \in DOMAIN cs
             PROVE  /\ results[i] => /\ cs[i].kind \in ConstraintKinds /\ cs[i].glob # {}
                                     /\ Kept(cs[i])
                    /\ (/\ cs[i].kind \in ConstraintKinds /\ cs[i].glob # {}
                        /\ case.before = case.after) => results[i]
  BY DEF SourcesKept
<1> DEFINE c == cs[i]
<1>1. /\ w.tree = case.after /\ w.snapshots = snapshots /\ w.custom = <<>>
      /\ w.subtasks = FALSE
  BY DEF World
<1>2. c.kind \in SourceKinds \/ c.kind \notin ConstraintKinds
  BY DEF SourceInput
<1>3. c.kind \notin Expensive
  BY <1>2 DEF SourceKinds, ConstraintKinds, Expensive
<1> HIDE DEF w
<1>4. results = [k \in {j \in DOMAIN cs : cs[j].kind \in Expensive => w.subtasks} |->
                   cs[k].kind \in ConstraintKinds /\ CheckConstraint(cs[k], w)]
  BY DEF RunConstraints
<1> HIDE DEF cs, snapshots, results, Kept
<1>5. results[i] = (c.kind \in ConstraintKinds /\ CheckConstraint(c, w))
  BY <1>3, <1>4
<1>6. CASE c.kind \notin ConstraintKinds
  BY <1>5, <1>6
<1>7. ASSUME c.kind \in SourceKinds PROVE c.kind \in ConstraintKinds
  BY <1>7 DEF SourceKinds, ConstraintKinds
<1>8. ASSUME c.kind \in SourceKinds, c.glob # {}
      PROVE  /\ SnapshotKey(c) \in DOMAIN snapshots
             /\ snapshots[SnapshotKey(c)] = SourceSnapshot(c, case.before)
  BY <1>8, SnapshotIsOwn DEF SourceInput, cs, snapshots
<1>9. c.kind \notin DOMAIN w.custom
  <2>1. DOMAIN <<>> = {}
    OBVIOUS
  <2> QED
    BY <1>1, <2>1
<1>10. CASE c.kind = "no_removed_exports"
  <2>1. CheckConstraint(c, w) = NoRemovedExports(c, snapshots, case.after)
    BY <1>1, <1>3, <1>9, <1>10 DEF CheckConstraint
  <2>2. c.kind \in SourceKinds
    BY <1>10 DEF SourceKinds
  <2>3. CASE c.glob = {}
    BY <1>5, <2>1, <2>3 DEF NoRemovedExports
  <2>4. CASE c.glob # {}
    <3>1. snapshots[SnapshotKey(c)] = SnapshotExports(case.before, c.glob)
      BY <1>8, <1>10, <2>2, <2>4 DEF SourceSnapshot
    <3>2. /\ NoRemovedExports(c, snapshots, case.after) => Kept(c)
          /\ c.glob # {} /\ case.before = case.after
                => NoRemovedExports(c, snapshots, case.after)
      <4> HIDE DEF c
      <4> QED
        BY <1>8, <1>10, <2>2, <2>4, <3>1, ExportsKept DEF Kept
    <3> QED
      BY <1>5, <1>7, <2>1, <2>2, <2>4, <3>2
  <2> QED
    BY <2>3, <2>4
<1>11. CASE c.kind = "no_changed_signatures"
  <2>1. CheckConstraint(c, w) = NoChangedSignatures(c, snapshots, case.after)
    BY <1>1, <1>3, <1>9, <1>11 DEF CheckConstraint
  <2>2. c.kind \in SourceKinds
    BY <1>11 DEF SourceKinds
  <2>3. CASE c.glob = {}
    BY <1>5, <2>1, <2>3 DEF NoChangedSignatures
  <2>4. CASE c.glob # {}
    <3>1. snapshots[SnapshotKey(c)] = SnapshotSignatures(case.before, c.glob)
      BY <1>8, <1>11, <2>2, <2>4 DEF SourceSnapshot
    <3>2. /\ \A p \in DOMAIN case.before : case.before[p].signature \in Signature(Ident, Starred)
          /\ \A p \in DOMAIN case.after : case.after[p].signature \in Signature(Ident, Starred)
      BY DEF SourceInput
    <3>3. /\ NoChangedSignatures(c, snapshots, case.after) => Kept(c)
          /\ c.glob # {} /\ case.before = case.after
                => NoChangedSignatures(c, snapshots, case.after)
      <4> HIDE DEF c
      <4> QED
        BY <1>8, <1>11, <2>2, <2>4, <3>1, <3>2, SignaturesKept DEF Kept
    <3> QED
      BY <1>5, <1>7, <2>1, <2>2, <2>4, <3>3
  <2> QED
    BY <2>3, <2>4
<1> QED
  BY <1>2, <1>6, <1>10, <1>11 DEF SourceKinds

\* An input of the end gate: any list of checks over any broken workspace, any output,
\* any constraints over any two trees, any working tree.
EndGateInput(Ident, Starred) ==
    /\ case.on = "checks" => case.checks \in Seq(AnyCheck) /\ case.broken \in SUBSET Nat
    /\ case.on = "output" => case.schema \in {"text", "schema", "no schema"}
    /\ case.on = "sources" => SourceInput(Ident, Starred)
    /\ case.on = "tree" => TreeInput

\* However many checks a task has and whatever their fixes do, whatever its output, its
\* constraints and the trees before and after it: run_checks, _validate_output_schema
\* and _run_mechanical_constraints let it end only if what they ask for holds.
THEOREM EndGateAlwaysSound ==
    ASSUME NEW Ident, NEW Starred, Apart(Ident, Starred), EndGateInput(Ident, Starred)
    PROVE  EndGateSound
<1>1. GateHolds
  BY GateAlwaysHolds DEF EndGateInput
<1>2. OutputHolds
  BY OutputAlwaysHolds DEF EndGateInput
<1>3. SourcesKept
  BY SourcesAlwaysKept DEF EndGateInput
<1>4. TreeKept
  BY TreeAlwaysKept DEF EndGateInput
<1> QED
  BY <1>1, <1>2, <1>3, <1>4 DEF EndGateSound

-----------------------------------------------------------------------------
(* Checks: what an attempt is charged for and leaves behind                *)

LEMMA CostsAlwaysCounted == CostsCounted
<1> SUFFICES ASSUME case.on = "route" PROVE CostsCounted
  BY DEF CostsCounted
<1>1. CASE Explicit(case.agent)
  BY <1>1 DEF CostsCounted, SessionRoute, ConsultRoute, ResolveModelKey
<1>2. CASE ~Explicit(case.agent)
  <2>1. case.task = "none" => FirstOf(case.task, case.agent.category) = case.agent.category
    BY DEF FirstOf
  <2> QED
    BY <1>2, <2>1 DEF CostsCounted, SessionRoute, ConsultRoute, ResolveModelKey
<1> QED
  BY <1>1, <1>2

LEMMA CommitsAlwaysOwn ==
    ASSUME case.on = "commit" => case.generic \in BOOLEAN PROVE CommitsOwn
<1> SUFFICES ASSUME case.on = "commit", case.generic \in BOOLEAN PROVE CommitsOwn
  BY DEF CommitsOwn
<1>1. CASE case.generic
  BY <1>1 DEF CommitsOwn, AutoCommit, CommittedPath
<1>2. CASE ~case.generic
  BY <1>2 DEF CommitsOwn, AutoCommit, CommittedPath
<1> QED
  BY <1>1, <1>2

LEMMA ContextAlwaysNoticed ==
    ASSUME case.on = "context" => case.tokens \in Nat /\ case.limit \in Int
    PROVE  ContextNoticed
<1> SUFFICES ASSUME case.on = "context", case.tokens \in Nat, case.limit \in Int
             PROVE  ContextNoticed
  BY DEF ContextNoticed
<1> DEFINE strength == [none |-> 0, warning |-> 1, handoff |-> 2]
           Level(n) == strength[ContextAction(n, case.limit)]
<1>1. strength["none"] = 0 /\ strength["warning"] = 1 /\ strength["handoff"] = 2
  OBVIOUS
<1>2. ASSUME NEW n \in Nat
      PROVE  /\ case.limit <= 0 => ContextAction(n, case.limit) = "none"
             /\ case.limit > 0 /\ 10 * n >= 9 * case.limit
                   => ContextAction(n, case.limit) = "handoff"
             /\ case.limit > 0 /\ 10 * n < 9 * case.limit /\ 10 * n >= 8 * case.limit
                   => ContextAction(n, case.limit) = "warning"
             /\ case.limit > 0 /\ 10 * n < 8 * case.limit
                   => ContextAction(n, case.limit) = "none"
  BY DEF ContextAction
<1> HIDE DEF strength
<1>3. ASSUME NEW n \in Nat
      PROVE  /\ case.limit <= 0 => Level(n) = 0
             /\ case.limit > 0 /\ 10 * n >= 9 * case.limit => Level(n) = 2
             /\ case.limit > 0 /\ 10 * n < 9 * case.limit /\ 10 * n >= 8 * case.limit
                   => Level(n) = 1
             /\ case.limit > 0 /\ 10 * n < 8 * case.limit => Level(n) = 0
  BY <1>1, <1>2
<1> HIDE DEF Level
<1>4. case.limit > 0 /\ case.tokens >= case.limit => Level(case.tokens) = 2
  BY <1>3
<1>5. Level(case.tokens) <= Level(case.tokens + 1)
  <2>1. case.tokens + 1 \in Nat
    OBVIOUS
  <2> QED
    BY <1>3, <2>1
<1> QED
  BY <1>4, <1>5 DEF ContextNoticed, Level, strength

\* Whatever the agent, the categories and the transports, however many files are dirty
\* and however full the context: an attempt is charged for the model it uses, commits
\* what is its own, and is handed over in time.
THEOREM AttemptAlwaysAccounted ==
    ASSUME case.on = "commit" => case.generic \in BOOLEAN,
           case.on = "context" => case.tokens \in Nat /\ case.limit \in Int
    PROVE  AttemptAccounted
BY CostsAlwaysCounted, CommitsAlwaysOwn, ContextAlwaysNoticed DEF AttemptAccounted

-----------------------------------------------------------------------------
(* Toolset: the registry                                                   *)

\* The names of the tools that are built by hand.
Reserved == {"git", "consult", "load_tools"} \union LIFECYCLE_TOOL_NAMES

AnyEntry == [namespace : Seq(STRING), tags : SUBSET STRING, location : {"anywhere", "local"}]
AnyCustom == [name : STRING \ Reserved, entry : AnyEntry]

\* The first n custom tools.
Registered(f, n) ==
    /\ f[0] = Builtins
    /\ \A i \in 1 .. n :
          f[i] = RegisterCustom(f[i - 1], case.custom[i].name, case.custom[i].entry)

LEMMA RegisteredExist ==
    ASSUME NEW n \in Nat
    PROVE  \E f : f = [i \in 0 .. n |-> f[i]] /\ Registered(f, n)
<1> DEFINE S == {m \in Nat : \E f : f = [i \in 0 .. m |-> f[i]] /\ Registered(f, m)}
           Next1(r, i) == RegisterCustom(r, case.custom[i].name, case.custom[i].entry)
<1>1. 0 \in S
  <2> DEFINE f == [i \in 0 .. 0 |-> Builtins]
  <2>1. f[0] = Builtins /\ f = [i \in 0 .. 0 |-> f[i]]
    OBVIOUS
  <2>2. Registered(f, 0)
    BY <2>1 DEF Registered
  <2> HIDE DEF f
  <2> QED
    BY <2>1, <2>2
<1>2. ASSUME NEW m \in Nat, m \in S PROVE m + 1 \in S
  <2>1. PICK f : f = [i \in 0 .. m |-> f[i]] /\ Registered(f, m)
    BY <1>2
  <2> DEFINE g == [i \in 0 .. m + 1 |-> IF i = m + 1 THEN Next1(f[m], m + 1) ELSE f[i]]
  <2>2. /\ g = [i \in 0 .. m + 1 |-> g[i]]
        /\ g[m + 1] = Next1(f[m], m + 1) /\ \A i \in 0 .. m : g[i] = f[i]
    <3> HIDE DEF Next1
    <3> QED
      OBVIOUS
  <2> HIDE DEF g
  <2>3. ASSUME NEW i \in 1 .. m + 1 PROVE g[i] = Next1(g[i - 1], i)
    <3>1. CASE i = m + 1
      <4>1. i - 1 = m /\ m \in 0 .. m
        BY <3>1
      <4> QED
        BY <2>2, <3>1, <4>1
    <3>2. CASE i # m + 1
      <4>1. i \in 1 .. m /\ i \in 0 .. m /\ i - 1 \in 0 .. m
        BY <3>2
      <4>2. f[i] = Next1(f[i - 1], i)
        BY <2>1, <4>1 DEF Registered
      <4> QED
        BY <2>2, <4>1, <4>2
    <3> QED
      BY <3>1, <3>2
  <2>4. g[0] = Builtins
    <3>1. 0 \in 0 .. m /\ f[0] = Builtins
      BY <2>1 DEF Registered
    <3> QED
      BY <2>2, <3>1
  <2>5. Registered(g, m + 1)
    BY <2>3, <2>4 DEF Registered
  <2> QED
    BY <2>2, <2>5
<1>3. n \in S
  <2> HIDE DEF S
  <2> QED
    BY <1>1, <1>2, Reaches
<1> QED
  BY <1>3

\* The built-in entries are in r, and no name that is reserved.
Keeps(r) ==
    /\ \A n \in DOMAIN Builtins : n \in DOMAIN r /\ r[n] = Builtins[n]
    /\ Apart(Reserved, DOMAIN r)

LEMMA BuiltinsKeep == Keeps(Builtins)
<1>1. DOMAIN Builtins = READ_TOOL_NAMES \union WRITE_TOOL_NAMES \union {"notepad", "http"}
  BY DEF Builtins
<1> QED
  BY <1>1 DEF Keeps, Apart, Reserved, READ_TOOL_NAMES, WRITE_TOOL_NAMES, LIFECYCLE_TOOL_NAMES

LEMMA CustomKeeps ==
    ASSUME NEW r, Keeps(r), NEW c \in AnyCustom
    PROVE  Keeps(RegisterCustom(r, c.name, c.entry))
<1>1. c.name \notin Reserved
  BY DEF AnyCustom
<1>2. CASE c.name \in DOMAIN r
  BY <1>2 DEF RegisterCustom
<1>3. CASE c.name \notin DOMAIN r
  <2> DEFINE q == RegisterCustom(r, c.name, c.entry)
  <2>1. /\ DOMAIN q = {c.name} \union DOMAIN r
        /\ \A n \in DOMAIN r : q[n] = r[n]
    BY <1>3 DEF RegisterCustom, Overlay
  <2> HIDE DEF q
  <2>2. Keeps(q)
    BY <1>1, <2>1 DEF Keeps, Apart
  <2> QED
    BY <2>2 DEF q
<1> QED
  BY <1>2, <1>3

LEMMA RegistryKeeps == ASSUME case.custom \in Seq(AnyCustom) PROVE Keeps(Registry)
<1> DEFINE n == Len(case.custom)
           Next1(r, i) == RegisterCustom(r, case.custom[i].name, case.custom[i].entry)
           Body(f) == [i \in 0 .. n |-> IF i = 0 THEN Builtins ELSE Next1(f[i - 1], i)]
           made == CHOOSE f : f = Body(f)
<1>0. n \in Nat /\ \A i \in 1 .. n : case.custom[i] \in AnyCustom
  OBVIOUS
<1>1. PICK f : f = [i \in 0 .. n |-> f[i]] /\ Registered(f, n)
  BY <1>0, RegisteredExist
<1>2. f = Body(f)
  <2>1. ASSUME NEW i \in 0 .. n
        PROVE  f[i] = IF i = 0 THEN Builtins ELSE Next1(f[i - 1], i)
    <3>1. f[0] = Builtins /\ \A j \in 1 .. n : f[j] = Next1(f[j - 1], j)
      BY <1>1 DEF Registered
    <3>2. i = 0 \/ (i # 0 /\ i \in 1 .. n)
      BY <1>0
    <3> HIDE DEF n, Next1
    <3> QED
      BY <3>1, <3>2
  <2>2. [i \in 0 .. n |-> f[i]] = Body(f)
    BY <2>1
  <2> HIDE DEF Body
  <2> QED
    BY <1>1, <2>2
<1>3. made = Body(made)
  <2> HIDE DEF Body
  <2> QED
    BY <1>2
<1>4. Registry = made[n]
  BY DEF Registry
<1> HIDE DEF made
<1>5. made[0] = Builtins /\ \A i \in 1 .. n : made[i] = Next1(made[i - 1], i)
  <2>1. made = [i \in 0 .. n |-> IF i = 0 THEN Builtins ELSE Next1(made[i - 1], i)]
    BY <1>3
  <2>2. n \in Nat
    BY <1>0
  <2> HIDE DEF Next1, n, Body
  <2>3. made[0] = Builtins
    BY <2>1, <2>2
  <2>4. ASSUME NEW i \in 1 .. n PROVE made[i] = Next1(made[i - 1], i)
    <3>1. i \in 0 .. n /\ i # 0
      BY <2>2
    <3> QED
      BY <2>1, <3>1
  <2> QED
    BY <2>3, <2>4
<1> DEFINE S == {i \in Nat : Keeps(made[i])}
<1>6. 0 \in S
  BY <1>5, BuiltinsKeep
<1>7. ASSUME NEW k \in Nat, k < n, k \in S PROVE k + 1 \in S
  <2>1. k + 1 \in 1 .. n /\ (k + 1) - 1 = k
    BY <1>0, <1>7
  <2>2. made[k + 1] = Next1(made[k], k + 1) /\ case.custom[k + 1] \in AnyCustom
    BY <1>0, <1>5, <2>1
  <2>3. Keeps(made[k])
    BY <1>7
  <2>4. Keeps(Next1(made[k], k + 1))
    BY <2>2, <2>3, CustomKeeps
  <2> QED
    BY <2>2, <2>4
<1>8. n \in S
  <2> HIDE DEF S, n
  <2> QED
    BY <1>0, <1>6, <1>7, Reaches
<1> QED
  BY <1>4, <1>8

-----------------------------------------------------------------------------
(* Toolset: the tools of a session                                         *)

\* Any custom tools but under the names that are reserved, any allow list and deferred
\* names, and inline tools with names of their own.
ToolInput ==
    /\ case.custom \in Seq(AnyCustom)
    /\ \A e \in case.agent.allow : e = [by |-> e.by, of |-> e.of]
    /\ \A t \in case.agent.inline : t.name \notin DOMAIN Registry \union Reserved

\* The tool a session has under a name, if it has one.
ToolUnder(agent, n) ==
    LET resolved == ResolveAllowList(agent.allow)
    IN  IF n \in DOMAIN Registry
        THEN SessionTool(n, IF n \in agent.deferred THEN "stub" ELSE "real",
                         Registry[n].location)
        ELSE IF n = "git"
        THEN [SessionTool("git", "real", "anywhere") EXCEPT
                  !.commits = resolved \intersect WRITE_TOOL_NAMES # {}]
        ELSE IF n = "consult" THEN SessionTool("consult", "real", "local")
        ELSE IF n = "load_tools" THEN SessionTool("load_tools", "load", "anywhere")
        ELSE IF n \in LIFECYCLE_TOOL_NAMES THEN SessionTool(n, "lifecycle", "local")
        ELSE SessionTool(n, "inline", "anywhere")

LEMMA SessionToolFields ==
    ASSUME NEW n, NEW k, NEW l
    PROVE  /\ SessionTool(n, k, l).name = n /\ SessionTool(n, k, l).kind = k
           /\ SessionTool(n, k, l).location = l /\ SessionTool(n, k, l).commits = FALSE
BY DEF SessionTool

LEMMA GitFields ==
    ASSUME NEW b \in BOOLEAN
    PROVE  LET g == [SessionTool("git", "real", "anywhere") EXCEPT !.commits = b]
           IN  g.name = "git" /\ g.kind = "real" /\ g.location = "anywhere" /\ g.commits = b
BY DEF SessionTool

LEMMA ReservedApart ==
    /\ Apart({"git", "consult", "load_tools"}, LIFECYCLE_TOOL_NAMES)
    /\ "git" # "consult" /\ "git" # "load_tools" /\ "consult" # "load_tools"
    /\ "real" # "stub" /\ "real" # "load" /\ "real" # "lifecycle" /\ "real" # "inline"
    /\ "stub" # "load" /\ "stub" # "lifecycle" /\ "stub" # "inline"
    /\ "lifecycle" # "load" /\ "lifecycle" # "inline"
BY DEF Apart, LIFECYCLE_TOOL_NAMES

\* A session has one tool of a name, and the ones built by name were resolved.
LEMMA StartedTools ==
    ASSUME ToolInput, ValidateAllowList(case.agent),
           NEW t \in BuildAgentTools(case.agent)
    PROVE  /\ t = ToolUnder(case.agent, t.name)
           /\ t.name \in DOMAIN Registry /\ t.name \notin case.agent.deferred
                 => t.name \in ResolveAllowList(case.agent.allow)
           /\ t.name \in {"git", "consult"} => t.name \in ResolveAllowList(case.agent.allow)
<1> DEFINE agent == case.agent
           resolved == ResolveAllowList(agent.allow)
           R == DOMAIN Registry
           commits == resolved \intersect WRITE_TOOL_NAMES # {}
           git == [SessionTool("git", "real", "anywhere") EXCEPT !.commits = commits]
<1>0. Keeps(Registry)
  BY RegistryKeeps DEF ToolInput
<1>1. \A n \in Reserved : n \notin R
  BY <1>0 DEF Keeps, Apart
<1>2. /\ "git" \in Reserved /\ "consult" \in Reserved /\ "load_tools" \in Reserved
      /\ \A n \in LIFECYCLE_TOOL_NAMES : n \in Reserved
  BY DEF Reserved
<1>3. /\ \A n \in LIFECYCLE_TOOL_NAMES : n # "git" /\ n # "consult" /\ n # "load_tools"
      /\ "git" # "consult" /\ "git" # "load_tools" /\ "consult" # "load_tools"
  BY ReservedApart DEF Apart
<1>4. agent.deferred \subseteq R
  BY DEF ValidateAllowList
<1> HIDE DEF R, resolved
<1>5. \/ t \in BuildTools(resolved \ agent.deferred) \/ t \in Stubs(agent.deferred)
      \/ t \in GitTool(resolved) \/ t \in ConsultTool(resolved)
      \/ t \in InlineTools(agent, resolved) \/ t \in LifecycleTools
      \/ t = SessionTool("load_tools", "load", "anywhere")
  BY DEF BuildAgentTools, resolved
<1>6. CASE t \in BuildTools(resolved \ agent.deferred)
  <2>1. PICK n \in R : /\ n \in resolved /\ n \notin agent.deferred
                       /\ t = SessionTool(n, "real", Registry[n].location)
    BY <1>6 DEF BuildTools, R
  <2>2. t.name = n
    BY <2>1 DEF SessionTool
  <2> QED
    BY <1>1, <1>2, <2>1, <2>2 DEF ToolUnder, R, resolved
<1>7. CASE t \in Stubs(agent.deferred)
  <2>1. PICK n \in R : /\ n \in agent.deferred
                       /\ t = SessionTool(n, "stub", Registry[n].location)
    BY <1>7 DEF Stubs, R
  <2>2. t.name = n
    BY <2>1 DEF SessionTool
  <2> QED
    BY <1>1, <1>2, <2>1, <2>2 DEF ToolUnder, R, resolved
<1>8. CASE t \in GitTool(resolved)
  <2>1. t = git /\ "git" \in resolved
    BY <1>8 DEF GitTool
  <2>2. commits \in BOOLEAN
    OBVIOUS
  <2> HIDE DEF commits
  <2>3. t.name = "git"
    BY <2>1, <2>2, GitFields
  <2> QED
    BY <1>1, <1>2, <1>3, <2>1, <2>3 DEF ToolUnder, R, resolved, commits
<1>9. CASE t \in ConsultTool(resolved)
  <2>1. t = SessionTool("consult", "real", "local") /\ "consult" \in resolved
    BY <1>9 DEF ConsultTool
  <2>2. t.name = "consult"
    BY <2>1 DEF SessionTool
  <2> QED
    BY <1>1, <1>2, <1>3, <2>1, <2>2 DEF ToolUnder, R, resolved
<1>10. CASE t \in InlineTools(agent, resolved)
  <2>1. PICK u \in agent.inline : t = SessionTool(u.name, "inline", "anywhere")
    BY <1>10 DEF InlineTools
  <2>2. t.name = u.name /\ u.name \notin R /\ u.name \notin Reserved
    BY <2>1 DEF SessionTool, ToolInput, R
  <2> QED
    BY <1>2, <2>1, <2>2 DEF ToolUnder, R, resolved
<1>11. CASE t \in LifecycleTools
  <2>1. PICK n \in LIFECYCLE_TOOL_NAMES : t = SessionTool(n, "lifecycle", "local")
    BY <1>11 DEF LifecycleTools
  <2>2. t.name = n
    BY <2>1 DEF SessionTool
  <2> QED
    BY <1>1, <1>2, <1>3, <2>1, <2>2 DEF ToolUnder, R, resolved
<1>12. CASE t = SessionTool("load_tools", "load", "anywhere")
  <2>1. t.name = "load_tools"
    BY <1>12 DEF SessionTool
  <2> QED
    BY <1>1, <1>2, <1>3, <1>12, <2>1 DEF ToolUnder, R, resolved
<1> QED
  BY <1>5, <1>6, <1>7, <1>8, <1>9, <1>10, <1>11, <1>12

\* What the tool under a name says of the name.
LEMMA KindOfName ==
    ASSUME NEW agent, NEW n, agent.deferred \subseteq DOMAIN Registry
    PROVE  /\ ToolUnder(agent, n).kind = "real" <=>
                 n \in (DOMAIN Registry \ agent.deferred) \union
                       ({"git", "consult"} \ DOMAIN Registry)
           /\ ToolUnder(agent, n).kind = "stub" <=> n \in agent.deferred
           /\ ToolUnder(agent, n).commits
                 => ResolveAllowList(agent.allow) \intersect WRITE_TOOL_NAMES # {}
<1> DEFINE resolved == ResolveAllowList(agent.allow)
           R == DOMAIN Registry
           commits == resolved \intersect WRITE_TOOL_NAMES # {}
           t == ToolUnder(agent, n)
<1> HIDE DEF R, resolved
<1>1. CASE n \in R
  <2>1. t = SessionTool(n, IF n \in agent.deferred THEN "stub" ELSE "real",
                        Registry[n].location)
    BY <1>1 DEF ToolUnder, R
  <2>2. t.kind = (IF n \in agent.deferred THEN "stub" ELSE "real") /\ ~t.commits
    BY <2>1 DEF SessionTool
  <2> HIDE DEF t
  <2> QED
    BY <1>1, <2>2 DEF R, t
<1>2. CASE n \notin R /\ n = "git"
  <2>1. t = [SessionTool("git", "real", "anywhere") EXCEPT !.commits = commits]
    BY <1>2 DEF ToolUnder, R, resolved
  <2>2. t.kind = "real" /\ (t.commits => commits)
    BY <2>1 DEF SessionTool
  <2> HIDE DEF t
  <2> QED
    BY <1>2, <2>2 DEF R, t, resolved
<1>3. CASE n \notin R /\ n = "consult"
  <2>1. t = SessionTool("consult", "real", "local")
    BY <1>3 DEF ToolUnder, R
  <2>2. t.kind = "real" /\ ~t.commits
    BY <2>1 DEF SessionTool
  <2> HIDE DEF t
  <2> QED
    BY <1>3, <2>2 DEF R, t
<1>4. CASE n \notin R /\ n \notin {"git", "consult"}
  <2>1. \/ t = SessionTool("load_tools", "load", "anywhere")
        \/ t = SessionTool(n, "lifecycle", "local")
        \/ t = SessionTool(n, "inline", "anywhere")
    BY <1>4 DEF ToolUnder, R
  <2>2. t.kind \in {"load", "lifecycle", "inline"} /\ ~t.commits
    BY <2>1 DEF SessionTool
  <2> HIDE DEF t
  <2> QED
    BY <1>4, <2>2 DEF R, t
<1> QED
  BY <1>1, <1>2, <1>3, <1>4

\* The names a session can act with, without the stubs.
Acting(tools) == {t.name : t \in {u \in tools : u.kind # "stub"}}

\* load_tools: refused, or the missing tools are there as real ones.
LEMMA LoadToolsCases ==
    ASSUME NEW agent, NEW tools, NEW names
    PROVE  LET r == LoadTools(agent, tools, names)
               missing == names \ Acting(tools)
               fine == /\ names # {} /\ names \subseteq ResolveAllowList(agent.allow)
                       /\ missing \subseteq DOMAIN Registry
           IN  /\ r.ok <=> fine
               /\ ~fine => r = [ok |-> FALSE, tools |-> tools] /\ r.tools = tools
               /\ fine => r = [ok |-> TRUE, tools |-> r.tools]
               /\ fine => r.tools = {t \in tools : t.name \notin missing}
                             \union {SessionTool(n, "real", "local") : n \in missing}
<1> DEFINE missing == names \ Acting(tools)
           fine == /\ names # {} /\ names \subseteq ResolveAllowList(agent.allow)
                   /\ missing \subseteq DOMAIN Registry
           r == LoadTools(agent, tools, names)
           T == {t \in tools : t.name \notin missing}
                    \union {SessionTool(n, "real", "local") : n \in missing}
<1>1. r = IF ~fine THEN [ok |-> FALSE, tools |-> tools] ELSE [ok |-> TRUE, tools |-> T]
  BY DEF LoadTools, Loadable, Acting
<1> HIDE DEF T, fine, r
<1>2. /\ r.ok <=> fine
      /\ ~fine => r = [ok |-> FALSE, tools |-> tools] /\ r.tools = tools
      /\ fine => r = [ok |-> TRUE, tools |-> r.tools]
      /\ fine => r.tools = T
  BY <1>1
<1> QED
  BY <1>2 DEF T, fine, r

\* A tool of the session after load_tools: one it started with, or a real one that
\* the allow list covers.
LEMMA AfterLoading ==
    ASSUME NEW agent, NEW tools, NEW names,
           NEW t \in LoadTools(agent, tools, names).tools
    PROVE  \/ t \in tools
           \/ \E n \in ResolveAllowList(agent.allow) : t = SessionTool(n, "real", "local")
<1> DEFINE r == LoadTools(agent, tools, names)
           missing == names \ Acting(tools)
           fine == /\ names # {} /\ names \subseteq ResolveAllowList(agent.allow)
                   /\ missing \subseteq DOMAIN Registry
<1>1. /\ ~fine => r.tools = tools
      /\ fine => r.tools = {u \in tools : u.name \notin missing}
                             \union {SessionTool(n, "real", "local") : n \in missing}
  BY LoadToolsCases
<1>2. CASE ~fine
  BY <1>1, <1>2
<1>3. CASE fine
  <2>1. names \subseteq ResolveAllowList(agent.allow)
    BY <1>3
  <2> HIDE DEF r
  <2>2. t \in tools \/ \E n \in names : t = SessionTool(n, "real", "local")
    <3>1. t \in r.tools
      BY DEF r
    <3> QED
      BY <1>1, <1>3, <3>1
  <2> QED
    BY <2>1, <2>2
<1> QED
  BY <1>2, <1>3

LEMMA OnlyGrantedAlways ==
    ASSUME case.on = "tools" => ToolInput PROVE OnlyGranted
<1> SUFFICES ASSUME ToolInput, ValidateAllowList(case.agent),
                    NEW t \in LoadTools(case.agent, BuildAgentTools(case.agent),
                                        case.names).tools
             PROVE  /\ t.kind = "real" => t.name \in ResolveAllowList(case.agent.allow)
                    /\ t.commits => ResolveAllowList(case.agent.allow)
                                        \intersect WRITE_TOOL_NAMES # {}
  BY DEF OnlyGranted
<1>0. case.agent.deferred \subseteq DOMAIN Registry
  BY DEF ValidateAllowList
<1>1. CASE t \in BuildAgentTools(case.agent)
  <2>1. /\ t = ToolUnder(case.agent, t.name)
        /\ t.name \in DOMAIN Registry /\ t.name \notin case.agent.deferred
              => t.name \in ResolveAllowList(case.agent.allow)
        /\ t.name \in {"git", "consult"} => t.name \in ResolveAllowList(case.agent.allow)
    BY <1>1, StartedTools
  <2>2. /\ t.kind = "real" => t.name \in (DOMAIN Registry \ case.agent.deferred) \union
                                         ({"git", "consult"} \ DOMAIN Registry)
        /\ t.commits => ResolveAllowList(case.agent.allow) \intersect WRITE_TOOL_NAMES # {}
    <3> DEFINE n == t.name
    <3>1. t = ToolUnder(case.agent, n)
      BY <2>1
    <3> HIDE DEF n
    <3>2. /\ t.kind = "real" => n \in (DOMAIN Registry \ case.agent.deferred) \union
                                      ({"git", "consult"} \ DOMAIN Registry)
          /\ t.commits => ResolveAllowList(case.agent.allow) \intersect WRITE_TOOL_NAMES # {}
      BY <1>0, <3>1, KindOfName
    <3> QED
      BY <3>2 DEF n
  <2> QED
    BY <2>1, <2>2
<1>2. CASE \E n \in ResolveAllowList(case.agent.allow) : t = SessionTool(n, "real", "local")
  BY <1>2 DEF SessionTool
<1> QED
  BY <1>1, <1>2, AfterLoading

LEMMA NamesAlwaysUnique ==
    ASSUME case.on = "tools" => ToolInput PROVE NamesUnique
<1> DEFINE started == BuildAgentTools(case.agent)
           r == LoadTools(case.agent, started, case.names)
           missing == case.names \ Acting(started)
<1> SUFFICES ASSUME ToolInput, ValidateAllowList(case.agent),
                    NEW t \in r.tools, NEW u \in r.tools, t.name = u.name
             PROVE  t = u
  BY DEF NamesUnique
<1>1. \A x, y \in started : x.name = y.name => x = y
  BY StartedTools
<1>2. \/ r.tools = started
      \/ r.tools = {x \in started : x.name \notin missing}
                     \union {SessionTool(n, "real", "local") : n \in missing}
  BY LoadToolsCases
<1>3. CASE r.tools = started
  BY <1>1, <1>3
<1>4. CASE r.tools = {x \in started : x.name \notin missing}
                       \union {SessionTool(n, "real", "local") : n \in missing}
  <2>1. \A x \in r.tools : \/ x \in started /\ x.name \notin missing
                           \/ x.name \in missing /\ x = SessionTool(x.name, "real", "local")
    <3>1. \A n : SessionTool(n, "real", "local").name = n
      BY DEF SessionTool
    <3> HIDE DEF r, started, missing
    <3> QED
      BY <1>4, <3>1
  <2> HIDE DEF r, started, missing
  <2> QED
    BY <1>1, <2>1
<1> QED
  BY <1>2, <1>3, <1>4

LEMMA LifecycleAlwaysStays ==
    ASSUME case.on = "tools" => ToolInput PROVE LifecycleStays
<1> SUFFICES ASSUME NEW t \in BuildAgentTools(case.agent), t.kind = "lifecycle"
             PROVE  t.location = "local"
  BY DEF LifecycleStays, Routed
<1>1. \A n, l : /\ SessionTool(n, "real", l).kind = "real"
                /\ SessionTool(n, "stub", l).kind = "stub"
                /\ SessionTool(n, "load", l).kind = "load"
                /\ SessionTool(n, "inline", l).kind = "inline"
                /\ SessionTool(n, "lifecycle", l).location = l
  BY DEF SessionTool
<1>2. ASSUME t \in GitTool(ResolveAllowList(case.agent.allow)) PROVE t.kind = "real"
  BY <1>2 DEF GitTool, SessionTool
<1>3. t \in LifecycleTools
  BY <1>1, <1>2 DEF BuildAgentTools, BuildTools, Stubs, ConsultTool, InlineTools
<1> QED
  BY <1>1, <1>3 DEF LifecycleTools

\* After load_tools has done its work there is nothing left for it to do.
LEMMA LoadedTwice ==
    ASSUME NEW agent, NEW tools, NEW names, LoadTools(agent, tools, names).ok
    PROVE  LoadTools(agent, LoadTools(agent, tools, names).tools, names)
               = LoadTools(agent, tools, names)
<1> DEFINE r == LoadTools(agent, tools, names)
           missing == names \ Acting(tools)
           T == r.tools
           q == LoadTools(agent, T, names)
<1>1. /\ names # {} /\ names \subseteq ResolveAllowList(agent.allow)
      /\ r = [ok |-> TRUE, tools |-> T]
      /\ T = {t \in tools : t.name \notin missing}
                \union {SessionTool(n, "real", "local") : n \in missing}
  BY LoadToolsCases
<1> HIDE DEF T, r
<1>2. \A n : SessionTool(n, "real", "local").name = n /\ SessionTool(n, "real", "local").kind = "real"
  BY DEF SessionTool
<1>3. ASSUME NEW n \in names PROVE n \in Acting(T)
  <2>1. CASE n \in missing
    <3>1. SessionTool(n, "real", "local") \in T
      BY <1>1, <2>1
    <3> QED
      BY <1>2, <3>1 DEF Acting
  <2>2. CASE n \notin missing
    <3>1. n \in Acting(tools)
      BY <2>2
    <3>2. PICK t \in tools : t.kind # "stub" /\ t.name = n
      BY <3>1 DEF Acting
    <3>3. t \in T
      BY <1>1, <2>2, <3>2
    <3> QED
      BY <3>2, <3>3 DEF Acting
  <2> QED
    BY <2>1, <2>2
<1>4. names \ Acting(T) = {}
  BY <1>3
<1>5. /\ q = [ok |-> TRUE, tools |-> q.tools]
      /\ q.tools = {t \in T : t.name \notin names \ Acting(T)}
                      \union {SessionTool(n, "real", "local") : n \in names \ Acting(T)}
  <2>1. names \ Acting(T) \subseteq DOMAIN Registry
    BY <1>4
  <2>2. names # {} /\ names \subseteq ResolveAllowList(agent.allow)
    BY <1>1
  <2> QED
    BY <2>1, <2>2, LoadToolsCases
<1> HIDE DEF q
<1>6. q.tools = T
  BY <1>4, <1>5
<1> QED
  BY <1>1, <1>5, <1>6 DEF q, T, r

LEMMA DeferredAlwaysLoad ==
    ASSUME case.on = "tools" => ToolInput PROVE DeferredLoads
<1> DEFINE started == BuildAgentTools(case.agent)
           allowed == case.agent.deferred \intersect ResolveAllowList(case.agent.allow)
           r == LoadTools(case.agent, started, allowed)
           once == LoadTools(case.agent, started, case.names)
<1> SUFFICES ASSUME ToolInput, ValidateAllowList(case.agent)
             PROVE  /\ \A t \in started : t.kind = "real" => t.name \notin case.agent.deferred
                    /\ allowed # {} => /\ r.ok
                                       /\ \A t \in r.tools : t.name \in allowed => t.kind = "real"
                    /\ once.ok => LoadTools(case.agent, once.tools, case.names) = once
  BY DEF DeferredLoads
<1>0. /\ case.agent.deferred \subseteq DOMAIN Registry
      /\ \A n \in {"git", "consult"} : n \notin DOMAIN Registry
  <2>1. Keeps(Registry)
    BY RegistryKeeps DEF ToolInput
  <2> QED
    BY <2>1 DEF ValidateAllowList, Keeps, Apart, Reserved
<1>1. ASSUME NEW t \in started
      PROVE  /\ t.kind = "real" => t.name \notin case.agent.deferred
             /\ t.name \in case.agent.deferred => t.kind = "stub"
  <2> DEFINE n == t.name
  <2>1. t = ToolUnder(case.agent, n)
    BY StartedTools
  <2> HIDE DEF n
  <2>2. /\ t.kind = "real" => n \in (DOMAIN Registry \ case.agent.deferred) \union
                                    ({"git", "consult"} \ DOMAIN Registry)
        /\ t.kind = "stub" <=> n \in case.agent.deferred
    BY <1>0, <2>1, KindOfName
  <2> QED
    BY <1>0, <2>2 DEF n
<1>2. ASSUME allowed # {}
      PROVE  r.ok /\ \A t \in r.tools : t.name \in allowed => t.kind = "real"
  <2>1. \A n \in allowed : n \notin Acting(started)
    BY <1>1 DEF Acting
  <2>2. allowed \ Acting(started) = allowed
    BY <2>1
  <2> HIDE DEF started
  <2>3. /\ r.ok
        /\ r.tools = {t \in started : t.name \notin allowed \ Acting(started)}
                        \union {SessionTool(n, "real", "local") : n \in allowed \ Acting(started)}
    <3>1. /\ allowed \subseteq ResolveAllowList(case.agent.allow)
          /\ allowed \ Acting(started) \subseteq DOMAIN Registry
      BY <1>0
    <3> HIDE DEF allowed
    <3> QED
      BY <1>2, <3>1, LoadToolsCases
  <2>4. \A n : SessionTool(n, "real", "local").kind = "real"
    BY DEF SessionTool
  <2> HIDE DEF r, allowed
  <2> QED
    BY <2>2, <2>3, <2>4
<1>3. once.ok => LoadTools(case.agent, once.tools, case.names) = once
  BY LoadedTwice
<1> QED
  BY <1>1, <1>2, <1>3

\* The names that carry a tag.
LEMMA TagResolved ==
    ASSUME NEW tag
    PROVE  ResolveAllowList({Tagged(tag)}) = {n \in DOMAIN Metadata : tag \in Metadata[n].tags}
<1>1. Tagged(tag).by = "tag" /\ Tagged(tag).of = tag
  BY DEF Tagged
<1> QED
  BY <1>1 DEF ResolveAllowList

LEMMA BuiltinsAlwaysStay ==
    ASSUME case.on = "tools" => ToolInput PROVE BuiltinsStay
<1> SUFFICES ASSUME ToolInput, NEW n \in WRITE_TOOL_NAMES
             PROVE  /\ n \in ResolveAllowList({Tagged("mutation")})
                    /\ n \notin ResolveAllowList({Tagged("readonly")})
  BY DEF BuiltinsStay
<1>1. n \in DOMAIN Registry /\ Registry[n] = Builtins[n] /\ n \notin {"git", "consult"}
  <2>1. Keeps(Registry) /\ n \in DOMAIN Builtins
    BY RegistryKeeps DEF ToolInput, Builtins
  <2> QED
    BY <2>1 DEF Keeps, WRITE_TOOL_NAMES
<1>2. Builtins[n].tags = {"mutation"}
  <2>1. n \notin READ_TOOL_NAMES /\ n # "notepad"
    BY DEF READ_TOOL_NAMES, WRITE_TOOL_NAMES
  <2>2. Builtins[n] = CASE n \in READ_TOOL_NAMES -> ToolEntry(<<"fs", "read">>, {"readonly"}, "anywhere")
          [] n \in WRITE_TOOL_NAMES -> ToolEntry(<<"fs", "write">>, {"mutation"}, "anywhere")
          [] n = "notepad" -> ToolEntry(<<"io", "notepad">>, {"mutation"}, "local")
          [] OTHER -> ToolEntry(<<"io", "http">>, {"readonly", "mutation"}, "anywhere")
    BY DEF Builtins
  <2>3. Builtins[n] = ToolEntry(<<"fs", "write">>, {"mutation"}, "anywhere")
    BY <2>1, <2>2
  <2> QED
    BY <2>3 DEF ToolEntry
<1>3. n \in DOMAIN Metadata /\ Metadata[n].tags = {"mutation"}
  <2>1. DOMAIN SYNTHETIC_ENTRIES = {"git", "consult"}
    BY DEF SYNTHETIC_ENTRIES
  <2>2. n \in DOMAIN Metadata /\ Metadata[n] = Registry[n]
    BY <1>1, <2>1 DEF Metadata, Overlay
  <2> QED
    BY <1>1, <1>2, <2>2
<1> QED
  BY <1>3, TagResolved

LEMMA AlwaysAdvisedHonestly ==
    ASSUME case.on = "tools" => ToolInput PROVE AdvisedHonestly
<1> SUFFICES ASSUME ToolInput, ReadOnlyAdvised(case.agent),
                    \A e \in case.agent.allow : e.by = "name" /\ e # Name("multi_edit"),
                    NEW n \in WRITE_TOOL_NAMES, n \in ResolveAllowList(case.agent.allow)
             PROVE  FALSE
  BY DEF AdvisedHonestly
<1>1. PICK e \in case.agent.allow : e.of = n
  BY DEF ResolveAllowList
<1>2. e = Name(n)
  BY <1>1 DEF ToolInput, Name
<1>3. n # "multi_edit"
  BY <1>2
<1> QED
  BY <1>2, <1>3 DEF ReadOnlyAdvised

-----------------------------------------------------------------------------
(* Toolset: suggestions                                                    *)

\* The tools suggested next to c.
Beside(c) == {e[2] : e \in {d \in Edges : d[1] = c}}

LEMMA BesideIsEdge == \A c, n : n \in Beside(c) <=> <<c, n>> \in Edges
<1>1. \A e \in Edges : e = <<e[1], e[2]>>
  BY DEF Edges
<1> QED
  BY <1>1 DEF Beside

\* What is in seen after n calls.
SeenBy(f, calls, n) ==
    /\ f[0] = {}
    /\ \A i \in 1 .. n : f[i] = f[i - 1] \union Suggest(f[i - 1], calls[i])

LEMMA SeenExist ==
    ASSUME NEW calls, NEW n \in Nat
    PROVE  \E f : f = [i \in 0 .. n |-> f[i]] /\ SeenBy(f, calls, n)
<1> DEFINE S == {m \in Nat : \E f : f = [i \in 0 .. m |-> f[i]] /\ SeenBy(f, calls, m)}
           More(r, i) == r \union Suggest(r, calls[i])
<1>1. 0 \in S
  <2> DEFINE f == [i \in 0 .. 0 |-> {}]
  <2>1. f[0] = {} /\ f = [i \in 0 .. 0 |-> f[i]]
    OBVIOUS
  <2>2. SeenBy(f, calls, 0)
    BY <2>1 DEF SeenBy
  <2> HIDE DEF f
  <2> QED
    BY <2>1, <2>2
<1>2. ASSUME NEW m \in Nat, m \in S PROVE m + 1 \in S
  <2>1. PICK f : f = [i \in 0 .. m |-> f[i]] /\ SeenBy(f, calls, m)
    BY <1>2
  <2> DEFINE g == [i \in 0 .. m + 1 |-> IF i = m + 1 THEN More(f[m], m + 1) ELSE f[i]]
  <2>2. /\ g = [i \in 0 .. m + 1 |-> g[i]]
        /\ g[m + 1] = More(f[m], m + 1) /\ \A i \in 0 .. m : g[i] = f[i]
    <3> HIDE DEF More
    <3> QED
      OBVIOUS
  <2> HIDE DEF g
  <2>3. ASSUME NEW i \in 1 .. m + 1 PROVE g[i] = More(g[i - 1], i)
    <3>1. CASE i = m + 1
      <4>1. i - 1 = m /\ m \in 0 .. m
        BY <3>1
      <4> HIDE DEF More
      <4> QED
        BY <2>2, <3>1, <4>1
    <3>2. CASE i # m + 1
      <4>1. i \in 1 .. m /\ i \in 0 .. m /\ i - 1 \in 0 .. m
        BY <3>2
      <4>2. f[i] = More(f[i - 1], i)
        BY <2>1, <4>1 DEF SeenBy
      <4> HIDE DEF More
      <4> QED
        BY <2>2, <4>1, <4>2
    <3> QED
      BY <3>1, <3>2
  <2>4. g[0] = {}
    <3>1. 0 \in 0 .. m /\ f[0] = {}
      BY <2>1 DEF SeenBy
    <3> QED
      BY <2>2, <3>1
  <2>5. SeenBy(g, calls, m + 1)
    BY <2>3, <2>4 DEF SeenBy
  <2> QED
    BY <2>2, <2>5
<1>3. n \in S
  <2> HIDE DEF S
  <2> QED
    BY <1>1, <1>2, Reaches
<1> QED
  BY <1>3

\* A call suggests what is beside it and beside no call before it.
LEMMA SuggestedByFirst ==
    ASSUME NEW calls \in Seq(STRING)
    PROVE  /\ DOMAIN Suggestions(calls) = 1 .. Len(calls)
           /\ \A i \in 1 .. Len(calls) : \A x :
                 x \in Suggestions(calls)[i] <=>
                    /\ x \in Beside(calls[i])
                    /\ \A j \in 1 .. i - 1 : x \notin Beside(calls[j])
<1> DEFINE n == Len(calls)
           More(r, i) == r \union Suggest(r, calls[i])
           Body(f) == [i \in 0 .. n |-> IF i = 0 THEN {} ELSE More(f[i - 1], i)]
           seen == CHOOSE f : f = Body(f)
<1>0. n \in Nat
  OBVIOUS
<1>1. PICK f : f = [i \in 0 .. n |-> f[i]] /\ SeenBy(f, calls, n)
  BY <1>0, SeenExist
<1>2. f = Body(f)
  <2>1. ASSUME NEW i \in 0 .. n PROVE f[i] = IF i = 0 THEN {} ELSE More(f[i - 1], i)
    <3>1. f[0] = {} /\ \A j \in 1 .. n : f[j] = More(f[j - 1], j)
      BY <1>1 DEF SeenBy
    <3>2. i = 0 \/ (i # 0 /\ i \in 1 .. n)
      BY <1>0
    <3> HIDE DEF n, More
    <3> QED
      BY <3>1, <3>2
  <2>2. [i \in 0 .. n |-> f[i]] = Body(f)
    BY <2>1
  <2> HIDE DEF Body
  <2> QED
    BY <1>1, <2>2
<1>3. seen = Body(seen)
  <2> HIDE DEF Body
  <2> QED
    BY <1>2
<1>4. Suggestions(calls) = [i \in 1 .. n |-> Suggest(seen[i - 1], calls[i])]
  BY DEF Suggestions
<1> HIDE DEF seen
<1>5. seen[0] = {} /\ \A i \in 1 .. n : seen[i] = More(seen[i - 1], i)
  <2>1. seen = [i \in 0 .. n |-> IF i = 0 THEN {} ELSE More(seen[i - 1], i)]
    BY <1>3
  <2> HIDE DEF More, n, Body
  <2>3. seen[0] = {}
    BY <1>0, <2>1
  <2>4. ASSUME NEW i \in 1 .. n PROVE seen[i] = More(seen[i - 1], i)
    <3>1. i \in 0 .. n /\ i # 0
      BY <1>0
    <3> QED
      BY <2>1, <3>1
  <2> QED
    BY <2>3, <2>4
<1>6. \A r, c : Suggest(r, c) = Beside(c) \ r
  BY DEF Suggest, Beside
<1> DEFINE Earlier(i, x) == \E j \in 1 .. i : x \in Beside(calls[j])
           S == {i \in Nat : i <= n => \A x : x \in seen[i] <=> Earlier(i, x)}
<1>7. 0 \in S
  BY <1>5
<1>8. ASSUME NEW k \in Nat, k < n, k \in S PROVE k + 1 \in S
  <2>1. k + 1 \in 1 .. n /\ (k + 1) - 1 = k
    BY <1>0, <1>8
  <2>2. \A x : x \in seen[k] <=> Earlier(k, x)
    BY <1>0, <1>8
  <2>3. \A x : x \in seen[k + 1] <=> x \in seen[k] \/ x \in Beside(calls[k + 1])
    BY <1>5, <1>6, <2>1
  <2>4. 1 .. k + 1 = (1 .. k) \union {k + 1}
    OBVIOUS
  <2>5. \A x : Earlier(k + 1, x) <=> Earlier(k, x) \/ x \in Beside(calls[k + 1])
    BY <2>4
  <2> HIDE DEF Earlier
  <2> QED
    BY <2>2, <2>3, <2>5
<1>9. \A i \in 0 .. n : i \in S
  <2> SUFFICES ASSUME NEW i \in 0 .. n PROVE i \in S
    OBVIOUS
  <2>1. i \in Nat /\ \A k \in Nat : k < i => k < n
    BY <1>0
  <2> HIDE DEF S, n
  <2> QED
    BY <1>7, <1>8, <2>1, Reaches
<1>10. ASSUME NEW i \in 1 .. n, NEW x
       PROVE  x \in Suggestions(calls)[i] <=>
                 x \in Beside(calls[i]) /\ \A j \in 1 .. i - 1 : x \notin Beside(calls[j])
  <2>1. i - 1 \in 0 .. n /\ i - 1 <= n
    BY <1>0
  <2>2. x \in seen[i - 1] <=> Earlier(i - 1, x)
    BY <1>9, <2>1
  <2>3. Suggestions(calls)[i] = Beside(calls[i]) \ seen[i - 1]
    BY <1>4, <1>6
  <2> QED
    BY <2>2, <2>3
<1> QED
  BY <1>4, <1>10

LEMMA AlwaysSuggestedOnce ==
    ASSUME case.on = "suggest" => case.calls \in Seq(STRING) PROVE SuggestedOnce
<1> DEFINE given == Suggestions(case.calls)
           L == Len(case.calls)
<1> SUFFICES ASSUME case.on = "suggest", case.calls \in Seq(STRING), NEW n
             PROVE  Cardinality({i \in DOMAIN given : n \in given[i]})
                      = IF \E i \in DOMAIN case.calls : <<case.calls[i], n>> \in Edges
                        THEN 1 ELSE 0
  BY DEF SuggestedOnce
<1>0. DOMAIN case.calls = 1 .. L /\ L \in Nat /\ DOMAIN given = 1 .. L
  BY SuggestedByFirst
<1>1. \A i \in 1 .. L : n \in given[i] <=>
          n \in Beside(case.calls[i]) /\ \A j \in 1 .. i - 1 : n \notin Beside(case.calls[j])
  BY SuggestedByFirst
<1> HIDE DEF given
<1> DEFINE J == {i \in DOMAIN given : n \in given[i]}
           C == {i \in Nat : i \in 1 .. L /\ n \in Beside(case.calls[i])}
<1>2. (\E i \in DOMAIN case.calls : <<case.calls[i], n>> \in Edges) <=> C # {}
  <2>1. \A i : <<case.calls[i], n>> \in Edges <=> n \in Beside(case.calls[i])
    BY BesideIsEdge
  <2>2. \A i \in 1 .. L : i \in Nat
    BY <1>0
  <2> QED
    BY <1>0, <2>1, <2>2
<1>3. CASE C = {}
  <2>1. J = {}
    BY <1>0, <1>1, <1>3
  <2>2. Cardinality(J) = 0
    BY <2>1, FS_EmptySet
  <2> QED
    BY <1>2, <1>3, <2>2
<1>4. CASE C # {}
  <2>1. PICK m \in C : \A y \in C : m <= y
    <3>1. C \in SUBSET Nat
      OBVIOUS
    <3> HIDE DEF C
    <3> QED
      BY <1>4, <3>1, LeastExists
  <2>2. m \in 1 .. L /\ n \in Beside(case.calls[m])
    BY <2>1
  <2>3. m \in J
    <3>1. ASSUME NEW j \in 1 .. m - 1, n \in Beside(case.calls[j]) PROVE FALSE
      <4>1. j \in C /\ j < m /\ j \in Nat /\ m \in Nat
        BY <1>0, <2>2, <3>1
      <4> HIDE DEF C
      <4> QED
        BY <2>1, <4>1
    <3> QED
      BY <1>0, <1>1, <2>2, <3>1
  <2>4. ASSUME NEW i \in J PROVE i = m
    <3>1. /\ i \in 1 .. L /\ n \in Beside(case.calls[i])
          /\ \A j \in 1 .. i - 1 : n \notin Beside(case.calls[j])
      BY <1>0, <1>1
    <3>2. i \in C
      BY <1>0, <3>1
    <3>3. m <= i
      BY <2>1, <3>2
    <3>4. ~(m < i)
      BY <1>0, <2>2, <3>1
    <3> QED
      BY <1>0, <2>2, <3>1, <3>3, <3>4
  <2>5. J = {m}
    BY <2>3, <2>4
  <2>6. Cardinality(J) = 1
    BY <2>5, FS_Singleton
  <2> QED
    BY <1>2, <1>4, <2>6
<1> QED
  BY <1>3, <1>4

\* Whatever the allow list, the deferred and the inline tools, the custom tools and what
\* load_tools is asked for: the session's tools were granted, load as they should, have
\* names of their own and stay in their place, and each suggestion is made once.
THEOREM ToolsAlwaysGranted ==
    ASSUME case.on = "tools" => ToolInput,
           case.on = "suggest" => case.calls \in Seq(STRING)
    PROVE  ToolsGranted
BY OnlyGrantedAlways, DeferredAlwaysLoad, NamesAlwaysUnique, LifecycleAlwaysStays,
   BuiltinsAlwaysStay, AlwaysAdvisedHonestly, AlwaysSuggestedOnce DEF ToolsGranted
=============================================================================
