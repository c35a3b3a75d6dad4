---------------------------- MODULE TraceQueries ----------------------------
(***************************************************************************)
(* The tables of orxtra.trace that are only inserted into, finished and    *)
(* read: task attempts, iterations, transcripts, notepad entries,          *)
(* decisions, constraints, assumptions, lessons, runs, tasks, inbox items  *)
(* and events; and the workflow status, which is replaced.                 *)
(*                                                                         *)
(* The same writes, made one after the other, go to both backends.  In     *)
(* PostgreSQL a table is a set of rows and a query says which rows, in     *)
(* which order and how many of them; where the order leaves a tie, any     *)
(* answer may come back.  InMemoryBackend walks a list or a dict in        *)
(* insertion order.                                                        *)
(*                                                                         *)
(* A row has an id that grows with its insertion (uuid7, created_at), an   *)
(* owner (run, task or session), a number n (attempt, index, turn), a flag *)
(* (permanent, active), a tag and a status.                                *)
(***************************************************************************)
EXTENDS Case, RowLists, FiniteSets

CONSTANTS
    MaxWrites,  \* bound: writes to a table
    MaxN        \* bound: numbers, and LIMITs

ASSUME QueryAssumption == MaxWrites \in Nat /\ MaxN \in Nat

Owner == {1, 2}
Tag == {"a", "b"}

Insert == [op : {"insert"}, owner : Owner, n : 1 .. MaxN, tag : Tag,
           flag : BOOLEAN]
\* complete_* and fail_* of the id-th row written.
Finish == [op : {"finish"}, id : 1 .. MaxWrites, to : {"completed", "failed"}]

\* Attempts and iterations of a task are numbered apart, and the turns of a
\* session do not decrease.
Numbered(ws) ==
    \A i, j \in DOMAIN ws :
        (i < j /\ ws[i].op = "insert" /\ ws[j].op = "insert"
               /\ ws[i].owner = ws[j].owner)
        => ws[i].n # ws[j].n
Turns(ws) ==
    \A i, j \in DOMAIN ws :
        (i < j /\ ws[i].owner = ws[j].owner) => ws[i].n <= ws[j].n

QueryInit ==
    \/ \E ws \in SeqOf(Insert, MaxWrites) :
          \/ case = [on |-> "rows", writes |-> ws]
          \/ Turns(ws) /\ case = [on |-> "transcripts", writes |-> ws]
    \/ \E ws \in SeqOf({w \in Insert : w.tag = "a" /\ w.flag} \cup Finish,
                       MaxWrites + 1) :
          /\ Numbered(ws)
          /\ case = [on |-> "attempts", writes |-> ws]

On(table) == case.on = table

-----------------------------------------------------------------------------
(* The writes                                                              *)

NewRow(i, w) == [id |-> i, owner |-> w.owner, n |-> w.n, tag |-> w.tag,
                 flag |-> w.flag, status |-> "running"]

\* TraceWriter: INSERT INTO ... VALUES; the row's other columns are defaults.
PgInsert(T, i, w) == T \cup {NewRow(i, w)}

\* TraceWriter.complete_task_attempt, fail_task_attempt, complete_iteration and
\* fail_iteration: UPDATE ... WHERE id, whatever the status was.
PgFinish(T, w) ==
    {r \in T : r.id # w.id} \cup
    {[r EXCEPT !.status = w.to] : r \in {x \in T : x.id = w.id}}

\* The table after the writes.
Pg == LET T[i \in 0 .. Len(case.writes)] ==
              IF i = 0 THEN {}
              ELSE LET w == case.writes[i]
                   IN  IF w.op = "insert" THEN PgInsert(T[i - 1], i, w)
                       ELSE PgFinish(T[i - 1], w)
      IN  T[Len(case.writes)]

\* InMemoryBackend appends to its list, or adds a key to its dict.
MemoryInsert(L, i, w) == Append(L, NewRow(i, w))

\* It changes the dict's row in place.  An unknown id is a KeyError.
MemoryFinish(L, w) ==
    [k \in DOMAIN L |-> IF L[k].id = w.id THEN [L[k] EXCEPT !.status = w.to]
                        ELSE L[k]]

Memory == LET L[i \in 0 .. Len(case.writes)] ==
                  IF i = 0 THEN <<>>
                  ELSE LET w == case.writes[i]
                       IN  IF w.op = "insert" THEN MemoryInsert(L[i - 1], i, w)
                           ELSE MemoryFinish(L[i - 1], w)
          IN  L[Len(case.writes)]

-----------------------------------------------------------------------------
(* The readers of _reader.py.  A query: the rows of its WHERE clause, the  *)
(* key of its ORDER BY and its LIMIT.                                      *)

All == MaxWrites + 2
\* ORDER BY a column, ascending or descending.
ById == [column |-> "id", sign |-> 1]
Newest == [column |-> "id", sign |-> -1]
ByNumber == [column |-> "n", sign |-> 1]
Greatest == [column |-> "n", sign |-> -1]

\* ans is an answer to the query.
Answers(ans, S, by, limit) ==
    LET Rank(r) == by.sign * r[by.column]
    IN  /\ IsInjective(ans) /\ Range(ans) \subseteq S
        /\ Len(ans) = IF Cardinality(S) < limit THEN Cardinality(S) ELSE limit
        /\ \A i, j \in DOMAIN ans : i < j => Rank(ans[i]) <= Rank(ans[j])
        /\ \A i \in DOMAIN ans : \A r \in S \ Range(ans) : Rank(ans[i]) <= Rank(r)

PgOwned(o) == {r \in Pg : r.owner = o}

\* read_task_attempt.
PgAttempt(o, n) == {r \in PgOwned(o) : r.n = n}
\* query_events: run_id, and event_type and created_at when given.
PgEvents(o, tags, since) ==
    {r \in PgOwned(o) : r.tag \in tags /\ r.id >= since}
\* replay: event_type, principal_id and id > since_id when given.
PgReplay(owners, tags, since) ==
    {r \in Pg : r.owner \in owners /\ r.tag \in tags /\ r.id > since}
\* query_lessons: run_id, permanent and tags when given.
PgLessons(owners, permanent, tags) ==
    {r \in Pg : /\ r.owner \in owners
                /\ permanent => r.flag
                /\ r.tag \in tags}
\* read_constraints: active_only; read_assumptions and read_inbox: a status.
PgFlagged(o, only) == {r \in PgOwned(o) : only => r.flag}

-----------------------------------------------------------------------------
(* The readers of InMemoryBackend                                          *)

Owned(o) == Kept(Memory, {r \in ToSet(Memory) : r.owner = o})

\* sort(key = n), which is stable: each row is the least of those that are left.
SortedByNumber(s) ==
    LET Least(S) == CHOOSE r \in S : \A q \in S : r.n < q.n \/ (r.n = q.n /\ r.id <= q.id)
        Left[i \in 0 .. Len(s)] ==
            IF i = 0 THEN ToSet(s) ELSE Left[i - 1] \ {Least(Left[i - 1])}
    IN  [i \in 1 .. Len(s) |-> Least(Left[i - 1])]

\* read_task_attempt: the first row that matches.
MemoryAttempt(o, n) ==
    First(Kept(Owned(o), {r \in ToSet(Owned(o)) : r.n = n}), 1)

\* read_latest_attempt: the first maximum.
MemoryLatest(o) ==
    LET s == Owned(o)
        best == {k \in DOMAIN s : \A j \in DOMAIN s : s[j].n <= s[k].n}
    IN  IF s = <<>> THEN <<>>
        ELSE <<s[CHOOSE k \in best : \A j \in best : k <= j]>>

\* list_iterations and read_task_attempts.
MemoryByNumber(o) == SortedByNumber(Owned(o))

\* read_transcript: the order of the list.
MemoryTranscript(o) == Owned(o)

\* list_tasks, read_notepad and read_inbox: insertion order.
MemoryInOrder(o) == Owned(o)

\* Mutant: the limit is applied before the rows are reversed.
MemoryOldestDecisions(o, limit) == Reverse(First(Owned(o), limit))

\* read_decisions: newest first, cut at the limit.
MemoryDecisions(o, limit) == First(Reverse(Owned(o)), limit)

\* read_constraints and read_assumptions: newest first.
MemoryFlagged(o, only) ==
    Kept(Reverse(Owned(o)), {r \in ToSet(Owned(o)) : only => r.flag})

\* query_events: the walk stops at the limit.
MemoryEvents(o, tags, since, limit) ==
    First(Kept(Owned(o), {r \in ToSet(Owned(o)) : r.tag \in tags /\ ~(r.id < since)}),
          limit)

\* replay.
MemoryReplay(owners, tags, since, limit) ==
    First(Kept(Memory, {r \in ToSet(Memory) : /\ r.owner \in owners /\ r.tag \in tags
                                              /\ ~(r.id <= since)}), limit)

\* query_lessons and query_relevant_lessons.
MemoryLessons(owners, permanent, tags) ==
    Kept(Reverse(Memory), {r \in ToSet(Memory) : /\ r.owner \in owners
                                                 /\ permanent => r.flag
                                                 /\ r.tag \in tags})

\* list_runs: the dict reversed.
MemoryRuns == Reverse(Memory)

-----------------------------------------------------------------------------
(* Properties                                                              *)

\* Both backends answer alike: after the same writes, what the in-memory
\* readers return is an answer PostgreSQL may give to the query, with the same
\* rows, order and limit.
ReadersAgree ==
    /\ On("rows") =>
          /\ Answers(MemoryRuns, Pg, Newest, All)
          /\ \A o \in Owner :
                /\ Answers(MemoryInOrder(o), PgOwned(o), ById, All)
                /\ \A limit \in 1 .. MaxN :
                      Answers(MemoryDecisions(o, limit), PgOwned(o), Newest,
                              limit)
                /\ \A only \in BOOLEAN :
                      Answers(MemoryFlagged(o, only), PgFlagged(o, only),
                              Newest, All)
          /\ \A owners \in SUBSET Owner, tags \in SUBSET Tag, p \in BOOLEAN :
                Answers(MemoryLessons(owners, p, tags),
                        PgLessons(owners, p, tags), Newest, All)
    /\ On("transcripts") => \A o \in Owner :
          Answers(MemoryTranscript(o), PgOwned(o), ByNumber, All)

\* The event readers agree as well, for every filter, cursor and limit.
EventReadersAgree ==
    On("rows") =>
        \A tags \in SUBSET Tag, since \in 0 .. MaxWrites, limit \in 1 .. MaxN :
            /\ \A o \in Owner :
                  Answers(MemoryEvents(o, tags, since, limit),
                          PgEvents(o, tags, since), ById, limit)
            /\ \A owners \in SUBSET Owner :
                  Answers(MemoryReplay(owners, tags, since, limit),
                          PgReplay(owners, tags, since), ById, limit)

\* Attempts and iterations, finished and failed in any order and more than
\* once, read the same in both backends.
AttemptsAgree ==
    On("attempts") =>
        /\ Range(Memory) = Pg
        /\ \A o \in Owner :
              /\ Answers(MemoryByNumber(o), PgOwned(o), ByNumber, All)
              /\ Answers(MemoryLatest(o), PgOwned(o), Greatest, 1)
              /\ \A n \in 1 .. MaxN :
                    Answers(MemoryAttempt(o, n), PgAttempt(o, n), ById, 1)

\* The readers of both backends return the same rows after the same writes.
TraceReadersAgree == ReadersAgree /\ EventReadersAgree /\ AttemptsAgree
=============================================================================
