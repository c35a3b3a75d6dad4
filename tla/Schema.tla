------------------------------- MODULE Schema -------------------------------
(***************************************************************************)
(* The schema at work: the generated executor that creates and verifies    *)
(* the objects of SchemaTables, the commands db init and db verify, what   *)
(* deleting a row takes with it, and the statements that insert rows.      *)
(*                                                                         *)
(* A database is the set of the objects it has, each a <<kind, name>>.     *)
(***************************************************************************)
EXTENDS Case, SchemaTables, Sequences, SequencesExt

Of(kind, names) == {<<kind, n>> : n \in names}
Names(S) == {x.name : x \in S}

DenyFunction == <<"indexes", "public.pgdesign_deny_mutation">>
DenyTriggers == {<<"indexes", "deny_mutation of", t>> : t \in AppendOnly}

-----------------------------------------------------------------------------
(* Creating the schema.                                                    *)

\* SECTIONS: the operations in their order; those of one set are independent
\* of each other.  The comments of a table are one object.
Sections ==
    << Of("schemas", {"public"}), Of("types", DOMAIN Enums), Of("tables", Tables),
       Of("foreign_keys", Names(ForeignKeys)),
       Of("unique_constraints", Names(UniqueConstraints)),
       Of("check_constraints", Names(RecordChecks \union DispatchChecks)),
       Of("indexes", UNION {Indexes[t] : t \in DOMAIN Indexes}), {DenyFunction},
       DenyTriggers, Of("comments", Tables), Of("functions", NotifyFunctions),
       Of("triggers", Names(NotifyTriggers)) >>

Objects == UNION ToSet(Sections)

\* What a statement refers to and must find: the server's rule.
Needs(o) ==
    LET Named(S) == {x \in S : x.name = o[2]}
        OnTables(S) == Of("tables", {x.table : x \in Named(S)})
    IN  CASE o[1] = "tables" -> Of("types", Schema[o[2]].enums)
                                    \union {<<"schemas", "public">>}
          [] o[1] = "foreign_keys" ->
                Of("tables", {k.child : k \in Named(ForeignKeys)}
                                 \union {k.parent : k \in Named(ForeignKeys)})
          [] o[1] = "unique_constraints" -> OnTables(UniqueConstraints)
          [] o[1] = "check_constraints" -> OnTables(RecordChecks \union DispatchChecks)
          [] o \in DenyTriggers -> {DenyFunction, <<"tables", o[3]>>}
          [] o[1] = "indexes" /\ o # DenyFunction ->
                Of("tables", {t \in DOMAIN Indexes : o[2] \in Indexes[t]})
          [] o[1] = "comments" -> {<<"tables", o[2]>>}
          [] o[1] = "triggers" ->
                OnTables(NotifyTriggers)
                    \union Of("functions", {x.function : x \in Named(NotifyTriggers)})
          [] o[1] = "schemas" -> {}
          [] OTHER -> {<<"schemas", "public">>}

\* CREATE OR REPLACE and COMMENT ON succeed on what is there already.
Rerunnable(o) == o[1] \in {"comments", "functions"} \/ o = DenyFunction

\* execute: every statement in one transaction, which the first error rolls back.
Execute(db, idempotent) ==
    LET Run(st, ops) ==
            IF \/ ~st.ok
               \/ \E o \in ops : ~(Needs(o) \subseteq st.db)
               \/ ~idempotent /\ \E o \in ops : o \in st.db /\ ~Rerunnable(o)
            THEN [st EXCEPT !.ok = FALSE]
            ELSE [st EXCEPT !.db = @ \union ops]
        end == FoldLeft(Run, [ok |-> TRUE, db |-> db], Sections)
    IN  IF end.ok THEN end ELSE [ok |-> FALSE, db |-> db]

CreateSchema(db) == Execute(db, FALSE)
EnsureSchema(db) == Execute(db, TRUE)

\* db init: the objects, then, on a connection of its own, the system
\* principal.  crash: the command dies between the two.
DbInit(d, crash) ==
    LET made == EnsureSchema(d.objects)
    IN  [objects |-> made.db, seeded |-> d.seeded \/ (made.ok /\ ~crash)]

-----------------------------------------------------------------------------
(* Verifying it.                                                           *)

\* Section.exists: whether the catalogue that the query of a kind reads has a
\* row of that name.  A table has a row type in pg_type, a unique constraint an
\* index in pg_indexes, and a trigger its bare name in pg_trigger.
Exists(o, db) ==
    LET Rows(kind) == {p[2] : p \in {q \in db : q[1] = kind}}
        indexes == {q[2] : q \in {q \in db : q[1] = "indexes" /\ q # DenyFunction
                                               /\ q \notin DenyTriggers}}
    IN  CASE o[1] = "types" -> o[2] \in Rows("types") \union Rows("tables")
          [] o[1] = "indexes" -> o[2] \in indexes \union Rows("unique_constraints")
          [] o[1] = "comments" -> FALSE
          [] OTHER -> o[2] \in Rows(o[1])

\* _is_false_positive.
IsFalsePositive(o) == o = DenyFunction \/ o \in DenyTriggers

\* verify with _VERIFY_EXCLUDE_SECTIONS, filtered as verify_schema_objects does.
VerifySchemaObjects(db) ==
    LET selected == {o \in Objects : o[1] # "comments"}
        missing == {o \in selected : ~Exists(o, db)}
    IN  [present |-> selected \ missing,
         missing |-> {o \in missing : ~IsFalsePositive(o)}]

\* verify_schema and db verify: whether the process goes on.
DbVerify(db) == VerifySchemaObjects(db).missing = {}

-----------------------------------------------------------------------------
(* Deleting a row.  One row of each table of a set, which refer to each    *)
(* other where they can.                                                   *)

\* The tables the code deletes rows of.
Deleted == {"principals", "sources", "subscriptions", "subscription_actions",
            "accumulator_buffer"}

\* The set with every row that its rows must name.
Supported(rows) ==
    LET Up(S) == S \union {k.parent : k \in {k \in ForeignKeys :
                                 k.child \in S /\ k.column \in Schema[k.child].required}}
    IN  FoldLeft(LAMBDA S, i : Up(S), rows, [i \in 1 .. 6 |-> i])

\* What goes with the row of table t.
Cascaded(rows, t) ==
    LET Down(S) == S \union {k.child : k \in {k \in ForeignKeys :
                                 k.parent \in S /\ k.child \in rows /\ k.action = "cascade"}}
    IN  FoldLeft(LAMBDA S, i : Down(S), {t}, [i \in 1 .. 6 |-> i])

\* DELETE: refused when a row that stays, or may not be touched, names one that goes.
DeleteRow(rows, t) ==
    LET gone == Cascaded(rows, t)
        refused == \/ \E k \in ForeignKeys : /\ k.parent \in gone
                                             /\ k.child \in rows
                                             /\ k.action = "restrict"
                   \/ gone \intersect AppendOnly # {}
    IN  IF refused THEN rows ELSE rows \ gone

-----------------------------------------------------------------------------
(* The statements that insert rows: the columns they give, and the columns *)
(* of their ON CONFLICT clause, {} when they have none.                    *)

InsertStatement(table, columns, conflict) ==
    [table |-> table, columns |-> columns, conflict |-> conflict]

\* TraceWriter.
RunInserts ==
    {InsertStatement("runs", {"id", "intent", "config_snapshot", "autonomy_level",
                     "created_by"}, {}),
     InsertStatement("events", {"id", "run_id", "task_id", "principal_id", "event_type",
                       "data"}, {}),
     InsertStatement("tasks", {"id", "run_id", "parent_task_id", "name", "task_type",
                      "config"}, {}),
     InsertStatement("task_attempts", {"id", "task_id", "attempt"}, {})}

EventInserts ==
    {InsertStatement("events", {"id", "run_id", "task_id", "principal_id", "event_type",
                       "data", "idempotency_key"}, {"idempotency_key"}),
     InsertStatement("transcripts", {"id", "session_id", "run_id", "turn", "role", "content",
                            "tool_calls", "tokens"}, {}),
     InsertStatement("notepad_entries", {"id", "run_id", "task_name", "agent_name",
                                "entry_type", "text"}, {}),
     InsertStatement("inbox_items", {"id", "run_id", "decision_type", "question", "options",
                            "assumed_option", "work_proceeding",
                            "contradiction_impact", "tags", "deadline",
                            "answer_event"}, {})}

KnowledgeInserts ==
    {InsertStatement("context_diffs", {"id", "attempt_id", "pre_refinement",
                              "refinement_diff"}, {}),
     InsertStatement("decisions", {"id", "run_id", "decision_type", "choice", "rationale"}, {}),
     InsertStatement("constraints", {"id", "run_id", "text", "tier", "kind", "args"}, {}),
     InsertStatement("assumptions", {"id", "run_id", "text", "scope", "inbox_item_id"}, {}),
     InsertStatement("lessons", {"id", "run_id", "text", "relevance_tags", "permanent",
                        "source_files"}, {}),
     InsertStatement("task_iterations", {"id", "task_id", "iteration_index", "item_value"}, {}),
     InsertStatement("overseer_workflow_status", {"workflow_id", "current_step", "health",
                                         "updated_at"}, {"workflow_id"})}

HashInserts ==
    {InsertStatement("knowledge_hashes", {"id", "run_id", "path", "file_hash"},
            {"run_id", "path"})}

HeartbeatInserts ==
    {InsertStatement("run_heartbeats", {"run_id", "last_heartbeat"}, {"run_id"})}

PrincipalInserts ==
    {InsertStatement("principals", {"kind", "external_ref", "display_name"},
            {"kind", "external_ref"})}

ConsumerInserts ==
    {InsertStatement("consumers", {"id", "principal_id", "name", "trust_tier",
                          "scope_grants"}, {}),
     InsertStatement("credentials", {"consumer_id", "credential_type", "credential_hash",
                            "secret_ref"}, {})}

DeliveryInserts ==
    {InsertStatement("notification_deliveries", {"target_principal_id", "source_ref",
                                        "payload"}, {})}

SubscriptionInserts ==
    {InsertStatement("sources", {"id", "slug", "name", "credential_id", "config",
                        "created_by"}, {}),
     InsertStatement("subscriptions", {"id", "filter_expr", "enabled", "storage",
                              "principal_id"}, {}),
     InsertStatement("subscription_actions", {"id", "subscription_id", "position",
                                     "action_type", "action_config",
                                     "accumulator_config"}, {})}

DispatchInserts ==
    {InsertStatement("accumulator_buffer", {"id", "subscription_action_id", "event_id"}, {}),
     InsertStatement("dispatch_cursor", {"id", "cursor_name", "last_processed_event_id",
                                "last_processed_at"}, {"cursor_name"}),
     InsertStatement("dispatch_completions", {"id", "event_id", "subscription_action_id",
                                     "result_status", "completed_at"},
            {"event_id", "subscription_action_id"})}

Inserts == UNION {RunInserts, EventInserts, KnowledgeInserts, HashInserts,
                  HeartbeatInserts, PrincipalInserts, ConsumerInserts,
                  DeliveryInserts, SubscriptionInserts, DispatchInserts}

-----------------------------------------------------------------------------
(* The inputs and the properties.                                          *)

\* What is left after DROP ... CASCADE of some objects.
Without(dropped) ==
    LET Out(S) == S \union {o \in Objects : Needs(o) \intersect S # {}}
    IN  Objects \ FoldLeft(LAMBDA S, i : Out(S), dropped, [i \in 1 .. 3 |-> i])

Databases ==
    {Without({o}) : o \in Objects}
        \union {Without(Of("tables", {t, u})) : t, u \in Tables}
        \union {{}, {<<"schemas", "public">>}}

SchemaInit ==
    \/ \E db \in Databases : case = [on |-> "schema", db |-> db]
    \/ \E t, u \in Tables, d \in Deleted :
           case = [on |-> "delete", rows |-> Supported({t, u, d}), table |-> d]
    \/ \E i \in Inserts : case = [on |-> "insert", insert |-> i]

\* db init makes the schema complete and seeds the system principal, whatever
\* part of the schema was there, also when an earlier call died half way; and
\* create_schema, which fails on what exists, leaves nothing half made.
EnsureConverges ==
    case.on = "schema" =>
        LET before == [objects |-> case.db, seeded |-> FALSE]
        IN  /\ DbInit(DbInit(before, TRUE), FALSE) =
                   [objects |-> Objects, seeded |-> TRUE]
            /\ CreateSchema(case.db).db \in {case.db, Objects}
            /\ CreateSchema(case.db).ok => \A o \in case.db : Rerunnable(o)

\* A process starts on exactly the databases that have every object, except for
\* the comments and the append-only guards, which the catalogue queries cannot
\* see: no object hides behind another of its name.
VerifyFindsMissing ==
    case.on = "schema" =>
        LET seen == {o \in Objects : o[1] # "comments" /\ ~IsFalsePositive(o)}
        IN  /\ VerifySchemaObjects(case.db).missing = seen \ case.db
            /\ DbVerify(case.db) = (seen \subseteq case.db)
            /\ {o \in Objects : IsFalsePositive(o)} =
                   {DenyFunction} \union DenyTriggers

\* Deleting principals, sources and subscriptions never takes a run, its
\* records, an event or a delivery along, and never leaves a row that names one
\* that is gone.
HistoryKept ==
    case.on = "delete" =>
        LET after == DeleteRow(case.rows, case.table)
        IN  /\ (case.rows \ after) \subseteq
                   {"principals", "sources", "subscriptions", "subscription_actions",
                    "accumulator_buffer", "dispatch_completions"}
            /\ Supported(after) = after
            /\ \A k \in ForeignKeys : k.action = "set_null" =>
                   k.column \in Schema[k.child].optional

\* Every INSERT of the code fits its table: the columns exist, the required ones
\* are given, and the columns of an ON CONFLICT are exactly those of a key, a
\* unique constraint or a unique index, without which the statement fails.
InsertsFit ==
    case.on = "insert" =>
        LET i == case.insert
        IN  /\ i.columns \subseteq Columns(i.table)
            /\ Schema[i.table].required \subseteq i.columns
            /\ i.conflict \in {{}, Schema[i.table].key}
                   \union {u.columns : u \in {u \in UniqueConstraints \union UniqueIndexes :
                                                  u.table = i.table}}

\* The schema is completed, checked and used as it is declared.
SchemaHolds == EnsureConverges /\ VerifyFindsMissing /\ HistoryKept /\ InsertsFit
=============================================================================
