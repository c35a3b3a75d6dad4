---------------------------- MODULE SchemaTables ----------------------------
(***************************************************************************)
(* The database schema, as the generated executor declares it: of a table  *)
(* its key, the columns a row must give a value, the ones that have a      *)
(* default, the ones that may be NULL, and its enumerated types.           *)
(***************************************************************************)
EXTENDS Integers, FiniteSets

Enums ==
    [assumption_scope |-> {"understanding", "decomposition", "task"},
     attempt_status |-> {"running", "completed", "failed"},
     autonomy_level |-> {"low", "medium", "high", "full", "max"},
     constraint_tier |-> {"mechanical", "advisory"},
     credential_type |-> {"api_key", "bearer", "hmac"},
     entry_type |-> {"learning", "decision", "issue"},
     inbox_status |-> {"pending", "answered", "skipped", "expired",
                       "rejected"},
     run_status |-> {"created", "running", "paused", "completed", "failed",
                     "aborted"},
     task_state |-> {"created", "prechecking", "active", "postchecking",
                     "completed", "precheck_failed", "postcheck_failed",
                     "escalated", "cancelled"},
     task_type |-> {"agent", "callable", "workflow", "decision_point",
                    "wait_for"},
     trust_tier |-> {"anonymous", "identified", "verified", "system"},
     workflow_health |-> {"healthy", "degraded", "failing"}]

PrincipalsTable ==
    [key |-> {"id"},
     required |-> {"kind", "external_ref"},
     defaulted |-> {"id", "created_at"},
     optional |-> {"display_name"},
     enums |-> {}]

ConsumersTable ==
    [key |-> {"id"},
     required |-> {"principal_id", "name", "trust_tier"},
     defaulted |-> {"id", "scope_grants", "created_at"},
     optional |-> {"disabled_at"},
     enums |-> {"trust_tier"}]

NotificationDeliveriesTable ==
    [key |-> {"id"},
     required |-> {"target_principal_id", "source_ref"},
     defaulted |-> {"id", "payload", "created_at"},
     optional |-> {"acknowledged_at"},
     enums |-> {}]

RunsTable ==
    [key |-> {"id"},
     required |-> {"intent", "autonomy_level", "created_by"},
     defaulted |-> {"id", "status", "config_snapshot", "created_at",
                    "total_input_tokens", "total_output_tokens",
                    "total_reasoning_tokens", "total_cache_read_tokens",
                    "total_cache_write_tokens", "total_cost_usd"},
     optional |-> {"finished_at", "coherence_summary"},
     enums |-> {"run_status", "autonomy_level"}]

SourcesTable ==
    [key |-> {"id"},
     required |-> {"slug", "name", "created_by"},
     defaulted |-> {"id", "created_at"},
     optional |-> {"credential_id", "config"},
     enums |-> {}]

CredentialsTable ==
    [key |-> {"id"},
     required |-> {"consumer_id", "credential_type", "credential_hash"},
     defaulted |-> {"id", "algorithm", "metadata", "created_at"},
     optional |-> {"secret_ref"},
     enums |-> {"credential_type"}]

ConstraintsTable ==
    [key |-> {"id"},
     required |-> {"run_id", "text", "tier", "kind"},
     defaulted |-> {"id", "created_at"},
     optional |-> {"args"},
     enums |-> {"constraint_tier"}]

DecisionsTable ==
    [key |-> {"id"},
     required |-> {"run_id", "decision_type", "choice"},
     defaulted |-> {"id", "created_at"},
     optional |-> {"rationale"},
     enums |-> {}]

InboxItemsTable ==
    [key |-> {"id"},
     required |-> {"run_id", "decision_type", "question"},
     defaulted |-> {"id", "status", "options", "tags", "created_at"},
     optional |-> {"assumed_option", "work_proceeding",
                   "contradiction_impact", "deadline", "answer",
                   "answer_event", "rejection_reason", "answered_at",
                   "resolved_by"},
     enums |-> {"inbox_status"}]

KnowledgeHashesTable ==
    [key |-> {"id"},
     required |-> {"run_id", "path", "file_hash"},
     defaulted |-> {"id", "created_at"},
     optional |-> {},
     enums |-> {}]

LessonsTable ==
    [key |-> {"id"},
     required |-> {"run_id", "text"},
     defaulted |-> {"id", "relevance_tags", "permanent", "created_at"},
     optional |-> {"source_files"},
     enums |-> {}]

NotepadEntriesTable ==
    [key |-> {"id"},
     required |-> {"run_id", "task_name", "agent_name", "entry_type", "text"},
     defaulted |-> {"id", "created_at"},
     optional |-> {},
     enums |-> {"entry_type"}]

RunHeartbeatsTable ==
    [key |-> {"run_id"},
     required |-> {"run_id"},
     defaulted |-> {"last_heartbeat"},
     optional |-> {},
     enums |-> {}]

TasksTable ==
    [key |-> {"id"},
     required |-> {"run_id", "name", "task_type"},
     defaulted |-> {"id", "status", "config", "created_at"},
     optional |-> {"parent_task_id"},
     enums |-> {"task_type", "task_state"}]

TranscriptsTable ==
    [key |-> {"id"},
     required |-> {"session_id", "run_id", "turn", "role", "content"},
     defaulted |-> {"id", "created_at"},
     optional |-> {"tool_calls", "tokens"},
     enums |-> {}]

SubscriptionsTable ==
    [key |-> {"id"},
     required |-> {"principal_id"},
     defaulted |-> {"id", "filter_expr", "enabled", "storage", "created_at"},
     optional |-> {"source_id"},
     enums |-> {}]

AssumptionsTable ==
    [key |-> {"id"},
     required |-> {"run_id", "text", "scope"},
     defaulted |-> {"id", "created_at"},
     optional |-> {"inbox_item_id"},
     enums |-> {"assumption_scope"}]

EventsTable ==
    [key |-> {"id"},
     required |-> {"principal_id", "event_type"},
     defaulted |-> {"id", "data", "created_at"},
     optional |-> {"run_id", "task_id", "idempotency_key"},
     enums |-> {}]

OverseerWorkflowStatusTable ==
    [key |-> {"workflow_id"},
     required |-> {"workflow_id", "current_step", "health"},
     defaulted |-> {"updated_at"},
     optional |-> {},
     enums |-> {"workflow_health"}]

TaskAttemptsTable ==
    [key |-> {"id"},
     required |-> {"task_id", "attempt"},
     defaulted |-> {"id", "status", "input_tokens", "output_tokens",
                    "reasoning_tokens", "cache_read_tokens",
                    "cache_write_tokens", "cost_usd", "created_at"},
     optional |-> {"agent_output", "structured_output", "check_result",
                   "check_verdict", "session_id", "duration_seconds"},
     enums |-> {"attempt_status"}]

TaskIterationsTable ==
    [key |-> {"id"},
     required |-> {"task_id", "iteration_index"},
     defaulted |-> {"id", "item_value", "status", "started_at"},
     optional |-> {"output", "structured_output", "check_results",
                   "finished_at"},
     enums |-> {"attempt_status"}]

SubscriptionActionsTable ==
    [key |-> {"id"},
     required |-> {"subscription_id", "position", "action_type"},
     defaulted |-> {"id", "action_config", "created_at"},
     optional |-> {"accumulator_config"},
     enums |-> {}]

DispatchCursorTable ==
    [key |-> {"id"},
     required |-> {"last_processed_event_id"},
     defaulted |-> {"id", "cursor_name", "last_processed_at"},
     optional |-> {},
     enums |-> {}]

ContextDiffsTable ==
    [key |-> {"id"},
     required |-> {"attempt_id", "pre_refinement", "refinement_diff"},
     defaulted |-> {"id", "created_at"},
     optional |-> {},
     enums |-> {}]

AccumulatorBufferTable ==
    [key |-> {"id"},
     required |-> {"subscription_action_id", "event_id"},
     defaulted |-> {"id", "created_at"},
     optional |-> {},
     enums |-> {}]

DispatchCompletionsTable ==
    [key |-> {"id"},
     required |-> {"event_id", "subscription_action_id", "result_status"},
     defaulted |-> {"id", "completed_at"},
     optional |-> {},
     enums |-> {}]

Schema ==
    [principals |-> PrincipalsTable,
     consumers |-> ConsumersTable,
     notification_deliveries |-> NotificationDeliveriesTable,
     runs |-> RunsTable,
     sources |-> SourcesTable,
     credentials |-> CredentialsTable,
     constraints |-> ConstraintsTable,
     decisions |-> DecisionsTable,
     inbox_items |-> InboxItemsTable,
     knowledge_hashes |-> KnowledgeHashesTable,
     lessons |-> LessonsTable,
     notepad_entries |-> NotepadEntriesTable,
     run_heartbeats |-> RunHeartbeatsTable,
     tasks |-> TasksTable,
     transcripts |-> TranscriptsTable,
     subscriptions |-> SubscriptionsTable,
     assumptions |-> AssumptionsTable,
     events |-> EventsTable,
     overseer_workflow_status |-> OverseerWorkflowStatusTable,
     task_attempts |-> TaskAttemptsTable,
     task_iterations |-> TaskIterationsTable,
     subscription_actions |-> SubscriptionActionsTable,
     dispatch_cursor |-> DispatchCursorTable,
     context_diffs |-> ContextDiffsTable,
     accumulator_buffer |-> AccumulatorBufferTable,
     dispatch_completions |-> DispatchCompletionsTable]

Tables == DOMAIN Schema
Columns(t) == Schema[t].required \union Schema[t].defaulted \union Schema[t].optional

\* A foreign key: the column of child that names a row of parent, and what
\* becomes of the child when that row is deleted.
ForeignKey(name, child, column, parent, action) ==
    [name |-> name, child |-> child, column |-> column, parent |-> parent,
     action |-> action]

\* Mutant: what a principal owns goes with it.
OwnerKeysCascading ==
    {ForeignKey("fk_consumers_principal", "consumers",
                "principal_id", "principals", "cascade"),
     ForeignKey("fk_notification_deliveries_target_principal", "notification_deliveries",
                "target_principal_id", "principals", "cascade"),
     ForeignKey("fk_runs_created_by", "runs",
                "created_by", "principals", "cascade"),
     ForeignKey("fk_sources_created_by", "sources",
                "created_by", "principals", "cascade")}

OwnerKeys ==
    {ForeignKey("fk_consumers_principal", "consumers",
                "principal_id", "principals", "restrict"),
     ForeignKey("fk_notification_deliveries_target_principal", "notification_deliveries",
                "target_principal_id", "principals", "restrict"),
     ForeignKey("fk_runs_created_by", "runs",
                "created_by", "principals", "restrict"),
     ForeignKey("fk_sources_created_by", "sources",
                "created_by", "principals", "restrict")}

IdentityKeys ==
    {ForeignKey("fk_credentials_consumer", "credentials",
                "consumer_id", "consumers", "cascade"),
     ForeignKey("fk_constraints_run", "constraints",
                "run_id", "runs", "cascade"),
     ForeignKey("fk_decisions_run", "decisions", "run_id", "runs", "cascade"),
     ForeignKey("fk_inbox_resolved_by", "inbox_items",
                "resolved_by", "principals", "restrict"),
     ForeignKey("fk_inbox_run", "inbox_items", "run_id", "runs", "cascade"),
     ForeignKey("fk_knowledge_hashes_run", "knowledge_hashes",
                "run_id", "runs", "cascade"),
     ForeignKey("fk_lessons_run", "lessons", "run_id", "runs", "cascade")}

RunKeys ==
    {ForeignKey("fk_notepad_run", "notepad_entries",
                "run_id", "runs", "restrict"),
     ForeignKey("fk_run_heartbeats_run", "run_heartbeats",
                "run_id", "runs", "cascade"),
     ForeignKey("fk_tasks_parent", "tasks",
                "parent_task_id", "tasks", "cascade"),
     ForeignKey("fk_tasks_run", "tasks", "run_id", "runs", "cascade"),
     ForeignKey("fk_transcripts_run", "transcripts",
                "run_id", "runs", "restrict"),
     ForeignKey("fk_subscriptions_principal", "subscriptions",
                "principal_id", "principals", "cascade"),
     ForeignKey("fk_subscriptions_source", "subscriptions",
                "source_id", "sources", "set_null"),
     ForeignKey("fk_assumptions_inbox", "assumptions",
                "inbox_item_id", "inbox_items", "set_null"),
     ForeignKey("fk_assumptions_run", "assumptions",
                "run_id", "runs", "cascade")}

EventKeys ==
    {ForeignKey("fk_events_principal", "events",
                "principal_id", "principals", "restrict"),
     ForeignKey("fk_events_run", "events", "run_id", "runs", "restrict"),
     ForeignKey("fk_events_task", "events", "task_id", "tasks", "restrict")}

DispatchKeys ==
    {ForeignKey("fk_overseer_workflow_status_task", "overseer_workflow_status",
                "workflow_id", "tasks", "cascade"),
     ForeignKey("fk_task_attempts_task", "task_attempts",
                "task_id", "tasks", "cascade"),
     ForeignKey("fk_task_iterations_task", "task_iterations",
                "task_id", "tasks", "cascade"),
     ForeignKey("fk_subscription_actions_sub", "subscription_actions",
                "subscription_id", "subscriptions", "cascade"),
     ForeignKey("fk_dispatch_cursor_event", "dispatch_cursor",
                "last_processed_event_id", "events", "restrict"),
     ForeignKey("fk_context_diffs_attempt", "context_diffs",
                "attempt_id", "task_attempts", "cascade"),
     ForeignKey("fk_accumulator_buffer_action", "accumulator_buffer",
                "subscription_action_id", "subscription_actions", "cascade"),
     ForeignKey("fk_accumulator_buffer_event", "accumulator_buffer",
                "event_id", "events", "cascade"),
     ForeignKey("fk_dispatch_completions_action", "dispatch_completions",
                "subscription_action_id", "subscription_actions", "cascade"),
     ForeignKey("fk_dispatch_completions_event", "dispatch_completions",
                "event_id", "events", "restrict")}

ForeignKeys ==
    OwnerKeys \union IdentityKeys \union RunKeys \union EventKeys \union DispatchKeys

\* A unique constraint or index: the columns that tell the rows of a table apart.
Unique(name, table, columns) == [name |-> name, table |-> table, columns |-> columns]

UniqueConstraints ==
    {Unique("uq_principals_kind_external_ref", "principals",
            {"kind", "external_ref"}),
     Unique("uq_consumers_principal_id", "consumers", {"principal_id"}),
     Unique("uq_sources_slug", "sources", {"slug"}),
     Unique("uq_knowledge_hashes_run_path", "knowledge_hashes",
            {"run_id", "path"}),
     Unique("uq_task_attempts_task_attempt", "task_attempts",
            {"task_id", "attempt"}),
     Unique("uq_task_iterations_task_index", "task_iterations",
            {"task_id", "iteration_index"}),
     Unique("uq_subscription_actions_position", "subscription_actions",
            {"subscription_id", "position"}),
     Unique("uq_dispatch_cursor_name", "dispatch_cursor", {"cursor_name"}),
     Unique("uq_dispatch_completions_event_action", "dispatch_completions",
            {"event_id", "subscription_action_id"})}

\* The unique index of the idempotency keys, over the rows that have one.
UniqueIndexes == {Unique("idx_events_idempotency_key", "events", {"idempotency_key"})}

\* The check constraints, by their table; what they demand of a row is not modelled.
RecordChecks ==
    {[name |-> "chk_consumers_name_not_empty",
      table |-> "consumers"],
     [name |-> "chk_notification_deliveries_source_ref_not_empty",
      table |-> "notification_deliveries"],
     [name |-> "chk_runs_counters_non_negative",
      table |-> "runs"],
     [name |-> "chk_sources_slug_not_empty",
      table |-> "sources"],
     [name |-> "chk_credentials_hash_not_empty",
      table |-> "credentials"],
     [name |-> "chk_constraints_text_not_empty",
      table |-> "constraints"],
     [name |-> "chk_decisions_choice_not_empty",
      table |-> "decisions"],
     [name |-> "chk_inbox_items_question_not_empty",
      table |-> "inbox_items"],
     [name |-> "chk_knowledge_hashes_not_empty",
      table |-> "knowledge_hashes"],
     [name |-> "chk_lessons_text_not_empty",
      table |-> "lessons"],
     [name |-> "chk_tasks_name_not_empty",
      table |-> "tasks"]}

DispatchChecks ==
    {[name |-> "chk_subscriptions_storage_valid",
      table |-> "subscriptions"],
     [name |-> "chk_assumptions_text_not_empty",
      table |-> "assumptions"],
     [name |-> "chk_overseer_workflow_status_step_not_empty",
      table |-> "overseer_workflow_status"],
     [name |-> "chk_task_attempts_counters_non_negative",
      table |-> "task_attempts"],
     [name |-> "chk_task_iterations_index_non_negative",
      table |-> "task_iterations"],
     [name |-> "chk_subscription_actions_position_positive",
      table |-> "subscription_actions"],
     [name |-> "chk_dispatch_cursor_name_not_empty",
      table |-> "dispatch_cursor"],
     [name |-> "chk_context_diffs_not_empty",
      table |-> "context_diffs"],
     [name |-> "chk_accumulator_buffer_refs_not_null",
      table |-> "accumulator_buffer"],
     [name |-> "chk_dispatch_completions_status_valid",
      table |-> "dispatch_completions"]}

\* The indexes, by their table.
Indexes ==
    [consumers |-> {"idx_consumers_principal_id",
         "idx_consumers_scope_grants_gin"},
     notification_deliveries |-> {"idx_notification_deliveries_source_ref",
         "idx_notification_deliveries_unacked"},
     runs |-> {"idx_runs_config_snapshot_gin", "idx_runs_created_by"},
     sources |-> {"idx_sources_config_gin", "idx_sources_created_by"},
     credentials |-> {"idx_credentials_consumer_id", "idx_credentials_hash",
         "idx_credentials_metadata_gin"},
     constraints |-> {"idx_constraints_args_gin", "idx_constraints_run"},
     decisions |-> {"idx_decisions_run"},
     inbox_items |-> {"idx_inbox_options_gin", "idx_inbox_resolved_by",
         "idx_inbox_run_pending", "idx_inbox_tags_gin"},
     knowledge_hashes |-> {"idx_knowledge_hashes_run"},
     lessons |-> {"idx_lessons_relevance_tags_gin", "idx_lessons_run",
         "idx_lessons_source_files_gin"},
     notepad_entries |-> {"idx_notepad_created_at_brin", "idx_notepad_run"},
     run_heartbeats |-> {"idx_run_heartbeats_run_id"},
     tasks |-> {"idx_tasks_config_gin", "idx_tasks_parent_id",
         "idx_tasks_run_id"},
     transcripts |-> {"idx_transcripts_created_at_brin",
         "idx_transcripts_run", "idx_transcripts_session",
         "idx_transcripts_tokens_gin", "idx_transcripts_tool_calls_gin"},
     subscriptions |-> {"idx_subscriptions_active",
         "idx_subscriptions_filter_expr_gin",
         "idx_subscriptions_principal_id"},
     assumptions |-> {"idx_assumptions_inbox", "idx_assumptions_run"},
     events |-> {"idx_events_created_at_brin", "idx_events_data_gin",
         "idx_events_idempotency_key", "idx_events_principal_created",
         "idx_events_run_created", "idx_events_task_id",
         "idx_events_type_created"},
     overseer_workflow_status |->
         {"idx_overseer_workflow_status_workflow_id"},
     task_attempts |-> {"idx_task_attempts_check_result_gin",
         "idx_task_attempts_structured_output_gin",
         "idx_task_attempts_task_id"},
     task_iterations |-> {"idx_task_iterations_check_results_gin",
         "idx_task_iterations_item_value_gin",
         "idx_task_iterations_structured_output_gin",
         "idx_task_iterations_task_id"},
     subscription_actions |-> {"idx_subscription_actions_accumulator_gin",
         "idx_subscription_actions_config_gin",
         "idx_subscription_actions_sub"},
     dispatch_cursor |-> {"idx_dispatch_cursor_event"},
     context_diffs |-> {"idx_context_diffs_attempt"},
     accumulator_buffer |-> {"idx_accumulator_buffer_action",
         "idx_accumulator_buffer_event"},
     dispatch_completions |-> {"idx_dispatch_completions_action",
         "idx_dispatch_completions_event"}]

\* The tables no row of which may be updated or deleted: each has a trigger
\* deny_mutation on the function of that name.
AppendOnly == {"notepad_entries", "transcripts", "events"}

\* The functions that notify, and the triggers that call them after an insert.
NotifyFunctions == {"notify_orxtra_event", "notify_orxtra_notification"}

NotifyTriggers ==
    {[name |-> "trg_notify_notification_delivery", table |-> "notification_deliveries",
      function |-> "notify_orxtra_notification"],
     [name |-> "trg_notify_event", table |-> "events",
      function |-> "notify_orxtra_event"]}
=============================================================================
