------------------------------- MODULE Toolset ------------------------------
(***************************************************************************)
(* The tools of an agent session: the registry, the resolution and the     *)
(* validation of an agent's allow list, the tools the session starts with, *)
(* where each of them runs, and what load_tools adds.                      *)
(*                                                                         *)
(* A namespace is the sequence of its names.  An entry of an allow list is *)
(* "*", a tag, a namespace with ".*", or a name.                           *)
(***************************************************************************)
EXTENDS Case, Integers, Sequences, SequencesExt, FiniteSets

CONSTANT MaxAllowed      \* entries of an allow list

ToolEntry(namespace, tags, location) ==
    [namespace |-> namespace, tags |-> tags, location |-> location]

\* _make_builtin_entries
READ_TOOL_NAMES == {"read", "list_dir", "glob", "grep", "stat", "diff"}
WRITE_TOOL_NAMES == {"write", "edit", "multi_edit", "delete", "move", "copy", "mkdir",
                     "set_executable"}
Builtins ==
    [n \in READ_TOOL_NAMES \union WRITE_TOOL_NAMES \union {"notepad", "http"} |->
        CASE n \in READ_TOOL_NAMES -> ToolEntry(<<"fs", "read">>, {"readonly"}, "anywhere")
          [] n \in WRITE_TOOL_NAMES -> ToolEntry(<<"fs", "write">>, {"mutation"}, "anywhere")
          [] n = "notepad" -> ToolEntry(<<"io", "notepad">>, {"mutation"}, "local")
          [] OTHER -> ToolEntry(<<"io", "http">>, {"readonly", "mutation"}, "anywhere")]

\* The entries of f, and those of g under other names.
Overlay(f, g) == [n \in DOMAIN f \union DOMAIN g |-> IF n \in DOMAIN f THEN f[n] ELSE g[n]]

\* register_custom: a second entry of a name is a ValueError, so that a custom tool
\* never takes the place of another.
RegisterCustom(registry, name, entry) ==
    IF name \in DOMAIN registry THEN registry ELSE Overlay([n \in {name} |-> entry], registry)

\* create_builtin_registry and the custom tools of the run.
Registry ==
    LET made[i \in 0 .. Len(case.custom)] ==
            IF i = 0 THEN Builtins
            ELSE RegisterCustom(made[i - 1], case.custom[i].name, case.custom[i].entry)
    IN  made[Len(case.custom)]

\* GIT_METADATA and CONSULT_METADATA: resolved, but built by hand.
SYNTHETIC_ENTRIES ==
    [n \in {"git", "consult"} |->
        IF n = "git" THEN ToolEntry(<<"git">>, {"readonly", "mutation"}, "anywhere")
        ELSE ToolEntry(<<"meta", "consult">>, {"readonly"}, "local")]

LIFECYCLE_TOOL_NAMES == {"start_task", "end_task", "create_task", "create_workflow",
                         "create_wait_for", "await_task"}

\* get_metadata with the synthetic entries.
Metadata == Overlay(SYNTHETIC_ENTRIES, Registry)

-----------------------------------------------------------------------------
(* Allow lists.                                                            *)

Star == [by |-> "all", of |-> ""]
Tagged(t) == [by |-> "tag", of |-> t]
Space(s) == [by |-> "space", of |-> s]
Name(n) == [by |-> "name", of |-> n]

\* namespace == prefix or namespace.startswith(prefix + ".")
Under(p, s) == IsPrefix(p, s)

\* namespace.startswith(prefix), as text.
TextPrefix(p, s) == IsPrefix(p, s) \/ <<p, s>> = <<<<"fs">>, <<"fsx">>>>

\* resolve_allow_list
ResolveAllowList(allow) ==
    LET tools == Metadata
        Covers(e, n) ==
            CASE e.by = "all" -> TRUE
              [] e.by = "tag" -> e.of \in tools[n].tags
              [] e.by = "space" -> Under(e.of, tools[n].namespace)
              [] OTHER -> e.of = n
    IN  {n \in DOMAIN tools : \E e \in allow : Covers(e, n)}

\* validate_allow_lists, one agent; an entry that does not name a known tag or tool
\* and a deferred name that is not in the registry are ValueErrors.
ValidateAllowList(agent) ==
    LET tools == Metadata
        tags == UNION {tools[n].tags : n \in DOMAIN tools}
                \union UNION {t.tags : t \in agent.inline}
        names == DOMAIN tools \union LIFECYCLE_TOOL_NAMES \union {t.name : t \in agent.inline}
    IN  /\ \A e \in agent.allow : /\ e.by = "tag" => e.of \in tags
                                  /\ e.by = "name" => e.of \in names
        /\ agent.deferred \subseteq DOMAIN Registry

\* _analyze_structural_advisories: the names in the allow list, not what they resolve
\* to, and not multi_edit.
ReadOnlyAdvised(agent) ==
    agent.allow \intersect {Name(n) : n \in WRITE_TOOL_NAMES \ {"multi_edit"}} = {}

-----------------------------------------------------------------------------
(* Building the tools of a session.                                        *)

SessionTool(name, kind, location) ==
    [name |-> name, kind |-> kind, location |-> location, commits |-> FALSE]

\* ToolRegistry.build_tools: a name without an entry is skipped.
BuildTools(names) == {SessionTool(n, "real", Registry[n].location) : n \in names \intersect DOMAIN Registry}

\* The deferred names, allowed or not, as stubs that only raise.
Stubs(deferred) == {SessionTool(n, "stub", Registry[n].location) : n \in deferred \intersect DOMAIN Registry}

\* make_git_tool: committing needs a tool that writes.
GitTool(resolved) ==
    IF "git" \notin resolved THEN {}
    ELSE {[SessionTool("git", "real", "anywhere") EXCEPT
               !.commits = resolved \intersect WRITE_TOOL_NAMES # {}]}

ConsultTool(resolved) ==
    IF "consult" \in resolved THEN {SessionTool("consult", "real", "local")} ELSE {}

\* [[tools.define]]: an inline tool is built if its name is resolved, or by the text of
\* a namespace entry, or by "*"; a tag does not reach it, nor its own name unless a
\* registered tool has it too.
InlineTools(agent, resolved) ==
    {SessionTool(t.name, "inline", "anywhere") : t \in
        {u \in agent.inline : \/ u.name \in resolved
                              \/ \E e \in agent.allow : e.by = "space" /\ TextPrefix(e.of, u.namespace)
                              \/ Star \in agent.allow}}

LifecycleTools == {SessionTool(n, "lifecycle", "local") : n \in LIFECYCLE_TOOL_NAMES}

\* _build_agent_tools, and load_tools for an agent that defers any.
BuildAgentTools(agent) ==
    LET resolved == ResolveAllowList(agent.allow)
    IN  BuildTools(resolved \ agent.deferred) \union Stubs(agent.deferred)
        \union GitTool(resolved) \union ConsultTool(resolved)
        \union InlineTools(agent, resolved) \union LifecycleTools
        \union (IF agent.deferred = {} THEN {} ELSE {SessionTool("load_tools", "load", "anywhere")})

\* should_route_to_worker
Routed(tool, target) == target /\ tool.location = "anywhere"

\* Mutant: what is deferred may be loaded.
LoadableDeferred(agent) == ResolveAllowList(agent.allow) \union agent.deferred
\* allowed_names of make_load_tools_tool.
Loadable(agent) == ResolveAllowList(agent.allow)

\* load_tools(names): refused as a whole for a name that is not allowed or has no
\* factory; a stub, or a tool the session lacks, is replaced by the real tool, which
\* always runs in this process.
LoadTools(agent, tools, names) ==
    LET loaded == {t.name : t \in {u \in tools : u.kind # "stub"}}
        missing == names \ loaded
    IN  IF names = {} \/ ~(names \subseteq Loadable(agent)) \/ ~(missing \subseteq DOMAIN Registry)
        THEN [ok |-> FALSE, tools |-> tools]
        ELSE [ok |-> TRUE,
              tools |-> {t \in tools : t.name \notin missing}
                        \union {SessionTool(n, "real", "local") : n \in missing}]

-----------------------------------------------------------------------------
(* Suggestions after a tool call.                                          *)

\* _seed_builtin_edges
Edges == {<<"read", "edit">>, <<"read", "grep">>, <<"grep", "read">>, <<"glob", "read">>,
          <<"list_dir", "read">>, <<"diff", "edit">>, <<"stat", "read">>, <<"write", "read">>,
          <<"edit", "read">>, <<"move", "read">>, <<"copy", "read">>}

\* edges_from and the _result_appendix of a session: each neighbour once.
Suggest(suggested, tool) == {e[2] : e \in {d \in Edges : d[1] = tool}} \ suggested

\* What a sequence of calls has suggested, call by call; seen[i] after i of them.
Suggestions(calls) ==
    LET seen[i \in 0 .. Len(calls)] ==
            IF i = 0 THEN {} ELSE seen[i - 1] \union Suggest(seen[i - 1], calls[i])
    IN  [i \in 1 .. Len(calls) |-> Suggest(seen[i - 1], calls[i])]

-----------------------------------------------------------------------------
(* Inputs.                                                                 *)

Custom(name, namespace, tags) == [name |-> name, entry |-> ToolEntry(namespace, tags, "anywhere")]
Customs == {<<>>, <<Custom("x", <<"fsx">>, {"special"})>>,
            <<Custom("x", <<"fsx">>, {"special"}), Custom("write", <<"fs">>, {"readonly"})>>}
InlineTool(name, namespace, tags) == [name |-> name, namespace |-> namespace, tags |-> tags]
Inlines == {{}, {InlineTool("mine", <<"fsx">>, {"own"})}, {InlineTool("mine", <<"fs">>, {})}}
AllowEntries == {Star, Tagged("readonly"), Tagged("mutation"), Tagged("special"), Tagged("own"),
                 Space(<<"fs">>), Space(<<"fs", "write">>), Space(<<"none">>), Name("read"),
                 Name("multi_edit"), Name("git"), Name("consult"), Name("mine"), Name("x"),
                 Name("end_task")}
AllowLists == {s \in SUBSET AllowEntries : Cardinality(s) <= MaxAllowed}

ToolsetInit ==
    \/ case \in [on : {"tools"}, custom : Customs,
                 agent : [allow : AllowLists, inline : Inlines,
                          deferred : {{}, {"grep"}, {"edit", "x"}, {"notepad", "git"}}],
                 names : {{}, {"grep"}, {"edit", "x"}, {"read", "git"}}]
    \/ case \in [on : {"suggest"}, custom : {<<>>},
                 calls : SeqOf({"read", "grep", "edit", "http"}, 3)]

-----------------------------------------------------------------------------
(* Properties.                                                             *)

\* Whatever the session has and loads, a tool that can act was granted: its name is
\* covered by the allow list, or it is an inline tool or one every session has; git
\* commits only for a session that can also write.
OnlyGranted ==
    case.on = "tools" /\ ValidateAllowList(case.agent) =>
        LET granted == ResolveAllowList(case.agent.allow)
            started == BuildAgentTools(case.agent)
            after == LoadTools(case.agent, started, case.names).tools
        IN  \A t \in after :
               /\ t.kind = "real" => t.name \in granted
               /\ t.commits => granted \intersect WRITE_TOOL_NAMES # {}

\* A deferred tool cannot act before it is loaded, every allowed deferred tool can be
\* loaded, and loading twice changes nothing.
DeferredLoads ==
    case.on = "tools" /\ ValidateAllowList(case.agent) =>
        LET started == BuildAgentTools(case.agent)
            allowed == case.agent.deferred \intersect ResolveAllowList(case.agent.allow)
            once == LoadTools(case.agent, started, case.names)
        IN  /\ \A t \in started : t.kind = "real" => t.name \notin case.agent.deferred
            /\ allowed # {} => /\ LoadTools(case.agent, started, allowed).ok
                               /\ \A t \in LoadTools(case.agent, started, allowed).tools :
                                     t.name \in allowed => t.kind = "real"
            /\ once.ok => LoadTools(case.agent, once.tools, case.names) = once

\* One tool of a name, as long as no inline tool takes the name of another.
NamesUnique ==
    case.on = "tools" /\ ValidateAllowList(case.agent) =>
        LET tools == LoadTools(case.agent, BuildAgentTools(case.agent), case.names).tools
        IN  \A t, u \in tools : t.name = u.name => t = u

\* The tools that change the scheduler's state never run on a worker.
LifecycleStays ==
    case.on = "tools" =>
        \A t \in BuildAgentTools(case.agent) : 
           t.kind = "lifecycle" => \A target \in BOOLEAN : ~Routed(t, target)

\* A custom tool does not replace a tool that is there: the tags by which an allow list
\* grants the tools that write stay the built-in ones.
BuiltinsStay ==
    case.on = "tools" =>
        \A n \in WRITE_TOOL_NAMES : n \in ResolveAllowList({Tagged("mutation")})
                                    /\ n \notin ResolveAllowList({Tagged("readonly")})

\* A task called read-only whose allow list has only names other than multi_edit, and
\* no tag or wildcard, has no tool that writes files.
AdvisedHonestly ==
    case.on = "tools" =>
        ((/\ \A e \in case.agent.allow : e.by = "name" /\ e # Name("multi_edit")
          /\ ReadOnlyAdvised(case.agent))
            => ResolveAllowList(case.agent.allow) \intersect WRITE_TOOL_NAMES = {})

\* A session is offered each neighbouring tool once, and none is forgotten.
SuggestedOnce ==
    case.on = "suggest" =>
        LET given == Suggestions(case.calls)
        IN  \A n \in READ_TOOL_NAMES \union WRITE_TOOL_NAMES :
               Cardinality({i \in DOMAIN given : n \in given[i]})
                   = IF \E i \in DOMAIN case.calls : <<case.calls[i], n>> \in Edges THEN 1 ELSE 0

\* The tools of a session: granted, loadable, unique, in their place, and advised on.
ToolsGranted ==
    OnlyGranted /\ DeferredLoads /\ NamesUnique /\ LifecycleStays /\ BuiltinsStay /\ AdvisedHonestly /\ SuggestedOnce
=============================================================================
