------------------------------- MODULE Checks -------------------------------
(***************************************************************************)
(* What decides whether a task may end: the checks of verify/, the         *)
(* mechanical constraints and the output schema of the scheduler; and what *)
(* it does with the answer: which model is charged, what is committed.     *)
(***************************************************************************)
EXTENDS Case, Integers, Sequences, SequencesExt, FiniteSets

-----------------------------------------------------------------------------
(* Running checks.  broken holds the checks whose condition does not hold  *)
(* in the workspace; a fix may repair its own and break another.           *)

SEVERITY_ORDER == [critical |-> 4, major |-> 3, minor |-> 2, nit |-> 1]

Verdict(passed, fix) == [passed |-> passed, fix |-> fix, raises |-> FALSE]
NoVerdict == [passed |-> FALSE, fix |-> "none", raises |-> TRUE]

\* _run_script: a path, module or function that is not there and an exception are
\* failures without a fix.
RunScript(c, holds) == IF c.callable # "runs" THEN Verdict(FALSE, "none")
                       ELSE Verdict(holds, c.fix)

\* _run_agent: the verdict is in the issues; run_consult may raise.
RunAgent(c) ==
    LET blocking == {s \in c.issues : SEVERITY_ORDER[s] >= SEVERITY_ORDER[c.threshold]}
    IN  CASE c.answer = "raises" -> NoVerdict
          [] c.answer = "invalid" -> Verdict(FALSE, "none")
          [] OTHER -> Verdict(blocking = {}, "none")

\* run_workflow_check: no tasks, or the check results of the composite task; how
\* the tasks ended is not looked at.
RunWorkflowCheck(c) == Verdict(c.tasks = "none" \/ c.postchecks # "fail", "none")

\* execute_check
ExecuteCheck(c, holds) ==
    CASE c.kind = "script" -> RunScript(c, holds)
      [] c.kind = "agent" -> RunAgent(c)
      [] OTHER -> RunWorkflowCheck(c)

\* result.fix(ctx): what is broken after it.
Fix(c, i, broken) ==
    CASE c.fix = "repairs" -> broken \ {i}
      [] c.fix = "breaks" -> (broken \ {i}) \union {1}
      [] OTHER -> broken

\* Mutant: a fix that returned is a check that passed.
CheckStepTrusting(checks, s, i) ==
    LET c == checks[i]
        r == ExecuteCheck(c, i \notin s.broken)
        broken == Fix(c, i, s.broken)
    IN  IF s.over \/ r.raises THEN [s EXCEPT !.over = TRUE, !.raised = @ \/ (~s.over /\ r.raises)]
        ELSE IF r.passed \/ r.fix \notin {"none", "raises"}
        THEN [s EXCEPT !.results = Append(@, TRUE), !.broken = IF r.passed THEN @ ELSE broken]
        ELSE [s EXCEPT !.results = Append(@, FALSE), !.over = TRUE]

\* One turn of the loop of run_checks: a failed check is repaired and run again if
\* it brought a fix; the first that stays failed ends the loop.
CheckStep(checks, s, i) ==
    LET c == checks[i]
        r == ExecuteCheck(c, i \notin s.broken)
        broken == Fix(c, i, s.broken)
        rerun == ExecuteCheck(c, i \notin broken)
    IN  IF s.over THEN s
        ELSE IF r.raises THEN [s EXCEPT !.over = TRUE, !.raised = TRUE]
        ELSE IF r.passed THEN [s EXCEPT !.results = Append(@, TRUE)]
        ELSE IF r.fix \in {"none", "raises"}
        THEN [s EXCEPT !.results = Append(@, FALSE), !.over = TRUE]
        ELSE [s EXCEPT !.results = Append(@, rerun.passed), !.over = ~rerun.passed,
                       !.broken = broken]

\* The loop: run[i] is where it is after i checks.
RunChecks(checks, broken) ==
    LET run[i \in 0 .. Len(checks)] ==
            IF i = 0
            THEN [results |-> <<>>, broken |-> broken, over |-> FALSE, raised |-> FALSE]
            ELSE CheckStep(checks, run[i - 1], i)
    IN  run[Len(checks)]

\* _run_prechecks and _run_postchecks: none defined is one that passed.
RunTaskChecks(checks, broken) ==
    IF checks = <<>>
    THEN [results |-> <<TRUE>>, broken |-> broken, over |-> FALSE, raised |-> FALSE]
    ELSE RunChecks(checks, broken)

\* _validate_output_schema; a schema that is no schema raises.
ValidateOutput(output, schema) ==
    CASE output \in {"none", "text"} \/ schema = "text" -> "fails"
      [] output \notin {"none", "text"} /\ schema = "no schema" -> "raises"
      [] OTHER -> IF output = "matching" THEN "passes" ELSE "fails"

-----------------------------------------------------------------------------
(* Constraints about the sources.  A tree maps a file to what parsing it   *)
(* gives: the names it defines or assigns, the ones it annotates only, and *)
(* the signature of its function f.  A glob is the set of its files.       *)

Expensive == {"tests_pass", "lint_clean"}
ConstraintKinds == Expensive \union {"no_removed_exports", "no_changed_signatures",
                                     "no_new_dependencies", "no_new_files_outside"}

Parsable(tree, glob) == {p \in DOMAIN tree \intersect glob : tree[p].parses}

\* _snapshot_exports: an annotated assignment is not an export.
SnapshotExports(tree, glob) == [p \in Parsable(tree, glob) |-> tree[p].names]

\* _snapshot_signatures: the parameters in the order the code lists them.
SnapshotSignatures(tree, glob) ==
    LET Params(sig) == sig.args \o sig.posonly \o sig.kwonly \o sig.star
    IN  [p \in {q \in Parsable(tree, glob) : "f" \in tree[q].functions} |->
             Params(tree[p].signature)]

SnapshotKey(c) == <<c.kind, c.glob>>

\* _capture_pre_task_snapshots: the later of two constraints with one key wins; a
\* constraint without a glob, or of another kind, has none.
CaptureSnapshots(constraints, tree) ==
    LET Kept(i) == /\ constraints[i].glob # {}
                   /\ constraints[i].kind \in {"no_removed_exports", "no_changed_signatures"}
        keys == {SnapshotKey(constraints[i]) : i \in {j \in DOMAIN constraints : Kept(j)}}
        Latest(k) == CHOOSE i \in DOMAIN constraints :
                      /\ Kept(i) /\ SnapshotKey(constraints[i]) = k
                      /\ \A j \in i + 1 .. Len(constraints) :
                            Kept(j) => SnapshotKey(constraints[j]) # k
        Snapshot(c) == IF c.kind = "no_removed_exports" THEN SnapshotExports(tree, c.glob)
                       ELSE SnapshotSignatures(tree, c.glob)
    IN  [k \in keys |-> Snapshot(constraints[Latest(k)])]

\* _check_no_removed_exports: a file that is gone, or does not parse, has no names;
\* without a snapshot there is nothing to compare.
NoRemovedExports(c, snapshots, tree) ==
    LET after == SnapshotExports(tree, c.glob)
        before == snapshots[SnapshotKey(c)]
        Now(p) == IF p \in DOMAIN after THEN after[p] ELSE {}
    IN  /\ c.glob # {}
        /\ SnapshotKey(c) \in DOMAIN snapshots =>
              \A p \in DOMAIN before : before[p] \subseteq Now(p)

\* _check_no_changed_signatures: a function that is gone has not changed.
NoChangedSignatures(c, snapshots, tree) ==
    LET after == SnapshotSignatures(tree, c.glob)
        before == snapshots[SnapshotKey(c)]
    IN  /\ c.glob # {}
        /\ SnapshotKey(c) \in DOMAIN snapshots =>
              \A p \in DOMAIN before \intersect DOMAIN after : before[p] = after[p]

-----------------------------------------------------------------------------
(* Constraints about the working tree.  A line of git status --porcelain   *)
(* has the two status letters and the path.  The output is stripped, so    *)
(* the first line loses its first letter when that is a blank.             *)

Blank(i, line) == i = 1 /\ line.x = " "

\* The path at line[3:].
Sliced(i, line) == IF Blank(i, line) THEN [line.path EXCEPT !.cut = TRUE] ELSE line.path

\* line.startswith(("??", "A "))
New(i, line) == \/ <<line.x, line.y>> \in {<<"?", "?">>, <<"A", " ">>}
                \/ Blank(i, line) /\ line.y = "A"

\* _check_no_new_files_outside; "" is a text without a directory.
NoNewFilesOutside(directory, status) ==
    /\ directory # ""
    /\ \A i \in DOMAIN status :
          New(i, status[i]) => ~Sliced(i, status[i]).cut /\ status[i].path.dir = directory

\* _check_no_new_dependencies: git diff --name-only lists the tracked files that
\* differ from the index.
NoNewDependencies(status) ==
    \A i \in DOMAIN status : status[i].y \in {"M", "D"} => ~status[i].path.dependency

\* _check_tests_pass and _check_lint_clean.
ToolPasses(exitcode) == exitcode = 0

\* _check_constraint; a custom checker comes first.
CheckConstraint(c, w) ==
    IF c.kind \in DOMAIN w.custom THEN w.custom[c.kind]
    ELSE CASE c.kind \in Expensive -> ToolPasses(w.exitcode)
      [] c.kind = "no_new_dependencies" -> NoNewDependencies(w.status)
      [] c.kind = "no_new_files_outside" -> NoNewFilesOutside(c.directory, w.status)
      [] c.kind = "no_removed_exports" -> NoRemovedExports(c, w.snapshots, w.tree)
      [] OTHER -> NoChangedSignatures(c, w.snapshots, w.tree)

\* _run_mechanical_constraints: the constraints that were evaluated, with results.
RunConstraints(constraints, w) ==
    LET Run(i) == constraints[i].kind \in Expensive => w.subtasks
        Judge(c) == c.kind \in ConstraintKinds /\ CheckConstraint(c, w)
    IN  [i \in {j \in DOMAIN constraints : Run(j)} |-> Judge(constraints[i])]

-----------------------------------------------------------------------------
(* Which model a task uses, and what an ended task commits.                *)

Explicit(agent) == agent.provider # "none" /\ agent.model # "none"
FirstOf(a, b) == IF a # "none" THEN a ELSE b
NoRoute == <<>>

\* self._categories.get(category)
Category(c, categories) == IF c \in DOMAIN categories THEN categories[c] ELSE NoRoute

\* Mutant: the task's own category is forgotten.
ResolveModelKeyOfAgent(agent, task, categories) ==
    IF Explicit(agent) THEN <<agent.provider, agent.model>>
    ELSE Category(agent.category, categories)

\* _resolve_model_key: the model whose price a session is charged.
ResolveModelKey(agent, task, categories) ==
    IF Explicit(agent) THEN <<agent.provider, agent.model>>
    ELSE Category(FirstOf(task, agent.category), categories)

\* _create_agent_session: the route of the session; NoRoute is the ValueError.
SessionRoute(agent, task, categories, transports) ==
    LET r == IF Explicit(agent) THEN <<agent.provider, agent.model>>
             ELSE Category(FirstOf(task, agent.category), categories)
    IN  IF r # NoRoute /\ r[1] \in transports THEN r ELSE NoRoute

\* run_consult knows no task.
ConsultRoute(agent, categories, transports) ==
    LET r == IF Explicit(agent) THEN <<agent.provider, agent.model>>
             ELSE Category(agent.category, categories)
    IN  IF r # NoRoute /\ r[1] \in transports THEN r ELSE NoRoute

\* _compute_context_usage and _check_agent_context.
ContextAction(tokens, limit) ==
    CASE limit <= 0 -> "none"
      [] limit > 0 /\ 10 * tokens >= 9 * limit -> "handoff"
      [] limit > 0 /\ 10 * tokens < 9 * limit /\ 10 * tokens >= 8 * limit -> "warning"
      [] OTHER -> "none"

\* line.strip().split(maxsplit=1)[1], and the new name of a rename.
CommittedPath(i, line) == line.path

\* _auto_commit: the files handed to safegit, of the ones the session has written;
\* a tool that cannot name its files is tracked as __generic__.
AutoCommit(tracked, generic, status) ==
    LET dirty == {CommittedPath(i, status[i]) : i \in DOMAIN status}
    IN  IF generic THEN dirty ELSE dirty \intersect tracked

-----------------------------------------------------------------------------
(* Inputs.                                                                 *)

Script(callable, fix) == [kind |-> "script", callable |-> callable, fix |-> fix]
AgentCheck(answer, issues, threshold) ==
    [kind |-> "agent", answer |-> answer, issues |-> issues, threshold |-> threshold,
     fix |-> "none"]
WorkflowCheck(tasks, postchecks) ==
    [kind |-> "workflow", tasks |-> tasks, postchecks |-> postchecks, fix |-> "none"]
SomeChecks ==
    {Script("runs", fix) : fix \in {"none", "repairs", "breaks", "useless", "raises"}}
    \union {Script("no module", "none"), AgentCheck("raises", {}, "nit"),
            AgentCheck("invalid", {}, "nit")}
    \union {AgentCheck("verdict", issues, threshold) :
                issues \in {{}, {"nit", "minor"}, {"major"}},
                threshold \in DOMAIN SEVERITY_ORDER}
    \union {WorkflowCheck(t, p) : t \in {"none", "fail"}, p \in {"none", "fail"}}

Signatures ==
    LET Split3(s) == {[posonly |-> SubSeq(s, 1, i), args |-> SubSeq(s, i + 1, j),
                       kwonly |-> SubSeq(s, j + 1, Len(s)), star |-> <<>>] :
                          i \in 0 .. Len(s), j \in 0 .. Len(s)}
    IN  UNION {{sig \in Split3(s) : sig.posonly \o sig.args \o sig.kwonly = s} :
                   s \in {<<>>, <<"a">>, <<"a", "b">>, <<"b", "a">>}}
SomeSignature == CHOOSE s \in Signatures : s.args = <<"a">>
Source(parses, names, functions, signature) ==
    [parses |-> parses, names |-> names, functions |-> functions, signature |-> signature]
SomeSources == {Source(FALSE, {}, {}, SomeSignature), Source(TRUE, {}, {}, SomeSignature),
                Source(TRUE, {"v"}, {}, SomeSignature),
                Source(TRUE, {"f", "v"}, {"f"}, SomeSignature)}
Trees == UNION {[files -> SomeSources] : files \in SUBSET {"p", "q"}}
OneFunction == {[p \in {"p"} |-> Source(TRUE, {"f"}, {"f"}, s)] : s \in Signatures}

Constraint(kind, glob, directory) == [kind |-> kind, glob |-> glob, directory |-> directory]
SourceConstraints ==
    {Constraint(k, g, "") : k \in {"no_removed_exports", "no_changed_signatures"},
                            g \in {{}, {"p"}, {"q"}}} \union {Constraint("mystery", {"p"}, "")}
TreeConstraints == {Constraint("no_new_dependencies", {}, ""),
                    Constraint("no_new_files_outside", {}, ""),
                    Constraint("no_new_files_outside", {}, "in")}

Path(dir, dependency) == [dir |-> dir, dependency |-> dependency, cut |-> FALSE]
Letters2 == {<<" ", "M">>, <<" ", "D">>, <<" ", "A">>, <<"M", " ">>, <<"A", " ">>, <<"A", "M">>}
Lines == {[x |-> l[1], y |-> l[2], path |-> Path(d, e)] :
              l \in Letters2, d \in {"in", "out"}, e \in BOOLEAN}
         \union {[x |-> "?", y |-> "?", path |-> Path(d, FALSE)] : d \in {"in", "out"}}
World(tree, snapshots, status, custom, exitcode, subtasks) ==
    [tree |-> tree, snapshots |-> snapshots, status |-> status, custom |-> custom,
     exitcode |-> exitcode, subtasks |-> subtasks]

Routes == {<<"p", "m">>, <<"q", "n">>}

ChecksInit ==
    \/ \E n \in 0 .. 3 : \E checks \in [1 .. n -> SomeChecks] :
          /\ n = 3 => \A i \in 1 .. n : checks[i].kind = "script"
          /\ case \in [on : {"checks"}, checks : {checks}, broken : SUBSET (1 .. n)]
    \/ case \in [on : {"output"}, output : {"none", "text", "matching", "other"},
                 schema : {"text", "schema", "no schema"}]
    \/ \E cs \in SeqOf(SourceConstraints, 2) :
          \/ case \in [on : {"sources"}, constraints : {cs}, before : Trees, after : Trees]
          \/ case \in [on : {"sources"}, constraints : {cs}, before : OneFunction,
                       after : OneFunction]
    \/ \E status \in SeqOf(Lines, 2) :
          \/ case \in [on : {"tree"}, constraint : TreeConstraints, status : {status},
                       exitcode : {0}, subtasks : {FALSE}, custom : {<<>>}]
          \/ /\ \A i, j \in DOMAIN status : i # j => status[i].path # status[j].path
             /\ case \in [on : {"commit"}, status : {status}, generic : BOOLEAN,
                          tracked : SUBSET {status[i].path : i \in DOMAIN status}
                                    \union {{Path("clean", FALSE)}}]
    \/ case \in [on : {"tree"}, constraint : {Constraint(k, {}, "") : k \in Expensive},
                 status : {<<>>}, exitcode : {0, 1}, subtasks : BOOLEAN,
                 custom : UNION {[s -> BOOLEAN] : s \in SUBSET {"tests_pass"}}]
    \/ case \in [on : {"route"},
                 agent : [provider : {"none", "p", "q"}, model : {"none", "m"},
                          category : {"none", "c", "d"}],
                 task : {"none", "c", "d"},
                 categories : UNION {[s -> Routes] : s \in SUBSET {"c", "d"}},
                 transports : SUBSET {"p", "q"}]
    \/ case \in [on : {"context"}, tokens : 0 .. 22, limit : {0, 9, 10, 20}]

-----------------------------------------------------------------------------
(* Properties.                                                             *)

\* What a check asks for, without the order of the loop.
Satisfied(c, holds) ==
    CASE c.kind = "script" -> c.callable = "runs" /\ holds
      [] c.kind = "agent" ->
            /\ c.answer = "verdict"
            /\ LET rank == <<"nit", "minor", "major", "critical">>
               IN  \A i, j \in 1 .. 4 : rank[i] \in c.issues /\ rank[j] = c.threshold => i < j
      [] OTHER -> c.tasks = "none" \/ c.postchecks # "fail"

\* A task passes its gate only if every check is satisfied by the workspace as it is
\* then, except the first after a later fix has broken it (run_checks does not go
\* back); if all are satisfied from the start the gate opens and nothing is touched;
\* and only the last result can be a failure.
GateHolds ==
    case.on = "checks" =>
        LET s == RunTaskChecks(case.checks, case.broken)
            n == Len(case.checks)
            Rebroken(i) == i = 1 /\ \E j \in 2 .. n : case.checks[j].fix = "breaks"
            open == ~s.raised /\ \A i \in DOMAIN s.results : s.results[i]
        IN  /\ open => \A i \in 1 .. n : Satisfied(case.checks[i], i \notin s.broken \/ Rebroken(i))
            /\ (\A i \in 1 .. n : Satisfied(case.checks[i], i \notin case.broken))
                  => open /\ s.broken = case.broken
            /\ \A i \in 1 .. Len(s.results) - 1 : s.results[i]

\* The output of a task is accepted exactly when it is JSON that matches a schema.
OutputHolds ==
    case.on = "output" =>
        (ValidateOutput(case.output, case.schema) = "passes"
            <=> case.output = "matching" /\ case.schema = "schema")

\* With the constraints in force from before the task: passed no_removed_exports means
\* every name a parsable file of the glob defined is still defined there, passed
\* no_changed_signatures that a function without positional-only and keyword-only
\* parameters keeps its parameters; and a task that changes nothing passes both.
SourcesKept ==
    case.on = "sources" =>
        LET cs == case.constraints
            w == World(case.after, CaptureSnapshots(cs, case.before), <<>>, <<>>, 0, FALSE)
            results == RunConstraints(cs, w)
            Plain(sig) == sig.posonly = <<>> /\ sig.kwonly = <<>>
            Kept(c) ==
                \A p \in Parsable(case.before, c.glob) :
                    LET old == case.before[p]
                        new == case.after[p]
                    IN  IF c.kind = "no_removed_exports"
                        THEN old.names # {} => /\ p \in Parsable(case.after, c.glob)
                                               /\ old.names \subseteq new.names
                        ELSE (/\ p \in Parsable(case.after, c.glob)
                              /\ "f" \in old.functions \intersect new.functions
                              /\ Plain(old.signature) /\ Plain(new.signature))
                                 => old.signature = new.signature
        IN  \A i \in DOMAIN cs :
               /\ results[i] => cs[i].kind \in ConstraintKinds /\ cs[i].glob # {} /\ Kept(cs[i])
               /\ (cs[i].kind \in ConstraintKinds /\ cs[i].glob # {} /\ case.before = case.after)
                     => results[i]

\* A working tree that passes has no untracked file and no file staged as new outside
\* the directory, nor an unstaged change or deletion of a dependency file; the expensive
\* constraints are judged only where there are subtasks, by a custom checker if any.
TreeKept ==
    case.on = "tree" =>
        LET c == case.constraint
            r == RunConstraints(<<c>>, World(<<>>, <<>>, case.status, case.custom,
                                             case.exitcode, case.subtasks))
            Passes == 1 \in DOMAIN r /\ r[1]
        IN  CASE c.kind \in DOMAIN case.custom \ Expensive -> Passes <=> case.custom[c.kind]
              [] c.kind = "no_new_files_outside" /\ c.kind \notin DOMAIN case.custom ->
                    Passes => \A i \in DOMAIN case.status :
                        <<case.status[i].x, case.status[i].y>> \in {<<"?", "?">>, <<"A", " ">>}
                            => case.status[i].path.dir = c.directory
              [] c.kind = "no_new_dependencies" /\ c.kind \notin DOMAIN case.custom ->
                    Passes <=> \A i \in DOMAIN case.status :
                        case.status[i].path.dependency => case.status[i].y \notin {"M", "D"}
              [] OTHER -> Passes <=> /\ case.subtasks
                                     /\ IF c.kind \in DOMAIN case.custom THEN case.custom[c.kind]
                                        ELSE case.exitcode = 0

\* An ended task commits the dirty files its session has written and no other file;
\* with a tool that cannot name its files, everything dirty.
CommitsOwn ==
    case.on = "commit" =>
        LET dirty == {case.status[i].path : i \in DOMAIN case.status}
        IN  AutoCommit(case.tracked, case.generic, case.status)
                = {p \in dirty : case.generic \/ p \in case.tracked}

\* A session is charged for the model it uses: whenever a transport is found the
\* price is looked up under the same provider and model; and a consultation uses the
\* same model unless the task names a category of its own.
CostsCounted ==
    case.on = "route" =>
        LET r == SessionRoute(case.agent, case.task, case.categories, case.transports)
        IN  /\ r # NoRoute => ResolveModelKey(case.agent, case.task, case.categories) = r
            /\ (Explicit(case.agent) \/ case.task = "none")
                  => ConsultRoute(case.agent, case.categories, case.transports) = r

\* A session that has reached its context limit is handed over, and one more token
\* never makes the answer weaker.
ContextNoticed ==
    case.on = "context" =>
        LET strength == [none |-> 0, warning |-> 1, handoff |-> 2]
            At(n) == strength[ContextAction(n, case.limit)]
        IN  /\ case.limit > 0 /\ case.tokens >= case.limit => At(case.tokens) = 2
            /\ At(case.tokens) <= At(case.tokens + 1)

\* What lets a task end: its checks, its output schema and the constraints.
EndGateSound == GateHolds /\ OutputHolds /\ SourcesKept /\ TreeKept

\* What an attempt is charged for and what it leaves behind.
AttemptAccounted == CostsCounted /\ CommitsOwn /\ ContextNoticed
=============================================================================
