----------------------------- MODULE ReadTools ------------------------------
(***************************************************************************)
(* The read tools: read with its pages and previews, grep, list_dir, glob  *)
(* and stat, and the containment of paths they share with the write tools. *)
(*                                                                         *)
(* A file is the sequence of its lines; all that grep sees of a line is    *)
(* whether it matches.  A byte is a line.  A path is the sequence of its   *)
(* names, and a directory tree a set of paths.                             *)
(***************************************************************************)
EXTENDS Case, Integers, Sequences, SequencesExt, FiniteSets, FiniteSetsExt

CONSTANTS
    MaxLines,   \* bound: lines of a file
    MaxResults  \* bound: max_results and limits

Least(i, j) == IF i < j THEN i ELSE j
Greater(i, j) == IF i > j THEN i ELSE j

\* Python's s[i:j] for i, j >= 0, counted from 0.
From(s, i, j) == SubSeq(s, i + 1, Least(j, Len(s)))

-----------------------------------------------------------------------------
(* Reading a file.  The lines of the file are the numbers 1 .. n.          *)

\* _read_impl: the page of the file that offset and limit select; 0 is none.
Page(n, offset, limit) ==
    LET start == Least(offset - 1, n)
        end == IF limit = 0 THEN n ELSE start + limit
    IN  From([i \in 1 .. n |-> i], start, end)

\* check_and_preview: s[-0:] is the whole of s.
CheckAndPreview(s, threshold, lines) ==
    IF Len(s) <= threshold THEN [preview |-> FALSE, head |-> s, tail |-> <<>>,
                                 omitted |-> 0]
    ELSE LET head == From(s, 0, lines)
             tail == IF Len(s) > 2 * lines
                     THEN From(s, IF lines = 0 THEN 0 ELSE Len(s) - lines, Len(s))
                     ELSE From(s, lines, Len(s))
         IN  [preview |-> TRUE, head |-> head, tail |-> tail,
              omitted |-> Len(s) - Len(head) - Len(tail)]

\* A session's reads of one file, one after the other: what each returns, and
\* whether a preview has been given (FullRetrievalGuard).
ReadOnce(n, req, previewed) ==
    LET page == Page(n, req.offset, req.limit)
        shown == CheckAndPreview(page, case.threshold, case.lines)
    IN  IF req.full
        THEN IF ~previewed THEN [shows |-> <<>>, kind |-> "refused"]
             ELSE [shows |-> page, kind |-> "full"]
        ELSE [shows |-> shown.head \o shown.tail,
              kind |-> IF shown.preview THEN "preview" ELSE "page"]

Reads ==
    LET R[i \in 0 .. Len(case.requests)] ==
            IF i = 0 THEN [answers |-> <<>>, previewed |-> FALSE]
            ELSE LET r == ReadOnce(case.n, case.requests[i], R[i - 1].previewed)
                 IN  [answers |-> Append(R[i - 1].answers, r),
                      previewed |-> R[i - 1].previewed \/ r.kind = "preview"]
    IN  R[Len(case.requests)].answers

-----------------------------------------------------------------------------
(* grep.  case.files is what _grep_iter_files yields: for every file,      *)
(* whether its path has a colon in it, and its lines.                      *)

Matching(file) == {i \in DOMAIN file.lines : file.lines[i]}

\* _grep_search_file: the lines within the context of a match, in order.
Shown(file) ==
    LET near == UNION {Greater(1, i - case.context) ..
                       Least(Len(file.lines), i + case.context) : i \in Matching(file)}
    IN  SetToSortSeq(near, <)

Line(f, i) == [file |-> f, line |-> i]

\* Mutant: the limit is looked at before the file's lines are added.
GrepContentLate(f, found) ==
    LET lines == [k \in DOMAIN Shown(case.files[f]) |-> Line(f, Shown(case.files[f])[k])]
    IN  IF Len(found.text) >= case.max THEN [found EXCEPT !.stop = TRUE]
        ELSE [found EXCEPT !.text = @ \o lines, !.data = @ \o lines]

\* _grep_impl in content mode, one file: the structured matches are split out
\* of the text at its colons, and only the text is cut at the limit.
GrepContent(f, found) ==
    LET lines == [k \in DOMAIN Shown(case.files[f]) |-> Line(f, Shown(case.files[f])[k])]
        text == found.text \o lines
    IN  IF lines = <<>> THEN found
        ELSE IF case.files[f].colon THEN [found EXCEPT !.error = TRUE, !.stop = TRUE]
        ELSE [found EXCEPT !.data = @ \o lines,
                           !.text = From(text, 0, case.max),
                           !.stop = Len(text) >= case.max]

\* In files_only mode.
GrepFiles(f, found) ==
    IF Matching(case.files[f]) = {} THEN found
    ELSE [found EXCEPT !.files = Append(@, f),
                       !.stop = Len(found.files) + 1 >= case.max]

\* Content and files_only mode: file after file, until the limit is reached.
Grep(mode) ==
    LET G[f \in 0 .. Len(case.files)] ==
            IF f = 0 THEN [text |-> <<>>, data |-> <<>>, files |-> <<>>,
                           stop |-> FALSE, error |-> FALSE]
            ELSE IF G[f - 1].stop THEN G[f - 1]
            ELSE IF mode = "content" THEN GrepContent(f, G[f - 1])
            ELSE GrepFiles(f, G[f - 1])
    IN  G[Len(case.files)]

\* count mode: every file is searched.
GrepCount == MapThenSumSet(LAMBDA f : Cardinality(Matching(case.files[f])),
                           DOMAIN case.files)

-----------------------------------------------------------------------------
(* list_dir.  case.tree is the set of paths below the directory, case.dirs *)
(* those that are directories; case.ignored those that .gitignore matches, *)
(* case.wanted those that the pattern matches.                             *)

Parent(path) == Front(path)
Children(dir) == {p \in case.tree : Len(p) > 0 /\ Parent(p) = dir}

\* _list_recursive: os.walk from the top, without the ignored directories.
Walked ==
    LET W[d \in 0 .. 2] ==
            IF d = 0 THEN {<<>>}
            ELSE {p \in UNION {Children(q) : q \in W[d - 1]} :
                     p \in case.dirs /\ p \notin case.ignored}
    IN  W[0] \cup W[1] \cup W[2]
ListRecursive ==
    {p \in UNION {Children(d) : d \in Walked} :
        p \in case.wanted /\ p \notin case.ignored}

\* _list_immediate.
ListImmediate ==
    {p \in Children(<<>>) : p \in case.wanted /\ p \notin case.ignored}

\* _list_dir_impl: sorted and cut, and said to be cut when something is missing.
Listing(entries, max) ==
    [shown |-> Least(Cardinality(entries), max),
     truncated |-> Cardinality(entries) > max]

-----------------------------------------------------------------------------
(* Containment.  "wx" is a name that begins with "w".                      *)

Root == <<"home", "w">>

\* The paths the links in the tree lead to.
LinkTarget == [in |-> <<"home", "w", "a">>, out |-> <<"home", "wx">>]

\* (root / raw).resolve(): an absolute path replaces the root, ".." goes up and
\* a link to where it leads.
Resolve(raw) ==
    LET R[i \in 0 .. Len(raw.names)] ==
            IF i = 0 THEN IF raw.absolute THEN <<>> ELSE Root
            ELSE LET name == raw.names[i]
                     at == R[i - 1]
                 IN  IF name = ".." THEN IF at = <<>> THEN at ELSE Front(at)
                     ELSE IF name \in DOMAIN LinkTarget THEN LinkTarget[name]
                     ELSE Append(at, name)
    IN  R[Len(raw.names)]

\* str(p).startswith(str(q) + os.sep).
Below(p, q) == Len(p) > Len(q) /\ SubSeq(p, 1, Len(q)) = q

\* resolve_and_check accepts the path.
ResolveAndCheck(raw) ==
    LET p == Resolve(raw)
    IN  raw.names # <<>> /\ (p = Root \/ Below(p, Root))

\* check_write_scope.
CheckWriteScope(p, scope) ==
    scope = {} \/ \E q \in scope : p = q \/ Below(p, q)

-----------------------------------------------------------------------------
(* Inputs                                                                  *)

Requests == [offset : 1 .. MaxLines + 1, limit : 0 .. MaxResults, full : BOOLEAN]
TextFiles == [colon : BOOLEAN, lines : SeqOf(BOOLEAN, 3)]
Tree == {<<"a">>, <<"b">>, <<"a", "c">>}
RawPaths == [absolute : BOOLEAN,
             names : SeqOf({"home", "w", "wx", "a", "..", "in", "out"}, 3)]

ReadInit ==
    \/ \E n \in 0 .. MaxLines, rs \in SeqOf(Requests, 2), t, k \in 0 .. 2 :
          case = [on |-> "read", n |-> n, requests |-> rs, threshold |-> t,
                  lines |-> k]
    \/ \E fs \in SeqOf(TextFiles, 2), c \in 0 .. 1, max \in 1 .. MaxResults :
          case = [on |-> "grep", files |-> fs, context |-> c, max |-> max]
    \/ \E dirs \in {{<<"a">>}, {<<"a">>, <<"b">>}}, ignored, wanted \in SUBSET Tree :
          case = [on |-> "list", tree |-> Tree, dirs |-> dirs,
                  ignored |-> ignored, wanted |-> wanted]
    \/ \E raw \in RawPaths : case = [on |-> "path", raw |-> raw]

-----------------------------------------------------------------------------
(* Properties                                                              *)

\* Reading on from where the last page ended reaches every line, once and in
\* order, as long as the pages are not larger than the preview threshold.
PagesCover ==
    (case.on = "read" /\ case.requests # <<>>) =>
        LET limit == case.requests[1].limit
            P[i \in 0 .. case.n + 1] ==
                IF i = 0 THEN <<>> ELSE P[i - 1] \o Page(case.n, 1 + (i - 1) * limit, limit)
        IN  limit > 0 => P[case.n + 1] = [i \in 1 .. case.n |-> i]

\* A preview never shows a line twice or out of order, says truly how many it
\* leaves out, and shows both ends.  (With preview_lines 0, which no caller
\* passes, it shows everything.)
PreviewHonest ==
    case.on = "read" =>
        LET s == [i \in 1 .. case.n |-> i]
            p == CheckAndPreview(s, case.threshold, case.lines)
            all == p.head \o p.tail
        IN  case.lines > 0 =>
              /\ \A i, j \in DOMAIN all : i < j => all[i] < all[j]
              /\ Len(all) + p.omitted = case.n /\ p.omitted >= 0
              /\ case.n > 0 => all[1] = 1 /\ all[Len(all)] = case.n

\* Content larger than the threshold comes whole only to a session that has
\* seen a preview of the file in an earlier answer.
FullAfterPreview ==
    case.on = "read" =>
        \A i \in DOMAIN Reads :
            (Len(Reads[i].shows) > Greater(case.threshold, 2 * case.lines)
                /\ case.lines > 0)
                => \E j \in 1 .. i - 1 : Reads[j].kind = "preview"

\* grep shows the lines near a match and no others, file after file; what is
\* cut is the end, the text is a prefix of the structured matches, and only a
\* limit that was reached stops the search.  (A path with a colon in it breaks
\* the search in content mode.)
GrepShowsMatches ==
    (case.on = "grep" /\ \A f \in DOMAIN case.files : ~case.files[f].colon) =>
        LET g == Grep("content")
            near(f, i) == \E j \in Matching(case.files[f]) :
                              j - i <= case.context /\ i - j <= case.context
            wanted == {Line(f, i) : f \in DOMAIN case.files, i \in 1 .. 3}
            all == {l \in wanted : /\ l.line \in DOMAIN case.files[l.file].lines
                                   /\ near(l.file, l.line)}
        IN  /\ Len(g.text) = Least(case.max, Cardinality(all))
            /\ Range(g.data) \subseteq all /\ IsPrefix(g.text, g.data)
            /\ \A i, j \in DOMAIN g.data : i < j =>
                  \/ g.data[i].file < g.data[j].file
                  \/ g.data[i].file = g.data[j].file /\ g.data[i].line < g.data[j].line
            /\ ~g.stop => Range(g.data) = all

\* The three modes tell the same story: nothing is counted exactly when no file
\* is listed, and files_only lists the first files with a match.
GrepModesAgree ==
    case.on = "grep" =>
        LET files == Grep("files_only").files
            hits == {f \in DOMAIN case.files : Matching(case.files[f]) # {}}
        IN  /\ (GrepCount = 0) = (files = <<>>)
            /\ Len(files) = Least(case.max, Cardinality(hits))
            /\ \A i, j \in DOMAIN files : i < j => files[i] < files[j]
            /\ \A f \in hits \ Range(files) : \A i \in DOMAIN files : files[i] < f

\* Listing a directory and listing it recursively agree on its own entries, and
\* nothing below an ignored directory is ever listed.
ListingsAgree ==
    case.on = "list" =>
        /\ ListImmediate = {p \in ListRecursive : Len(p) = 1}
        /\ \A p \in ListRecursive : \A k \in 1 .. Len(p) :
              SubSeq(p, 1, k) \notin case.ignored
        /\ \A max \in 1 .. MaxResults :
              Listing(ListRecursive, max).truncated
                  = (Listing(ListRecursive, max).shown < Cardinality(ListRecursive))

\* No path that is accepted leads out of the root, through ".." , an absolute
\* path, a link or a sibling whose name begins like the root's; and a scope
\* inside the root never grants more than the root.
Contained ==
    case.on = "path" =>
        LET p == Resolve(case.raw)
        IN  /\ ResolveAndCheck(case.raw) =>
                  Len(p) >= Len(Root) /\ SubSeq(p, 1, Len(Root)) = Root
            /\ CheckWriteScope(p, {Append(Root, "a")}) => Below(p, Root)

\* What an agent is shown is what is there: pages, previews, matches and listings,
\* and nothing from outside of its root.
ReadToolsFaithful ==
    /\ PagesCover /\ PreviewHonest /\ FullAfterPreview
    /\ GrepShowsMatches /\ GrepModesAgree /\ ListingsAgree /\ Contained
=============================================================================
