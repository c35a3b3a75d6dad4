-------------------------- MODULE FileToolsProofs ---------------------------
(***************************************************************************)
(* Proofs about FileTools, for any number of sessions, files, tool calls   *)
(* and retries, with the process dying at any point.                       *)
(***************************************************************************)
EXTENDS FileTools, TLAPS

-----------------------------------------------------------------------------
(* The inductive invariant                                                 *)

MarkSet == Nat \X BOOLEAN
Op == {"write", "edit", "multi_edit", "delete", "move", "copy"}
Pc == Op \cup {"check", "temp", "rename", "record", "hash", "match", "fill",
               "saferm", "backoff"}
FileRow == [exists : BOOLEAN, marks : SUBSET MarkSet, whole : BOOLEAN,
            by : Op \cup {"nobody"}]
ReadRow == [exists : BOOLEAN, marks : SUBSET MarkSet]
ToolRow == [pc : Pc, op : Op, file : File, dest : File, new : BOOLEAN,
            base : SUBSET MarkSet, mark : Nat, retries : Nat, again : BOOLEAN]

\* Every variable has its type.
FileTypes ==
    /\ file \in [File -> FileRow]
    /\ reads \in [Agent -> [File -> ReadRow]]
    /\ tool \in [Agent -> ToolRow \cup {Idle}]
    /\ started \in Nat
    /\ expected \in [File -> SUBSET MarkSet]
    /\ unseen \in [Agent -> [File -> SUBSET MarkSet]]

\* Where a tool does not have the event loop.
Rest == {"idle", "backoff", "saferm"}

\* A tool that is not at rest has the loop, so no other one moves.
LoopHeld == \A s \in Agent : tool[s].pc \notin Rest => loop = {s}

\* Which tool can be at which label.
ToolKind(s) ==
    /\ tool[s].pc \in Op => tool[s].pc = tool[s].op
    /\ tool[s].pc \in {"hash", "match"} => tool[s].op # "write"
    /\ tool[s].pc # "idle" => (tool[s].again => tool[s].op = "multi_edit")

\* An edit in hand has all that is expected of its file.
EditBase(s) ==
    (/\ tool[s].pc \in {"hash", "match", "check", "temp", "rename"}
     /\ tool[s].op # "write")
    => expected[tool[s].file] \subseteq tool[s].base

\* A write that is past its check removes nothing its session has not seen; and
\* what it found to be new is empty.
WriteSafe(s) ==
    LET f == tool[s].file
    IN  /\ (/\ tool[s].pc = "check" /\ tool[s].op = "write" /\ tool[s].new)
           => file[f].marks = {}
        /\ (/\ tool[s].pc \in {"temp", "rename"} /\ tool[s].op = "write")
           => file[f].marks \cap unseen[s][f] = {}

\* Nothing is expected of a file that is being filled.
FillClear(s) == tool[s].pc = "fill" => expected[tool[s].dest] = {}

Stands(s) == ToolKind(s) /\ EditBase(s) /\ WriteSafe(s) /\ FillClear(s)
ToolsStand == \A s \in Agent : Stands(s)

\* A file that is not there has no content.
AbsentEmpty == \A f \in File : ~file[f].exists => file[f].marks = {}

\* What a session has not seen is not in what it last recorded.
SeenApart ==
    \A s \in Agent, f \in File : unseen[s][f] \cap reads[s][f].marks = {}

FilesInv ==
    WholeFiles /\ EditsKept /\ NoBlindOverwrite /\ AbsentEmpty /\ SeenApart
Inductive == FileTypes /\ LoopHeld /\ ToolsStand /\ FilesInv /\ NoTempLeft

-----------------------------------------------------------------------------
(* Steps of one session                                                    *)

\* A tool that is not idle has all its fields.
LEMMA Busy ==
    ASSUME FileTypes, NEW s \in Agent, tool[s].pc # "idle"
    PROVE  tool[s] \in ToolRow
  BY DEF FileTypes, Idle

LEMMA MarkType ==
    ASSUME NEW s \in Agent, tool[s] \in ToolRow
    PROVE  Mark(s) \in MarkSet
  BY DEF ToolRow, Mark, MarkSet

\* A session at work is alone: the others are at rest.
LEMMA Alone ==
    ASSUME LoopHeld, NEW s \in Agent, tool[s].pc \notin Rest \/ loop = {}
    PROVE  \A t \in Agent : t # s => tool[t].pc \in Rest
  BY DEF LoopHeld

\* What a step of one session's tool does to the tools.
OneMoves(s) ==
    /\ tool' \in [Agent -> ToolRow \cup {Idle}]
    /\ \A t \in Agent : t # s => tool'[t] = tool[t]
    /\ tool'[s].pc \notin Rest => loop' = {s}

LEMMA RowMoves ==
    ASSUME FileTypes, NEW s \in Agent, NEW r \in ToolRow,
           tool' = [tool EXCEPT ![s] = r], r.pc \notin Rest => loop' = {s}
    PROVE  OneMoves(s) /\ tool'[s] = r
  BY DEF FileTypes, OneMoves

LEMMA ReturnMoves ==
    ASSUME FileTypes, NEW s \in Agent, tool' = [tool EXCEPT ![s] = Idle]
    PROVE  OneMoves(s) /\ Stands(s)' /\ tool'[s].pc = "idle"
<1>1. tool'[s] = Idle /\ Idle.pc = "idle"
  BY DEF FileTypes, Idle
<1>2. OneMoves(s)
  BY <1>1 DEF FileTypes, OneMoves, Rest
<1>3. Stands(s)'
  BY <1>1 DEF Stands, ToolKind, EditBase, WriteSafe, FillClear, Op
<1> QED
  BY <1>1, <1>2, <1>3

\* The other tools stand as they stood, for they are at rest.
LEMMA ToolsKept ==
    ASSUME FileTypes, LoopHeld, ToolsStand, NEW s \in Agent, OneMoves(s), Stands(s)',
           \A t \in Agent : t # s => tool[t].pc \in Rest
    PROVE  LoopHeld' /\ ToolsStand'
<1>1. ASSUME NEW t \in Agent, t # s PROVE Stands(t)'
  <2>1. tool'[t] = tool[t] /\ tool[t].pc \in Rest
    BY <1>1 DEF OneMoves
  <2>2. ToolKind(t)'
    BY <2>1 DEF ToolsStand, Stands, ToolKind
  <2>3. EditBase(t)' /\ WriteSafe(t)' /\ FillClear(t)'
    BY <2>1 DEF EditBase, WriteSafe, FillClear, Rest
  <2> QED
    BY <2>2, <2>3 DEF Stands
<1>2. ToolsStand'
  BY <1>1 DEF ToolsStand
<1>3. LoopHeld'
  BY DEF LoopHeld, OneMoves
<1> QED
  BY <1>2, <1>3

\* A temporary file that is left belongs to a session that is to rename it.
TempStep(s) ==
    \A m \in temp' \ {Orphan} :
        \/ tool'[s].pc = "rename" /\ Mark(s)' = m
        \/ m \in temp /\ (tool[s].pc = "rename" => m # Mark(s))

LEMMA TempKept ==
    ASSUME NoTempLeft, NEW s \in Agent, OneMoves(s), TempStep(s)
    PROVE  NoTempLeft'
<1> SUFFICES ASSUME NEW m \in temp' \ {Orphan}
             PROVE  \E t \in Agent : tool'[t].pc = "rename" /\ Mark(t)' = m
  BY DEF NoTempLeft, Running
<1>1. CASE tool'[s].pc = "rename" /\ Mark(s)' = m
  BY <1>1
<1>2. CASE m \in temp /\ (tool[s].pc = "rename" => m # Mark(s))
  <2>1. PICK t \in Agent : tool[t].pc = "rename" /\ Mark(t) = m
    BY <1>2 DEF NoTempLeft, Running
  <2>2. t # s
    BY <1>2, <2>1
  <2>3. tool'[t] = tool[t]
    BY <2>2 DEF OneMoves
  <2>4. Mark(t)' = Mark(t)
    BY <2>3 DEF Mark
  <2> QED
    BY <2>1, <2>3, <2>4
<1> QED
  BY <1>1, <1>2 DEF TempStep

\* A step that leaves the files and what is known of them alone.
LEMMA QuietStep ==
    ASSUME Inductive, NEW s \in Agent, OneMoves(s), Stands(s)', TempStep(s),
           \A t \in Agent : t # s => tool[t].pc \in Rest, started' \in Nat,
           UNCHANGED <<file, reads, expected, unseen, clobbered>>
    PROVE  Inductive'
<1>1. LoopHeld' /\ ToolsStand'
  BY ToolsKept DEF Inductive
<1>2. NoTempLeft'
  BY TempKept DEF Inductive
<1>3. FileTypes'
  BY DEF Inductive, FileTypes, OneMoves
<1>4. FilesInv'
  BY DEF Inductive, FilesInv, WholeFiles, EditsKept, NoBlindOverwrite, AbsentEmpty,
         SeenApart
<1> QED
  BY <1>1, <1>2, <1>3, <1>4 DEF Inductive

\* multi_edit goes on with its second edit, any other tool is over.
LEMMA NextEditMoves ==
    ASSUME Inductive, NEW s \in Agent, tool[s].pc \notin Rest, NextEdit(s)
    PROVE  OneMoves(s) /\ Stands(s)' /\ tool'[s].pc \in {"idle", "multi_edit"}
<1>0. FileTypes /\ ToolKind(s) /\ loop = {s} /\ tool[s] \in ToolRow
  <2>1. FileTypes /\ ToolKind(s) /\ loop = {s}
    BY DEF Inductive, ToolsStand, Stands, LoopHeld
  <2> QED
    BY <2>1, Busy DEF Rest
<1>1. CASE tool[s].again
  <2> DEFINE r == [tool[s] EXCEPT !.pc = "multi_edit", !.file = tool[s].dest,
                                  !.again = FALSE]
  <2>1. /\ r \in ToolRow /\ r.pc = "multi_edit" /\ r.op = tool[s].op
        /\ r.again = FALSE
    BY <1>0 DEF ToolRow, Pc, Op
  <2>2. tool' = [tool EXCEPT ![s] = r] /\ loop' = loop
    BY <1>1 DEF NextEdit
  <2>3. tool[s].op = "multi_edit"
    BY <1>0, <1>1 DEF ToolKind, Rest
  <2> HIDE DEF r
  <2>4. OneMoves(s) /\ tool'[s] = r
    BY <1>0, <2>1, <2>2, RowMoves
  <2>5. Stands(s)'
    BY <2>1, <2>3, <2>4 DEF Stands, ToolKind, EditBase, WriteSafe, FillClear
  <2> QED
    BY <2>1, <2>4, <2>5
<1>2. CASE ~tool[s].again
  BY <1>0, <1>2, ReturnMoves DEF NextEdit, Return
<1> QED
  BY <1>1, <1>2

LEMMA EditFailsStep ==
    ASSUME Inductive, NEW s \in Agent, tool[s].pc \notin Rest \cup {"rename"},
           EditFails(s)
    PROVE  Inductive'
<1>1. OneMoves(s) /\ Stands(s)'
  BY NextEditMoves DEF EditFails
<1>2. /\ UNCHANGED <<file, temp, reads, started, expected, unseen, clobbered>>
      /\ started \in Nat
  BY DEF EditFails, observations, Inductive, FileTypes
<1>3. TempStep(s)
  BY <1>2 DEF TempStep
<1>4. \A t \in Agent : t # s => tool[t].pc \in Rest
  BY Alone DEF Inductive
<1> QED
  BY <1>1, <1>2, <1>3, <1>4, QuietStep

LEMMA FailsStep ==
    ASSUME Inductive, NEW s \in Agent, tool[s].pc \notin Rest \cup {"rename"},
           Fails(s)
    PROVE  Inductive'
<1>1. OneMoves(s) /\ Stands(s)'
  BY ReturnMoves DEF Fails, Return, Inductive
<1>2. /\ UNCHANGED <<file, temp, reads, started, expected, unseen, clobbered>>
      /\ started \in Nat
  BY DEF Fails, observations, Inductive, FileTypes
<1>3. TempStep(s)
  BY <1>2 DEF TempStep
<1>4. \A t \in Agent : t # s => tool[t].pc \in Rest
  BY Alone DEF Inductive
<1> QED
  BY <1>1, <1>2, <1>3, <1>4, QuietStep

\* A step of a tool that only changes its own row: the row it takes has to stand.
LEMMA OwnRowStep ==
    ASSUME Inductive, NEW s \in Agent, tool[s].pc \notin Rest \cup {"rename"},
           NEW r \in ToolRow, tool' = [tool EXCEPT ![s] = r],
           tool'[s] = r => Stands(s)', r.pc \notin Rest => loop' = {s},
           UNCHANGED <<file, temp, reads, started, observations>>
    PROVE  Inductive'
<1>0. FileTypes /\ started \in Nat
  BY DEF Inductive, FileTypes
<1>1. OneMoves(s) /\ tool'[s] = r
  BY <1>0, RowMoves
<1>2. UNCHANGED <<file, temp, reads, started, expected, unseen, clobbered>>
  BY DEF observations
<1>3. TempStep(s)
  BY <1>2 DEF TempStep
<1>4. \A t \in Agent : t # s => tool[t].pc \in Rest
  BY Alone DEF Inductive
<1> QED
  BY <1>0, <1>1, <1>2, <1>3, <1>4, QuietStep
-----------------------------------------------------------------------------
(* The steps that leave the files alone                                    *)

\* What is known of a session at work.
LEMMA AtWork ==
    ASSUME Inductive, NEW s \in Agent, tool[s].pc \notin Rest
    PROVE  /\ FileTypes /\ loop = {s} /\ tool[s] \in ToolRow /\ Stands(s)
           /\ \A t \in Agent : t # s => tool[t].pc \in Rest
<1>1. FileTypes /\ Stands(s) /\ loop = {s}
  BY DEF Inductive, ToolsStand, LoopHeld
<1>2. tool[s] \in ToolRow
  BY <1>1, Busy DEF Rest
<1> QED
  BY <1>1, <1>2, Alone DEF Inductive

LEMMA BeginStep ==
    ASSUME Inductive, NEW s \in Agent, NEW op \in Op, NEW f \in File, NEW g \in File,
           Begin(s, op, f, g)
    PROVE  Inductive'
<1> DEFINE r == [pc |-> op, op |-> op, file |-> f, dest |-> g, new |-> FALSE,
                 base |-> {}, mark |-> started + 1, retries |-> 0,
                 again |-> op = "multi_edit"]
<1>0. FileTypes /\ started \in Nat /\ loop = {} /\ tool[s].pc = "idle"
  BY DEF Inductive, FileTypes, Begin, Running
<1>1. /\ r \in ToolRow /\ r.pc = op /\ r.op = op
      /\ r.again => r.op = "multi_edit"
  <2>1. /\ op \in Pc /\ started + 1 \in Nat /\ (op = "multi_edit") \in BOOLEAN
        /\ 0 \in Nat /\ FALSE \in BOOLEAN /\ {} \in SUBSET MarkSet
    BY <1>0 DEF Pc
  <2>2. r \in ToolRow
    BY <2>1, Zenon DEF ToolRow
  <2> QED
    BY <2>2
<1>2. /\ tool' = [tool EXCEPT ![s] = r] /\ loop' = {s} /\ started' = started + 1
      /\ UNCHANGED <<file, temp, reads, expected, unseen, clobbered>>
  BY DEF Begin, observations
<1> HIDE DEF r
<1>3. OneMoves(s) /\ tool'[s] = r
  BY <1>0, <1>1, <1>2, RowMoves
<1>4. Stands(s)'
  BY <1>1, <1>3 DEF Stands, ToolKind, EditBase, WriteSafe, FillClear, Op
<1>5. TempStep(s)
  BY <1>0, <1>2 DEF TempStep
<1>6. \A t \in Agent : t # s => tool[t].pc \in Rest
  BY <1>0, Alone DEF Inductive
<1> QED
  BY <1>0, <1>2, <1>3, <1>4, <1>5, <1>6, QuietStep

LEMMA WriteStep ==
    ASSUME Inductive, NEW s \in Agent, Write(s)
    PROVE  Inductive'
<1> DEFINE f == tool[s].file
           r == [tool[s] EXCEPT !.new = ~file[f].exists, !.pc = "check"]
<1>0. tool[s].pc = "write" /\ tool[s].pc \notin Rest \cup {"rename"}
  BY DEF Write, Running, Rest
<1>1. /\ FileTypes /\ loop = {s} /\ tool[s] \in ToolRow /\ Stands(s) /\ f \in File
      /\ file[f] \in FileRow
  <2>1. FileTypes /\ loop = {s} /\ tool[s] \in ToolRow /\ Stands(s)
    BY <1>0, AtWork
  <2>2. f \in File
    BY <2>1 DEF ToolRow
  <2> QED
    BY <2>1, <2>2 DEF FileTypes
<1>2. /\ r \in ToolRow /\ r.pc = "check" /\ r.op = tool[s].op /\ r.file = f
      /\ r.new = ~file[f].exists /\ r.again = tool[s].again
  BY <1>1 DEF ToolRow, Pc
<1>3. /\ tool' = [tool EXCEPT ![s] = r] /\ loop' = {s}
      /\ UNCHANGED <<file, temp, reads, started, observations>>
  BY <1>1 DEF Write
<1>4. tool[s].op = "write" /\ (tool[s].again => tool[s].op = "multi_edit")
  BY <1>0, <1>1 DEF Stands, ToolKind, Op
<1>5. r.new => file[f].marks = {}
  BY <1>1, <1>2 DEF Inductive, FilesInv, AbsentEmpty
<1> HIDE DEF r, f
<1>6. ASSUME tool'[s] = r PROVE Stands(s)'
  BY <1>2, <1>3, <1>4, <1>5, <1>6
     DEF Stands, ToolKind, EditBase, WriteSafe, FillClear, Op
<1> QED
  BY <1>0, <1>2, <1>3, <1>6, OwnRowStep

LEMMA CheckStep ==
    ASSUME Inductive, NEW s \in Agent, Check(s)
    PROVE  Inductive'
<1> DEFINE f == tool[s].file
           r == [tool[s] EXCEPT !.pc = "temp"]
<1>0. tool[s].pc = "check" /\ tool[s].pc \notin Rest \cup {"rename"}
  BY DEF Check, Running, Rest
<1>1. FileTypes /\ loop = {s} /\ tool[s] \in ToolRow /\ Stands(s) /\ f \in File
  <2>1. FileTypes /\ loop = {s} /\ tool[s] \in ToolRow /\ Stands(s)
    BY <1>0, AtWork
  <2> QED
    BY <2>1 DEF ToolRow
<1>2. CASE tool[s].new \/ (file[f].exists /\ CheckWrite(s, f))
  <2>1. /\ r \in ToolRow /\ r.pc = "temp" /\ r.op = tool[s].op /\ r.file = f
        /\ r.base = tool[s].base /\ r.again = tool[s].again
    BY <1>1 DEF ToolRow, Pc
  <2>2. /\ tool' = [tool EXCEPT ![s] = r] /\ loop' = {s}
        /\ UNCHANGED <<file, temp, reads, started, expected, unseen, observations>>
    BY <1>1, <1>2 DEF Check, Goto, observations
  <2>3. (tool[s].op # "write" => expected[f] \subseteq tool[s].base)
        /\ (tool[s].again => tool[s].op = "multi_edit")
    BY <1>0, <1>1 DEF Stands, ToolKind, EditBase
  <2>4. tool[s].op = "write" => file[f].marks \cap unseen[s][f] = {}
    <3>1. CASE tool[s].new
      BY <1>0, <1>1, <3>1 DEF Stands, WriteSafe
    <3>2. CASE CheckWrite(s, f)
      <4>1. reads[s][f].marks = file[f].marks
        BY <3>2 DEF CheckWrite, Hash
      <4>2. unseen[s][f] \cap reads[s][f].marks = {}
        BY <1>1 DEF Inductive, FilesInv, SeenApart
      <4> QED
        BY <4>1, <4>2
    <3> QED
      BY <1>2, <3>1, <3>2
  <2> HIDE DEF r, f
  <2>5. ASSUME tool'[s] = r PROVE Stands(s)'
    BY <2>1, <2>2, <2>3, <2>4, <2>5
       DEF Stands, ToolKind, EditBase, WriteSafe, FillClear, Op
  <2> QED
    BY <1>0, <2>1, <2>2, <2>5, OwnRowStep
<1>3. CASE ~(tool[s].new \/ (file[f].exists /\ CheckWrite(s, f)))
  <2>1. Fails(s) \/ EditFails(s)
    BY <1>3 DEF Check
  <2> QED
    BY <1>0, <2>1, FailsStep, EditFailsStep
<1> QED
  BY <1>2, <1>3

LEMMA WriteTempStep ==
    ASSUME Inductive, NEW s \in Agent, WriteTemp(s)
    PROVE  Inductive'
<1> DEFINE r == [tool[s] EXCEPT !.pc = "rename"]
<1>0. tool[s].pc = "temp" /\ tool[s].pc \notin Rest
  BY DEF WriteTemp, Running, Rest
<1>1. /\ FileTypes /\ loop = {s} /\ tool[s] \in ToolRow /\ Stands(s)
      /\ started \in Nat /\ \A t \in Agent : t # s => tool[t].pc \in Rest
  BY <1>0, AtWork DEF FileTypes
<1>2. /\ r \in ToolRow /\ r.pc = "rename" /\ r.op = tool[s].op
      /\ r.file = tool[s].file /\ r.base = tool[s].base
      /\ r.again = tool[s].again /\ r.mark = tool[s].mark
  BY <1>1 DEF ToolRow, Pc
<1>3. /\ tool' = [tool EXCEPT ![s] = r] /\ loop' = {s} /\ temp' = temp \cup {Mark(s)}
      /\ UNCHANGED <<file, reads, started, expected, unseen, clobbered>>
  BY <1>1 DEF WriteTemp, Goto, observations
<1> HIDE DEF r
<1>4. OneMoves(s) /\ tool'[s] = r
  BY <1>1, <1>2, <1>3, RowMoves
<1>5. Stands(s)'
  BY <1>0, <1>1, <1>2, <1>3, <1>4
     DEF Stands, ToolKind, EditBase, WriteSafe, FillClear, Op
<1>6. Mark(s)' = Mark(s)
  BY <1>2, <1>4 DEF Mark
<1>7. TempStep(s)
  BY <1>0, <1>2, <1>3, <1>4, <1>6 DEF TempStep
<1> QED
  BY <1>1, <1>3, <1>4, <1>5, <1>7, QuietStep

LEMMA EditReadStep ==
    ASSUME Inductive, NEW s \in Agent, EditRead(s)
    PROVE  Inductive'
<1> DEFINE f == tool[s].file
           r == [tool[s] EXCEPT !.pc = "hash", !.base = file[f].marks]
<1>0. /\ tool[s].pc \in {"edit", "multi_edit"}
      /\ tool[s].pc \notin Rest \cup {"rename"}
  BY DEF EditRead, Rest
<1>1. /\ FileTypes /\ loop = {s} /\ tool[s] \in ToolRow /\ Stands(s) /\ f \in File
      /\ file[f] \in FileRow
  <2>1. FileTypes /\ loop = {s} /\ tool[s] \in ToolRow /\ Stands(s)
    BY <1>0, AtWork
  <2>2. f \in File
    BY <2>1 DEF ToolRow
  <2> QED
    BY <2>1, <2>2 DEF FileTypes
<1>2. CASE ~file[f].exists
  BY <1>0, <1>2, EditFailsStep DEF EditRead
<1>3. CASE file[f].exists
  <2>1. /\ r \in ToolRow /\ r.pc = "hash" /\ r.op = tool[s].op /\ r.file = f
        /\ r.base = file[f].marks /\ r.again = tool[s].again
    BY <1>1 DEF ToolRow, Pc, FileRow
  <2>2. /\ tool' = [tool EXCEPT ![s] = r] /\ loop' = {s}
        /\ UNCHANGED <<file, temp, reads, started, expected, unseen, observations>>
    BY <1>1, <1>3 DEF EditRead, observations
  <2>3. tool[s].op # "write" /\ (tool[s].again => tool[s].op = "multi_edit")
    BY <1>0, <1>1 DEF Stands, ToolKind, Op
  <2>4. expected[f] \subseteq file[f].marks
    BY <1>1 DEF Inductive, FilesInv, EditsKept
  <2> HIDE DEF r, f
  <2>5. ASSUME tool'[s] = r PROVE Stands(s)'
    BY <2>1, <2>2, <2>3, <2>4, <2>5
       DEF Stands, ToolKind, EditBase, WriteSafe, FillClear, Op
  <2> QED
    BY <1>0, <2>1, <2>2, <2>5, OwnRowStep
<1> QED
  BY <1>2, <1>3

LEMMA MatchStep ==
    ASSUME Inductive, NEW s \in Agent, Match(s)
    PROVE  Inductive'
<1> DEFINE r == [tool[s] EXCEPT !.pc = "check"]
<1>0. tool[s].pc = "match" /\ tool[s].pc \notin Rest \cup {"rename"}
  BY DEF Match, Running, Rest
<1>1. FileTypes /\ loop = {s} /\ tool[s] \in ToolRow /\ Stands(s)
  BY <1>0, AtWork
<1>2. CASE EditFails(s)
  BY <1>0, <1>2, EditFailsStep
<1>3. CASE Goto(s, "check")
           /\ UNCHANGED <<file, temp, reads, loop, started, observations>>
  <2>1. /\ r \in ToolRow /\ r.pc = "check" /\ r.op = tool[s].op
        /\ r.file = tool[s].file /\ r.base = tool[s].base
        /\ r.again = tool[s].again
    BY <1>1 DEF ToolRow, Pc
  <2>2. /\ tool' = [tool EXCEPT ![s] = r] /\ loop' = {s}
        /\ UNCHANGED <<file, temp, reads, started, expected, unseen, observations>>
    BY <1>1, <1>3 DEF Goto, observations
  <2> HIDE DEF r
  <2>3. ASSUME tool'[s] = r PROVE Stands(s)'
    BY <1>0, <1>1, <2>1, <2>2, <2>3
       DEF Stands, ToolKind, EditBase, WriteSafe, FillClear, Op
  <2> QED
    BY <1>0, <2>1, <2>2, <2>3, OwnRowStep
<1> QED
  BY <1>2, <1>3 DEF Match

LEMMA DeleteStep ==
    ASSUME Inductive, NEW s \in Agent, Delete(s)
    PROVE  Inductive'
<1> DEFINE r == [tool[s] EXCEPT !.pc = "saferm"]
<1>0. tool[s].pc = "delete" /\ tool[s].pc \notin Rest \cup {"rename"}
  BY DEF Delete, Running, Rest
<1>1. tool[s] \in ToolRow /\ Stands(s)
  BY <1>0, AtWork
<1>2. r \in ToolRow /\ r.pc = "saferm" /\ r.op = tool[s].op /\ r.again = tool[s].again
  BY <1>1 DEF ToolRow, Pc
<1>3. /\ tool' = [tool EXCEPT ![s] = r]
      /\ UNCHANGED <<file, temp, reads, started, observations>>
  BY DEF Delete, Goto
<1> HIDE DEF r
<1>4. ASSUME tool'[s] = r PROVE Stands(s)'
  BY <1>0, <1>1, <1>2, <1>4 DEF Stands, ToolKind, EditBase, WriteSafe, FillClear, Op
<1> QED
  BY <1>0, <1>2, <1>3, <1>4, OwnRowStep DEF Rest

LEMMA RetryStep ==
    ASSUME Inductive, NEW s \in Agent, Retry(s)
    PROVE  Inductive'
<1> DEFINE r == [tool[s] EXCEPT !.pc = tool[s].op]
<1>0. /\ tool[s].pc = "backoff" /\ FileTypes /\ started \in Nat /\ Stands(s)
      /\ loop = {}
  BY DEF Retry, Running, Inductive, FileTypes, ToolsStand
<1>1. tool[s] \in ToolRow
  BY <1>0, Busy
<1>2. /\ r \in ToolRow /\ r.pc = tool[s].op /\ r.op = tool[s].op
      /\ r.again = tool[s].again /\ tool[s].op \in Op
  BY <1>1 DEF ToolRow, Pc
<1>3. /\ tool' = [tool EXCEPT ![s] = r] /\ loop' = {s}
      /\ UNCHANGED <<file, temp, reads, started, expected, unseen, clobbered>>
  BY DEF Retry, Goto, observations
<1> HIDE DEF r
<1>4. OneMoves(s) /\ tool'[s] = r
  BY <1>0, <1>2, <1>3, RowMoves
<1>5. Stands(s)'
  BY <1>0, <1>2, <1>4 DEF Stands, ToolKind, EditBase, WriteSafe, FillClear, Op
<1>6. TempStep(s)
  BY <1>0, <1>3 DEF TempStep
<1>7. \A t \in Agent : t # s => tool[t].pc \in Rest
  BY <1>0, Alone DEF Inductive
<1> QED
  BY <1>0, <1>3, <1>4, <1>5, <1>6, <1>7, QuietStep

LEMMA OsErrorStep ==
    ASSUME Inductive, NEW s \in Agent, NEW transient \in BOOLEAN,
           OsError(s, transient)
    PROVE  Inductive'
<1> DEFINE r == [tool[s] EXCEPT !.pc = "backoff", !.base = {}, !.retries = @ + 1]
<1>0. tool[s].pc \notin Rest
  BY DEF OsError, Rest
<1>1. /\ FileTypes /\ tool[s] \in ToolRow /\ Stands(s) /\ started \in Nat
      /\ \A t \in Agent : t # s => tool[t].pc \in Rest
  BY <1>0, AtWork DEF FileTypes
<1>2. /\ temp' = temp \ {Mark(s)}
      /\ UNCHANGED <<file, reads, started, expected, unseen, clobbered>>
  BY DEF OsError, CleanUp, Cleaned, observations
<1>3. TempStep(s)
  BY <1>2 DEF TempStep
<1>4. OneMoves(s) /\ Stands(s)'
  <2>1. CASE NextEdit(s)
    BY <1>0, <2>1, NextEditMoves
  <2>2. CASE tool' = [tool EXCEPT ![s] = r]
    <3>1. /\ r \in ToolRow /\ r.pc = "backoff" /\ r.op = tool[s].op
          /\ r.again = tool[s].again
      <4>1. tool[s].retries + 1 \in Nat /\ "backoff" \in Pc
        BY <1>1 DEF ToolRow, Pc
      <4> QED
        BY <1>1, <4>1 DEF ToolRow
    <3> HIDE DEF r
    <3>2. OneMoves(s) /\ tool'[s] = r
      BY <1>1, <2>2, <3>1, RowMoves DEF Rest
    <3>3. Stands(s)'
      BY <1>0, <1>1, <3>1, <3>2
         DEF Stands, ToolKind, EditBase, WriteSafe, FillClear, Op, Rest
    <3> QED
      BY <3>2, <3>3
  <2> QED
    BY <2>1, <2>2 DEF OsError
<1> QED
  BY <1>1, <1>2, <1>3, <1>4, QuietStep

-----------------------------------------------------------------------------
(* The steps that change the files                                         *)

\* What is put into a file is news only to those who have not recorded it.
LEMMA NewsKept ==
    ASSUME FileTypes, SeenApart, NEW f \in File, NEW marks \in SUBSET MarkSet,
           reads' = reads, unseen' = [t \in Agent |-> unseen'[t]],
           \A t \in Agent :
               unseen'[t] \in {unseen[t],
                               [unseen[t] EXCEPT ![f] = @ \cup News(t, f, marks)]}
    PROVE  SeenApart' /\ unseen' \in [Agent -> [File -> SUBSET MarkSet]]
<1>1. ASSUME NEW t \in Agent
      PROVE  /\ unseen'[t] \in [File -> SUBSET MarkSet]
             /\ \A h \in File : unseen'[t][h] \cap reads[t][h].marks = {}
  <2> DEFINE n == News(t, f, marks)
             u == unseen[t]
  <2>1. n \in SUBSET MarkSet /\ n \cap reads[t][f].marks = {}
    BY DEF News
  <2>2. u \in [File -> SUBSET MarkSet] /\ \A h \in File : u[h] \cap reads[t][h].marks = {}
    BY DEF FileTypes, SeenApart
  <2>3. unseen'[t] = u \/ unseen'[t] = [u EXCEPT ![f] = u[f] \cup n]
    OBVIOUS
  <2> HIDE DEF n, u
  <2>4. CASE unseen'[t] = u
    BY <2>2, <2>4
  <2>5. CASE unseen'[t] = [u EXCEPT ![f] = u[f] \cup n]
    BY <2>1, <2>2, <2>5
  <2> QED
    BY <2>3, <2>4, <2>5
<1>2. SeenApart'
  BY <1>1 DEF SeenApart
<1>3. unseen' \in [Agent -> [File -> SUBSET MarkSet]]
  BY <1>1
<1> QED
  BY <1>2, <1>3

\* A file that one session looks at holds nothing that it has not seen.
LEMMA LookKept ==
    ASSUME FileTypes, SeenApart, NEW s \in Agent, NEW f \in File,
           reads' = [reads EXCEPT ![s][f] = Hash(f)],
           unseen' = [unseen EXCEPT ![s][f] = {}]
    PROVE  /\ SeenApart' /\ unseen' \in [Agent -> [File -> SUBSET MarkSet]]
           /\ reads' \in [Agent -> [File -> ReadRow]]
<1>1. Hash(f) \in ReadRow
  BY DEF FileTypes, FileRow, ReadRow, Hash
<1>2. /\ reads \in [Agent -> [File -> ReadRow]]
      /\ unseen \in [Agent -> [File -> SUBSET MarkSet]]
  BY DEF FileTypes
<1> DEFINE h == Hash(f)
<1>3. h \in ReadRow /\ reads' = [reads EXCEPT ![s][f] = h]
  BY <1>1
<1> HIDE DEF h
<1>4. /\ reads' \in [Agent -> [File -> ReadRow]]
      /\ unseen' \in [Agent -> [File -> SUBSET MarkSet]]
  BY <1>2, <1>3
<1>5. ASSUME NEW t \in Agent, NEW g \in File
      PROVE  unseen'[t][g] \cap reads'[t][g].marks = {}
  <2>1. CASE t = s /\ g = f
    <3>1. unseen'[t][g] = {}
      BY <1>2, <2>1
    <3> QED
      BY <3>1
  <2>2. CASE ~(t = s /\ g = f)
    <3>1. unseen'[t][g] = unseen[t][g] /\ reads'[t][g] = reads[t][g]
      BY <1>2, <1>3, <2>2
    <3> QED
      BY <3>1 DEF SeenApart
  <2> QED
    BY <2>1, <2>2
<1> QED
  BY <1>4, <1>5 DEF SeenApart

\* What is left to show of a step that changes files: their part.
LEMMA FileStep ==
    ASSUME Inductive, NEW s \in Agent, OneMoves(s), Stands(s)', TempStep(s),
           \A t \in Agent : t # s => tool[t].pc \in Rest, started' = started,
           file' \in [File -> FileRow], reads' \in [Agent -> [File -> ReadRow]],
           expected' \in [File -> SUBSET MarkSet],
           unseen' \in [Agent -> [File -> SUBSET MarkSet]], FilesInv'
    PROVE  Inductive'
<1>1. LoopHeld' /\ ToolsStand'
  BY ToolsKept DEF Inductive
<1>2. NoTempLeft'
  BY TempKept DEF Inductive
<1>3. FileTypes'
  BY DEF Inductive, FileTypes, OneMoves
<1> QED
  BY <1>1, <1>2, <1>3 DEF Inductive

LEMMA RenameStep ==
    ASSUME Inductive, NEW s \in Agent, Rename(s)
    PROVE  Inductive'
<1> DEFINE f == tool[s].file
           op == tool[s].op
           marks == tool[s].base \cup {Mark(s)}
           content == Content(marks, op)
           r == [tool[s] EXCEPT !.pc = "record"]
<1>0. tool[s].pc = "rename" /\ tool[s].pc \notin Rest
  BY DEF Rename, Running, Rest
<1>1. /\ FileTypes /\ loop = {s} /\ tool[s] \in ToolRow /\ Stands(s)
      /\ \A t \in Agent : t # s => tool[t].pc \in Rest
  BY <1>0, AtWork
<1>2. f \in File /\ op \in Op /\ marks \in SUBSET MarkSet
  BY <1>1, MarkType DEF ToolRow
<1>3. /\ content \in FileRow /\ content.marks = marks /\ content.exists = TRUE
      /\ content.whole = TRUE
  BY <1>2 DEF Content, FileRow
<1>4. /\ r \in ToolRow /\ r.pc = "record" /\ r.op = tool[s].op
      /\ r.again = tool[s].again
  BY <1>1 DEF ToolRow, Pc
<1>5. /\ tool' = [tool EXCEPT ![s] = r] /\ loop' = {s} /\ started' = started
      /\ temp' = temp \ {Mark(s)} /\ reads' = reads
      /\ Put(s, f, content, op = "write")
  BY <1>1 DEF Rename, Goto, Cleaned
<1> HIDE DEF r
<1>6. OneMoves(s) /\ tool'[s] = r
  BY <1>1, <1>4, <1>5, RowMoves
<1>7. Stands(s)'
  BY <1>0, <1>1, <1>4, <1>6 DEF Stands, ToolKind, EditBase, WriteSafe, FillClear, Op
<1>8. TempStep(s)
  BY <1>5 DEF TempStep
<1>9. /\ file' = [file EXCEPT ![f] = content]
      /\ op = "write" => expected' = [expected EXCEPT ![f] = marks]
      /\ op # "write" => expected' = [expected EXCEPT ![f] = @ \cup {Mark(s)}]
      /\ unseen' = [t \in Agent |->
            IF t = s THEN unseen[t]
            ELSE [unseen[t] EXCEPT ![f] = @ \cup News(t, f, marks)]]
      /\ op = "write" => clobbered' = clobbered \cup
                            ((file[f].marks \ marks) \cap unseen[s][f])
      /\ op # "write" => clobbered' = clobbered
  BY <1>3, <1>5 DEF Put
<1>10. /\ op # "write" => expected[f] \subseteq tool[s].base
       /\ op = "write" => file[f].marks \cap unseen[s][f] = {}
  BY <1>0, <1>1 DEF Stands, EditBase, WriteSafe
<1>11. Mark(s) \in marks /\ tool[s].base \subseteq marks
  OBVIOUS
<1> HIDE DEF f, op, content, marks
<1>12. /\ file' \in [File -> FileRow] /\ file'[f] = content
       /\ \A h \in File : h # f => file'[h] = file[h]
  BY <1>1, <1>2, <1>3, <1>9 DEF FileTypes
<1>13. /\ expected' \in [File -> SUBSET MarkSet] /\ expected'[f] \subseteq marks
       /\ \A h \in File : h # f => expected'[h] = expected[h]
  <2>1. expected \in [File -> SUBSET MarkSet]
    BY <1>1 DEF FileTypes
  <2>2. CASE op = "write"
    BY <1>2, <1>9, <2>1, <2>2
  <2>3. CASE op # "write"
    <3>1. expected[f] \cup {Mark(s)} \subseteq marks
      BY <1>10, <1>11, <2>3
    <3>2. expected' = [expected EXCEPT ![f] = expected[f] \cup {Mark(s)}]
      BY <1>9, <2>3
    <3> QED
      BY <1>2, <2>1, <3>1, <3>2
  <2> QED
    BY <2>2, <2>3
<1>14. SeenApart' /\ unseen' \in [Agent -> [File -> SUBSET MarkSet]]
  <2>1. FileTypes /\ SeenApart
    BY <1>1 DEF Inductive, FilesInv
  <2>2. /\ unseen' = [t \in Agent |-> unseen'[t]]
        /\ \A t \in Agent :
              unseen'[t] \in {unseen[t],
                              [unseen[t] EXCEPT ![f] = @ \cup News(t, f, marks)]}
    BY <1>9
  <2> QED
    BY <1>2, <1>5, <2>1, <2>2, NewsKept
<1>15. FilesInv'
  <2>1. WholeFiles /\ EditsKept /\ NoBlindOverwrite /\ AbsentEmpty
    BY DEF Inductive, FilesInv
  <2>2. WholeFiles' /\ AbsentEmpty'
    BY <1>3, <1>12, <2>1 DEF WholeFiles, AbsentEmpty
  <2>3. EditsKept'
    BY <1>3, <1>12, <1>13, <2>1 DEF EditsKept
  <2>4. NoBlindOverwrite'
    BY <1>9, <1>10, <2>1 DEF NoBlindOverwrite
  <2> QED
    BY <1>14, <2>2, <2>3, <2>4 DEF FilesInv
<1> QED
  BY <1>1, <1>5, <1>6, <1>7, <1>8, <1>12, <1>13, <1>14, <1>15, FileStep DEF FileTypes

\* A step that changes no file but what is known of them.
LEMMA LookStep ==
    ASSUME Inductive, NEW s \in Agent, OneMoves(s), Stands(s)', NEW f \in File,
           tool[s].pc \notin Rest \cup {"rename"},
           reads' = [reads EXCEPT ![s][f] = Hash(f)],
           unseen' = [unseen EXCEPT ![s][f] = {}],
           UNCHANGED <<file, temp, started, expected, clobbered>>
    PROVE  Inductive'
<1>1. FileTypes /\ FilesInv
  BY DEF Inductive
<1>2. /\ SeenApart' /\ unseen' \in [Agent -> [File -> SUBSET MarkSet]]
      /\ reads' \in [Agent -> [File -> ReadRow]]
  BY <1>1, LookKept DEF FilesInv
<1>3. FilesInv'
  BY <1>1, <1>2 DEF FilesInv, WholeFiles, EditsKept, NoBlindOverwrite, AbsentEmpty
<1>4. TempStep(s)
  BY DEF TempStep
<1>5. \A t \in Agent : t # s => tool[t].pc \in Rest
  BY Alone DEF Inductive
<1> QED
  BY <1>1, <1>2, <1>3, <1>4, <1>5, FileStep DEF FileTypes

LEMMA RecordStep ==
    ASSUME Inductive, NEW s \in Agent, Record(s)
    PROVE  Inductive'
<1> DEFINE f == tool[s].file
<1>0. tool[s].pc = "record" /\ tool[s].pc \notin Rest \cup {"rename"}
  BY DEF Record, Running, Rest
<1>1. FileTypes /\ f \in File
  BY <1>0, AtWork DEF ToolRow
<1>2. OneMoves(s) /\ Stands(s)' /\ NextEdit(s)
  BY <1>0, NextEditMoves DEF Record
<1>3. CASE file[f].exists
  <2>1. /\ reads' = [reads EXCEPT ![s][f] = Hash(f)]
        /\ unseen' = [unseen EXCEPT ![s][f] = {}]
        /\ UNCHANGED <<file, temp, started, expected, clobbered>>
    BY <1>3 DEF Record
  <2> QED
    BY <1>0, <1>1, <1>2, <2>1, LookStep
<1>4. CASE ~file[f].exists
  <2>1. EditFails(s)
    BY <1>2, <1>4 DEF Record, EditFails, observations
  <2> QED
    BY <1>0, <2>1, EditFailsStep
<1> QED
  BY <1>3, <1>4

LEMMA EditHashStep ==
    ASSUME Inductive, NEW s \in Agent, EditHash(s)
    PROVE  Inductive'
<1> DEFINE f == tool[s].file
           r == [tool[s] EXCEPT !.pc = "match"]
<1>0. tool[s].pc = "hash" /\ tool[s].pc \notin Rest \cup {"rename"}
  BY DEF EditHash, Running, Rest
<1>1. FileTypes /\ loop = {s} /\ tool[s] \in ToolRow /\ Stands(s) /\ f \in File
  BY <1>0, AtWork DEF ToolRow
<1>2. CASE ~file[f].exists
  BY <1>0, <1>2, EditFailsStep DEF EditHash
<1>3. CASE file[f].exists
  <2>1. /\ r \in ToolRow /\ r.pc = "match" /\ r.op = tool[s].op
        /\ r.file = tool[s].file /\ r.base = tool[s].base
        /\ r.again = tool[s].again
    BY <1>1 DEF ToolRow, Pc
  <2>2. /\ tool' = [tool EXCEPT ![s] = r] /\ loop' = {s}
        /\ reads' = [reads EXCEPT ![s][f] = Hash(f)]
        /\ unseen' = [unseen EXCEPT ![s][f] = {}]
        /\ UNCHANGED <<file, temp, started, expected, clobbered>>
    BY <1>1, <1>3 DEF EditHash, Goto
  <2> HIDE DEF r
  <2>3. OneMoves(s) /\ tool'[s] = r
    BY <1>1, <2>1, <2>2, RowMoves
  <2>4. Stands(s)'
    BY <1>0, <1>1, <2>1, <2>2, <2>3
       DEF Stands, ToolKind, EditBase, WriteSafe, FillClear, Op
  <2> QED
    BY <1>0, <1>1, <2>2, <2>3, <2>4, LookStep
<1> QED
  BY <1>2, <1>3

LEMMA MoveStep ==
    ASSUME Inductive, NEW s \in Agent, Move(s)
    PROVE  Inductive'
<1> DEFINE f == tool[s].file
           g == tool[s].dest
           row == file[f]
<1>0. tool[s].pc = "move" /\ tool[s].pc \notin Rest \cup {"rename"}
  BY DEF Move, Running, Rest
<1>1. /\ FileTypes /\ tool[s] \in ToolRow
      /\ \A t \in Agent : t # s => tool[t].pc \in Rest
  BY <1>0, AtWork
<1>2. f \in File /\ g \in File
  BY <1>1 DEF ToolRow
<1>3. row \in FileRow /\ row.marks \in SUBSET MarkSet /\ FilesInv
  BY <1>1, <1>2 DEF FileTypes, FileRow, Inductive
<1>4. CASE ~file[f].exists
  BY <1>0, <1>4, FailsStep DEF Move
<1>5. CASE file[f].exists
  <2>1. /\ file' = [file EXCEPT ![g] = row, ![f] = IF f = g THEN row ELSE Absent]
        /\ expected' = [expected EXCEPT ![g] = row.marks,
                                        ![f] = IF f = g THEN row.marks ELSE {}]
        /\ unseen' = [t \in Agent |-> [unseen[t] EXCEPT ![g] =
              IF t = s THEN @ ELSE @ \cup News(t, g, row.marks)]]
        /\ tool' = [tool EXCEPT ![s] = Idle]
        /\ UNCHANGED <<temp, reads, started, clobbered>>
    BY <1>5 DEF Move, Return
  <2>2. OneMoves(s) /\ Stands(s)'
    BY <1>1, <2>1, ReturnMoves
  <2>3. TempStep(s)
    BY <1>0, <2>1 DEF TempStep
  <2>4. Absent \in FileRow /\ Absent.marks = {} /\ Absent.whole = TRUE
    BY DEF Absent, FileRow
  <2> HIDE DEF f, g, row
  <2>5. /\ file' \in [File -> FileRow] /\ file'[g] = row
        /\ f # g => file'[f] = Absent
        /\ \A h \in File : h # f /\ h # g => file'[h] = file[h]
    BY <1>1, <1>2, <1>3, <2>1, <2>4 DEF FileTypes
  <2>6. /\ expected' \in [File -> SUBSET MarkSet] /\ expected'[g] = row.marks
        /\ f # g => expected'[f] = {}
        /\ \A h \in File : h # f /\ h # g => expected'[h] = expected[h]
    BY <1>1, <1>2, <1>3, <2>1 DEF FileTypes
  <2>7. SeenApart' /\ unseen' \in [Agent -> [File -> SUBSET MarkSet]]
    <3>1. ASSUME NEW t \in Agent
          PROVE  unseen'[t] \in {unseen[t],
                     [unseen[t] EXCEPT ![g] = @ \cup News(t, g, row.marks)]}
      <4>1. unseen[t] \in [File -> SUBSET MarkSet]
        BY <1>1 DEF FileTypes
      <4>2. [unseen[t] EXCEPT ![g] = unseen[t][g]] = unseen[t]
        BY <1>2, <4>1
      <4> QED
        BY <2>1, <4>2
    <3>2. unseen' = [t \in Agent |-> unseen'[t]]
      BY <2>1
    <3> QED
      BY <1>1, <1>2, <1>3, <2>1, <3>1, <3>2, NewsKept DEF FilesInv
  <2>8. FilesInv'
    <3>1. WholeFiles'
      BY <1>2, <1>3, <2>4, <2>5 DEF FilesInv, WholeFiles, row
    <3>2. AbsentEmpty'
      BY <1>2, <1>3, <2>4, <2>5 DEF FilesInv, AbsentEmpty, row
    <3>3. EditsKept'
      BY <1>2, <1>3, <2>4, <2>5, <2>6 DEF FilesInv, EditsKept
    <3>4. NoBlindOverwrite'
      BY <1>3, <2>1 DEF FilesInv, NoBlindOverwrite
    <3> QED
      BY <2>7, <3>1, <3>2, <3>3, <3>4 DEF FilesInv
  <2> QED
    BY <1>1, <2>1, <2>2, <2>3, <2>5, <2>6, <2>7, <2>8, FileStep DEF FileTypes
<1> QED
  BY <1>4, <1>5

LEMMA CopyStep ==
    ASSUME Inductive, NEW s \in Agent, Copy(s)
    PROVE  Inductive'
<1> DEFINE f == tool[s].file
           g == tool[s].dest
           half == [Content({}, "copy") EXCEPT !.whole = FALSE]
           r == [tool[s] EXCEPT !.pc = "fill", !.base = file[f].marks]
<1>0. tool[s].pc = "copy" /\ tool[s].pc \notin Rest \cup {"rename"}
  BY DEF Copy, Running, Rest
<1>1. /\ FileTypes /\ tool[s] \in ToolRow /\ loop = {s} /\ Stands(s)
      /\ \A t \in Agent : t # s => tool[t].pc \in Rest
  BY <1>0, AtWork
<1>2. f \in File /\ g \in File /\ FilesInv
  BY <1>1 DEF ToolRow, Inductive
<1>3. CASE ~file[f].exists \/ f = g
  BY <1>0, <1>3, FailsStep DEF Copy
<1>4. CASE file[f].exists /\ f # g
  <2>1. /\ file' = [file EXCEPT ![g] = half]
        /\ expected' = [expected EXCEPT ![g] = {}]
        /\ tool' = [tool EXCEPT ![s] = r] /\ loop' = {s}
        /\ UNCHANGED <<temp, reads, started, unseen, clobbered>>
    BY <1>1, <1>4 DEF Copy
  <2>2. /\ half \in FileRow /\ half.marks = {} /\ half.by = "copy"
        /\ half.exists = TRUE
    BY DEF Content, FileRow, Op
  <2>3. /\ r \in ToolRow /\ r.pc = "fill" /\ r.op = tool[s].op /\ r.dest = g
        /\ r.again = tool[s].again
    <3>1. file[f].marks \in SUBSET MarkSet
      BY <1>1, <1>2 DEF FileTypes, FileRow
    <3> QED
      BY <1>1, <3>1 DEF ToolRow, Pc
  <2> HIDE DEF f, g, half, r
  <2>4. OneMoves(s) /\ tool'[s] = r
    BY <1>1, <2>1, <2>3, RowMoves
  <2>5. /\ expected' \in [File -> SUBSET MarkSet] /\ expected'[g] = {}
        /\ \A h \in File : h # g => expected'[h] = expected[h]
    BY <1>1, <1>2, <2>1 DEF FileTypes
  <2>6. /\ file' \in [File -> FileRow] /\ file'[g] = half
        /\ \A h \in File : h # g => file'[h] = file[h]
    BY <1>1, <1>2, <2>1, <2>2 DEF FileTypes
  <2>7. Stands(s)'
    BY <1>0, <1>1, <2>3, <2>4, <2>5
       DEF Stands, ToolKind, EditBase, WriteSafe, FillClear, Op
  <2>8. TempStep(s)
    BY <1>0, <2>1 DEF TempStep
  <2>9. FilesInv'
    <3>1. WholeFiles' /\ AbsentEmpty'
      BY <1>2, <2>2, <2>6 DEF FilesInv, WholeFiles, AbsentEmpty
    <3>2. EditsKept'
      BY <1>2, <2>5, <2>6 DEF FilesInv, EditsKept
    <3>3. NoBlindOverwrite' /\ SeenApart'
      BY <1>2, <2>1 DEF FilesInv, NoBlindOverwrite, SeenApart
    <3> QED
      BY <3>1, <3>2, <3>3 DEF FilesInv
  <2> QED
    BY <1>1, <2>1, <2>4, <2>5, <2>6, <2>7, <2>8, <2>9, FileStep DEF FileTypes
<1> QED
  BY <1>3, <1>4

LEMMA FillStep ==
    ASSUME Inductive, NEW s \in Agent, Fill(s)
    PROVE  Inductive'
<1> DEFINE g == tool[s].dest
           base == tool[s].base
           full == Content(base, "copy")
<1>0. tool[s].pc = "fill" /\ tool[s].pc \notin Rest \cup {"rename"}
  BY DEF Fill, Running, Rest
<1>1. /\ FileTypes /\ tool[s] \in ToolRow /\ Stands(s)
      /\ \A t \in Agent : t # s => tool[t].pc \in Rest
  BY <1>0, AtWork
<1>2. g \in File /\ base \in SUBSET MarkSet /\ FilesInv /\ expected[g] = {}
  BY <1>0, <1>1 DEF ToolRow, Inductive, Stands, FillClear
<1>3. /\ file' = [file EXCEPT ![g] = full]
      /\ unseen' = [t \in Agent |-> [unseen[t] EXCEPT ![g] =
            IF t = s THEN @ ELSE @ \cup News(t, g, base)]]
      /\ tool' = [tool EXCEPT ![s] = Idle]
      /\ UNCHANGED <<temp, reads, started, expected, clobbered>>
  BY DEF Fill, Return
<1>4. OneMoves(s) /\ Stands(s)'
  BY <1>1, <1>3, ReturnMoves
<1>5. TempStep(s)
  BY <1>0, <1>3 DEF TempStep
<1>6. full \in FileRow /\ full.by = "copy" /\ full.exists = TRUE
  BY <1>2 DEF Content, FileRow, Op
<1> HIDE DEF g, base, full
<1>7. /\ file' \in [File -> FileRow] /\ file'[g] = full
      /\ \A h \in File : h # g => file'[h] = file[h]
  BY <1>1, <1>2, <1>3, <1>6 DEF FileTypes
<1>8. SeenApart' /\ unseen' \in [Agent -> [File -> SUBSET MarkSet]]
  <2>1. ASSUME NEW t \in Agent
        PROVE  unseen'[t] \in {unseen[t],
                   [unseen[t] EXCEPT ![g] = @ \cup News(t, g, base)]}
    <3>1. unseen[t] \in [File -> SUBSET MarkSet]
      BY <1>1 DEF FileTypes
    <3>2. [unseen[t] EXCEPT ![g] = unseen[t][g]] = unseen[t]
      BY <1>2, <3>1
    <3> QED
      BY <1>3, <3>2
  <2>2. unseen' = [t \in Agent |-> unseen'[t]]
    BY <1>3
  <2> QED
    BY <1>1, <1>2, <1>3, <2>1, <2>2, NewsKept DEF FilesInv
<1>9. FilesInv'
  <2>1. WholeFiles' /\ AbsentEmpty'
    BY <1>2, <1>6, <1>7 DEF FilesInv, WholeFiles, AbsentEmpty
  <2>2. EditsKept'
    BY <1>2, <1>3, <1>7 DEF FilesInv, EditsKept
  <2>3. NoBlindOverwrite'
    BY <1>2, <1>3 DEF FilesInv, NoBlindOverwrite
  <2> QED
    BY <1>8, <2>1, <2>2, <2>3 DEF FilesInv
<1> QED
  BY <1>1, <1>3, <1>4, <1>5, <1>7, <1>8, <1>9, FileStep DEF FileTypes

\* saferm ends while another session may be at work: its file is gone, which
\* takes nothing from what that session relies on.
LEMMA SafermStep ==
    ASSUME Inductive, NEW s \in Agent, Saferm(s)
    PROVE  Inductive'
<1> DEFINE f == tool[s].file
<1>0. tool[s].pc = "saferm" /\ FileTypes /\ FilesInv
  BY DEF Saferm, Running, Inductive
<1>1. tool[s] \in ToolRow
  BY <1>0, Busy
<1>2. /\ f \in File /\ file' = [file EXCEPT ![f] = Absent]
      /\ expected' = [expected EXCEPT ![f] = {}]
      /\ tool' = [tool EXCEPT ![s] = Idle]
      /\ UNCHANGED <<temp, reads, loop, started, unseen, clobbered>>
  BY <1>1 DEF Saferm, ToolRow
<1>3. OneMoves(s) /\ Stands(s)' /\ tool'[s].pc = "idle"
  BY <1>0, <1>2, ReturnMoves
<1>4. Absent \in FileRow /\ Absent.marks = {} /\ Absent.whole = TRUE
  BY DEF Absent, FileRow
<1> HIDE DEF f
<1>5. /\ file' \in [File -> FileRow] /\ file'[f] = Absent
      /\ \A h \in File : h # f => file'[h] = file[h]
  BY <1>0, <1>2, <1>4 DEF FileTypes
<1>6. /\ expected' \in [File -> SUBSET MarkSet] /\ expected'[f] = {}
      /\ \A h \in File : h # f => expected'[h] = expected[h]
  BY <1>0, <1>2 DEF FileTypes
<1>7. FilesInv'
  <2>1. WholeFiles' /\ AbsentEmpty'
    BY <1>0, <1>4, <1>5 DEF FilesInv, WholeFiles, AbsentEmpty
  <2>2. EditsKept'
    BY <1>0, <1>5, <1>6 DEF FilesInv, EditsKept
  <2>3. NoBlindOverwrite' /\ SeenApart'
    BY <1>0, <1>2 DEF FilesInv, NoBlindOverwrite, SeenApart
  <2> QED
    BY <2>1, <2>2, <2>3 DEF FilesInv
<1>8. ToolsStand'
  <2> SUFFICES ASSUME NEW t \in Agent, t # s PROVE Stands(t)'
    BY <1>3 DEF ToolsStand
  <2>1. Stands(t) /\ tool'[t] = tool[t]
    BY <1>3 DEF Inductive, ToolsStand, OneMoves
  <2>2. CASE tool[t].pc = "idle"
    BY <2>1, <2>2 DEF Stands, ToolKind, EditBase, WriteSafe, FillClear, Op
  <2>3. CASE tool[t].pc # "idle"
    <3>1. tool[t].file \in File /\ tool[t].dest \in File
      BY <1>0, <2>3, Busy DEF ToolRow
    <3>2. \A h \in File : /\ expected'[h] \subseteq expected[h]
                          /\ file'[h].marks \subseteq file[h].marks
      BY <1>4, <1>5, <1>6
    <3>3. ToolKind(t)'
      BY <2>1 DEF Stands, ToolKind
    <3>4. EditBase(t)'
      BY <2>1, <3>1, <3>2 DEF Stands, EditBase
    <3>5. WriteSafe(t)'
      <4>1. unseen' = unseen
        BY <1>2
      <4> QED
        BY <2>1, <3>1, <3>2, <4>1 DEF Stands, WriteSafe
    <3>6. FillClear(t)'
      BY <2>1, <3>1, <3>2 DEF Stands, FillClear
    <3> QED
      BY <3>3, <3>4, <3>5, <3>6 DEF Stands
  <2> QED
    BY <2>2, <2>3
<1>9. LoopHeld'
  BY <1>2, <1>3 DEF Inductive, LoopHeld, OneMoves, Rest
<1>10. NoTempLeft'
  <2>1. TempStep(s)
    BY <1>0, <1>2 DEF TempStep
  <2> QED
    BY <1>3, <2>1, TempKept DEF Inductive
<1>11. FileTypes'
  BY <1>0, <1>2, <1>3, <1>5, <1>6 DEF FileTypes, OneMoves
<1> QED
  BY <1>7, <1>8, <1>9, <1>10, <1>11 DEF Inductive

LEMMA CrashStep ==
    ASSUME Inductive, Crash
    PROVE  Inductive'
<1>0. /\ FileTypes /\ FilesInv
      /\ UNCHANGED <<file, started, expected, unseen, clobbered>>
      /\ tool' = [s \in Agent |-> Idle] /\ temp' = {Orphan : m \in temp}
      /\ reads' = [s \in Agent |-> [f \in File |-> Unread]]
  BY DEF Inductive, Crash, observations
<1>1. \A s \in Agent : tool'[s].pc = "idle"
  BY <1>0 DEF Idle
<1>2. Unread \in ReadRow /\ Unread.marks = {}
  BY DEF Unread, ReadRow
<1>3. FileTypes'
  BY <1>0, <1>2 DEF FileTypes
<1>4. LoopHeld' /\ NoTempLeft'
  BY <1>0, <1>1 DEF LoopHeld, NoTempLeft, Rest
<1>5. ToolsStand'
  BY <1>1 DEF ToolsStand, Stands, ToolKind, EditBase, WriteSafe, FillClear, Op
<1>6. FilesInv'
  <2>1. SeenApart'
    BY <1>0, <1>2 DEF SeenApart
  <2> QED
    BY <1>0, <2>1 DEF FilesInv, WholeFiles, EditsKept, NoBlindOverwrite, AbsentEmpty
<1> QED
  BY <1>3, <1>4, <1>5, <1>6 DEF Inductive

-----------------------------------------------------------------------------
(* The theorem                                                             *)

LEMMA InductiveInit == FileInit => Inductive
<1> SUFFICES ASSUME FileInit PROVE Inductive
  OBVIOUS
<1>1. /\ Absent \in FileRow /\ Absent.marks = {} /\ Absent.whole = TRUE
      /\ Content({}, "write") \in FileRow /\ Content({}, "write").exists = TRUE
      /\ Content({}, "write").whole = TRUE
  BY DEF Absent, Content, FileRow, Op
<1>2. Unread \in ReadRow /\ Unread.marks = {} /\ Idle.pc = "idle"
  BY DEF Unread, ReadRow, Idle
<1>3. /\ file \in [File -> {Absent, Content({}, "write")}] /\ temp = {}
      /\ reads = [s \in Agent |-> [f \in File |-> Unread]]
      /\ tool = [s \in Agent |-> Idle] /\ started = 0
      /\ expected = [f \in File |-> {}]
      /\ unseen = [s \in Agent |-> [f \in File |-> {}]] /\ clobbered = {}
  BY DEF FileInit
<1>4. \A f \in File : /\ file[f] \in FileRow /\ file[f].whole = TRUE
                      /\ ~file[f].exists => file[f].marks = {}
  BY <1>1, <1>3
<1>5. FileTypes
  BY <1>1, <1>2, <1>3 DEF FileTypes
<1>6. \A s \in Agent : tool[s].pc = "idle"
  BY <1>2, <1>3
<1>7. LoopHeld /\ NoTempLeft
  BY <1>3, <1>6 DEF LoopHeld, NoTempLeft, Rest
<1>8. ToolsStand
  BY <1>6 DEF ToolsStand, Stands, ToolKind, EditBase, WriteSafe, FillClear, Op
<1>9. FilesInv
  BY <1>3, <1>4
     DEF FilesInv, WholeFiles, EditsKept, NoBlindOverwrite, AbsentEmpty, SeenApart
<1> QED
  BY <1>5, <1>7, <1>8, <1>9 DEF Inductive

LEMMA StutterStep ==
    ASSUME Inductive, UNCHANGED fileVars
    PROVE  Inductive'
<1>0. UNCHANGED <<file, temp, reads, loop, tool, started, expected, unseen, clobbered>>
  BY DEF fileVars
<1>1. FileTypes' /\ LoopHeld'
  BY <1>0 DEF Inductive, FileTypes, LoopHeld
<1>2. ToolsStand'
  BY <1>0 DEF Inductive, ToolsStand, Stands, ToolKind, EditBase, WriteSafe, FillClear
<1>3. FilesInv'
  BY <1>0 DEF Inductive, FilesInv, WholeFiles, EditsKept, NoBlindOverwrite,
              AbsentEmpty, SeenApart
<1>4. NoTempLeft'
  BY <1>0 DEF Inductive, NoTempLeft, Running, Mark
<1> QED
  BY <1>1, <1>2, <1>3, <1>4 DEF Inductive

LEMMA InductiveNext == Inductive /\ [FileNext]_fileVars => Inductive'
<1> SUFFICES ASSUME Inductive, [FileNext]_fileVars PROVE Inductive'
  OBVIOUS
<1>1. ASSUME NEW s \in Agent, NEW op \in {"write", "edit", "delete"}, NEW f \in File,
             Begin(s, op, f, f)
      PROVE  Inductive'
  BY <1>1, BeginStep DEF Op
<1>2. ASSUME NEW s \in Agent, NEW op \in {"multi_edit", "move", "copy"},
             NEW f \in File, NEW g \in File, Begin(s, op, f, g)
      PROVE  Inductive'
  BY <1>2, BeginStep DEF Op
<1>3. ASSUME NEW s \in Agent, \/ Write(s) \/ Check(s) \/ WriteTemp(s) \/ Rename(s)
                              \/ Record(s) \/ EditRead(s) \/ EditHash(s) \/ Match(s)
      PROVE  Inductive'
  BY <1>3, WriteStep, CheckStep, WriteTempStep, RenameStep, RecordStep, EditReadStep,
     EditHashStep, MatchStep
<1>4. ASSUME NEW s \in Agent, \/ Move(s) \/ Copy(s) \/ Fill(s) \/ Delete(s)
                              \/ Saferm(s) \/ Retry(s)
      PROVE  Inductive'
  BY <1>4, MoveStep, CopyStep, FillStep, DeleteStep, SafermStep, RetryStep
<1>5. ASSUME NEW s \in Agent, NEW transient \in BOOLEAN, OsError(s, transient)
      PROVE  Inductive'
  BY <1>5, OsErrorStep
<1>6. CASE Crash
  BY <1>6, CrashStep
<1>7. CASE UNCHANGED fileVars
  BY <1>7, StutterStep
<1> QED
  BY <1>1, <1>2, <1>3, <1>4, <1>5, <1>6, <1>7 DEF FileNext

\* Whatever sessions call whichever file tools, with errors, retries and crashes
\* at any point: no file is left half written but by copy, no edit is undone by
\* another, no write removes what its session has not seen, and a temporary file
\* outlives its tool only when the process dies.
THEOREM FilesStaySafe == FileSpec => []FilesSafe
<1>1. Inductive => FilesSafe
  BY DEF Inductive, FilesInv, FilesSafe
<1> QED
  BY <1>1, InductiveInit, InductiveNext, PTL DEF FileSpec
=============================================================================
