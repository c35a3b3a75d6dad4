----------------------------- MODULE FileTools ------------------------------
(***************************************************************************)
(* The file tools of agent sessions and the write safety under them: the   *)
(* write queue, the stale-write tracker, the atomic write and the retry of *)
(* transient errors.                                                       *)
(*                                                                         *)
(* The sessions of a process share one event loop.  Nothing in these tools *)
(* but the subprocess of delete and the pause before a retry suspends, so  *)
(* a tool that has the loop keeps it until it returns; but any call of the *)
(* file system may fail, and the process may die between any two of them.  *)
(* The queue and the tracker belong to the process: another process on the *)
(* same directory is not kept apart by them, and is not modelled.          *)
(*                                                                         *)
(* A content is the set of the marks that edits have left in it.  Equal    *)
(* contents have equal hashes.                                             *)
(***************************************************************************)
EXTENDS Naturals, Sequences, FiniteSets

CONSTANTS
    Agent,      \* the sessions of the process
    File,
    MaxTools,   \* bound: tool calls in all
    MaxRetries  \* with_transient_retry's max_retries

VARIABLES
    file,      \* the directory
    temp,      \* temporary files
    reads,     \* StaleWriteTracker._reads
    loop,      \* who has the event loop
    tool,      \* the tool call of each session
    started,   \* tool calls made so far
    expected,  \* observation: marks of edits that are to be found in a file
    unseen,    \* observation: marks put into a file since a session last
               \* looked at it, by others
    clobbered  \* observation: unseen marks that a write has removed

fileVars == <<file, temp, reads, loop, tool, started, expected, unseen,
              clobbered>>

Absent == [exists |-> FALSE, marks |-> {}, whole |-> TRUE, by |-> "nobody"]
Content(marks, by) == [exists |-> TRUE, marks |-> marks, whole |-> TRUE,
                       by |-> by]
Unread == [exists |-> FALSE, marks |-> {}]
Hash(f) == [exists |-> TRUE, marks |-> file[f].marks]
\* A temporary file that a dead process has left.
Orphan == <<0, FALSE>>
Idle == [pc |-> "idle"]

FileInit ==
    /\ file \in [File -> {Absent, Content({}, "write")}]
    /\ temp = {}
    /\ reads = [s \in Agent |-> [f \in File |-> Unread]]
    /\ loop = {}
    /\ tool = [s \in Agent |-> Idle]
    /\ started = 0
    /\ expected = [f \in File |-> {}]
    /\ unseen = [s \in Agent |-> [f \in File |-> {}]]
    /\ clobbered = {}

observations == <<expected, unseen, clobbered>>
Running(s, pc) == tool[s].pc = pc
Goto(s, pc) == tool' = [tool EXCEPT ![s].pc = pc]
Mark(s) == <<tool[s].mark, tool[s].again>>

-----------------------------------------------------------------------------
(* Calling a tool.  The queue's lock of a path is held from the check of a *)
(* write to the record of its hash.                                        *)

Holds(s, f) ==
    tool[s].pc \in {"check", "temp", "rename", "record"} /\ tool[s].file = f

\* WriteQueue.lock.
CanLock(s, f) == \A t \in Agent \ {s} : ~Holds(t, f)

Begin(s, op, f, g) ==
    /\ Running(s, "idle")
    /\ loop = {}
    /\ started < MaxTools
    /\ started' = started + 1
    /\ loop' = {s}
    /\ tool' = [tool EXCEPT ![s] =
          [pc |-> op, op |-> op, file |-> f, dest |-> g, new |-> FALSE,
           base |-> {}, mark |-> started + 1, retries |-> 0,
           again |-> op = "multi_edit"]]
    /\ UNCHANGED <<file, temp, reads, observations>>

\* The tool is over, with a result or an error, and the loop is free.
Return(s) ==
    /\ tool' = [tool EXCEPT ![s] = Idle]
    /\ loop' = {}

Fails(s) == Return(s) /\ UNCHANGED <<file, temp, reads, started, observations>>

\* multi_edit goes on to its next edit, whatever became of this one; another
\* tool is over.
NextEdit(s) ==
    IF tool[s].again
    THEN /\ tool' = [tool EXCEPT ![s].pc = "multi_edit",
                       ![s].file = tool[s].dest, ![s].again = FALSE]
         /\ UNCHANGED loop
    ELSE Return(s)

EditFails(s) ==
    NextEdit(s) /\ UNCHANGED <<file, temp, reads, started, observations>>

-----------------------------------------------------------------------------
(* write                                                                   *)

\* _write_impl: whether the file is new is decided before the lock is taken.
Write(s) ==
    LET f == tool[s].file
    IN  /\ Running(s, "write") /\ CanLock(s, f)
        /\ tool' = [tool EXCEPT ![s].new = ~file[f].exists,
                                ![s].pc = "check"]
        /\ UNCHANGED <<file, temp, reads, loop, started, observations>>

\* StaleWriteTracker.check_write.
CheckWrite(s, f) == reads[s][f] # Unread /\ reads[s][f] = Hash(f)

\* safe_write: the stale check, unless the file is new.  A file that has gone,
\* or changed, or was never read is an error.
Check(s) ==
    LET f == tool[s].file
    IN  /\ Running(s, "check")
        /\ IF tool[s].new \/ (file[f].exists /\ CheckWrite(s, f))
           THEN Goto(s, "temp")
                /\ UNCHANGED <<file, temp, reads, loop, started, observations>>
           ELSE IF file[f].exists THEN Fails(s)   \* StaleWriteError
           ELSE EditFails(s)                      \* FileNotFoundError

-----------------------------------------------------------------------------
(* atomic_write                                                            *)

\* mkstemp, write, fsync.
WriteTemp(s) ==
    /\ Running(s, "temp")
    /\ temp' = temp \cup {Mark(s)}
    /\ Goto(s, "rename")
    /\ UNCHANGED <<file, reads, loop, started, observations>>

Cleaned(s) == temp \ {Mark(s)}

\* What is new in the file to a session.
News(t, f, marks) == marks \ (file[f].marks \cup reads[t][f].marks)

Put(s, f, content, writes) ==
    LET gone == file[f].marks \ content.marks
    IN  /\ file' = [file EXCEPT ![f] = content]
        /\ expected' = [expected EXCEPT ![f] =
              IF writes THEN content.marks ELSE @ \cup {Mark(s)}]
        /\ unseen' = [t \in Agent |->
              IF t = s THEN unseen[t]
              ELSE [unseen[t] EXCEPT ![f] =
                      @ \cup News(t, f, content.marks)]]
        /\ clobbered' = IF writes
                        THEN clobbered \cup (gone \cap unseen[s][f])
                        ELSE clobbered

\* Mutant: the content is written into the file itself.
WriteInPlace(s) ==
    LET f == tool[s].file
        marks == tool[s].base \cup {Mark(s)}
    IN  /\ Running(s, "rename")
        /\ \/ /\ file[f].whole
              /\ file' = [file EXCEPT ![f] =
                    [Content({}, tool[s].op) EXCEPT !.whole = FALSE]]
              /\ UNCHANGED <<tool, temp, observations>>
           \/ /\ ~file[f].whole
              /\ Put(s, f, Content(marks, tool[s].op), tool[s].op = "write")
              /\ temp' = Cleaned(s)
              /\ Goto(s, "record")
        /\ UNCHANGED <<reads, loop, started>>

\* The temporary file takes the place of the old one in one step.
Rename(s) ==
    LET f == tool[s].file
        marks == tool[s].base \cup {Mark(s)}
    IN  /\ Running(s, "rename")
        /\ Put(s, f, Content(marks, tool[s].op), tool[s].op = "write")
        /\ temp' = Cleaned(s)
        /\ Goto(s, "record")
        /\ UNCHANGED <<reads, loop, started>>

\* safe_write reads the file once more and records what it finds there.
Record(s) ==
    LET f == tool[s].file
    IN  /\ Running(s, "record")
        /\ IF file[f].exists
           THEN /\ reads' = [reads EXCEPT ![s][f] = Hash(f)]
                /\ unseen' = [unseen EXCEPT ![s][f] = {}]
           ELSE UNCHANGED <<reads, unseen>>
        /\ NextEdit(s)
        /\ UNCHANGED <<file, temp, started, expected, clobbered>>

-----------------------------------------------------------------------------
(* edit and multi_edit                                                     *)

\* safe_read_for_write: the text is read,
EditRead(s) ==
    LET f == tool[s].file
    IN  /\ tool[s].pc \in {"edit", "multi_edit"} /\ CanLock(s, f)
        /\ IF ~file[f].exists THEN EditFails(s)
           ELSE /\ tool' = [tool EXCEPT ![s].pc = "hash",
                                        ![s].base = file[f].marks]
                /\ UNCHANGED <<file, temp, reads, loop, started, observations>>

\* and its hash, from the file as it is then, is recorded.
EditHash(s) ==
    LET f == tool[s].file
    IN  /\ Running(s, "hash")
        /\ IF ~file[f].exists THEN EditFails(s)
           ELSE /\ reads' = [reads EXCEPT ![s][f] = Hash(f)]
                /\ unseen' = [unseen EXCEPT ![s][f] = {}]
                /\ Goto(s, "match")
                /\ UNCHANGED <<file, temp, loop, started, expected, clobbered>>

\* The string to replace is there, once unless replace_all, or it is not; an
\* edit that is in the content already has replaced it.
Match(s) ==
    /\ Running(s, "match")
    /\ \/ /\ Mark(s) \notin tool[s].base
          /\ Goto(s, "check")
          /\ UNCHANGED <<file, temp, reads, loop, started, observations>>
       \/ EditFails(s)

-----------------------------------------------------------------------------
(* The tools without the queue and the tracker                             *)

\* _move_impl: one rename, whatever the destination holds.
Move(s) ==
    LET f == tool[s].file
        g == tool[s].dest
    IN  /\ Running(s, "move")
        /\ IF ~file[f].exists THEN Fails(s)
           ELSE /\ file' = [file EXCEPT ![g] = file[f], ![f] =
                              IF f = g THEN file[f] ELSE Absent]
                /\ expected' = [expected EXCEPT ![g] = file[f].marks,
                      ![f] = IF f = g THEN file[f].marks ELSE {}]
                /\ unseen' = [t \in Agent |-> [unseen[t] EXCEPT ![g] =
                      IF t = s THEN @ ELSE @ \cup News(t, g, file[f].marks)]]
                /\ Return(s)
                /\ UNCHANGED <<temp, reads, started, clobbered>>

\* _copy_impl: shutil.copy2 opens the destination and fills it.
Copy(s) ==
    LET f == tool[s].file
        g == tool[s].dest
    IN  /\ Running(s, "copy")
        /\ IF ~file[f].exists \/ f = g THEN Fails(s)
           ELSE /\ file' = [file EXCEPT ![g] =
                      [Content({}, "copy") EXCEPT !.whole = FALSE]]
                /\ expected' = [expected EXCEPT ![g] = {}]
                /\ tool' = [tool EXCEPT ![s].pc = "fill",
                                        ![s].base = file[f].marks]
                /\ UNCHANGED <<temp, reads, loop, started, unseen, clobbered>>

Fill(s) ==
    LET g == tool[s].dest
    IN  /\ Running(s, "fill")
        /\ file' = [file EXCEPT ![g] = Content(tool[s].base, "copy")]
        /\ unseen' = [t \in Agent |-> [unseen[t] EXCEPT ![g] =
              IF t = s THEN @ ELSE @ \cup News(t, g, tool[s].base)]]
        /\ Return(s)
        /\ UNCHANGED <<temp, reads, started, expected, clobbered>>

\* _delete_impl: saferm is a subprocess, and the loop is free meanwhile.
Delete(s) ==
    /\ Running(s, "delete")
    /\ Goto(s, "saferm")
    /\ loop' = {}
    /\ UNCHANGED <<file, temp, reads, started, observations>>

Saferm(s) ==
    LET f == tool[s].file
    IN  /\ Running(s, "saferm")
        /\ file' = [file EXCEPT ![f] = Absent]
        /\ expected' = [expected EXCEPT ![f] = {}]
        /\ tool' = [tool EXCEPT ![s] = Idle]
        /\ UNCHANGED <<temp, reads, loop, started, unseen, clobbered>>

-----------------------------------------------------------------------------
(* Errors and crashes                                                      *)

\* atomic_write's except clause.
CleanUp(s) == Cleaned(s)

\* An OSError of a call of the file system.  multi_edit reports it; otherwise
\* with_transient_retry waits when the error is transient and tries are left.
OsError(s, transient) ==
    /\ tool[s].pc \in {"check", "temp", "rename", "record", "edit",
                       "multi_edit", "hash", "move", "copy"}
    /\ temp' = CleanUp(s)
    /\ IF /\ tool[s].op # "multi_edit"
          /\ transient /\ tool[s].retries < MaxRetries
       THEN /\ tool' = [tool EXCEPT ![s].pc = "backoff", ![s].base = {},
                                    ![s].retries = @ + 1]
            /\ loop' = {}
       ELSE NextEdit(s)
    /\ UNCHANGED <<file, reads, started, observations>>

\* The tool runs again, from the start.
Retry(s) ==
    /\ Running(s, "backoff") /\ loop = {}
    /\ Goto(s, tool[s].op)
    /\ loop' = {s}
    /\ UNCHANGED <<file, temp, reads, started, observations>>

\* The process dies: its sessions, its tracker and its queue are gone, and
\* what it had put aside stays where it is.
Crash ==
    /\ \E s \in Agent : tool[s].pc # "idle"
    /\ tool' = [s \in Agent |-> Idle]
    /\ loop' = {}
    /\ reads' = [s \in Agent |-> [f \in File |-> Unread]]
    /\ temp' = {Orphan : m \in temp}
    /\ UNCHANGED <<file, started, observations>>

-----------------------------------------------------------------------------

FileNext ==
    \/ \E s \in Agent :
          \/ \E op \in {"write", "edit", "delete"}, f \in File :
                Begin(s, op, f, f)
          \/ \E op \in {"multi_edit", "move", "copy"}, f, g \in File :
                Begin(s, op, f, g)
          \/ Write(s) \/ Check(s) \/ WriteTemp(s) \/ Rename(s) \/ Record(s)
          \/ EditRead(s) \/ EditHash(s) \/ Match(s)
          \/ Move(s) \/ Copy(s) \/ Fill(s) \/ Delete(s) \/ Saferm(s)
          \/ Retry(s) \/ \E transient \in BOOLEAN : OsError(s, transient)
    \/ Crash

FileSpec == FileInit /\ [][FileNext]_fileVars

-----------------------------------------------------------------------------
(* Properties                                                              *)

\* No reader and no crash ever finds half of what write or edit stores: a file
\* is incomplete only because copy is filling it, or was stopped doing so.
WholeFiles == \A f \in File : file[f].whole \/ file[f].by = "copy"

\* The edits of the sessions do not undo each other: what an edit put into a
\* file stays until somebody writes, moves, copies or deletes the whole file.
EditsKept == \A f \in File : expected[f] \subseteq file[f].marks

\* A write of the whole file removes nothing that another session put there
\* after the writer last looked at the file.
NoBlindOverwrite == clobbered = {}

\* A tool that fails leaves no temporary file; only a crash does.
NoTempLeft ==
    \A m \in temp \ {Orphan} : \E s \in Agent : Running(s, "rename") /\ Mark(s) = m

\* What the file tools of concurrent sessions, their retries and a crash leave: whole
\* files, every edit, nobody's work overwritten unseen, no temporary file.
FilesSafe == WholeFiles /\ EditsKept /\ NoBlindOverwrite /\ NoTempLeft
=============================================================================
