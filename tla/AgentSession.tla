---------------------------- MODULE AgentSession ----------------------------
(***************************************************************************)
(* One conversation with a model: Transport (the tool-call loop with its   *)
(* retries, suspension and resumption) under Session (turns, transcript,   *)
(* token totals), and create_session, which restores a conversation from   *)
(* its transcript.                                                         *)
(*                                                                         *)
(* The client is the scheduler: it consumes every stream to its end, sends *)
(* at most MaxSends messages on one Session object (the prompt and the     *)
(* hand-off request), may resume a suspended turn, and reopens the         *)
(* conversation by its id for a retry.  The model's answers are a choice.  *)
(* Every API call costs one token.  Sinks only observe events.             *)
(***************************************************************************)
EXTENDS Naturals, Sequences, FiniteSets, FiniteSetsExt

CONSTANTS
    MaxRetries,   \* RetryPolicy.max_retries
    TurnLimits,   \* values of max_history_turns; 0: None
    MaxSends,     \* bound: messages on one Session object
    MaxAnswers,   \* bound: answers of the model
    MaxBlocks,    \* bound: tool calls in one answer
    MaxOpens      \* bound: Session objects

ASSUME AgentSessionAssumption ==
    /\ {MaxRetries, MaxSends, MaxAnswers, MaxBlocks} \subseteq Nat
    /\ MaxOpens \in Nat \ {0}
    /\ TurnLimits \subseteq Nat

VARIABLES
    maxTurns,     \* Transport._max_history_turns
    sessions,     \* Transport._sessions: id -> messages
    phase,
    retry,        \* attempt of _send_streaming_with_retry
    tx,           \* ctx.session_id
    blocks,       \* ctx.pending_tool_blocks
    results,      \* tool_results of the turn's current answer
    cont,         \* Continuation, or NoCont
    resuming,     \* the turn in progress is a resume()
    spent,        \* tokens of the StepFinish of this turn
    replied,      \* the turn in progress has captured the session id
    session,      \* Session: _session_id (0: None), turn_count, total tokens
    sent,         \* messages on this Session object
    opens,
    transcript,   \* id -> its rows of `transcripts`, as they were written
    answers,
    executed,     \* observation: how often each tool call was executed
    abandoned     \* observation: ids whose suspended turn was not resumed

turn == <<retry, tx, blocks, results, cont, resuming, spent, replied>>
client == <<session, sent, opens, transcript>>
sessionVars == <<maxTurns, sessions, phase, turn, client, answers, executed, abandoned>>

CallId == 1 .. MaxAnswers * MaxBlocks
Sid == 1 .. MaxOpens * MaxSends
Call == {"tool", "bad", "await"}
NoCont == [results |-> {}, blocks |-> <<>>, sid |-> 0, messages |-> <<>>]

User == [role |-> "user", calls |-> {}]
Assistant(C) == [role |-> "assistant", calls |-> C]
\* wrap_tool_results of Anthropic and Google: one message of role user.
Results(C) == [role |-> "results", calls |-> C]

\* Rows of conversation s.
RowsOf(s) == transcript[s]

\* The message a transcript row is restored as; tool calls become text.
Restored(e) == IF e.role = "user" THEN User ELSE Assistant({})

\* What the tokens of a list of rows add up to.
TokenSum(rows) ==
    LET sum[i \in 0 .. Len(rows)] ==
            IF i = 0 THEN 0 ELSE sum[i - 1] + rows[i].tokens
    IN  sum[Len(rows)]

TokensOf(s) == TokenSum(RowsOf(s))

\* The messages of role user, which tool results are as well.
TurnStarts(h) == {i \in 1 .. Len(h) : h[i].role # "assistant"}

\* _compact_history: from the max-th last turn start, the first with at most
\* max of them from there on.
Compact(h, max) ==
    LET starts == TurnStarts(h)
        kept == {i \in starts : Cardinality({j \in starts : j >= i}) <= max}
    IN  IF max = 0 \/ Cardinality(starts) <= max THEN h
        ELSE SubSeq(h, Min(kept), Len(h))

SessionInit ==
    /\ maxTurns \in TurnLimits
    /\ sessions = [s \in Sid |-> <<>>]
    /\ phase = "idle"
    /\ retry = 0
    /\ tx = 0
    /\ blocks = <<>>
    /\ results = {}
    /\ cont = NoCont
    /\ resuming = FALSE
    /\ spent = 0
    /\ replied = FALSE
    /\ session = [sid |-> 0, turn |-> 0, total |-> 0]
    /\ sent = 0
    /\ opens = 1
    /\ transcript = [s \in Sid \cup {0} |-> <<>>]
    /\ answers = 0
    /\ executed = [i \in CallId |-> 0]
    /\ abandoned = {}

\* The uuid of a conversation that has none yet: one no message went to.
FreshSid == CHOOSE s \in Sid : /\ sessions[s] = <<>>
                               /\ \A z \in 1 .. s - 1 : sessions[z] # <<>>

-----------------------------------------------------------------------------
(* Client and Session                                                      *)

\* Transport.send up to its loop.
TransportSend(s) ==
    /\ sessions' = [sessions EXCEPT ![s] = Compact(Append(@, User), maxTurns)]
    /\ tx' = s
    /\ retry' = 0
    /\ phase' = "api"

\* Session.send up to its loop.
Send ==
    LET s == IF session.sid = 0 THEN FreshSid ELSE session.sid
    IN  /\ phase = "idle" /\ sent < MaxSends
        /\ TransportSend(s)
        /\ session' = [session EXCEPT !.turn = @ + 1]
        /\ sent' = sent + 1
        /\ resuming' = FALSE /\ spent' = 0 /\ replied' = FALSE
        /\ cont' = NoCont
        /\ abandoned' = IF cont # NoCont THEN abandoned \cup {s} ELSE abandoned
        /\ UNCHANGED <<maxTurns, blocks, results, opens, transcript, answers,
                       executed>>

\* Mutant: what was executed before the suspension is forgotten.
TransportResumeBare ==
    /\ sessions' = [sessions EXCEPT ![cont.sid] = cont.messages]
    /\ tx' = cont.sid
    /\ blocks' = cont.blocks
    /\ results' = {}
    /\ retry' = 0
    /\ phase' = "remaining"

\* Transport.resume up to its loop: the continuation's copy of the history
\* replaces the session's.
TransportResume ==
    /\ sessions' = [sessions EXCEPT ![cont.sid] = cont.messages]
    /\ tx' = cont.sid
    /\ blocks' = cont.blocks
    /\ results' = cont.results
    /\ retry' = 0
    /\ phase' = "remaining"

\* Session.resume up to its loop.
ResumeTurn ==
    /\ phase = "idle" /\ cont # NoCont /\ sent < MaxSends
    /\ TransportResume
    /\ session' = [session EXCEPT !.turn = @ + 1]
    /\ sent' = sent + 1
    /\ resuming' = TRUE /\ spent' = 0 /\ replied' = FALSE
    /\ cont' = NoCont
    /\ UNCHANGED <<maxTurns, opens, transcript, answers, executed, abandoned>>

\* read_session_turn_count: COUNT(*) of the conversation's rows.
TurnCount(s) == Len(RowsOf(s))

\* create_session with the id of the previous session: totals, turn count and
\* history come from the transcript.
Reopen ==
    LET s == session.sid
    IN  /\ phase = "idle" /\ sent > 0 /\ opens < MaxOpens
        /\ opens' = opens + 1
        /\ sent' = 0
        /\ IF s = 0
           THEN /\ session' = [sid |-> 0, turn |-> 0, total |-> 0]
                /\ UNCHANGED sessions
           ELSE /\ session' = [sid |-> s, turn |-> TurnCount(s),
                               total |-> TokensOf(s)]
                /\ sessions' = [sessions EXCEPT ![s] =
                      LET rows == RowsOf(s)
                      IN  [i \in DOMAIN rows |-> Restored(rows[i])]]
        /\ cont' = NoCont
        /\ abandoned' = abandoned \ {s}
        /\ UNCHANGED <<maxTurns, phase, retry, tx, blocks, results, resuming,
                       spent, replied, transcript, answers, executed>>

-----------------------------------------------------------------------------
(* Transport                                                               *)

\* An attempt fails: HTTP 429 or 5xx, a broken connection, or a stream that
\* ended long after its last event.
RetryCall ==
    /\ phase = "api" /\ retry < MaxRetries
    /\ retry' = retry + 1
    /\ UNCHANGED <<maxTurns, sessions, phase, tx, blocks, results, cont, resuming,
                   spent, replied, client, answers, executed, abandoned>>

\* Any other status, or no attempt left: the turn ends without a Result.
CallFails ==
    /\ phase = "api"
    /\ phase' = "end"
    /\ UNCHANGED <<maxTurns, sessions, turn, client, answers, executed,
                   abandoned>>

\* The answer holds tool calls.
AnswerCalls(calls) ==
    LET Id(i) == answers * MaxBlocks + i
    IN  /\ phase = "api" /\ answers < MaxAnswers
        /\ answers' = answers + 1
        /\ sessions' = [sessions EXCEPT ![tx] = Append(@, Assistant({Id(i) : i \in DOMAIN calls}))]
        /\ blocks' = [i \in DOMAIN calls |-> [id |-> Id(i), call |-> calls[i]]]
        /\ results' = {}
        /\ phase' = "tools"
        /\ UNCHANGED <<maxTurns, retry, tx, cont, resuming, spent, replied,
                       client, executed, abandoned>>

\* A call of an unknown tool, or with arguments the schema refuses, has an
\* error for a result; the others are executed, and a ToolError is a result
\* like any other.
Answered(b) ==
    /\ results' = results \cup {b.id}
    /\ executed' = IF b.call = "bad" THEN executed
                   ELSE [executed EXCEPT ![b.id] = @ + 1]

\* One more block is answered; nothing else moves.
NextBlock ==
    /\ blocks # <<>>
    /\ Answered(Head(blocks))
    /\ blocks' = Tail(blocks)
    /\ UNCHANGED <<maxTurns, sessions, phase, retry, tx, cont, resuming, spent,
                   replied, client, answers, abandoned>>

\* All blocks done: the results become one message, and the loop goes on.
AppendResults ==
    /\ blocks = <<>>
    /\ sessions' = [sessions EXCEPT ![tx] = Append(@, Results(results))]
    /\ results' = {}
    /\ phase' = "api"
    /\ retry' = 0
    /\ UNCHANGED <<maxTurns, tx, blocks, cont, resuming, spent, replied,
                   client, answers, executed, abandoned>>

\* The loop of _step_executing_tools over calls that do not suspend.
ExecuteTool == phase = "tools" /\ NextBlock /\ Head(blocks).call # "await"

ToolsDone == phase = "tools" /\ AppendResults

\* The loop of resume(), which does not look at tool.suspending.
ExecuteRemaining == phase = "remaining" /\ NextBlock

RemainingDone == phase = "remaining" /\ AppendResults

\* A row of the turn.
Row(r, n) == [turn |-> session.turn, role |-> r, tokens |-> n]

\* _try_capture_session, reached on Result and SessionSuspended in send().
CaptureSession ==
    /\ session' = [session EXCEPT !.sid = IF @ = 0 /\ ~resuming THEN tx ELSE @,
                                  !.total = @ + spent']
    /\ transcript' =
          IF resuming THEN transcript
          ELSE [transcript EXCEPT ![tx] = Append(@, Row("user", 0))]
    /\ replied' = TRUE

\* Mutant: the suspending call itself stays among the remaining ones.
SuspendBefore ==
    /\ phase = "tools" /\ blocks # <<>> /\ Head(blocks).call = "await"
    /\ Answered(Head(blocks))
    /\ cont' = [results |-> results', blocks |-> blocks, sid |-> tx,
                messages |-> sessions[tx]]
    /\ blocks' = <<>>
    /\ spent' = 0
    /\ CaptureSession
    /\ phase' = "end"
    /\ UNCHANGED <<maxTurns, sessions, retry, tx, resuming, sent, opens,
                   answers, abandoned>>

\* A suspending tool is executed, and the turn stops with a Continuation that
\* holds the results so far and the blocks behind it; SessionSuspended has
\* Session.send capture the id and write the user's row.
Suspend ==
    /\ phase = "tools" /\ blocks # <<>> /\ Head(blocks).call = "await"
    /\ Answered(Head(blocks))
    /\ cont' = [results |-> results', blocks |-> Tail(blocks), sid |-> tx,
                messages |-> sessions[tx]]
    /\ blocks' = <<>>
    /\ spent' = 0
    /\ CaptureSession
    /\ phase' = "end"
    /\ UNCHANGED <<maxTurns, sessions, retry, tx, resuming, sent, opens,
                   answers, abandoned>>

\* The answer is text: StepFinish, which Session adds to its totals, and
\* Result, on which Session.send captures the id.
AnswerText ==
    /\ phase = "api" /\ answers < MaxAnswers
    /\ answers' = answers + 1
    /\ sessions' = [sessions EXCEPT ![tx] = Append(@, Assistant({}))]
    /\ spent' = 1
    /\ CaptureSession
    /\ phase' = "end"
    /\ UNCHANGED <<maxTurns, retry, tx, blocks, results, cont, resuming, sent,
                   opens, executed, abandoned>>

\* A tool raises something other than ToolError: it leaves send() or
\* resume(), and the client gives the Session object up (close).
ToolRaises ==
    /\ phase \in {"tools", "remaining"} /\ blocks # <<>>
    /\ Head(blocks).call # "bad"
    /\ executed' = [executed EXCEPT ![Head(blocks).id] = @ + 1]
    /\ blocks' = <<>>
    /\ results' = {}
    /\ sent' = MaxSends
    /\ phase' = "idle"
    /\ UNCHANGED <<maxTurns, sessions, retry, tx, cont, resuming, spent,
                   replied, session, opens, transcript, answers, abandoned>>

\* What the end of send() appends: nothing when it saw no id.
SendRows == IF replied THEN <<Row("assistant", spent)>> ELSE <<>>

\* What the end of resume() appends.
ResumeRows == <<Row("user", 0), Row("assistant", spent)>>

EndRows == IF resuming THEN ResumeRows ELSE SendRows

\* Mutant: the row holds the session's totals instead of the turn's tokens.
EndTurnTotals ==
    /\ phase = "end"
    /\ transcript' = [transcript EXCEPT ![session.sid] = @ \o
          [i \in DOMAIN EndRows |->
             IF EndRows[i].role = "assistant"
             THEN [EndRows[i] EXCEPT !.tokens = session.total] ELSE EndRows[i]]]
    /\ phase' = "idle"
    /\ retry' = 0 /\ results' = {} /\ spent' = 0
    /\ replied' = FALSE /\ resuming' = FALSE
    /\ UNCHANGED <<maxTurns, sessions, tx, blocks, cont, session, sent, opens,
                   answers, executed, abandoned>>

\* The stream is over, and the turn's rows are written.
EndTurn ==
    /\ phase = "end"
    /\ transcript' = [transcript EXCEPT ![session.sid] = @ \o EndRows]
    /\ phase' = "idle"
    /\ retry' = 0 /\ results' = {} /\ spent' = 0
    /\ replied' = FALSE /\ resuming' = FALSE
    /\ UNCHANGED <<maxTurns, sessions, tx, blocks, cont, session, sent, opens,
                   answers, executed, abandoned>>

\* The task of the session has ended.
SessionOver ==
    /\ phase = "idle" /\ sent = MaxSends /\ opens = MaxOpens
    /\ UNCHANGED sessionVars

Calls == UNION {[1 .. n -> Call] : n \in 1 .. MaxBlocks}

SessionNext ==
    \/ Send
    \/ ResumeTurn
    \/ Reopen
    \/ RetryCall
    \/ CallFails
    \/ \E calls \in Calls : AnswerCalls(calls)
    \/ AnswerText
    \/ ExecuteTool
    \/ ToolsDone
    \/ ExecuteRemaining
    \/ RemainingDone
    \/ Suspend
    \/ ToolRaises
    \/ EndTurn
    \/ SessionOver

SessionSpec == SessionInit /\ [][SessionNext]_sessionVars

-----------------------------------------------------------------------------
(* Properties                                                              *)

Message == [role : {"user", "assistant", "results"}, calls : SUBSET CallId]

\* Every variable has its type.
SessionTypeOK ==
    /\ maxTurns \in TurnLimits
    /\ \A s \in Sid : \A i \in DOMAIN sessions[s] : sessions[s][i] \in Message
    /\ phase \in {"idle", "api", "tools", "remaining", "end"}
    /\ retry \in 0 .. MaxRetries
    /\ tx \in Sid \cup {0}
    /\ \A i \in DOMAIN blocks : blocks[i] \in [id : CallId, call : Call]
    /\ results \subseteq CallId
    /\ cont.sid \in Sid \cup {0}
    /\ session.sid \in Sid \cup {0}
    /\ executed \in [CallId -> Nat]

\* A request the provider accepts: every tool call has its results in the
\* next message, and results answer the calls of the message before them.
Paired(h) ==
    /\ \A i \in DOMAIN h : h[i].role = "assistant" /\ h[i].calls # {} =>
          /\ i < Len(h)
          /\ h[i + 1] = Results(h[i].calls)
    /\ \A i \in DOMAIN h : h[i].role = "results" =>
          i > 1 /\ h[i - 1] = Assistant(h[i].calls)

\* _compact_history counts a message of tool results as the start of a turn,
\* so that a limit above one may cut between a call and its results.
CutInTurn(h) == maxTurns > 1 /\ h # <<>> /\ Head(h).role = "results"

\* Whatever mix of plain, refused and suspending calls a turn went through,
\* and however often it was suspended, trimmed and restored, the history that
\* build_request gets is well paired; only a conversation whose suspended
\* turn was given up in favour of a new message is not, and of a trimmed one
\* at most the first message.
RequestsPaired ==
    (phase = "api" /\ tx \notin abandoned) =>
        LET h == sessions[tx]
        IN  Paired(IF CutInTurn(h) THEN Tail(h) ELSE h)

\* No tool call is executed twice, across suspension and resumption.
CallsExecutedOnce == \A i \in CallId : executed[i] <= 1

\* Between turns, a session's totals are what its transcript adds up to, so
\* that create_session restores the totals of the Session object it replaces.
TotalsRecorded ==
    phase = "idle" => session.total = TokensOf(session.sid)

\* read_transcript orders by the turn: within a conversation the user's rows
\* have increasing turn numbers, whatever turns failed before a restart.
TurnsIncrease ==
    \A s \in Sid : \A i, j \in DOMAIN RowsOf(s) :
        i < j /\ RowsOf(s)[i].role = "user" /\ RowsOf(s)[j].role = "user"
        => RowsOf(s)[i].turn < RowsOf(s)[j].turn

\* What create_session restores is what the session was: its totals, and turn
\* numbers that go on where the last turn left them.
RestoredExactly == SessionTypeOK /\ TotalsRecorded /\ TurnsIncrease
=============================================================================
