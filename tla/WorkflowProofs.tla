--------------------------- MODULE WorkflowProofs ---------------------------
(***************************************************************************)
(* Proofs about AgentSession, for every number of messages, answers, calls *)
(* in an answer, Session objects and retries, and every turn limit; and    *)
(* about WorkflowRun, for every tree of tasks, every dependency graph and  *)
(* every number of signals.                                                *)
(***************************************************************************)
EXTENDS AgentSession, WorkflowRun, FiniteSetTheorems, WellFoundedInduction, TLAPS

Block == [id : CallId, call : Call]
TranscriptRow == [turn : Nat, role : {"user", "assistant"}, tokens : Nat]

\* The conversations that may have been used so far: every message begins at
\* most one.
Used == (opens - 1) * MaxSends + sent

\* The ids that were given to calls so far.
Given == answers * MaxBlocks

IdsOf(bs) == {bs[i].id : i \in DOMAIN bs}

-----------------------------------------------------------------------------
(* AgentSession: the inductive invariant                                   *)

Types ==
    /\ maxTurns \in TurnLimits
    /\ sessions \in [Sid -> Seq(Message)]
    /\ phase \in {"idle", "api", "tools", "remaining", "end"}
    /\ retry \in 0 .. MaxRetries
    /\ tx \in Sid \cup {0}
    /\ blocks \in Seq(Block)
    /\ results \in SUBSET CallId
    /\ cont \in [results : SUBSET CallId, blocks : Seq(Block),
                 sid : Sid \cup {0}, messages : Seq(Message)]
    /\ resuming \in BOOLEAN
    /\ replied \in BOOLEAN
    /\ spent \in Nat
    /\ session = [sid |-> session.sid, turn |-> session.turn,
                  total |-> session.total]
    /\ session.sid \in Sid \cup {0}
    /\ session.turn \in Nat
    /\ sent \in 0 .. MaxSends
    /\ opens \in 1 .. MaxOpens
    /\ transcript \in [Sid \cup {0} -> Seq(TranscriptRow)]
    /\ answers \in 0 .. MaxAnswers
    /\ executed \in [CallId -> Nat]
    /\ abandoned \in SUBSET Sid

\* A conversation that no message went to is empty, so that there is one for
\* the next message.
Room ==
    /\ \A s \in Sid : s > Used => sessions[s] = <<>>
    /\ session.sid <= Used
    /\ tx <= Used

\* A turn in progress is a turn of the session's conversation; a resumed one
\* has an id, and a continuation belongs to a session that has its id.
TurnFits ==
    /\ phase # "idle" => tx # 0
    /\ phase # "idle" /\ session.sid # 0 => tx = session.sid
    /\ phase # "idle" /\ resuming => session.sid # 0
    /\ phase # "idle" /\ replied => session.sid # 0
    /\ phase \in {"api", "tools", "remaining"} => cont = NoCont
    /\ phase \notin {"tools", "remaining"} => blocks = <<>>
    /\ cont # NoCont => cont.sid # 0 /\ cont.sid = session.sid

\* Calls that are still to be executed: different ones that never were.
Pending(bs, ex, given) ==
    /\ \A i, j \in DOMAIN bs : bs[i].id = bs[j].id => i = j
    /\ \A i \in DOMAIN bs : bs[i].id <= given /\ ex[bs[i].id] = 0

CallInv ==
    /\ \A i \in CallId : executed[i] <= 1
    /\ \A i \in CallId : i > Given => executed[i] = 0
    /\ Pending(blocks, executed, Given)
    /\ Pending(cont.blocks, executed, Given)

\* Message i of h is followed by the results of its calls, or answers the
\* calls of the message before it; a limit above one may cut in between.
CallsAnswered(h, i) ==
    h[i].role = "assistant" /\ h[i].calls # {} =>
        i < Len(h) /\ h[i + 1] = Results(h[i].calls)
ResultsAsked(h, i, max) ==
    h[i].role = "results" =>
        \/ i > 1 /\ h[i - 1] = Assistant(h[i].calls)
        \/ i = 1 /\ max > 1

Sound(h, max) ==
    \A i \in DOMAIN h : CallsAnswered(h, i) /\ ResultsAsked(h, i, max)

\* The history of a turn that works on the calls C of its last message.
Dangling(h, C, max) ==
    /\ h # <<>>
    /\ h[Len(h)] = Assistant(C)
    /\ \A i \in DOMAIN h :
          (i < Len(h) => CallsAnswered(h, i)) /\ ResultsAsked(h, i, max)

PairInv ==
    /\ phase = "api" /\ tx \notin abandoned => Sound(sessions[tx], maxTurns)
    /\ phase \in {"tools", "remaining"} /\ tx \notin abandoned =>
          Dangling(sessions[tx], results \cup IdsOf(blocks), maxTurns)
    /\ phase = "end" /\ cont = NoCont /\ tx \notin abandoned =>
          Sound(sessions[tx], maxTurns)
    /\ cont # NoCont /\ cont.sid \notin abandoned =>
          Dangling(cont.messages, cont.results \cup IdsOf(cont.blocks),
                   maxTurns)
    /\ (/\ phase = "idle" /\ cont = NoCont /\ sent < MaxSends
        /\ session.sid # 0 /\ session.sid \notin abandoned)
       => Sound(sessions[session.sid], maxTurns)

SessionInv == Types /\ Room /\ TurnFits /\ CallInv /\ PairInv

-----------------------------------------------------------------------------
(* Lemmas about the operators                                              *)

\* A set of numbers that is not empty has a least one.
LEMMA MinIsLeast ==
    ASSUME NEW S \in SUBSET Nat, S # {}
    PROVE  Min(S) \in S /\ \A y \in S : Min(S) <= y
<1>1. PICK e \in S : \A d \in S : ~(<<d, e>> \in OpToRel(<, Nat))
  BY NatLessThanWellFounded, WFMin, Zenon
<1>2. OpToRel(<, Nat) = {ss \in Nat \X Nat : ss[1] < ss[2]}
  BY Zenon DEF OpToRel
<1>3. ASSUME NEW d \in S PROVE e <= d
  <2>1. <<d, e>> \in Nat \X Nat
    OBVIOUS
  <2>2. ~(d < e)
    BY <1>1, <1>2, <2>1
  <2> QED
    BY <2>2
<1> QED
  BY <1>3 DEF Min

\* What the assumption says of the single constants.
LEMMA ConstantTypes ==
    /\ MaxRetries \in Nat /\ MaxSends \in Nat /\ MaxAnswers \in Nat
    /\ MaxBlocks \in Nat /\ MaxOpens \in Nat /\ MaxOpens >= 1
    /\ TurnLimits \subseteq Nat
    /\ Sid \subseteq Nat /\ CallId \subseteq Nat /\ 0 \notin Sid
<1>1. /\ MaxRetries \in Nat /\ MaxSends \in Nat /\ MaxAnswers \in Nat
      /\ MaxBlocks \in Nat /\ MaxOpens \in Nat /\ MaxOpens >= 1
      /\ TurnLimits \subseteq Nat
  BY AgentSessionAssumption
<1>2. MaxOpens * MaxSends \in Nat /\ MaxAnswers * MaxBlocks \in Nat
  BY <1>1
<1> QED
  BY <1>1, <1>2 DEF Sid, CallId

\* While a Session object may send, there is a conversation for it.
LEMMA RoomLeft ==
    ASSUME NEW o \in 1 .. MaxOpens, NEW n \in 0 .. MaxSends, n < MaxSends
    PROVE  (o - 1) * MaxSends + n + 1 \in Sid
<1>1. (o - 1) * MaxSends + MaxSends = o * MaxSends
  BY ConstantTypes
<1>2. o * MaxSends <= MaxOpens * MaxSends
  BY ConstantTypes
<1>3. (o - 1) * MaxSends \in Nat /\ o * MaxSends \in Nat /\ MaxOpens * MaxSends \in Nat
  BY ConstantTypes
<1> QED
  BY <1>1, <1>2, <1>3, ConstantTypes DEF Sid

\* What the types say of the counters and of the Session object.
LEMMA PlainTypes ==
    ASSUME Types
    PROVE  /\ sent \in Nat /\ sent <= MaxSends
           /\ opens \in Nat /\ opens >= 1 /\ opens <= MaxOpens
           /\ answers \in Nat /\ answers <= MaxAnswers
           /\ session.sid \in Sid \cup {0} /\ session.sid \in Nat
           /\ session.turn \in Nat
           /\ session = [sid |-> session.sid, turn |-> session.turn,
                         total |-> session.total]
           /\ tx \in Nat /\ maxTurns \in Nat
<1>1. /\ sent \in 0 .. MaxSends /\ opens \in 1 .. MaxOpens
      /\ answers \in 0 .. MaxAnswers /\ tx \in Sid \cup {0}
      /\ session.sid \in Sid \cup {0} /\ session.turn \in Nat
      /\ session = [sid |-> session.sid, turn |-> session.turn,
                    total |-> session.total]
      /\ maxTurns \in TurnLimits
  BY DEF Types
<1>2. /\ sent \in Nat /\ sent <= MaxSends
      /\ opens \in Nat /\ opens >= 1 /\ opens <= MaxOpens
      /\ answers \in Nat /\ answers <= MaxAnswers
  BY <1>1, ConstantTypes
<1>3. session.sid \in Sid \cup {0}
  BY <1>1
<1>4. Sid \cup {0} \subseteq Nat /\ TurnLimits \subseteq Nat
  BY ConstantTypes
<1>5. tx \in Nat /\ session.sid \in Nat /\ maxTurns \in Nat
  BY <1>1, <1>3, <1>4, Zenon
<1> QED
  BY <1>1, <1>2, <1>3, <1>5

\* The uuid of a new conversation is one that no message went to.
LEMMA FreshIsEmpty ==
    ASSUME Types, Room, sent < MaxSends
    PROVE  FreshSid \in Sid /\ sessions[FreshSid] = <<>> /\ FreshSid <= Used + 1
<1> DEFINE n == Used + 1
           S == {s \in Sid : sessions[s] = <<>>}
<1>0. Used \in Nat
  <2>1. (opens - 1) * MaxSends \in Nat
    BY PlainTypes, ConstantTypes
  <2>2. sent \in Nat
    BY PlainTypes
  <2> QED
    BY <2>1, <2>2 DEF Used
<1>1. n \in Sid
  BY RoomLeft DEF Types, Used
<1>2. n \in S
  BY <1>0, <1>1 DEF Room
<1>3. S \in SUBSET Nat
  BY ConstantTypes
<1> DEFINE m == Min(S)
<1>4. m \in S /\ \A y \in S : m <= y
  BY <1>2, <1>3, MinIsLeast
<1>5. m \in Sid /\ sessions[m] = <<>> /\ m <= n
  BY <1>2, <1>4
<1>6. \A z \in 1 .. m - 1 : sessions[z] # <<>>
  <2> SUFFICES ASSUME NEW z \in 1 .. m - 1, sessions[z] = <<>> PROVE FALSE
    OBVIOUS
  <2>1. m \in Nat /\ m <= MaxOpens * MaxSends /\ MaxOpens * MaxSends \in Nat
    BY <1>5, ConstantTypes DEF Sid
  <2>2. z \in Sid
    BY <2>1 DEF Sid
  <2> QED
    BY <1>4, <2>1, <2>2
<1>7. PICK f \in Sid : f = FreshSid /\ sessions[f] = <<>>
                     /\ \A z \in 1 .. f - 1 : sessions[z] # <<>>
  BY <1>5, <1>6 DEF FreshSid
<1>8. f <= n
  <2> SUFFICES ASSUME ~(f <= n) PROVE FALSE
    OBVIOUS
  <2>1. f \in Nat /\ n \in Nat /\ n >= 1
    BY <1>0, ConstantTypes
  <2>2. n \in 1 .. f - 1
    BY <2>1
  <2> QED
    BY <1>2, <1>7, <2>2
<1> QED
  BY <1>7, <1>8

-----------------------------------------------------------------------------
(* Histories                                                               *)

\* Of a history with an answered turn or none, every part that begins with a
\* user's message is one; with a limit above one, so is every part that
\* begins with results.
LEMMA SuffixSound ==
    ASSUME NEW h \in Seq(Message), NEW max \in Nat, Sound(h, max),
           NEW b \in 1 .. Len(h), h[b].role # "assistant",
           h[b].role = "results" => max > 1
    PROVE  /\ SubSeq(h, b, Len(h)) \in Seq(Message)
           /\ Sound(SubSeq(h, b, Len(h)), max)
<1> DEFINE g == SubSeq(h, b, Len(h))
<1>1. /\ g \in Seq(Message) /\ Len(g) = Len(h) - b + 1
      /\ \A i \in 1 .. Len(g) : g[i] = h[b + i - 1]
  OBVIOUS
<1>0. /\ DOMAIN g = 1 .. Len(g) /\ DOMAIN h = 1 .. Len(h)
      /\ Len(h) \in Nat /\ Len(g) \in Nat /\ b \in Nat
  BY <1>1
<1> HIDE DEF g
<1>2. ASSUME NEW i \in DOMAIN g PROVE CallsAnswered(g, i)
  <2>1. i \in 1 .. Len(g) /\ b + i - 1 \in DOMAIN h /\ i \in Nat
    BY <1>1, <1>0
  <2>2. CallsAnswered(h, b + i - 1)
    BY <2>1 DEF Sound
  <2>3. b + i - 1 < Len(h) => i < Len(g) /\ g[i + 1] = h[b + i - 1 + 1]
    <3> SUFFICES ASSUME b + i - 1 < Len(h)
                 PROVE  i < Len(g) /\ g[i + 1] = h[b + i - 1 + 1]
      OBVIOUS
    <3>1. Len(g) = Len(h) - b + 1
      BY <1>1
    <3>2. i < Len(g) /\ i + 1 \in 1 .. Len(g) /\ b + (i + 1) - 1 = b + i - 1 + 1
      BY <1>0, <2>1, <3>1
    <3>3. g[i + 1] = h[b + (i + 1) - 1]
      BY <1>1, <3>2, Zenon
    <3> QED
      BY <3>2, <3>3, Zenon
  <2> QED
    BY <1>1, <2>1, <2>2, <2>3 DEF CallsAnswered
<1>3. ASSUME NEW i \in DOMAIN g PROVE ResultsAsked(g, i, max)
  <2>1. i \in 1 .. Len(g) /\ b + i - 1 \in DOMAIN h /\ i \in Nat
    BY <1>1, <1>0
  <2>2. ResultsAsked(h, b + i - 1, max)
    BY <2>1 DEF Sound
  <2>3. CASE i = 1
    <3>1. g[i] = h[b + i - 1]
      BY <1>1, <2>1, Zenon
    <3>2. b + i - 1 = b
      BY <1>0, <2>3
    <3> QED
      BY <2>3, <3>1, <3>2 DEF ResultsAsked
  <2>4. CASE i > 1
    <3>1. g[i] = h[b + i - 1] /\ g[i - 1] = h[b + i - 1 - 1] /\ b + i - 1 > 1
      BY <1>1, <1>0, <2>1, <2>4
    <3> QED
      BY <1>0, <2>1, <2>2, <2>4, <3>1 DEF ResultsAsked
  <2> QED
    BY <2>1, <2>3, <2>4
<1>4. Sound(g, max)
  BY <1>2, <1>3 DEF Sound
<1> QED
  BY <1>1, <1>4 DEF g

\* A message behind a well paired history, and what it does to the pairing.
LEMMA AppendKeeps ==
    ASSUME NEW h \in Seq(Message), NEW max \in Nat, Sound(h, max),
           NEW msg \in Message, msg.role # "results"
    PROVE  /\ Append(h, msg) \in Seq(Message)
           /\ msg.calls = {} => Sound(Append(h, msg), max)
           /\ \A C : msg = Assistant(C) => Dangling(Append(h, msg), C, max)
<1> DEFINE g == Append(h, msg)
<1>1. /\ g \in Seq(Message) /\ Len(g) = Len(h) + 1 /\ g[Len(g)] = msg
      /\ \A i \in 1 .. Len(h) : g[i] = h[i]
  OBVIOUS
<1> HIDE DEF g
<1>2. DOMAIN h = 1 .. Len(h) /\ DOMAIN g = 1 .. Len(g) /\ Len(h) \in Nat
  BY <1>1
<1>3. ASSUME NEW i \in DOMAIN g, i < Len(g) PROVE CallsAnswered(g, i)
  <2>1. i \in DOMAIN h /\ CallsAnswered(h, i) /\ g[i] = h[i]
    BY <1>1, <1>2, <1>3 DEF Sound
  <2>2. i < Len(h) => g[i + 1] = h[i + 1]
    BY <1>1, <1>2, <2>1
  <2> QED
    BY <1>1, <1>2, <1>3, <2>1, <2>2 DEF CallsAnswered
<1>4. ASSUME NEW i \in DOMAIN g PROVE ResultsAsked(g, i, max)
  <2>1. CASE i = Len(g)
    BY <1>1, <2>1 DEF ResultsAsked
  <2>2. CASE i # Len(g)
    <3>1. i \in DOMAIN h /\ ResultsAsked(h, i, max) /\ g[i] = h[i]
      BY <1>1, <1>2, <2>2 DEF Sound
    <3>2. i > 1 => g[i - 1] = h[i - 1]
      BY <1>1, <1>2, <3>1
    <3> QED
      BY <1>2, <3>1, <3>2 DEF ResultsAsked
  <2> QED
    BY <2>1, <2>2
<1>5. msg.calls = {} => Sound(g, max)
  <2> SUFFICES ASSUME msg.calls = {}, NEW i \in DOMAIN g
               PROVE  CallsAnswered(g, i) /\ ResultsAsked(g, i, max)
    BY DEF Sound
  <2>1. CASE i = Len(g)
    BY <1>1, <1>4, <2>1 DEF CallsAnswered
  <2>2. CASE i # Len(g)
    BY <1>2, <1>3, <1>4, <2>2
  <2> QED
    BY <2>1, <2>2
<1>6. ASSUME NEW C, msg = Assistant(C) PROVE Dangling(g, C, max)
  BY <1>1, <1>2, <1>3, <1>4, <1>6 DEF Dangling
<1> QED
  BY <1>1, <1>5, <1>6 DEF g

\* The results of all calls make the turn's history well paired.
LEMMA ResultsComplete ==
    ASSUME NEW h \in Seq(Message), NEW max \in Nat, NEW C \in SUBSET CallId,
           Dangling(h, C, max)
    PROVE  Sound(Append(h, Results(C)), max)
<1> DEFINE g == Append(h, Results(C))
<1>0. Results(C) \in Message
  BY DEF Results, Message
<1>1. /\ g \in Seq(Message) /\ Len(g) = Len(h) + 1 /\ g[Len(g)] = Results(C)
      /\ \A i \in 1 .. Len(h) : g[i] = h[i]
  BY <1>0
<1> HIDE DEF g
<1>2. /\ DOMAIN h = 1 .. Len(h) /\ DOMAIN g = 1 .. Len(g) /\ Len(h) \in Nat
      /\ Len(h) > 0 /\ h[Len(h)] = Assistant(C)
  BY <1>1 DEF Dangling
<1>3. ASSUME NEW i \in DOMAIN g PROVE CallsAnswered(g, i)
  <2>1. CASE i = Len(g)
    BY <1>1, <2>1 DEF CallsAnswered, Results
  <2>2. CASE i = Len(h)
    <3>1. g[i] = Assistant(C) /\ i < Len(g) /\ g[i + 1] = Results(C)
      BY <1>1, <1>2, <2>2
    <3> QED
      BY <3>1 DEF CallsAnswered, Assistant
  <2>3. CASE i < Len(h)
    <3>1. i \in DOMAIN h /\ CallsAnswered(h, i) /\ g[i] = h[i]
      BY <1>1, <1>2, <2>3 DEF Dangling
    <3>2. g[i + 1] = h[i + 1]
      BY <1>1, <1>2, <2>3
    <3> QED
      BY <1>1, <1>2, <2>3, <3>1, <3>2 DEF CallsAnswered
  <2> QED
    BY <1>1, <1>2, <2>1, <2>2, <2>3
<1>4. ASSUME NEW i \in DOMAIN g PROVE ResultsAsked(g, i, max)
  <2>1. CASE i = Len(g)
    <3>1. i > 1 /\ g[i] = Results(C) /\ g[i - 1] = Assistant(C)
      BY <1>1, <1>2, <2>1
    <3> QED
      BY <3>1 DEF ResultsAsked, Results
  <2>2. CASE i # Len(g)
    <3>1. i \in DOMAIN h /\ ResultsAsked(h, i, max) /\ g[i] = h[i]
      BY <1>1, <1>2, <2>2 DEF Dangling
    <3>2. i > 1 => g[i - 1] = h[i - 1]
      BY <1>1, <1>2, <3>1
    <3> QED
      BY <1>2, <3>1, <3>2 DEF ResultsAsked
  <2> QED
    BY <2>1, <2>2
<1> QED
  BY <1>3, <1>4 DEF g, Sound

\* _compact_history leaves a history, and a well paired one when it was: with
\* limit one it keeps the new message alone.
LEMMA CompactKeeps ==
    ASSUME NEW h \in Seq(Message), NEW max \in Nat, h # <<>>, h[Len(h)] = User
    PROVE  /\ Compact(h, max) \in Seq(Message)
           /\ Sound(h, max) => Sound(Compact(h, max), max)
<1> DEFINE starts == TurnStarts(h)
           From(i) == {j \in starts : j >= i}
           kept == {i \in starts : Cardinality(From(i)) <= max}
           b == Min(kept)
<1>1. CASE max = 0 \/ Cardinality(starts) <= max
  BY <1>1 DEF Compact
<1>2. CASE ~(max = 0 \/ Cardinality(starts) <= max)
  <2>1. Len(h) \in Nat /\ Len(h) >= 1 /\ starts \subseteq 1 .. Len(h)
    BY DEF TurnStarts
  <2>2. Len(h) \in starts
    BY <2>1 DEF TurnStarts, User
  <2>3. IsFiniteSet(1 .. Len(h))
    BY <2>1, FS_Interval
  <2>4. ASSUME NEW i \in starts PROVE IsFiniteSet(From(i)) /\ Cardinality(From(i)) \in Nat
    <3>1. From(i) \in SUBSET (1 .. Len(h))
      BY <2>1
    <3>2. IsFiniteSet(From(i))
      BY <2>3, <3>1, FS_Subset
    <3> QED
      BY <3>2, FS_CardinalityType
  <2>5. From(Len(h)) = {Len(h)}
    BY <2>1, <2>2
  <2>6. Cardinality(From(Len(h))) = 1
    BY <2>5, FS_Singleton
  <2>7. Len(h) \in kept
    BY <1>2, <2>2, <2>6
  <2>8. kept \in SUBSET Nat
    BY <2>1
  <2>9. b \in kept
    BY <2>7, <2>8, MinIsLeast
  <2> HIDE DEF b
  <2>10. b \in 1 .. Len(h) /\ h[b].role # "assistant"
    BY <2>9 DEF TurnStarts
  <2>11. max = 1 => b = Len(h)
    <3> SUFFICES ASSUME max = 1, b # Len(h) PROVE FALSE
      OBVIOUS
    <3>1. Cardinality(From(b)) <= 1 /\ b \in starts
      BY <2>9
    <3>2. IsFiniteSet(From(b)) /\ Cardinality(From(b)) \in Nat
      BY <2>4, <3>1
    <3>3. {Len(h)} \in SUBSET From(b) /\ b \in From(b)
      BY <2>1, <2>2, <2>10, <3>1
    <3>4. Cardinality({Len(h)}) = 1
      BY FS_Singleton
    <3> HIDE DEF From
    <3>5. Cardinality({Len(h)}) <= Cardinality(From(b))
      BY <3>2, <3>3, FS_Subset
    <3>6. Cardinality(From(b)) = Cardinality({Len(h)})
      BY <3>1, <3>2, <3>4, <3>5
    <3>7. From(b) = {Len(h)}
      BY <3>2, <3>3, <3>6, FS_Subset
    <3> QED
      BY <3>3, <3>7
  <2>12. h[b].role = "results" => max > 1
    BY <1>2, <2>11 DEF User
  <2>13. Compact(h, max) = SubSeq(h, b, Len(h))
    BY <1>2 DEF Compact, b
  <2>14. SubSeq(h, b, Len(h)) \in Seq(Message)
    BY <2>10
  <2>15. Sound(h, max) => Sound(SubSeq(h, b, Len(h)), max)
    BY <2>10, <2>12, SuffixSound
  <2> QED
    BY <2>13, <2>14, <2>15
<1> QED
  BY <1>1, <1>2

\* A history that is well paired in the sense of the invariant is one that
\* the provider accepts, but for a first message that limits above one leave.
LEMMA SoundIsPaired ==
    ASSUME NEW h \in Seq(Message), maxTurns \in Nat, Sound(h, maxTurns)
    PROVE  Paired(IF CutInTurn(h) THEN Tail(h) ELSE h)
<1>1. DOMAIN h = 1 .. Len(h) /\ Len(h) \in Nat
  OBVIOUS
<1>2. CASE CutInTurn(h)
  <2> DEFINE g == Tail(h)
  <2>1. /\ h # <<>> /\ g \in Seq(Message) /\ Len(g) = Len(h) - 1
        /\ DOMAIN g = 1 .. Len(g) /\ Len(g) \in Nat
        /\ \A i \in 1 .. Len(g) : g[i] = h[i + 1]
    BY <1>2 DEF CutInTurn
  <2> HIDE DEF g
  <2>2. ASSUME NEW i \in DOMAIN g, g[i].role = "assistant", g[i].calls # {}
        PROVE  i < Len(g) /\ g[i + 1] = Results(g[i].calls)
    <3>1. i + 1 \in DOMAIN h /\ CallsAnswered(h, i + 1) /\ g[i] = h[i + 1]
      BY <1>1, <2>1 DEF Sound
    <3>2. i + 1 < Len(h) /\ h[i + 2] = Results(g[i].calls)
      BY <1>1, <2>1, <2>2, <3>1 DEF CallsAnswered
    <3> QED
      BY <1>1, <2>1, <3>2
  <2>3. ASSUME NEW i \in DOMAIN g, g[i].role = "results"
        PROVE  i > 1 /\ g[i - 1] = Assistant(g[i].calls)
    <3>1. i + 1 \in DOMAIN h /\ ResultsAsked(h, i + 1, maxTurns) /\ g[i] = h[i + 1]
      BY <1>1, <2>1 DEF Sound
    <3>2. h[i] = Assistant(g[i].calls)
      BY <1>1, <2>1, <2>3, <3>1 DEF ResultsAsked
    <3>3. i # 1
      BY <1>2, <2>1, <3>2 DEF CutInTurn, Assistant
    <3> QED
      BY <1>1, <2>1, <3>2, <3>3
  <2> QED
    BY <1>2, <2>2, <2>3 DEF Paired, g
<1>3. CASE ~CutInTurn(h)
  <2>1. ASSUME NEW i \in DOMAIN h, h[i].role = "results"
        PROVE  i > 1 /\ h[i - 1] = Assistant(h[i].calls)
    <3>1. ResultsAsked(h, i, maxTurns)
      BY DEF Sound
    <3>2. ~(i = 1 /\ maxTurns > 1)
      BY <1>1, <1>3, <2>1 DEF CutInTurn
    <3> QED
      BY <2>1, <3>1, <3>2 DEF ResultsAsked
  <2>2. \A i \in DOMAIN h : CallsAnswered(h, i)
    BY DEF Sound
  <2> QED
    BY <1>3, <2>1, <2>2 DEF Paired, CallsAnswered
<1> QED
  BY <1>2, <1>3

-----------------------------------------------------------------------------
(* Steps of the client and of Session                                      *)

\* The counters of conversations and calls are numbers.
LEMMA CountsAreNumbers ==
    ASSUME Types PROVE Used \in Nat /\ Given \in Nat
<1>1. opens - 1 \in Nat /\ sent \in Nat /\ answers \in Nat
  BY PlainTypes
<1>2. (opens - 1) * MaxSends \in Nat /\ answers * MaxBlocks \in Nat
  BY <1>1, ConstantTypes
<1> QED
  BY <1>1, <1>2 DEF Used, Given

\* The next message is one more.
LEMMA UsedGrows ==
    ASSUME Types, sent' = sent + 1, opens' = opens, sent < MaxSends
    PROVE  Used' = Used + 1 /\ sent' \in 0 .. MaxSends
<1>1. (opens - 1) * MaxSends \in Nat /\ sent \in Nat /\ MaxSends \in Nat
  BY PlainTypes, ConstantTypes
<1> QED
  BY <1>1 DEF Used

\* A turn counts.
LEMMA TurnCounted ==
    ASSUME Types, session' = [session EXCEPT !.turn = @ + 1]
    PROVE  /\ session' = [sid |-> session'.sid, turn |-> session'.turn,
                          total |-> session'.total]
           /\ session'.sid \in Sid \cup {0} /\ session'.turn \in Nat
           /\ session'.sid = session.sid
<1>1. session' = [sid |-> session.sid, turn |-> session.turn + 1,
                  total |-> session.total]
  BY PlainTypes
<1> QED
  BY <1>1, PlainTypes

\* No call is pending without a continuation.
LEMMA NothingPending ==
    ASSUME NEW ex, NEW n PROVE Pending(<<>>, ex, n) /\ Pending(NoCont.blocks, ex, n)
BY DEF Pending, NoCont

\* The messages of the model and of the client.
LEMMA MessageTypes ==
    /\ User \in Message /\ User.role = "user" /\ User.calls = {}
    /\ \A C \in SUBSET CallId : /\ Assistant(C) \in Message
                                /\ Assistant(C).role = "assistant"
                                /\ Assistant(C).calls = C
    /\ \A C \in SUBSET CallId : Results(C) \in Message
BY DEF User, Assistant, Results, Message

LEMMA SendKeeps ==
    ASSUME SessionInv, Send PROVE SessionInv'
<1> DEFINE s == IF session.sid = 0 THEN FreshSid ELSE session.sid
           h == Append(sessions[s], User)
           c == Compact(h, maxTurns)
<1>0. Types /\ Room /\ TurnFits /\ CallInv /\ PairInv
  BY DEF SessionInv
<1>1. /\ phase = "idle" /\ sent < MaxSends
      /\ sessions' = [sessions EXCEPT ![s] = c]
      /\ tx' = s /\ retry' = 0 /\ phase' = "api"
      /\ session' = [session EXCEPT !.turn = @ + 1]
      /\ sent' = sent + 1
      /\ resuming' = FALSE /\ spent' = 0 /\ replied' = FALSE
      /\ cont' = NoCont
      /\ abandoned' = IF cont # NoCont THEN abandoned \cup {s} ELSE abandoned
      /\ UNCHANGED <<maxTurns, blocks, results, opens, transcript, answers, executed>>
  <2>1. sessions \in [Sid -> Seq(Message)]
    BY <1>0 DEF Types
  <2> QED
    BY <2>1 DEF Send, TransportSend
<1>2. Used \in Nat /\ Given \in Nat
  BY <1>0, CountsAreNumbers
<1>3. s \in Sid /\ s <= Used + 1
  <2>1. session.sid \in Sid \cup {0} /\ session.sid <= Used
    BY <1>0 DEF Types, Room
  <2>2. session.sid = 0 => FreshSid \in Sid /\ FreshSid <= Used + 1
    BY <1>0, <1>1, FreshIsEmpty
  <2> QED
    BY <1>0, <1>2, <2>1, <2>2, PlainTypes
<1> HIDE DEF s
<1>4. sessions[s] \in Seq(Message) /\ maxTurns \in Nat
  BY <1>0, <1>3, ConstantTypes DEF Types
<1>5. h \in Seq(Message) /\ h # <<>> /\ h[Len(h)] = User
  BY <1>4, MessageTypes
<1>6. c \in Seq(Message) /\ (Sound(h, maxTurns) => Sound(c, maxTurns))
  BY <1>4, <1>5, CompactKeeps
<1>7. s \notin abandoned' => Sound(c, maxTurns)
  <2> SUFFICES ASSUME s \notin abandoned' PROVE Sound(sessions[s], maxTurns)
    BY <1>4, <1>6, AppendKeeps, MessageTypes
  <2>1. cont = NoCont /\ s \notin abandoned
    BY <1>1
  <2>2. CASE session.sid = 0
    <3>1. sessions[s] = <<>>
      BY <1>0, <1>1, <2>2, FreshIsEmpty DEF s
    <3> QED
      BY <3>1 DEF Sound
  <2>3. CASE session.sid # 0
    BY <1>0, <1>1, <2>1, <2>3 DEF PairInv, s
  <2> QED
    BY <2>2, <2>3
<1> HIDE DEF c
<1>8. Types'
  <2>1. sessions' \in [Sid -> Seq(Message)]
    BY <1>0, <1>1, <1>6 DEF Types
  <2>2. /\ session' = [sid |-> session'.sid, turn |-> session'.turn,
                        total |-> session'.total]
        /\ session'.sid \in Sid \cup {0} /\ session'.turn \in Nat
    BY <1>0, <1>1, TurnCounted
  <2>3. cont' \in [results : SUBSET CallId, blocks : Seq(Block),
                   sid : Sid \cup {0}, messages : Seq(Message)]
    BY <1>1 DEF NoCont
  <2>4. sent' \in 0 .. MaxSends /\ retry' \in 0 .. MaxRetries
    BY <1>0, <1>1, UsedGrows, ConstantTypes
  <2>5. abandoned' \in SUBSET Sid
    BY <1>0, <1>1, <1>3 DEF Types
  <2> QED
    BY <1>0, <1>1, <1>3, <2>1, <2>2, <2>3, <2>4, <2>5 DEF Types
<1>9. Room'
  <2>1. Used' = Used + 1
    BY <1>0, <1>1, UsedGrows
  <2>2. session'.sid = session.sid /\ session.sid \in Nat
    <3>1. /\ session = [sid |-> session.sid, turn |-> session.turn, total |-> session.total]
          /\ session.sid \in Sid \cup {0}
      BY <1>0 DEF Types
    <3>2. session' = [session EXCEPT !.turn = @ + 1]
      BY <1>1
    <3>3. session'.sid = session.sid
      BY <3>1, <3>2
    <3> QED
      BY <3>1, <3>3, ConstantTypes
  <2>3. ASSUME NEW z \in Sid, z > Used' PROVE sessions'[z] = <<>>
    <3>1. z > Used /\ z # s
      BY <1>2, <1>3, <2>1, <2>3, ConstantTypes
    <3> QED
      BY <1>0, <1>1, <3>1 DEF Room, Types
  <2> QED
    BY <1>0, <1>1, <1>2, <1>3, <2>1, <2>2, <2>3 DEF Room
<1>10. TurnFits'
  <2>1. session'.sid = session.sid
    BY <1>0, <1>1 DEF Types
  <2> QED
    BY <1>0, <1>1, <1>3, <2>1, ConstantTypes DEF TurnFits, s
<1>11. CallInv'
  BY <1>0, <1>1, NothingPending DEF CallInv, Given
<1>12. PairInv'
  <2>1. sessions'[s] = c
    BY <1>0, <1>1, <1>3 DEF Types
  <2> QED
    BY <1>1, <1>7, <2>1 DEF PairInv
<1> QED
  BY <1>8, <1>9, <1>10, <1>11, <1>12 DEF SessionInv

LEMMA ResumeKeeps ==
    ASSUME SessionInv, ResumeTurn PROVE SessionInv'
<1>0. Types /\ Room /\ TurnFits /\ CallInv /\ PairInv
  BY DEF SessionInv
<1>1. /\ phase = "idle" /\ cont # NoCont /\ sent < MaxSends
      /\ sessions' = [sessions EXCEPT ![cont.sid] = cont.messages]
      /\ tx' = cont.sid /\ blocks' = cont.blocks /\ results' = cont.results
      /\ retry' = 0 /\ phase' = "remaining"
      /\ session' = [session EXCEPT !.turn = @ + 1]
      /\ sent' = sent + 1
      /\ resuming' = TRUE /\ spent' = 0 /\ replied' = FALSE
      /\ cont' = NoCont
      /\ UNCHANGED <<maxTurns, opens, transcript, answers, executed, abandoned>>
  BY DEF ResumeTurn, TransportResume
<1>2. Used \in Nat /\ Given \in Nat
  BY <1>0, CountsAreNumbers
<1>3. /\ cont.sid \in Sid /\ cont.sid = session.sid /\ cont.sid <= Used
      /\ cont.messages \in Seq(Message) /\ cont.blocks \in Seq(Block)
      /\ cont.results \in SUBSET CallId
  BY <1>0, <1>1 DEF Types, Room, TurnFits
<1>4. session'.sid = session.sid
  BY <1>0, <1>1 DEF Types
<1>5. Types'
  <2>1. sessions' \in [Sid -> Seq(Message)]
    BY <1>0, <1>1, <1>3 DEF Types
  <2>2. /\ session' = [sid |-> session'.sid, turn |-> session'.turn,
                        total |-> session'.total]
        /\ session'.sid \in Sid \cup {0} /\ session'.turn \in Nat
    BY <1>0, <1>1, TurnCounted
  <2>3. cont' \in [results : SUBSET CallId, blocks : Seq(Block),
                   sid : Sid \cup {0}, messages : Seq(Message)]
    BY <1>1 DEF NoCont
  <2>4. sent' \in 0 .. MaxSends /\ retry' \in 0 .. MaxRetries
    BY <1>0, <1>1, UsedGrows, ConstantTypes
  <2> QED
    BY <1>0, <1>1, <1>3, <2>1, <2>2, <2>3, <2>4 DEF Types
<1>6. Room'
  <2>1. Used' = Used + 1
    BY <1>0, <1>1, UsedGrows
  <2>2. ASSUME NEW z \in Sid, z > Used' PROVE sessions'[z] = <<>>
    <3>1. z > Used /\ z # cont.sid
      BY <1>2, <1>3, <2>1, <2>2, ConstantTypes
    <3> QED
      BY <1>0, <1>1, <3>1 DEF Room, Types
  <2>3. cont.sid <= Used'
    BY <1>0, <1>2, <1>3, <2>1, PlainTypes
  <2> QED
    BY <1>1, <1>3, <1>4, <2>2, <2>3 DEF Room
<1>7. TurnFits'
  BY <1>1, <1>3, <1>4, ConstantTypes DEF TurnFits
<1>8. CallInv'
  BY <1>0, <1>1, NothingPending DEF CallInv, Given
<1>9. PairInv'
  <2>1. sessions'[cont.sid] = cont.messages
    BY <1>0, <1>1, <1>3 DEF Types
  <2>2. cont.sid \notin abandoned =>
          Dangling(cont.messages, cont.results \cup IdsOf(cont.blocks), maxTurns)
    BY <1>0, <1>1 DEF PairInv
  <2> QED
    BY <1>1, <2>1, <2>2 DEF PairInv
<1> QED
  BY <1>5, <1>6, <1>7, <1>8, <1>9 DEF SessionInv

\* A new Session object counts its messages from the start.
LEMMA UsedReopened ==
    ASSUME Types, sent' = 0, opens' = opens + 1
    PROVE  Used' \in Nat /\ Used <= Used'
<1>1. (opens - 1) * MaxSends + MaxSends = opens * MaxSends
  BY PlainTypes, ConstantTypes
<1>2. (opens - 1) * MaxSends \in Nat /\ opens * MaxSends \in Nat
  BY PlainTypes, ConstantTypes
<1>3. Used' = opens * MaxSends
  <2>1. opens' - 1 = opens
    BY PlainTypes
  <2> QED
    BY <1>2, <2>1 DEF Used
<1> QED
  BY <1>1, <1>2, <1>3, PlainTypes, ConstantTypes DEF Used

\* A restored history holds text only, which is well paired.
LEMMA RestoredIsSound ==
    ASSUME NEW rows \in Seq(TranscriptRow), NEW max
    PROVE  LET h == [i \in DOMAIN rows |-> Restored(rows[i])]
           IN  h \in Seq(Message) /\ Sound(h, max)
<1> DEFINE h == [i \in DOMAIN rows |-> Restored(rows[i])]
<1>1. \A i \in DOMAIN rows : /\ Restored(rows[i]) \in Message
                             /\ Restored(rows[i]).role # "results"
                             /\ Restored(rows[i]).calls = {}
  BY DEF Restored, User, Assistant, Message
<1>2. DOMAIN rows = 1 .. Len(rows) /\ Len(rows) \in Nat
  OBVIOUS
<1>3. h \in [1 .. Len(rows) -> Message]
  BY <1>1, <1>2
<1>4. h \in Seq(Message)
  BY <1>2, <1>3
<1>5. Sound(h, max)
  BY <1>1 DEF Sound, CallsAnswered, ResultsAsked
<1> QED
  BY <1>4, <1>5

LEMMA ReopenKeeps ==
    ASSUME SessionInv, Reopen PROVE SessionInv'
<1> DEFINE s == session.sid
           rows == RowsOf(s)
           h == [i \in DOMAIN rows |-> Restored(rows[i])]
<1>0. Types /\ Room /\ TurnFits /\ CallInv /\ PairInv
  BY DEF SessionInv
<1>1. /\ phase = "idle" /\ sent > 0 /\ opens < MaxOpens
      /\ opens' = opens + 1 /\ sent' = 0
      /\ cont' = NoCont
      /\ abandoned' = abandoned \ {s}
      /\ UNCHANGED <<maxTurns, phase, retry, tx, blocks, results, resuming,
                     spent, replied, transcript, answers, executed>>
  BY DEF Reopen
<1>2. /\ s = 0 => /\ session' = [sid |-> 0, turn |-> 0, total |-> 0]
                  /\ sessions' = sessions
      /\ s # 0 => /\ session' = [sid |-> s, turn |-> TurnCount(s),
                                total |-> TokensOf(s)]
                  /\ sessions' = [sessions EXCEPT ![s] = h]
  BY DEF Reopen
<1>3. Used \in Nat /\ Used' \in Nat /\ Used <= Used'
  BY <1>0, <1>1, CountsAreNumbers, UsedReopened
<1>4. rows \in Seq(TranscriptRow) /\ s \in Sid \cup {0} /\ s <= Used /\ s \in Nat
  BY <1>0, PlainTypes DEF Types, RowsOf, Room
<1>5. h \in Seq(Message) /\ Sound(h, maxTurns)
  BY <1>4, RestoredIsSound
<1>6. TurnCount(s) \in Nat
  BY <1>4 DEF TurnCount
<1> HIDE DEF h
<1>7. /\ session' = [sid |-> session'.sid, turn |-> session'.turn,
                     total |-> session'.total]
      /\ session'.sid = s /\ session'.turn \in Nat
  BY <1>2, <1>6
<1>8. Types'
  <2>1. sessions' \in [Sid -> Seq(Message)]
    BY <1>0, <1>2, <1>5 DEF Types
  <2>3. cont' \in [results : SUBSET CallId, blocks : Seq(Block),
                   sid : Sid \cup {0}, messages : Seq(Message)]
    BY <1>1 DEF NoCont
  <2>4. sent' \in 0 .. MaxSends /\ opens' \in 1 .. MaxOpens
    BY <1>0, <1>1, PlainTypes, ConstantTypes
  <2>5. abandoned' \in SUBSET Sid
    BY <1>0, <1>1 DEF Types
  <2> QED
    BY <1>0, <1>1, <1>4, <1>7, <2>1, <2>3, <2>4, <2>5 DEF Types
<1>9. Room'
  <2>1. ASSUME NEW z \in Sid, z > Used' PROVE sessions'[z] = <<>>
    <3>1. z > Used /\ z # s
      BY <1>3, <1>4, <2>1, ConstantTypes
    <3> QED
      BY <1>0, <1>2, <3>1 DEF Room, Types
  <2>2. s <= Used' /\ tx <= Used'
    BY <1>0, <1>3, <1>4, PlainTypes DEF Room
  <2> QED
    BY <1>1, <1>7, <2>1, <2>2 DEF Room
<1>10. TurnFits'
  BY <1>0, <1>1 DEF TurnFits
<1>11. CallInv'
  BY <1>0, <1>1, NothingPending DEF CallInv, Given
<1>12. PairInv'
  <2>1. s # 0 => sessions'[s] = h
    BY <1>0, <1>2, <1>4 DEF Types
  <2> QED
    BY <1>1, <1>5, <1>7, <2>1 DEF PairInv
<1> QED
  BY <1>8, <1>9, <1>10, <1>11, <1>12 DEF SessionInv

\* The rows that the end of a turn writes.
LEMMA EndRowTypes ==
    ASSUME Types PROVE EndRows \in Seq(TranscriptRow)
<1>1. \A r \in {"user", "assistant"} : \A n \in Nat : Row(r, n) \in TranscriptRow
  BY PlainTypes DEF Row, TranscriptRow
<1>2. Row("user", 0) \in TranscriptRow /\ Row("assistant", spent) \in TranscriptRow
  BY <1>1 DEF Types
<1> HIDE DEF TranscriptRow
<1>3. /\ <<Row("assistant", spent)>> \in Seq(TranscriptRow)
      /\ <<Row("user", 0), Row("assistant", spent)>> \in Seq(TranscriptRow)
      /\ <<>> \in Seq(TranscriptRow)
  BY <1>2
<1> QED
  BY <1>3 DEF EndRows, ResumeRows, SendRows

LEMMA EndKeeps ==
    ASSUME SessionInv, EndTurn PROVE SessionInv'
<1>0. Types /\ Room /\ TurnFits /\ CallInv /\ PairInv
  BY DEF SessionInv
<1>1. /\ phase = "end" /\ phase' = "idle"
      /\ transcript' = [transcript EXCEPT ![session.sid] = @ \o EndRows]
      /\ retry' = 0 /\ results' = {} /\ spent' = 0
      /\ replied' = FALSE /\ resuming' = FALSE
      /\ UNCHANGED <<maxTurns, sessions, tx, blocks, cont, session, sent, opens,
                     answers, executed, abandoned>>
  BY DEF EndTurn
<1>2. transcript' \in [Sid \cup {0} -> Seq(TranscriptRow)]
  <2>1. /\ transcript \in [Sid \cup {0} -> Seq(TranscriptRow)]
        /\ session.sid \in Sid \cup {0}
    BY <1>0 DEF Types
  <2>2. transcript[session.sid] \o EndRows \in Seq(TranscriptRow)
    BY <1>0, <2>1, EndRowTypes
  <2> QED
    BY <1>1, <2>1, <2>2
<1>3. retry' \in 0 .. MaxRetries
  BY <1>1, ConstantTypes
<1>4. Types'
  BY <1>0, <1>1, <1>2, <1>3 DEF Types
<1>5. Room'
  BY <1>0, <1>1 DEF Room, Used
<1>6. TurnFits'
  BY <1>0, <1>1 DEF TurnFits
<1>7. CallInv'
  BY <1>0, <1>1 DEF CallInv, Given
<1>8. PairInv'
  BY <1>0, <1>1 DEF PairInv, TurnFits
<1> QED
  BY <1>4, <1>5, <1>6, <1>7, <1>8 DEF SessionInv

-----------------------------------------------------------------------------
(* Steps of Transport                                                      *)

LEMMA RetryKeeps ==
    ASSUME SessionInv, RetryCall PROVE SessionInv'
<1>0. Types /\ Room /\ TurnFits /\ CallInv /\ PairInv
  BY DEF SessionInv
<1>1. /\ phase = "api" /\ retry < MaxRetries /\ retry' = retry + 1
      /\ UNCHANGED <<maxTurns, sessions, phase, tx, blocks, results, cont, resuming,
                     spent, replied, session, sent, opens, transcript, answers,
                     executed, abandoned>>
  BY DEF RetryCall, client
<1>2. retry' \in 0 .. MaxRetries
  <2>1. retry \in 0 .. MaxRetries
    BY <1>0 DEF Types
  <2> QED
    BY <1>1, <2>1, ConstantTypes
<1>3. Types'
  BY <1>0, <1>1, <1>2 DEF Types
<1>4. Room' /\ TurnFits'
  BY <1>0, <1>1 DEF Room, Used, TurnFits
<1>5. CallInv' /\ PairInv'
  BY <1>0, <1>1 DEF CallInv, Given, PairInv
<1> QED
  BY <1>3, <1>4, <1>5 DEF SessionInv

LEMMA FailKeeps ==
    ASSUME SessionInv, CallFails PROVE SessionInv'
<1>0. Types /\ Room /\ TurnFits /\ CallInv /\ PairInv
  BY DEF SessionInv
<1>1. /\ phase = "api" /\ phase' = "end"
      /\ UNCHANGED <<maxTurns, sessions, retry, tx, blocks, results, cont,
                     resuming, spent, replied, session, sent, opens, transcript,
                     answers, executed, abandoned>>
  BY DEF CallFails, client, turn
<1>2. Types'
  BY <1>0, <1>1 DEF Types
<1>3. Room' /\ TurnFits'
  BY <1>0, <1>1 DEF Room, Used, TurnFits
<1>4. CallInv' /\ PairInv'
  BY <1>0, <1>1 DEF CallInv, Given, PairInv
<1> QED
  BY <1>2, <1>3, <1>4 DEF SessionInv

\* The ids of the calls of the next answer.
LEMMA NextIds ==
    ASSUME Types, answers < MaxAnswers, NEW i \in 1 .. MaxBlocks
    PROVE  /\ answers * MaxBlocks + i \in CallId
           /\ answers * MaxBlocks + i > Given
           /\ answers * MaxBlocks + i <= (answers + 1) * MaxBlocks
<1>1. answers \in Nat /\ MaxBlocks \in Nat /\ MaxAnswers \in Nat
  BY PlainTypes, ConstantTypes
<1>2. (answers + 1) * MaxBlocks = answers * MaxBlocks + MaxBlocks
  BY <1>1
<1>3. (answers + 1) * MaxBlocks <= MaxAnswers * MaxBlocks
  BY <1>1
<1>4. answers * MaxBlocks \in Nat /\ MaxAnswers * MaxBlocks \in Nat
  BY <1>1
<1> QED
  BY <1>1, <1>2, <1>3, <1>4 DEF CallId, Given

\* More answers, more ids.
LEMMA GivenGrows ==
    ASSUME Types, answers' = answers + 1
    PROVE  Given \in Nat /\ Given' \in Nat /\ Given <= Given'
           /\ Given' = (answers + 1) * MaxBlocks
<1>1. answers \in Nat /\ MaxBlocks \in Nat
  BY PlainTypes, ConstantTypes
<1>2. (answers + 1) * MaxBlocks = answers * MaxBlocks + MaxBlocks
  BY <1>1
<1>3. answers * MaxBlocks \in Nat
  BY <1>1
<1> QED
  BY <1>1, <1>2, <1>3 DEF Given

LEMMA AnswerCallsKeeps ==
    ASSUME SessionInv, NEW calls \in Calls, AnswerCalls(calls) PROVE SessionInv'
<1> DEFINE Id(i) == answers * MaxBlocks + i
           bs == [i \in DOMAIN calls |-> [id |-> Id(i), call |-> calls[i]]]
           C == {Id(i) : i \in DOMAIN calls}
           h == Append(sessions[tx], Assistant(C))
<1>0. Types /\ Room /\ TurnFits /\ CallInv /\ PairInv
  BY DEF SessionInv
<1>1. /\ phase = "api" /\ answers < MaxAnswers /\ answers' = answers + 1
      /\ sessions' = [sessions EXCEPT ![tx] = h]
      /\ blocks' = bs /\ results' = {} /\ phase' = "tools"
      /\ UNCHANGED <<maxTurns, retry, tx, cont, resuming, spent, replied,
                     session, sent, opens, transcript, executed, abandoned>>
  <2>1. sessions \in [Sid -> Seq(Message)]
    BY <1>0 DEF Types
  <2> QED
    BY <2>1 DEF AnswerCalls, client
<1>2. PICK n \in 1 .. MaxBlocks : calls \in [1 .. n -> Call]
  BY DEF Calls
<1>3. DOMAIN calls = 1 .. n /\ n \in Nat /\ 1 .. n \subseteq 1 .. MaxBlocks
  BY <1>2, ConstantTypes
<1>4. \A i \in 1 .. n : Id(i) \in CallId /\ Id(i) > Given /\ Id(i) <= (answers + 1) * MaxBlocks
  BY <1>0, <1>1, <1>3, NextIds
<1>5. C \in SUBSET CallId
  BY <1>3, <1>4
<1>6. bs \in Seq(Block)
  <2>1. bs \in [1 .. n -> Block]
    BY <1>2, <1>3, <1>4 DEF Block
  <2> QED
    BY <1>3, <2>1
<1>7. tx \in Sid /\ sessions[tx] \in Seq(Message) /\ maxTurns \in Nat /\ cont = NoCont
  BY <1>0, <1>1, PlainTypes DEF Types, TurnFits
<1>8. /\ h \in Seq(Message)
      /\ Sound(sessions[tx], maxTurns) => Dangling(h, C, maxTurns)
  <2>1. Assistant(C) \in Message /\ Assistant(C).role = "assistant"
    BY <1>5, MessageTypes
  <2>2. h \in Seq(Message)
    BY <1>7, <2>1
  <2>3. Sound(sessions[tx], maxTurns) => Dangling(h, C, maxTurns)
    BY <1>7, <2>1, AppendKeeps
  <2> QED
    BY <2>2, <2>3
<1>9. IdsOf(bs) = C
  BY DEF IdsOf
<1> HIDE DEF h, C
<1>10. Types'
  <2>1. sessions' \in [Sid -> Seq(Message)]
    BY <1>0, <1>1, <1>8 DEF Types
  <2>2. answers' \in 0 .. MaxAnswers
    BY <1>0, <1>1, PlainTypes, ConstantTypes
  <2> QED
    BY <1>0, <1>1, <1>6, <2>1, <2>2 DEF Types
<1>11. Room'
  <2>1. Used' = Used
    BY <1>1 DEF Used
  <2>2. ASSUME NEW z \in Sid, z > Used' PROVE sessions'[z] = <<>>
    <3>1. z > Used /\ z # tx
      BY <1>0, <2>1, <2>2, CountsAreNumbers, PlainTypes, ConstantTypes, SMTT(30)
      DEF Room
    <3> QED
      BY <1>0, <1>1, <3>1 DEF Room, Types
  <2> QED
    BY <1>0, <1>1, <2>1, <2>2 DEF Room
<1>12. TurnFits'
  BY <1>0, <1>1 DEF TurnFits
<1>13. CallInv'
  <2>1. Given \in Nat /\ Given' \in Nat /\ Given <= Given' /\ Given' = (answers + 1) * MaxBlocks
    BY <1>0, <1>1, GivenGrows
  <2>2. \A i \in CallId : i > Given' => executed'[i] = 0
    BY <1>0, <1>1, <2>1, ConstantTypes DEF CallInv
  <2>3. Pending(bs, executed, Given')
    <3>1. ASSUME NEW i \in DOMAIN bs, NEW j \in DOMAIN bs, bs[i].id = bs[j].id
          PROVE  i = j
      <4>1. Id(i) = Id(j) /\ i \in Nat /\ j \in Nat
        BY <1>3, <3>1
      <4>2. answers * MaxBlocks \in Nat
        BY <2>1 DEF Given
      <4> QED
        BY <4>1, <4>2
    <3>2. ASSUME NEW i \in DOMAIN bs
          PROVE  bs[i].id <= Given' /\ executed[bs[i].id] = 0
      <4>1. bs[i].id = Id(i) /\ i \in 1 .. n
        BY <1>3
      <4>2. Id(i) \in CallId /\ Id(i) > Given /\ Id(i) <= Given'
        BY <1>4, <2>1, <4>1
      <4> QED
        BY <1>0, <4>1, <4>2 DEF CallInv
    <3> QED
      BY <3>1, <3>2 DEF Pending
  <2>4. Pending(cont'.blocks, executed', Given')
    BY <1>1, <1>7, NothingPending
  <2> QED
    BY <1>0, <1>1, <2>2, <2>3, <2>4 DEF CallInv
<1>14. PairInv'
  <2>1. sessions'[tx] = h
    BY <1>0, <1>1, <1>7 DEF Types
  <2>2. results' \cup IdsOf(blocks') = C
    BY <1>1, <1>9
  <2>3. tx \notin abandoned => Dangling(h, C, maxTurns)
    BY <1>0, <1>1, <1>8 DEF PairInv
  <2> QED
    BY <1>1, <1>7, <2>1, <2>2, <2>3 DEF PairInv
<1> QED
  BY <1>10, <1>11, <1>12, <1>13, <1>14 DEF SessionInv

\* The block in hand: it was never executed, the others stay pending when it
\* is, and none is executed twice.
LEMMA HeadExecuted ==
    ASSUME Types, CallInv, blocks # <<>>,
           NEW ex, ex = executed \/ ex = [executed EXCEPT ![Head(blocks).id] = @ + 1]
    PROVE  /\ Head(blocks) \in Block /\ Tail(blocks) \in Seq(Block)
           /\ ex \in [CallId -> Nat]
           /\ \A i \in CallId : ex[i] <= 1
           /\ \A i \in CallId : i > Given => ex[i] = 0
           /\ Pending(Tail(blocks), ex, Given)
           /\ IdsOf(blocks) = IdsOf(Tail(blocks)) \cup {Head(blocks).id}
<1> DEFINE b == Head(blocks)
           t == Tail(blocks)
<1>1. blocks \in Seq(Block) /\ executed \in [CallId -> Nat]
  BY DEF Types
<1>2. /\ b \in Block /\ t \in Seq(Block) /\ b = blocks[1]
      /\ Len(blocks) \in Nat /\ Len(blocks) >= 1 /\ Len(t) = Len(blocks) - 1
      /\ DOMAIN blocks = 1 .. Len(blocks) /\ DOMAIN t = 1 .. Len(t)
      /\ \A i \in 1 .. Len(t) : t[i] = blocks[i + 1]
  BY <1>1
<1> HIDE DEF t, b
<1>3. b.id \in CallId /\ 1 \in DOMAIN blocks
  BY <1>2 DEF Block
<1>4. b.id <= Given /\ executed[b.id] = 0
  BY <1>2, <1>3 DEF CallInv, Pending
<1>5. ex \in [CallId -> Nat] /\ \A i \in CallId : ex[i] = executed[i] \/ (i = b.id /\ ex[i] = 1)
  BY <1>1, <1>3, <1>4 DEF b
<1>6. \A i \in CallId : ex[i] <= 1
  BY <1>5 DEF CallInv
<1>7. \A i \in CallId : i > Given => ex[i] = 0
  BY <1>4, <1>5, CountsAreNumbers, ConstantTypes DEF CallInv
<1>8. \A i \in DOMAIN t : i + 1 \in DOMAIN blocks /\ i + 1 # 1 /\ t[i] = blocks[i + 1]
  BY <1>2
<1>9. Pending(t, ex, Given)
  <2>1. ASSUME NEW i \in DOMAIN t, NEW j \in DOMAIN t, t[i].id = t[j].id
        PROVE  i = j
    <3>1. i + 1 = j + 1
      BY <1>8, <2>1 DEF CallInv, Pending
    <3> QED
      BY <1>2, <3>1
  <2>2. ASSUME NEW i \in DOMAIN t PROVE t[i].id <= Given /\ ex[t[i].id] = 0
    <3>1. i + 1 \in DOMAIN blocks /\ t[i] = blocks[i + 1] /\ i + 1 # 1
      BY <1>8
    <3>2. t[i].id <= Given /\ executed[t[i].id] = 0
      BY <3>1 DEF CallInv, Pending
    <3>3. t[i].id # b.id
      BY <1>2, <1>3, <3>1 DEF CallInv, Pending
    <3>4. t[i].id \in CallId
      <4>1. t[i] \in Block
        BY <1>2
      <4> QED
        BY <4>1 DEF Block
    <3> QED
      BY <1>5, <3>2, <3>3, <3>4
  <2> QED
    BY <2>1, <2>2 DEF Pending
<1>10. IdsOf(blocks) = IdsOf(t) \cup {b.id}
  <2>1. ASSUME NEW x \in IdsOf(blocks) PROVE x \in IdsOf(t) \cup {b.id}
    <3>1. PICK i \in DOMAIN blocks : x = blocks[i].id
      BY <2>1 DEF IdsOf
    <3>2. CASE i = 1
      BY <1>2, <3>1, <3>2
    <3>3. CASE i # 1
      <4>1. i - 1 \in DOMAIN t /\ t[i - 1] = blocks[i]
        BY <1>2, <3>3
      <4> QED
        BY <3>1, <4>1 DEF IdsOf
    <3> QED
      BY <3>2, <3>3
  <2>2. IdsOf(t) \cup {b.id} \subseteq IdsOf(blocks)
    BY <1>2, <1>3, <1>8 DEF IdsOf
  <2> QED
    BY <2>1, <2>2
<1> QED
  BY <1>2, <1>5, <1>6, <1>7, <1>9, <1>10 DEF b, t

LEMMA NextBlockKeeps ==
    ASSUME SessionInv, NextBlock, phase \in {"tools", "remaining"} PROVE SessionInv'
<1> DEFINE b == Head(blocks)
<1>0. Types /\ Room /\ TurnFits /\ CallInv /\ PairInv
  BY DEF SessionInv
<1>1. /\ blocks # <<>> /\ blocks' = Tail(blocks)
      /\ results' = results \cup {b.id}
      /\ executed' = executed \/ executed' = [executed EXCEPT ![b.id] = @ + 1]
      /\ UNCHANGED <<maxTurns, sessions, phase, retry, tx, cont, resuming, spent,
                     replied, session, sent, opens, transcript, answers, abandoned>>
  BY DEF NextBlock, Answered, client
<1>2. /\ b \in Block /\ blocks' \in Seq(Block)
      /\ executed' \in [CallId -> Nat]
      /\ \A i \in CallId : executed'[i] <= 1
      /\ \A i \in CallId : i > Given => executed'[i] = 0
      /\ Pending(blocks', executed', Given)
      /\ IdsOf(blocks) = IdsOf(blocks') \cup {b.id}
  BY <1>0, <1>1, HeadExecuted
<1>3. cont = NoCont
  BY <1>0 DEF TurnFits
<1>4. Types'
  <2>1. results' \in SUBSET CallId
    BY <1>0, <1>1, <1>2 DEF Types, Block
  <2> QED
    BY <1>0, <1>1, <1>2, <2>1 DEF Types
<1>5. Room' /\ TurnFits'
  BY <1>0, <1>1 DEF Room, Used, TurnFits
<1>6. CallInv'
  BY <1>1, <1>2, <1>3, NothingPending DEF CallInv, Given
<1>7. PairInv'
  <2>1. results' \cup IdsOf(blocks') = results \cup IdsOf(blocks)
    BY <1>1, <1>2
  <2> QED
    BY <1>0, <1>1, <2>1 DEF PairInv
<1> QED
  BY <1>4, <1>5, <1>6, <1>7 DEF SessionInv

LEMMA ResultsKeep ==
    ASSUME SessionInv, AppendResults, phase \in {"tools", "remaining"} PROVE SessionInv'
<1> DEFINE h == Append(sessions[tx], Results(results))
<1>0. Types /\ Room /\ TurnFits /\ CallInv /\ PairInv
  BY DEF SessionInv
<1>1. /\ blocks = <<>> /\ results' = {} /\ phase' = "api" /\ retry' = 0
      /\ sessions' = [sessions EXCEPT ![tx] = h]
      /\ UNCHANGED <<maxTurns, tx, blocks, cont, resuming, spent, replied,
                     session, sent, opens, transcript, answers, executed, abandoned>>
  <2>1. sessions \in [Sid -> Seq(Message)]
    BY <1>0 DEF Types
  <2> QED
    BY <2>1 DEF AppendResults, client
<1>2. /\ tx \in Sid /\ sessions[tx] \in Seq(Message) /\ maxTurns \in Nat
      /\ cont = NoCont /\ results \in SUBSET CallId
  BY <1>0, PlainTypes DEF Types, TurnFits
<1>3. h \in Seq(Message)
  BY <1>2, MessageTypes
<1>4. tx \notin abandoned => Sound(h, maxTurns)
  <2> SUFFICES ASSUME tx \notin abandoned PROVE Sound(h, maxTurns)
    OBVIOUS
  <2>1. results \cup IdsOf(blocks) = results
    BY <1>1 DEF IdsOf
  <2>2. Dangling(sessions[tx], results, maxTurns)
    BY <1>0, <2>1 DEF PairInv
  <2> QED
    BY <1>2, <2>2, ResultsComplete
<1> HIDE DEF h
<1>5. Types'
  <2>1. sessions' \in [Sid -> Seq(Message)]
    BY <1>0, <1>1, <1>3 DEF Types
  <2>2. retry' \in 0 .. MaxRetries
    BY <1>1, ConstantTypes
  <2> QED
    BY <1>0, <1>1, <2>1, <2>2 DEF Types
<1>6. Room'
  <2>1. Used' = Used
    BY <1>1 DEF Used
  <2>2. ASSUME NEW z \in Sid, z > Used' PROVE sessions'[z] = <<>>
    <3>1. z > Used /\ z # tx
      BY <1>0, <2>1, <2>2, CountsAreNumbers, PlainTypes, ConstantTypes DEF Room
    <3> QED
      BY <1>0, <1>1, <3>1 DEF Room, Types
  <2> QED
    BY <1>0, <1>1, <2>1, <2>2 DEF Room
<1>7. TurnFits'
  BY <1>0, <1>1 DEF TurnFits
<1>8. CallInv'
  BY <1>0, <1>1 DEF CallInv, Given
<1>9. PairInv'
  <2>1. sessions'[tx] = h
    BY <1>0, <1>1, <1>2 DEF Types
  <2> QED
    BY <1>1, <1>2, <1>4, <2>1 DEF PairInv
<1> QED
  BY <1>5, <1>6, <1>7, <1>8, <1>9 DEF SessionInv

\* A tool that raises ends the Session object; the history it leaves is not
\* used again before it is restored.
LEMMA RaiseKeeps ==
    ASSUME SessionInv, ToolRaises PROVE SessionInv'
<1> DEFINE b == Head(blocks)
<1>0. Types /\ Room /\ TurnFits /\ CallInv /\ PairInv
  BY DEF SessionInv
<1>1. /\ phase \in {"tools", "remaining"} /\ blocks # <<>>
      /\ executed' = [executed EXCEPT ![b.id] = @ + 1]
      /\ blocks' = <<>> /\ results' = {} /\ sent' = MaxSends /\ phase' = "idle"
      /\ UNCHANGED <<maxTurns, sessions, retry, tx, cont, resuming, spent,
                     replied, session, opens, transcript, answers, abandoned>>
  BY DEF ToolRaises
<1>2. /\ executed' \in [CallId -> Nat]
      /\ \A i \in CallId : executed'[i] <= 1
      /\ \A i \in CallId : i > Given => executed'[i] = 0
  BY <1>0, <1>1, HeadExecuted
<1>3. cont = NoCont
  BY <1>0, <1>1 DEF TurnFits
<1>4. Types'
  <2>1. sent' \in 0 .. MaxSends
    BY <1>1, ConstantTypes
  <2>2. blocks' \in Seq(Block) /\ results' \in SUBSET CallId /\ phase' = "idle"
    BY <1>1
  <2> QED
    BY <1>0, <1>1, <1>2, <2>1, <2>2 DEF Types
<1>5. Room'
  <2>1. Used \in Nat /\ Used' \in Nat /\ Used <= Used'
    <3>1. (opens - 1) * MaxSends \in Nat
      BY <1>0, PlainTypes, ConstantTypes
    <3>2. sent \in Nat /\ sent <= MaxSends /\ MaxSends \in Nat
      BY <1>0, PlainTypes, ConstantTypes
    <3>3. Used' = (opens - 1) * MaxSends + MaxSends
      BY <1>1 DEF Used
    <3> QED
      BY <3>1, <3>2, <3>3 DEF Used
  <2>2. \A z \in Sid : z > Used' => z > Used
    BY <2>1, ConstantTypes
  <2>3. session.sid <= Used' /\ tx <= Used'
    BY <1>0, <2>1, PlainTypes DEF Room
  <2> QED
    BY <1>0, <1>1, <2>2, <2>3 DEF Room
<1>6. TurnFits'
  BY <1>0, <1>1, <1>3 DEF TurnFits
<1>7. CallInv'
  BY <1>1, <1>2, <1>3, NothingPending DEF CallInv, Given
<1>8. PairInv'
  <2>1. ~(sent' < MaxSends)
    BY <1>1, ConstantTypes
  <2> QED
    BY <1>1, <1>3, <2>1 DEF PairInv
<1> QED
  BY <1>4, <1>5, <1>6, <1>7, <1>8 DEF SessionInv

\* What capturing the session id leaves: the id of the turn, and its row.
LEMMA CaptureTypes ==
    ASSUME Types, TurnFits, phase # "idle", CaptureSession
    PROVE  /\ session' = [sid |-> session'.sid, turn |-> session'.turn,
                          total |-> session'.total]
           /\ session'.sid = tx /\ session'.turn \in Nat
           /\ transcript' \in [Sid \cup {0} -> Seq(TranscriptRow)]
           /\ replied' = TRUE
<1>1. /\ session' = [session EXCEPT
                       !.sid = IF @ = 0 /\ ~resuming THEN tx ELSE @,
                       !.total = @ + spent']
      /\ transcript' =
            IF resuming THEN transcript
            ELSE [transcript EXCEPT ![tx] = Append(@, Row("user", 0))]
      /\ replied' = TRUE
  BY DEF CaptureSession
<1>2. session' = [sid |-> IF session.sid = 0 /\ ~resuming THEN tx ELSE session.sid,
                  turn |-> session.turn, total |-> session.total + spent']
  BY <1>1, PlainTypes
<1>3. tx \in Sid /\ (session.sid # 0 => tx = session.sid) /\ (resuming => session.sid # 0)
  BY DEF Types, TurnFits
<1>4. session'.sid = tx
  BY <1>2, <1>3
<1>5. Row("user", 0) \in TranscriptRow
  BY PlainTypes DEF Row, TranscriptRow
<1>6. transcript' \in [Sid \cup {0} -> Seq(TranscriptRow)]
  <2>1. transcript \in [Sid \cup {0} -> Seq(TranscriptRow)]
    BY DEF Types
  <2>2. Append(transcript[tx], Row("user", 0)) \in Seq(TranscriptRow)
    BY <1>3, <1>5, <2>1
  <2> QED
    BY <1>1, <2>1, <2>2
<1> QED
  BY <1>1, <1>2, <1>4, <1>6, PlainTypes

LEMMA SuspendKeeps ==
    ASSUME SessionInv, Suspend PROVE SessionInv'
<1> DEFINE b == Head(blocks)
<1>0. Types /\ Room /\ TurnFits /\ CallInv /\ PairInv
  BY DEF SessionInv
<1>1. /\ phase = "tools" /\ blocks # <<>>
      /\ results' = results \cup {b.id}
      /\ executed' = executed \/ executed' = [executed EXCEPT ![b.id] = @ + 1]
      /\ cont' = [results |-> results', blocks |-> Tail(blocks), sid |-> tx,
                  messages |-> sessions[tx]]
      /\ blocks' = <<>> /\ spent' = 0 /\ phase' = "end"
      /\ CaptureSession
      /\ UNCHANGED <<maxTurns, sessions, retry, tx, resuming, sent, opens,
                     answers, abandoned>>
  BY DEF Suspend, Answered
<1>2. /\ b \in Block /\ Tail(blocks) \in Seq(Block)
      /\ executed' \in [CallId -> Nat]
      /\ \A i \in CallId : executed'[i] <= 1
      /\ \A i \in CallId : i > Given => executed'[i] = 0
      /\ Pending(Tail(blocks), executed', Given)
      /\ IdsOf(blocks) = IdsOf(Tail(blocks)) \cup {b.id}
  BY <1>0, <1>1, HeadExecuted
<1>3. /\ session' = [sid |-> session'.sid, turn |-> session'.turn,
                     total |-> session'.total]
      /\ session'.sid = tx /\ session'.turn \in Nat
      /\ transcript' \in [Sid \cup {0} -> Seq(TranscriptRow)]
      /\ replied' = TRUE
  BY <1>0, <1>1, CaptureTypes
<1>4. tx \in Sid /\ sessions[tx] \in Seq(Message) /\ tx # 0
  BY <1>0, <1>1 DEF Types, TurnFits
<1>5. results' \in SUBSET CallId
  <2>1. results \in SUBSET CallId /\ b.id \in CallId
    BY <1>0, <1>2 DEF Types, Block
  <2> QED
    BY <1>1, <2>1
<1>6. /\ cont'.sid = tx /\ cont'.messages = sessions[tx]
      /\ cont'.results = results' /\ cont'.blocks = Tail(blocks)
      /\ cont' # NoCont
  BY <1>1, <1>4 DEF NoCont
<1>7. Types'
  <2>1. cont' \in [results : SUBSET CallId, blocks : Seq(Block),
                   sid : Sid \cup {0}, messages : Seq(Message)]
    BY <1>1, <1>2, <1>4, <1>5
  <2>2. blocks' \in Seq(Block) /\ spent' \in Nat
    BY <1>1
  <2> QED
    BY <1>0, <1>1, <1>2, <1>3, <1>4, <1>5, <2>1, <2>2 DEF Types
<1>8. Room'
  BY <1>0, <1>1, <1>3 DEF Room, Used
<1>9. TurnFits'
  BY <1>1, <1>3, <1>4, <1>6 DEF TurnFits
<1>10. CallInv'
  BY <1>1, <1>2, <1>6, NothingPending DEF CallInv, Given
<1>11. PairInv'
  <2>1. cont'.results \cup IdsOf(cont'.blocks) = results \cup IdsOf(blocks)
    BY <1>1, <1>2, <1>6
  <2>2. tx \notin abandoned =>
          Dangling(sessions[tx], results \cup IdsOf(blocks), maxTurns)
    BY <1>0, <1>1 DEF PairInv
  <2> QED
    BY <1>1, <1>6, <2>1, <2>2 DEF PairInv
<1> QED
  BY <1>7, <1>8, <1>9, <1>10, <1>11 DEF SessionInv

LEMMA AnswerTextKeeps ==
    ASSUME SessionInv, AnswerText PROVE SessionInv'
<1> DEFINE h == Append(sessions[tx], Assistant({}))
<1>0. Types /\ Room /\ TurnFits /\ CallInv /\ PairInv
  BY DEF SessionInv
<1>1. /\ phase = "api" /\ answers < MaxAnswers /\ answers' = answers + 1
      /\ sessions' = [sessions EXCEPT ![tx] = h]
      /\ spent' = 1 /\ CaptureSession /\ phase' = "end"
      /\ UNCHANGED <<maxTurns, retry, tx, blocks, results, cont, resuming, sent,
                     opens, executed, abandoned>>
  <2>1. sessions \in [Sid -> Seq(Message)]
    BY <1>0 DEF Types
  <2> QED
    BY <2>1 DEF AnswerText
<1>2. /\ session' = [sid |-> session'.sid, turn |-> session'.turn,
                     total |-> session'.total]
      /\ session'.sid = tx /\ session'.turn \in Nat
      /\ transcript' \in [Sid \cup {0} -> Seq(TranscriptRow)]
      /\ replied' = TRUE
  BY <1>0, <1>1, CaptureTypes
<1>3. tx \in Sid /\ tx # 0 /\ sessions[tx] \in Seq(Message) /\ maxTurns \in Nat /\ cont = NoCont
  BY <1>0, <1>1, PlainTypes DEF Types, TurnFits
<1>4. /\ h \in Seq(Message)
      /\ Sound(sessions[tx], maxTurns) => Sound(h, maxTurns)
  <2>1. /\ Assistant({}) \in Message /\ Assistant({}).role = "assistant"
        /\ Assistant({}).calls = {}
    BY MessageTypes
  <2>2. h \in Seq(Message)
    BY <1>3, <2>1
  <2>3. Sound(sessions[tx], maxTurns) => Sound(h, maxTurns)
    BY <1>3, <2>1, AppendKeeps
  <2> QED
    BY <2>2, <2>3
<1> HIDE DEF h
<1>5. Types'
  <2>1. sessions' \in [Sid -> Seq(Message)]
    BY <1>0, <1>1, <1>4 DEF Types
  <2>2. answers' \in 0 .. MaxAnswers
    BY <1>0, <1>1, PlainTypes, ConstantTypes
  <2>3. spent' \in Nat
    BY <1>1
  <2> QED
    BY <1>0, <1>1, <1>2, <1>3, <2>1, <2>2, <2>3 DEF Types
<1>6. Room'
  <2>1. Used' = Used
    BY <1>1 DEF Used
  <2>2. ASSUME NEW z \in Sid, z > Used' PROVE sessions'[z] = <<>>
    <3>1. z > Used /\ z # tx
      BY <1>0, <2>1, <2>2, CountsAreNumbers, PlainTypes, ConstantTypes DEF Room
    <3> QED
      BY <1>0, <1>1, <3>1 DEF Room, Types
  <2> QED
    BY <1>0, <1>1, <1>2, <2>1, <2>2 DEF Room
<1>7. TurnFits'
  BY <1>0, <1>1, <1>2, <1>3 DEF TurnFits
<1>8. CallInv'
  <2>1. Given \in Nat /\ Given' \in Nat /\ Given <= Given'
    BY <1>0, <1>1, GivenGrows
  <2>2. \A i \in CallId : i > Given' => executed'[i] = 0
    BY <1>0, <1>1, <2>1, ConstantTypes DEF CallInv
  <2>3. blocks' = <<>> /\ cont' = NoCont
    BY <1>0, <1>1, <1>3 DEF TurnFits
  <2> QED
    BY <1>0, <1>1, <2>2, <2>3, NothingPending DEF CallInv
<1>9. PairInv'
  <2>1. sessions'[tx] = h
    BY <1>0, <1>1, <1>3 DEF Types
  <2>2. tx \notin abandoned => Sound(h, maxTurns)
    BY <1>0, <1>1, <1>4 DEF PairInv
  <2> QED
    BY <1>1, <1>3, <2>1, <2>2 DEF PairInv
<1> QED
  BY <1>5, <1>6, <1>7, <1>8, <1>9 DEF SessionInv

-----------------------------------------------------------------------------
(* The theorems                                                            *)

LEMMA StutterKeeps ==
    ASSUME SessionInv, UNCHANGED sessionVars PROVE SessionInv'
<1>0. Types /\ Room /\ TurnFits /\ CallInv /\ PairInv
  BY DEF SessionInv
<1>1. UNCHANGED <<maxTurns, sessions, phase, retry, tx, blocks, results, cont,
                  resuming, spent, replied, session, sent, opens, transcript,
                  answers, executed, abandoned>>
  BY DEF sessionVars, turn, client
<1>2. Types'
  BY <1>0, <1>1 DEF Types
<1>3. Room' /\ TurnFits'
  BY <1>0, <1>1 DEF Room, Used, TurnFits
<1>4. CallInv' /\ PairInv'
  BY <1>0, <1>1 DEF CallInv, Given, PairInv
<1> QED
  BY <1>2, <1>3, <1>4 DEF SessionInv

LEMMA InitHolds == SessionInit => SessionInv
<1> SUFFICES ASSUME SessionInit PROVE SessionInv
  OBVIOUS
<1>1. /\ opens = 1 /\ sent = 0 /\ answers = 0 /\ tx = 0 /\ retry = 0 /\ spent = 0
      /\ phase = "idle" /\ blocks = <<>> /\ results = {} /\ cont = NoCont
      /\ resuming = FALSE /\ replied = FALSE /\ abandoned = {}
      /\ session = [sid |-> 0, turn |-> 0, total |-> 0]
      /\ maxTurns \in TurnLimits
      /\ sessions = [s \in Sid |-> <<>>]
      /\ transcript = [s \in Sid \cup {0} |-> <<>>]
      /\ executed = [i \in CallId |-> 0]
  BY DEF SessionInit
<1>2. Types
  <2>1. /\ sent \in 0 .. MaxSends /\ opens \in 1 .. MaxOpens
        /\ answers \in 0 .. MaxAnswers /\ retry \in 0 .. MaxRetries
    BY <1>1, ConstantTypes
  <2>2. sessions \in [Sid -> Seq(Message)] /\ executed \in [CallId -> Nat]
    BY <1>1
  <2>3. transcript \in [Sid \cup {0} -> Seq(TranscriptRow)]
    BY <1>1
  <2>4. cont \in [results : SUBSET CallId, blocks : Seq(Block),
                  sid : Sid \cup {0}, messages : Seq(Message)]
    BY <1>1 DEF NoCont
  <2>5. blocks \in Seq(Block)
    BY <1>1
  <2> QED
    BY <1>1, <2>1, <2>2, <2>3, <2>4, <2>5 DEF Types
<1>3. Room
  <2>1. Used \in Nat
    BY <1>2, CountsAreNumbers
  <2> QED
    BY <1>1, <2>1 DEF Room
<1>4. TurnFits
  BY <1>1 DEF TurnFits
<1>5. CallInv
  BY <1>1, NothingPending DEF CallInv
<1>6. PairInv
  BY <1>1 DEF PairInv
<1> QED
  BY <1>2, <1>3, <1>4, <1>5, <1>6 DEF SessionInv

LEMMA NextKeeps == SessionInv /\ [SessionNext]_sessionVars => SessionInv'
<1> SUFFICES ASSUME SessionInv, [SessionNext]_sessionVars PROVE SessionInv'
  OBVIOUS
<1>1. CASE Send
  BY <1>1, SendKeeps
<1>2. CASE ResumeTurn
  BY <1>2, ResumeKeeps
<1>3. CASE Reopen
  BY <1>3, ReopenKeeps
<1>4. CASE RetryCall
  BY <1>4, RetryKeeps
<1>5. CASE CallFails
  BY <1>5, FailKeeps
<1>6. CASE \E calls \in Calls : AnswerCalls(calls)
  BY <1>6, AnswerCallsKeeps
<1>7. CASE AnswerText
  BY <1>7, AnswerTextKeeps
<1>8. CASE ExecuteTool \/ ExecuteRemaining
  BY <1>8, NextBlockKeeps DEF ExecuteTool, ExecuteRemaining
<1>9. CASE ToolsDone \/ RemainingDone
  BY <1>9, ResultsKeep DEF ToolsDone, RemainingDone
<1>10. CASE Suspend
  BY <1>10, SuspendKeeps
<1>11. CASE ToolRaises
  BY <1>11, RaiseKeeps
<1>12. CASE EndTurn
  BY <1>12, EndKeeps
<1>13. CASE SessionOver \/ UNCHANGED sessionVars
  BY <1>13, StutterKeeps DEF SessionOver
<1> QED
  BY <1>1, <1>2, <1>3, <1>4, <1>5, <1>6, <1>7, <1>8, <1>9, <1>10, <1>11, <1>12,
     <1>13 DEF SessionNext

LEMMA InvHolds == SessionSpec => []SessionInv
<1> QED
  BY InitHolds, NextKeeps, PTL DEF SessionSpec

\* Every reachable state is well typed.
THEOREM SessionTypes == SessionSpec => []SessionTypeOK
<1>1. SessionInv => SessionTypeOK
  <2> SUFFICES ASSUME Types PROVE SessionTypeOK
    BY DEF SessionInv
  <2>1. \A s \in Sid : \A i \in DOMAIN sessions[s] : sessions[s][i] \in Message
    BY DEF Types
  <2>2. \A i \in DOMAIN blocks : blocks[i] \in [id : CallId, call : Call]
    <3>1. \A i \in DOMAIN blocks : blocks[i] \in Block
      BY DEF Types
    <3> QED
      BY <3>1 DEF Block
  <2>3. cont.sid \in Sid \cup {0}
    BY DEF Types
  <2> QED
    BY <2>1, <2>2, <2>3 DEF Types, SessionTypeOK
<1> QED
  BY <1>1, InvHolds, PTL

\* A tool call is executed at most once, however its turn is suspended,
\* resumed, given up, retried or restored (_step_executing_tools, resume).
THEOREM NoCallTwice == SessionSpec => []CallsExecutedOnce
<1>1. SessionInv => CallsExecutedOnce
  BY DEF SessionInv, CallInv, CallsExecutedOnce
<1> QED
  BY <1>1, InvHolds, PTL

\* What build_request gets pairs every tool call with its results, for every
\* turn limit (_step_executing_tools, resume, _compact_history,
\* create_session).
THEOREM RequestsStayPaired == SessionSpec => []RequestsPaired
<1>1. SessionInv => RequestsPaired
  <2> SUFFICES ASSUME SessionInv, phase = "api", tx \notin abandoned
               PROVE  Paired(IF CutInTurn(sessions[tx]) THEN Tail(sessions[tx])
                             ELSE sessions[tx])
    BY DEF RequestsPaired
  <2>1. Types /\ TurnFits /\ PairInv
    BY DEF SessionInv
  <2>2. sessions[tx] \in Seq(Message) /\ maxTurns \in Nat
    BY <2>1, PlainTypes DEF Types, TurnFits
  <2>3. Sound(sessions[tx], maxTurns)
    BY <2>1 DEF PairInv
  <2> QED
    BY <2>2, <2>3, SoundIsPaired
<1> QED
  BY <1>1, InvHolds, PTL

-----------------------------------------------------------------------------
(* Turn numbers                                                            *)

\* The rows of the session's conversation; no other has any.
Rows == transcript[session.sid]

\* The user's row of the turn that ends is written, the assistant's is not.
Halfway == phase = "end" /\ replied /\ ~resuming

\* The rows of complete turns.
Complete == IF Halfway THEN Len(Rows) - 1 ELSE Len(Rows)

UserTurnsIncrease(r) ==
    \A i, j \in DOMAIN r :
        i < j /\ r[i].role = "user" /\ r[j].role = "user" => r[i].turn < r[j].turn

\* A complete turn has at least two rows, and a Session object has no more
\* than two turns: the number of rows, from which a restored session counts
\* on, is never less than the last turn's number.
TurnInv ==
    /\ \A s \in Sid \cup {0} : s # session.sid \/ s = 0 => transcript[s] = <<>>
    /\ phase \in {"api", "tools", "remaining"} => ~replied
    /\ UserTurnsIncrease(Rows)
    /\ session.turn <= Complete + sent
    /\ \A i \in 1 .. Complete :
          /\ Rows[i].turn <= Complete
          /\ Rows[i].turn <= session.turn
          /\ phase # "idle" => Rows[i].turn < session.turn
    /\ Halfway => /\ Len(Rows) >= 1
                  /\ Rows[Len(Rows)].turn = session.turn

LEMMA RowTypes ==
    ASSUME Types
    PROVE  /\ Rows \in Seq(TranscriptRow) /\ Len(Rows) \in Nat
           /\ DOMAIN Rows = 1 .. Len(Rows)
           /\ \A i \in 1 .. Len(Rows) : Rows[i].turn \in Nat
<1>1. Rows \in Seq(TranscriptRow)
  BY DEF Types, Rows
<1>2. \A i \in 1 .. Len(Rows) : Rows[i] \in TranscriptRow
  BY <1>1
<1>3. \A i \in 1 .. Len(Rows) : Rows[i].turn \in Nat
  BY <1>2 DEF TranscriptRow
<1> QED
  BY <1>1, <1>3

\* A row behind the others: an assistant's of any turn, or a user's of a
\* later turn.
LEMMA RowAppended ==
    ASSUME NEW r \in Seq(TranscriptRow), NEW row \in TranscriptRow,
           UserTurnsIncrease(r),
           row.role = "user" => \A i \in 1 .. Len(r) : r[i].turn < row.turn
    PROVE  /\ UserTurnsIncrease(Append(r, row))
           /\ Append(r, row) \in Seq(TranscriptRow)
           /\ Len(Append(r, row)) = Len(r) + 1
           /\ Append(r, row)[Len(r) + 1] = row
           /\ \A i \in 1 .. Len(r) : Append(r, row)[i] = r[i]
<1> DEFINE g == Append(r, row)
<1>1. /\ g \in Seq(TranscriptRow) /\ Len(g) = Len(r) + 1 /\ g[Len(r) + 1] = row
      /\ \A i \in 1 .. Len(r) : g[i] = r[i]
      /\ DOMAIN g = 1 .. Len(g) /\ DOMAIN r = 1 .. Len(r) /\ Len(r) \in Nat
  OBVIOUS
<1> HIDE DEF g
<1>2. UserTurnsIncrease(g)
  <2> SUFFICES ASSUME NEW i \in DOMAIN g, NEW j \in DOMAIN g, i < j,
                      g[i].role = "user", g[j].role = "user"
               PROVE  g[i].turn < g[j].turn
    BY DEF UserTurnsIncrease
  <2>1. i \in 1 .. Len(r) /\ g[i] = r[i]
    BY <1>1
  <2>2. CASE j = Len(r) + 1
    BY <1>1, <2>1, <2>2
  <2>3. CASE j # Len(r) + 1
    <3>1. j \in 1 .. Len(r) /\ g[j] = r[j]
      BY <1>1, <2>3
    <3> QED
      BY <1>1, <2>1, <3>1 DEF UserTurnsIncrease
  <2> QED
    BY <2>2, <2>3
<1> QED
  BY <1>1, <1>2 DEF g

\* Steps inside a turn that write no row.
LEMMA QuietTurn ==
    ASSUME TurnInv, phase \in {"api", "tools", "remaining"}, phase' # "idle",
           UNCHANGED <<session, sent, transcript, replied, resuming>>
    PROVE  TurnInv'
<1>1. ~replied /\ ~replied'
  BY DEF TurnInv
<1>2. ~Halfway /\ ~Halfway' /\ Rows' = Rows
  BY <1>1 DEF Halfway, Rows
<1>3. Complete' = Complete
  BY <1>2 DEF Complete
<1> QED
  BY <1>1, <1>2, <1>3 DEF TurnInv

\* A turn begins.
LEMMA TurnBegins ==
    ASSUME Types, TurnInv, phase = "idle", sent < MaxSends,
           phase' \in {"api", "remaining"}, sent' = sent + 1, replied' = FALSE,
           session' = [session EXCEPT !.turn = @ + 1], UNCHANGED transcript
    PROVE  TurnInv'
<1>1. session'.sid = session.sid /\ session'.turn = session.turn + 1
  BY PlainTypes
<1>2. ~Halfway /\ ~Halfway' /\ Rows' = Rows
  BY <1>1 DEF Halfway, Rows
<1>3. Complete' = Complete /\ Complete = Len(Rows)
  BY <1>2 DEF Complete
<1>4. /\ session.turn \in Nat /\ sent \in Nat /\ Len(Rows) \in Nat
      /\ \A i \in 1 .. Len(Rows) : Rows[i].turn \in Nat
  BY PlainTypes, RowTypes
<1>5. session'.turn <= Complete' + sent'
  BY <1>1, <1>3, <1>4 DEF TurnInv
<1>6. \A i \in 1 .. Complete : /\ Rows[i].turn <= Complete
                               /\ Rows[i].turn < session.turn + 1
                               /\ Rows[i].turn <= session.turn + 1
  BY <1>3, <1>4 DEF TurnInv
<1> QED
  BY <1>1, <1>2, <1>3, <1>5, <1>6 DEF TurnInv

LEMMA ReopenTurn ==
    ASSUME Types, TurnInv, Reopen PROVE TurnInv'
<1>1. phase = "idle" /\ phase' = "idle" /\ sent' = 0 /\ UNCHANGED <<transcript, replied>>
  BY DEF Reopen
<1>2. session.sid \in Sid \cup {0} /\ Len(Rows) \in Nat
  BY PlainTypes, RowTypes
<1>3. session'.sid = session.sid /\ session'.turn = Len(Rows)
  <2>1. CASE session.sid = 0
    <3>1. Rows = <<>>
      BY <2>1 DEF TurnInv, Rows
    <3> QED
      BY <2>1, <3>1 DEF Reopen
  <2>2. CASE session.sid # 0
    BY <2>2 DEF Reopen, TurnCount, RowsOf, Rows
  <2> QED
    BY <2>1, <2>2
<1>4. ~Halfway /\ ~Halfway' /\ Rows' = Rows
  BY <1>1, <1>3 DEF Halfway, Rows
<1>5. Complete' = Len(Rows) /\ Complete = Len(Rows)
  BY <1>4 DEF Complete
<1> QED
  BY <1>1, <1>2, <1>3, <1>4, <1>5 DEF TurnInv

LEMMA RaiseTurn ==
    ASSUME Types, TurnInv, ToolRaises PROVE TurnInv'
<1>1. /\ phase \in {"tools", "remaining"} /\ phase' = "idle" /\ sent' = MaxSends
      /\ UNCHANGED <<session, transcript, replied>>
  BY DEF ToolRaises
<1>2. ~Halfway /\ ~Halfway' /\ Rows' = Rows
  BY <1>1 DEF Halfway, Rows
<1>3. Complete' = Len(Rows) /\ Complete = Len(Rows)
  BY <1>2 DEF Complete
<1>4. /\ session.turn \in Nat /\ sent \in Nat /\ sent <= MaxSends /\ MaxSends \in Nat
      /\ Len(Rows) \in Nat
  BY PlainTypes, RowTypes, ConstantTypes
<1>5. session'.turn <= Complete' + sent'
  BY <1>1, <1>3, <1>4 DEF TurnInv
<1> QED
  BY <1>1, <1>2, <1>3, <1>5 DEF TurnInv

\* The id is captured and, in send(), the user's row is written.
LEMMA CaptureTurn ==
    ASSUME Types, TurnFits, TurnInv, CaptureSession,
           phase \in {"api", "tools"}, phase' = "end",
           UNCHANGED <<sent, resuming, tx>>
    PROVE  TurnInv'
<1>1. /\ session'.sid = tx /\ tx \in Sid /\ replied' = TRUE /\ session'.turn = session.turn
  <2>1. session' = [session EXCEPT
                      !.sid = IF @ = 0 /\ ~resuming THEN tx ELSE @,
                      !.total = @ + spent']
    BY DEF CaptureSession
  <2>2. session'.turn = session.turn
    BY <2>1, PlainTypes
  <2>3. tx \in Sid
    BY DEF Types, TurnFits
  <2> QED
    BY <2>2, <2>3, CaptureTypes
<1>2. /\ ~replied /\ ~Halfway /\ Complete = Len(Rows)
      /\ (session.sid # 0 => tx = session.sid) /\ (resuming => session.sid # 0)
  BY DEF TurnInv, Halfway, Complete, TurnFits
<1>3. /\ session.turn \in Nat /\ sent \in Nat /\ Len(Rows) \in Nat
      /\ Rows \in Seq(TranscriptRow)
      /\ \A i \in 1 .. Len(Rows) : Rows[i].turn \in Nat
      /\ transcript \in [Sid \cup {0} -> Seq(TranscriptRow)]
  BY PlainTypes, RowTypes DEF Types
<1>4. transcript[tx] = Rows
  <2>1. CASE session.sid = 0
    BY <1>1, <2>1 DEF TurnInv, Rows
  <2>2. CASE session.sid # 0
    BY <1>2, <2>2 DEF Rows
  <2> QED
    BY <2>1, <2>2
<1>5. CASE resuming
  <2>1. transcript' = transcript /\ tx = session.sid
    BY <1>2, <1>5 DEF CaptureSession
  <2>2. ~Halfway' /\ Rows' = Rows
    BY <1>1, <1>5, <2>1 DEF Halfway, Rows
  <2>3. Complete' = Complete
    BY <1>2, <2>2 DEF Complete
  <2> QED
    BY <1>1, <2>1, <2>2, <2>3 DEF TurnInv
<1>6. CASE ~resuming
  <2> DEFINE row == Row("user", 0)
  <2>1. transcript' = [transcript EXCEPT ![tx] = Append(Rows, row)]
    BY <1>1, <1>3, <1>4, <1>6 DEF CaptureSession
  <2>2. row \in TranscriptRow /\ row.turn = session.turn
    BY <1>3 DEF Row, TranscriptRow
  <2>3. \A i \in 1 .. Len(Rows) : Rows[i].turn < row.turn
    BY <1>2, <2>2 DEF TurnInv
  <2>4. Rows' = Append(Rows, row)
    BY <1>1, <1>3, <2>1 DEF Rows
  <2> HIDE DEF row
  <2>5. /\ UserTurnsIncrease(Rows') /\ Len(Rows') = Len(Rows) + 1
        /\ Rows'[Len(Rows) + 1] = row
        /\ \A i \in 1 .. Len(Rows) : Rows'[i] = Rows[i]
    BY <1>3, <2>2, <2>3, <2>4, RowAppended DEF TurnInv
  <2>6. Halfway'
    BY <1>1, <1>6 DEF Halfway
  <2>7. Complete' = Len(Rows)
    BY <1>3, <2>5, <2>6 DEF Complete
  <2>8. \A s \in Sid \cup {0} : s # session'.sid \/ s = 0 => transcript'[s] = <<>>
    <3> SUFFICES ASSUME NEW s \in Sid \cup {0}, s # session'.sid \/ s = 0
                 PROVE  transcript'[s] = <<>>
      OBVIOUS
    <3>1. s # tx
      BY <1>1, ConstantTypes
    <3>2. transcript'[s] = transcript[s]
      BY <1>3, <2>1, <3>1
    <3>3. s # session.sid \/ s = 0
      BY <1>2, <3>1
    <3> QED
      BY <3>2, <3>3 DEF TurnInv
  <2>9. \A i \in 1 .. Len(Rows) : /\ Rows'[i].turn <= Len(Rows)
                                  /\ Rows'[i].turn <= session.turn
                                  /\ Rows'[i].turn < session.turn
    BY <1>2, <2>5 DEF TurnInv
  <2>10. session.turn <= Len(Rows) + sent
    BY <1>2 DEF TurnInv
  <2> QED
    BY <1>1, <1>3, <2>2, <2>5, <2>6, <2>7, <2>8, <2>9, <2>10 DEF TurnInv
<1> QED
  BY <1>5, <1>6

\* The turn ends, and its rows are complete.
LEMMA EndOfTurn ==
    ASSUME Types, TurnFits, TurnInv, EndTurn, MaxSends <= 2 PROVE TurnInv'
<1> DEFINE u == Row("user", 0)
           a == Row("assistant", spent)
<1>1. /\ phase = "end" /\ phase' = "idle" /\ replied' = FALSE
      /\ transcript' = [transcript EXCEPT ![session.sid] = @ \o EndRows]
      /\ UNCHANGED <<session, sent>>
  BY DEF EndTurn
<1>2. /\ session.turn \in Nat /\ sent \in Nat /\ sent <= 2 /\ Len(Rows) \in Nat
      /\ session.sid \in Sid \cup {0}
      /\ Rows \in Seq(TranscriptRow)
      /\ \A i \in 1 .. Len(Rows) : Rows[i].turn \in Nat
      /\ transcript \in [Sid \cup {0} -> Seq(TranscriptRow)]
  <2>1. sent \in Nat /\ sent <= MaxSends /\ MaxSends \in Nat
    BY PlainTypes, ConstantTypes
  <2>2. sent <= 2
    BY <2>1
  <2>3. transcript \in [Sid \cup {0} -> Seq(TranscriptRow)]
    BY DEF Types
  <2> QED
    BY <2>1, <2>2, <2>3, PlainTypes, RowTypes
<1>3. Rows' = Rows \o EndRows
  BY <1>1, <1>2 DEF Rows
<1>4. ~Halfway' /\ Complete' = Len(Rows')
  BY <1>1 DEF Halfway, Complete
<1>5. /\ u \in TranscriptRow /\ u.turn = session.turn /\ u.role = "user"
      /\ a \in TranscriptRow /\ a.turn = session.turn /\ a.role = "assistant"
  BY <1>2 DEF Row, TranscriptRow, Types
<1>6. CASE ~resuming /\ ~replied
  <2>1. EndRows = <<>>
    BY <1>6 DEF EndRows, SendRows
  <2>2. Rows' = Rows
    BY <1>2, <1>3, <2>1
  <2>3. transcript' = transcript
    BY <1>1, <1>2, <2>1
  <2>4. ~Halfway /\ Complete = Len(Rows)
    BY <1>6 DEF Halfway, Complete
  <2> QED
    BY <1>1, <1>4, <2>2, <2>3, <2>4 DEF TurnInv
<1>7. ASSUME replied \/ resuming
      PROVE  \A s \in Sid \cup {0} : s # session'.sid \/ s = 0 => transcript'[s] = <<>>
  <2>1. session.sid # 0
    BY <1>1, <1>7 DEF TurnFits
  <2>2. \A s \in Sid \cup {0} : s # session.sid => transcript'[s] = transcript[s]
    BY <1>1, <1>2
  <2> QED
    BY <1>1, <2>1, <2>2 DEF TurnInv
<1> HIDE DEF u, a
<1>8. CASE ~resuming /\ replied
  <2>1. EndRows = <<a>>
    BY <1>8 DEF EndRows, SendRows, a
  <2>2. Rows' = Append(Rows, a)
    BY <1>2, <1>3, <1>5, <2>1
  <2>3. Halfway /\ Complete = Len(Rows) - 1 /\ Len(Rows) >= 1
    BY <1>1, <1>8 DEF Halfway, Complete, TurnInv
  <2>4. /\ UserTurnsIncrease(Rows') /\ Len(Rows') = Len(Rows) + 1
        /\ Rows'[Len(Rows) + 1] = a
        /\ \A i \in 1 .. Len(Rows) : Rows'[i] = Rows[i]
    BY <1>2, <1>5, <2>2, RowAppended DEF TurnInv
  <2>5. session.turn <= Len(Rows) + 1
    BY <1>2, <2>3 DEF TurnInv
  <2>6. ASSUME NEW i \in 1 .. Len(Rows')
        PROVE  Rows'[i].turn <= Len(Rows') /\ Rows'[i].turn <= session.turn
    <3>1. CASE i = Len(Rows) + 1
      BY <1>2, <1>5, <2>4, <2>5, <3>1
    <3>2. CASE i = Len(Rows)
      <4>1. Rows'[i].turn = session.turn
        BY <1>2, <2>3, <2>4, <3>2 DEF TurnInv
      <4> QED
        BY <1>2, <2>4, <2>5, <4>1
    <3>3. CASE i < Len(Rows)
      <4>1. /\ i \in 1 .. Complete /\ Rows'[i] = Rows[i]
            /\ i \in 1 .. Len(Rows)
        BY <1>2, <2>3, <2>4, <3>3
      <4>2. Rows[i].turn <= Len(Rows) - 1 /\ Rows[i].turn <= session.turn
        BY <2>3, <4>1 DEF TurnInv
      <4> QED
        BY <1>2, <2>4, <4>1, <4>2
    <3> QED
      BY <1>2, <2>4, <3>1, <3>2, <3>3
  <2>7. session.turn <= Len(Rows') + sent
    BY <1>2, <2>4, <2>5
  <2> QED
    BY <1>1, <1>4, <1>7, <1>8, <2>4, <2>6, <2>7 DEF TurnInv
<1>9. CASE resuming
  <2> DEFINE r == Append(Rows, u)
  <2>1. EndRows = <<u, a>>
    BY <1>9 DEF EndRows, ResumeRows, u, a
  <2>2. Rows' = Append(r, a)
    BY <1>2, <1>3, <1>5, <2>1
  <2>3. ~Halfway /\ Complete = Len(Rows)
    BY <1>9 DEF Halfway, Complete
  <2>4. \A i \in 1 .. Len(Rows) : /\ Rows[i].turn < session.turn
                                  /\ Rows[i].turn <= Len(Rows)
    BY <1>1, <2>3 DEF TurnInv
  <2>5. /\ UserTurnsIncrease(r) /\ Len(r) = Len(Rows) + 1
        /\ r \in Seq(TranscriptRow) /\ r[Len(Rows) + 1] = u
        /\ \A i \in 1 .. Len(Rows) : r[i] = Rows[i]
    BY <1>2, <1>5, <2>4, RowAppended DEF TurnInv
  <2> HIDE DEF r
  <2>6. /\ UserTurnsIncrease(Rows') /\ Len(Rows') = Len(r) + 1
        /\ Rows'[Len(r) + 1] = a
        /\ \A i \in 1 .. Len(r) : Rows'[i] = r[i]
    BY <1>5, <2>2, <2>5, RowAppended
  <2>7. session.turn <= Len(Rows) + 2
    BY <1>2, <2>3 DEF TurnInv
  <2>8. ASSUME NEW i \in 1 .. Len(Rows')
        PROVE  Rows'[i].turn <= Len(Rows') /\ Rows'[i].turn <= session.turn
    <3>1. CASE i = Len(Rows) + 2
      BY <1>2, <1>5, <2>5, <2>6, <2>7, <3>1
    <3>2. CASE i = Len(Rows) + 1
      BY <1>2, <1>5, <2>5, <2>6, <2>7, <3>2
    <3>3. CASE i <= Len(Rows)
      <4>1. i \in 1 .. Len(Rows) /\ Rows'[i] = Rows[i]
        BY <1>2, <2>5, <2>6, <3>3
      <4> QED
        BY <1>2, <2>4, <2>5, <2>6, <4>1
    <3> QED
      BY <1>2, <2>5, <2>6, <3>1, <3>2, <3>3
  <2>9. session.turn <= Len(Rows') + sent
    BY <1>2, <2>5, <2>6, <2>7
  <2> QED
    BY <1>1, <1>4, <1>7, <1>9, <2>6, <2>8, <2>9 DEF TurnInv
<1> QED
  BY <1>6, <1>8, <1>9

LEMMA TurnInvHolds ==
    ASSUME MaxSends <= 2 PROVE SessionSpec => []TurnInv
<1>1. SessionInit => TurnInv
  <2> SUFFICES ASSUME SessionInit PROVE TurnInv
    OBVIOUS
  <2>1. /\ phase = "idle" /\ sent = 0 /\ session = [sid |-> 0, turn |-> 0, total |-> 0]
        /\ transcript = [s \in Sid \cup {0} |-> <<>>]
    BY DEF SessionInit
  <2>2. Rows = <<>> /\ ~Halfway
    BY <2>1 DEF Rows, Halfway
  <2>3. Complete = 0
    BY <2>2 DEF Complete
  <2> QED
    BY <2>1, <2>2, <2>3 DEF TurnInv, UserTurnsIncrease
<1>2. TurnInv /\ SessionInv /\ [SessionNext]_sessionVars => TurnInv'
  <2> SUFFICES ASSUME TurnInv, SessionInv, [SessionNext]_sessionVars PROVE TurnInv'
    OBVIOUS
  <2>0. Types /\ TurnFits
    BY DEF SessionInv
  <2>1. CASE Send
    BY <2>0, <2>1, TurnBegins DEF Send, TransportSend
  <2>2. CASE ResumeTurn
    BY <2>0, <2>2, TurnBegins DEF ResumeTurn, TransportResume
  <2>3. CASE Reopen
    BY <2>0, <2>3, ReopenTurn
  <2>4. CASE RetryCall \/ CallFails
    BY <2>4, QuietTurn DEF RetryCall, CallFails, turn, client
  <2>5. ASSUME NEW calls \in Calls, AnswerCalls(calls) PROVE TurnInv'
    BY <2>5, QuietTurn DEF AnswerCalls, client
  <2>6. CASE ExecuteTool \/ ExecuteRemaining
    BY <2>6, QuietTurn DEF ExecuteTool, ExecuteRemaining, NextBlock, client
  <2>7. CASE ToolsDone \/ RemainingDone
    BY <2>7, QuietTurn DEF ToolsDone, RemainingDone, AppendResults, client
  <2>8. CASE AnswerText
    BY <2>0, <2>8, CaptureTurn DEF AnswerText
  <2>9. CASE Suspend
    BY <2>0, <2>9, CaptureTurn DEF Suspend
  <2>10. CASE ToolRaises
    BY <2>0, <2>10, RaiseTurn
  <2>11. CASE EndTurn
    BY <2>0, <2>11, EndOfTurn
  <2>12. CASE SessionOver \/ UNCHANGED sessionVars
    <3>1. UNCHANGED <<session, sent, transcript, replied, resuming, phase>>
      BY <2>12 DEF SessionOver, sessionVars, turn, client
    <3>2. Rows' = Rows /\ Halfway' = Halfway
      BY <3>1 DEF Rows, Halfway
    <3>3. Complete' = Complete
      BY <3>2 DEF Complete
    <3> QED
      BY <3>1, <3>2, <3>3 DEF TurnInv
  <2> QED
    BY <2>1, <2>2, <2>3, <2>4, <2>5, <2>6, <2>7, <2>8, <2>9, <2>10, <2>11, <2>12
       DEF SessionNext
<1> QED
  BY <1>1, <1>2, InvHolds, PTL DEF SessionSpec

\* With at most two messages on a Session object, the prompt and the hand-off
\* request, a restored session goes on with turn numbers beyond those of its
\* transcript, although it counts rows (read_session_turn_count).
THEOREM TurnsStayOrdered ==
    ASSUME MaxSends <= 2 PROVE SessionSpec => []TurnsIncrease
<1>1. TurnInv => TurnsIncrease
  <2> SUFFICES ASSUME TurnInv, NEW s \in Sid, NEW i \in DOMAIN RowsOf(s),
                      NEW j \in DOMAIN RowsOf(s), i < j,
                      RowsOf(s)[i].role = "user", RowsOf(s)[j].role = "user"
               PROVE  RowsOf(s)[i].turn < RowsOf(s)[j].turn
    BY DEF TurnsIncrease
  <2>1. s = session.sid
    BY DEF TurnInv, RowsOf
  <2> QED
    BY <2>1 DEF TurnInv, UserTurnsIncrease, RowsOf, Rows
<1> QED
  BY <1>1, TurnInvHolds, PTL

-----------------------------------------------------------------------------
(* Token totals                                                            *)

\* The running totals of a list of rows, up to its n-th.
Sums(f, rows, n) ==
    /\ f[0] = 0
    /\ \A i \in 1 .. n : f[i] = f[i - 1] + rows[i].tokens

\* Every list of rows has running totals.
LEMMA SumsExist ==
    ASSUME NEW rows \in Seq(TranscriptRow)
    PROVE  \E f \in [0 .. Len(rows) -> Nat] : Sums(f, rows, Len(rows))
<1> DEFINE Summed(n) == \E f \in [0 .. n -> Nat] : Sums(f, rows, n)
           Bad == {n \in Nat : n <= Len(rows) /\ ~Summed(n)}
<1>0. Len(rows) \in Nat /\ \A i \in 1 .. Len(rows) : rows[i].tokens \in Nat
  <2>1. \A i \in 1 .. Len(rows) : rows[i] \in TranscriptRow
    OBVIOUS
  <2> QED
    BY <2>1 DEF TranscriptRow
<1>1. Summed(0)
  <2> DEFINE f == [i \in 0 .. 0 |-> 0]
  <2>1. f \in [0 .. 0 -> Nat] /\ f[0] = 0
    OBVIOUS
  <2>2. Sums(f, rows, 0)
    BY <2>1 DEF Sums
  <2> QED
    BY <2>1, <2>2
<1>2. ASSUME NEW n \in Nat, n + 1 <= Len(rows), Summed(n) PROVE Summed(n + 1)
  <2>1. PICK f \in [0 .. n -> Nat] : Sums(f, rows, n)
    BY <1>2
  <2> DEFINE g == [i \in 0 .. n + 1 |->
                     IF i = n + 1 THEN f[n] + rows[n + 1].tokens ELSE f[i]]
  <2>2. f[n] \in Nat /\ rows[n + 1].tokens \in Nat
    BY <1>0, <1>2, <2>1
  <2>3. g \in [0 .. n + 1 -> Nat]
    BY <2>1, <2>2
  <2>4. g[n + 1] = f[n] + rows[n + 1].tokens /\ \A i \in 0 .. n : g[i] = f[i]
    OBVIOUS
  <2> HIDE DEF g
  <2>5. \A i \in 1 .. n + 1 : g[i] = g[i - 1] + rows[i].tokens
    <3> SUFFICES ASSUME NEW i \in 1 .. n + 1
                 PROVE  g[i] = g[i - 1] + rows[i].tokens
      OBVIOUS
    <3>1. CASE i = n + 1
      BY <2>4, <3>1
    <3>2. CASE i # n + 1
      <4>1. i \in 1 .. n /\ i \in 0 .. n /\ i - 1 \in 0 .. n
        BY <3>2
      <4> QED
        BY <2>1, <2>4, <4>1 DEF Sums
    <3> QED
      BY <3>1, <3>2
  <2>6. Sums(g, rows, n + 1)
    BY <2>1, <2>4, <2>5 DEF Sums
  <2> QED
    BY <2>3, <2>6
<1>3. ASSUME Bad # {} PROVE FALSE
  <2>1. Min(Bad) \in Bad /\ \A y \in Bad : Min(Bad) <= y
    <3>1. Bad \in SUBSET Nat
      OBVIOUS
    <3> HIDE DEF Bad
    <3> QED
      BY <1>3, <3>1, MinIsLeast
  <2> DEFINE m == Min(Bad)
  <2>2. m \in Nat /\ m <= Len(rows) /\ ~Summed(m)
    BY <2>1
  <2>3. m # 0
    BY <1>1, <2>2
  <2>4. m - 1 \in Nat /\ m - 1 <= Len(rows) /\ m - 1 \notin Bad
    <3> HIDE DEF Bad
    <3> QED
      BY <1>0, <2>1, <2>2, <2>3
  <2>5. Summed(m - 1)
    <3> HIDE DEF m, Summed
    <3> QED
      BY <2>4
  <2>6. Summed((m - 1) + 1)
    <3>1. (m - 1) + 1 <= Len(rows)
      BY <1>0, <2>2
    <3> HIDE DEF m, Summed
    <3> QED
      BY <1>2, <2>4, <2>5, <3>1
  <2>7. (m - 1) + 1 = m
    BY <2>2
  <2> HIDE DEF m, Summed
  <2> QED
    BY <2>2, <2>6, <2>7
<1>4. Len(rows) \notin Bad
  BY <1>3
<1> HIDE DEF Summed
<1>5. Summed(Len(rows))
  BY <1>0, <1>4
<1> QED
  BY <1>5 DEF Summed

\* Two lists with the same first n rows.
BeginAlike(r1, r2, n) == \A i \in 1 .. n : r1[i] = r2[i]

\* Two lists that begin alike have the same running totals there.
LEMMA SumsAgree ==
    ASSUME NEW r1, NEW r2, NEW f1, NEW f2, NEW n \in Nat,
           Sums(f1, r1, n), Sums(f2, r2, n),
           BeginAlike(r1, r2, n)
    PROVE  f1[n] = f2[n]
<1> DEFINE Bad == {i \in Nat : i <= n /\ f1[i] # f2[i]}
<1>1. ASSUME Bad # {} PROVE FALSE
  <2>1. Min(Bad) \in Bad /\ \A y \in Bad : Min(Bad) <= y
    <3>1. Bad \in SUBSET Nat
      OBVIOUS
    <3> HIDE DEF Bad
    <3> QED
      BY <1>1, <3>1, MinIsLeast
  <2> DEFINE m == Min(Bad)
  <2>2. m \in Nat /\ m <= n /\ f1[m] # f2[m]
    BY <2>1
  <2>3. m # 0
    BY <2>2 DEF Sums
  <2>4. m - 1 \in Nat /\ m - 1 <= n /\ m - 1 \notin Bad
    <3> HIDE DEF Bad
    <3> QED
      BY <2>1, <2>2, <2>3
  <2>5. f1[m - 1] = f2[m - 1]
    <3> HIDE DEF m
    <3> QED
      BY <2>4
  <2>6. m \in 1 .. n
    <3> HIDE DEF m
    <3> QED
      BY <2>2, <2>3
  <2> HIDE DEF m
  <2>7. f1[m] = f1[m - 1] + r1[m].tokens /\ f2[m] = f2[m - 1] + r2[m].tokens
    BY <2>6 DEF Sums
  <2> QED
    BY <2>2, <2>5, <2>6, <2>7 DEF BeginAlike
<1>2. n \notin Bad
  BY <1>1
<1> QED
  BY <1>2

\* TokenSum is the last of the running totals.
LEMMA SumIsLast ==
    ASSUME NEW rows \in Seq(TranscriptRow)
    PROVE  \E f \in [0 .. Len(rows) -> Nat] :
              Sums(f, rows, Len(rows)) /\ TokenSum(rows) = f[Len(rows)]
<1> DEFINE Body(f) == [i \in 0 .. Len(rows) |->
                         IF i = 0 THEN 0 ELSE f[i - 1] + rows[i].tokens]
           s == CHOOSE f : f = Body(f)
<1>0. Len(rows) \in Nat
  OBVIOUS
<1>1. PICK f \in [0 .. Len(rows) -> Nat] : Sums(f, rows, Len(rows))
  BY SumsExist
<1>2. f = Body(f)
  <2>1. ASSUME NEW i \in 0 .. Len(rows) PROVE f[i] = Body(f)[i]
    <3>1. CASE i = 0
      BY <1>1, <3>1 DEF Sums
    <3>2. CASE i # 0
      <4>1. i \in 1 .. Len(rows)
        BY <1>0, <3>2
      <4> QED
        BY <1>1, <3>2, <4>1 DEF Sums
    <3> QED
      BY <3>1, <3>2
  <2> QED
    BY <1>1, <2>1
<1>3. s = Body(s)
  <2> HIDE DEF Body
  <2> QED
    BY <1>2
<1>4. TokenSum(rows) = s[Len(rows)]
  BY DEF TokenSum
<1> HIDE DEF s
<1>5. Sums(s, rows, Len(rows))
  <2>1. s[0] = 0
    BY <1>0, <1>3
  <2>2. ASSUME NEW i \in 1 .. Len(rows) PROVE s[i] = s[i - 1] + rows[i].tokens
    <3>1. i \in 0 .. Len(rows) /\ i # 0
      BY <1>0
    <3> QED
      BY <1>3, <3>1
  <2> QED
    BY <2>1, <2>2 DEF Sums
<1>6. s[Len(rows)] = f[Len(rows)]
  BY <1>0, <1>1, <1>5, SumsAgree DEF BeginAlike
<1> QED
  BY <1>1, <1>4, <1>6

\* A row behind the others adds its tokens.
LEMMA SumAppended ==
    ASSUME NEW r \in Seq(TranscriptRow), NEW row \in TranscriptRow
    PROVE  /\ TokenSum(r) \in Nat
           /\ TokenSum(Append(r, row)) = TokenSum(r) + row.tokens
<1> DEFINE g == Append(r, row)
           n == Len(r)
<1>1. /\ g \in Seq(TranscriptRow) /\ Len(g) = n + 1 /\ g[n + 1] = row
      /\ n \in Nat /\ \A i \in 1 .. n : g[i] = r[i]
  OBVIOUS
<1> HIDE DEF g
<1>2. PICK f \in [0 .. n -> Nat] : Sums(f, r, n) /\ TokenSum(r) = f[n]
  BY SumIsLast
<1> HIDE DEF n
<1>3. PICK k \in [0 .. Len(g) -> Nat] : Sums(k, g, Len(g)) /\ TokenSum(g) = k[Len(g)]
  BY <1>1, SumIsLast
<1>4. Sums(k, g, n) /\ k[n + 1] = k[n] + row.tokens
  <2>1. k[0] = 0 /\ \A i \in 1 .. n + 1 : k[i] = k[i - 1] + g[i].tokens
    BY <1>1, <1>3 DEF Sums
  <2>2. n + 1 \in 1 .. n + 1 /\ (n + 1) - 1 = n /\ 1 .. n \subseteq 1 .. n + 1
    BY <1>1
  <2>3. k[n + 1] = k[n] + row.tokens
    BY <1>1, <2>1, <2>2
  <2> QED
    BY <2>1, <2>2, <2>3 DEF Sums
<1>5. k[n] = f[n]
  <2>1. BeginAlike(g, r, n)
    BY <1>1 DEF BeginAlike
  <2> QED
    BY <1>1, <1>2, <1>4, <2>1, SumsAgree DEF n
<1>6. f[n] \in Nat
  BY <1>1, <1>2
<1> QED
  BY <1>1, <1>2, <1>3, <1>4, <1>5, <1>6 DEF g

LEMMA SumOfNothing == TokenSum(<<>>) = 0
<1>1. <<>> \in Seq(TranscriptRow) /\ Len(<<>>) = 0
  OBVIOUS
<1>2. PICK f \in [0 .. 0 -> Nat] : Sums(f, <<>>, 0) /\ TokenSum(<<>>) = f[0]
  BY <1>1, SumIsLast
<1> QED
  BY <1>2 DEF Sums

\* While a turn ends, the session's totals are ahead of its rows by the tokens
\* of the assistant's row that is about to be written.
TotalInv ==
    /\ \A s \in Sid \cup {0} : s # session.sid \/ s = 0 => transcript[s] = <<>>
    /\ phase \in {"api", "tools", "remaining"} => spent = 0
    /\ phase = "end" /\ ~replied /\ ~resuming => spent = 0
    /\ session.total = TokenSum(Rows) + (IF phase = "end" THEN spent ELSE 0)

\* Steps that write no row and spend nothing.
LEMMA QuietTotals ==
    ASSUME Types, TotalInv, phase # "end", session'.sid = session.sid,
           session'.total = session.total, transcript' = transcript,
           phase' # "idle" => spent' = 0
    PROVE  TotalInv'
<1>1. Rows' = Rows /\ TokenSum(Rows) \in Nat
  <2>1. Rows \in Seq(TranscriptRow)
    BY RowTypes
  <2>2. PICK f \in [0 .. Len(Rows) -> Nat] : TokenSum(Rows) = f[Len(Rows)]
    BY <2>1, SumIsLast
  <2> QED
    BY <2>1, <2>2 DEF Rows
<1>2. TokenSum(Rows') = TokenSum(Rows)
  BY <1>1
<1>3. session.total = TokenSum(Rows)
  BY <1>1 DEF TotalInv
<1> HIDE DEF Types
<1>4. session'.total = TokenSum(Rows') + (IF phase' = "end" THEN spent' ELSE 0)
  BY <1>1, <1>2, <1>3
<1> QED
  BY <1>4 DEF TotalInv

\* The id is captured, and the tokens of the last answer are added.
LEMMA CaptureTotals ==
    ASSUME Types, TurnFits, TotalInv, CaptureSession,
           phase \in {"api", "tools"}, phase' = "end", spent' \in Nat,
           UNCHANGED <<resuming, tx>>
    PROVE  TotalInv'
<1>1. session'.sid = tx /\ tx \in Sid /\ replied' = TRUE
  <2>1. tx \in Sid
    BY DEF Types, TurnFits
  <2> QED
    BY <2>1, CaptureTypes
<1>2. session'.total = session.total + spent'
  BY PlainTypes DEF CaptureSession
<1>3. (session.sid # 0 => tx = session.sid) /\ (resuming => session.sid # 0)
  BY DEF TurnFits
<1>4. /\ Rows \in Seq(TranscriptRow)
      /\ transcript \in [Sid \cup {0} -> Seq(TranscriptRow)]
  BY RowTypes DEF Types
<1>5. transcript[tx] = Rows
  <2>1. CASE session.sid = 0
    BY <1>1, <2>1 DEF TotalInv, Rows
  <2>2. CASE session.sid # 0
    BY <1>3, <2>2 DEF Rows
  <2> QED
    BY <2>1, <2>2
<1>6. session.total = TokenSum(Rows) + 0
  BY DEF TotalInv
<1>7. Row("user", 0) \in TranscriptRow /\ Row("user", 0).tokens = 0
  BY PlainTypes DEF Row, TranscriptRow
<1>8. /\ TokenSum(Rows) \in Nat
      /\ TokenSum(Append(Rows, Row("user", 0))) = TokenSum(Rows)
  <2>1. /\ TokenSum(Rows) \in Nat
        /\ TokenSum(Append(Rows, Row("user", 0))) = TokenSum(Rows) + 0
    BY <1>4, <1>7, SumAppended
  <2> QED
    BY <2>1
<1>9. /\ Rows' = Rows \/ Rows' = Append(Rows, Row("user", 0))
      /\ \A s \in Sid \cup {0} : s # tx => transcript'[s] = transcript[s]
  <2>1. CASE resuming
    <3>1. transcript' = transcript
      BY <2>1 DEF CaptureSession
    <3> QED
      BY <1>1, <1>5, <3>1 DEF Rows
  <2>2. CASE ~resuming
    <3>1. transcript' = [transcript EXCEPT ![tx] = Append(Rows, Row("user", 0))]
      BY <1>1, <1>4, <1>5, <2>2 DEF CaptureSession
    <3> QED
      BY <1>1, <1>4, <3>1 DEF Rows
  <2> QED
    BY <2>1, <2>2
<1>10. session'.total = TokenSum(Rows') + spent'
  <2>1. TokenSum(Rows') = TokenSum(Rows)
    BY <1>8, <1>9
  <2> QED
    BY <1>2, <1>6, <1>8, <2>1
<1>11. \A s \in Sid \cup {0} : s # session'.sid \/ s = 0 => transcript'[s] = <<>>
  <2> SUFFICES ASSUME NEW s \in Sid \cup {0}, s # tx \/ s = 0
               PROVE  transcript'[s] = <<>>
    BY <1>1
  <2>1. s # tx
    BY <1>1, ConstantTypes
  <2>2. s # session.sid \/ s = 0
    BY <1>3, <2>1
  <2> QED
    BY <1>9, <2>1, <2>2 DEF TotalInv
<1> QED
  BY <1>1, <1>10, <1>11 DEF TotalInv

\* The turn ends, and the rows catch up.
LEMMA EndTotals ==
    ASSUME Types, TurnFits, TotalInv, EndTurn PROVE TotalInv'
<1> DEFINE u == Row("user", 0)
           a == Row("assistant", spent)
<1>1. /\ phase = "end" /\ phase' = "idle" /\ replied' = FALSE
      /\ transcript' = [transcript EXCEPT ![session.sid] = @ \o EndRows]
      /\ UNCHANGED session
  BY DEF EndTurn
<1>2. /\ Rows \in Seq(TranscriptRow) /\ session.sid \in Sid \cup {0}
      /\ transcript \in [Sid \cup {0} -> Seq(TranscriptRow)] /\ spent \in Nat
  BY RowTypes DEF Types
<1>3. Rows' = Rows \o EndRows
  BY <1>1, <1>2 DEF Rows
<1>4. /\ u \in TranscriptRow /\ u.tokens = 0
      /\ a \in TranscriptRow /\ a.tokens = spent
  BY <1>2, PlainTypes DEF Row, TranscriptRow
<1>5. session.total = TokenSum(Rows) + spent /\ TokenSum(Rows) \in Nat
  BY <1>1, <1>2, <1>4, SumAppended DEF TotalInv
<1>6. \A s \in Sid \cup {0} : s # session.sid => transcript'[s] = transcript[s]
  BY <1>1, <1>2
<1>7. CASE ~resuming /\ ~replied
  <2>1. EndRows = <<>> /\ spent = 0
    BY <1>1, <1>7 DEF EndRows, SendRows, TotalInv
  <2>2. Rows' = Rows /\ transcript' = transcript
    BY <1>1, <1>2, <1>3, <2>1
  <2>3. session.total = TokenSum(Rows') + 0
    BY <1>5, <2>1, <2>2
  <2> QED
    BY <1>1, <2>2, <2>3 DEF TotalInv
<1>8. ASSUME replied \/ resuming, TokenSum(Rows') = TokenSum(Rows) + spent
      PROVE  TotalInv'
  <2>1. session.sid # 0
    BY <1>1, <1>8 DEF TurnFits
  <2>2. \A s \in Sid \cup {0} : s # session.sid \/ s = 0 => transcript'[s] = <<>>
    BY <1>6, <2>1 DEF TotalInv
  <2>3. session.total = TokenSum(Rows') + 0
    BY <1>2, <1>5, <1>8
  <2> QED
    BY <1>1, <2>2, <2>3 DEF TotalInv
<1> HIDE DEF u, a
<1>9. CASE ~resuming /\ replied
  <2>1. EndRows = <<a>>
    BY <1>9 DEF EndRows, SendRows, a
  <2>2. Rows' = Append(Rows, a)
    BY <1>2, <1>3, <1>4, <2>1
  <2> QED
    BY <1>2, <1>4, <1>8, <1>9, <2>2, SumAppended
<1>10. CASE resuming
  <2>1. EndRows = <<u, a>>
    BY <1>10 DEF EndRows, ResumeRows, u, a
  <2>2. Append(Rows, u) \in Seq(TranscriptRow) /\ Rows' = Append(Append(Rows, u), a)
    BY <1>2, <1>3, <1>4, <2>1
  <2>3. TokenSum(Append(Rows, u)) = TokenSum(Rows) + 0
    BY <1>2, <1>4, SumAppended
  <2>4. TokenSum(Rows') = TokenSum(Append(Rows, u)) + spent
    BY <1>4, <2>2, SumAppended
  <2> QED
    BY <1>5, <1>8, <1>10, <2>3, <2>4
<1> QED
  BY <1>7, <1>9, <1>10

\* create_session reads the totals from the rows.
LEMMA ReopenTotals ==
    ASSUME Types, TotalInv, Reopen PROVE TotalInv'
<1>1. phase = "idle" /\ phase' = "idle" /\ UNCHANGED transcript
  BY DEF Reopen
<1>2. session.total = TokenSum(Rows) + 0 /\ Rows \in Seq(TranscriptRow)
  BY <1>1, RowTypes DEF TotalInv
<1>3. TokenSum(Rows) \in Nat
  <2>1. PICK f \in [0 .. Len(Rows) -> Nat] : TokenSum(Rows) = f[Len(Rows)]
    BY <1>2, SumIsLast
  <2> QED
    BY <1>2, <2>1
<1>4. session'.sid = session.sid /\ session'.total = session.total
  <2>1. CASE session.sid = 0
    <3>1. Rows = <<>>
      BY <2>1 DEF TotalInv, Rows
    <3>2. session.total = 0
      BY <1>2, <3>1, SumOfNothing
    <3> QED
      BY <2>1, <3>2 DEF Reopen
  <2>2. CASE session.sid # 0
    <3>1. session'.sid = session.sid /\ session'.total = TokenSum(Rows)
      BY <2>2 DEF Reopen, TokensOf, RowsOf, Rows
    <3> QED
      BY <1>2, <1>3, <3>1
  <2> QED
    BY <2>1, <2>2
<1> QED
  BY <1>1, <1>4, QuietTotals

LEMMA TotalInvHolds == SessionSpec => []TotalInv
<1>1. SessionInit => TotalInv
  <2> SUFFICES ASSUME SessionInit PROVE TotalInv
    OBVIOUS
  <2>1. /\ phase = "idle" /\ session = [sid |-> 0, turn |-> 0, total |-> 0]
        /\ transcript = [s \in Sid \cup {0} |-> <<>>]
    BY DEF SessionInit
  <2>2. Rows = <<>>
    BY <2>1 DEF Rows
  <2>3. session.total = TokenSum(Rows) + 0
    BY <2>1, <2>2, SumOfNothing
  <2> QED
    BY <2>1, <2>3 DEF TotalInv
<1>2. TotalInv /\ SessionInv /\ [SessionNext]_sessionVars => TotalInv'
  <2> SUFFICES ASSUME TotalInv, SessionInv, [SessionNext]_sessionVars PROVE TotalInv'
    OBVIOUS
  <2>0. Types /\ TurnFits
    BY DEF SessionInv
  <2>1. CASE Send
    <3>1. session'.sid = session.sid /\ session'.total = session.total
      BY <2>0, <2>1, PlainTypes DEF Send
    <3> QED
      BY <2>0, <2>1, <3>1, QuietTotals DEF Send, TransportSend
  <2>2. CASE ResumeTurn
    <3>1. session'.sid = session.sid /\ session'.total = session.total
      BY <2>0, <2>2, PlainTypes DEF ResumeTurn
    <3> QED
      BY <2>0, <2>2, <3>1, QuietTotals DEF ResumeTurn, TransportResume
  <2>3. CASE Reopen
    BY <2>0, <2>3, ReopenTotals
  <2> DEFINE Within == phase \in {"api", "tools", "remaining"}
                       /\ UNCHANGED <<session, transcript, spent>>
  <2>4. ASSUME Within PROVE TotalInv'
    <3>1. phase # "end" /\ spent' = 0 /\ UNCHANGED <<session, transcript>>
      BY <2>4 DEF TotalInv
    <3> QED
      BY <2>0, <3>1, QuietTotals
  <2>5. CASE RetryCall \/ CallFails
    BY <2>4, <2>5 DEF RetryCall, CallFails, turn, client
  <2>6. ASSUME NEW calls \in Calls, AnswerCalls(calls) PROVE TotalInv'
    BY <2>4, <2>6 DEF AnswerCalls, client
  <2>7. CASE ExecuteTool \/ ExecuteRemaining
    BY <2>4, <2>7 DEF ExecuteTool, ExecuteRemaining, NextBlock, client
  <2>8. CASE ToolsDone \/ RemainingDone
    BY <2>4, <2>8 DEF ToolsDone, RemainingDone, AppendResults, client
  <2>9. CASE ToolRaises
    BY <2>4, <2>9 DEF ToolRaises
  <2>10. CASE AnswerText
    BY <2>0, <2>10, CaptureTotals DEF AnswerText
  <2>11. CASE Suspend
    BY <2>0, <2>11, CaptureTotals DEF Suspend
  <2>12. CASE EndTurn
    BY <2>0, <2>12, EndTotals
  <2>13. CASE SessionOver \/ UNCHANGED sessionVars
    <3>1. UNCHANGED <<session, transcript, spent, replied, resuming, phase>>
      BY <2>13 DEF SessionOver, sessionVars, turn, client
    <3>2. Rows' = Rows
      BY <3>1 DEF Rows
    <3> QED
      BY <3>1, <3>2 DEF TotalInv
  <2> QED
    BY <2>1, <2>2, <2>3, <2>5, <2>6, <2>7, <2>8, <2>9, <2>10, <2>11, <2>12, <2>13
       DEF SessionNext
<1> QED
  BY <1>1, <1>2, InvHolds, PTL DEF SessionSpec

\* What create_session restores is what the Session object was: token totals
\* that the transcript's rows add up to, whatever turns failed, suspended or
\* were resumed, and, with at most two messages on a Session object, turn
\* numbers that go on beyond those of the transcript.
THEOREM RestoredAlways ==
    ASSUME MaxSends <= 2 PROVE SessionSpec => []RestoredExactly
<1>1. TotalInv /\ SessionInv => TotalsRecorded
  <2> SUFFICES ASSUME TotalInv, SessionInv, phase = "idle"
               PROVE  session.total = TokensOf(session.sid)
    BY DEF TotalsRecorded
  <2>1. Types
    BY DEF SessionInv
  <2>2. Rows \in Seq(TranscriptRow)
    BY <2>1, RowTypes
  <2>3. PICK f \in [0 .. Len(Rows) -> Nat] : TokenSum(Rows) = f[Len(Rows)]
    BY <2>2, SumIsLast
  <2>4. session.total = TokenSum(Rows) + 0
    BY DEF TotalInv
  <2>5. TokenSum(Rows) \in Nat
    BY <2>2, <2>3
  <2> QED
    BY <2>4, <2>5 DEF TokensOf, RowsOf, Rows
<1>2. SessionSpec => []TotalsRecorded
  BY <1>1, TotalInvHolds, InvHolds, PTL
<1> QED
  BY <1>2, SessionTypes, TurnsStayOrdered, PTL DEF RestoredExactly

-----------------------------------------------------------------------------
(* WorkflowRun: the inductive invariant                                    *)

\* Where a task has not yet begun the work its subtasks are part of.
Early == {"idle", "queued", "begin", "gate", "insert", "pre", "prechecks",
          "act"}

\* Some awaits belong to one execution mode, or to iterations.
KindsFit ==
    \A t \in Tasks :
        /\ pc[t] \in {"prechecks", "post", "postchecks", "prefail"}
              => Kind[t] = "composite"
        /\ pc[t] \in {"queued", "settle", "fail"} => IsIteration(t)
        /\ heard[t] # "no" => Kind[t] = "wait_for"
        /\ (pc[t] \in {"idle", "queued"} \/ ~IsIteration(t))
              => iteration[t] = "none"

\* A coroutine that is to be cancelled has not ended, and abort() deals with
\* tasks that are active and will do nothing more of their own.
CancelsFit ==
    /\ \A t \in doomed : Working(t)
    /\ \A t \in abortLeft : /\ mem[t] \in ActiveStates
                            /\ Working(t) => t \in doomed

\* Where the workflow is.
MainFits ==
    /\ main = "register" => \A t \in Tasks : pc[t] = "idle"
    /\ status = "completed" => main = "over"
    /\ aborter = "main" => main = "abort"
    /\ main = "gone" => fault[Root] = "cancelled"

\* The subtasks of a task that is not at work yet are idle, and so are their
\* states.
EarlyIdle ==
    /\ \A t \in Tasks : pc[t] = "idle" => mem[t] \in {"none", "created"}
    /\ \A t \in Tasks : pc[t] \in Early =>
          /\ stage[t] = 0
          /\ \A c \in Children(t) : pc[c] = "idle"

\* The groups before the one a gatherer waits for have returned, and those
\* after it are idle.
StagesFit ==
    \A c \in Tasks : ~IsIteration(c) =>
        /\ Level[c] < stage[Parent[c]] => pc[c] = "returned"
        /\ Level[c] > stage[Parent[c]] => pc[c] = "idle"

\* Between two groups, and after the last one, no coroutine of the workflow's
\* own tasks is left, and the next group is idle.
RootQuiet ==
    /\ main \in {"register", "gate"} =>
          \A c \in Children(Root) : Level[c] >= stage[Root] => pc[c] = "idle"
    /\ (main \in {"gate", "abort", "finish"} \/ status = "completed") =>
          \A c \in Children(Root) : pc[c] \in {"idle", "returned"}

\* A composite or for_each task past its gather has no subtask at work.
KidsDone ==
    /\ \A t \in Tasks :
          (Kind[t] = "composite" /\ (\/ pc[t] \in {"post", "postchecks"}
                                     \/ mem[t] \in {"postchecking", "completed"}))
              => \A c \in Children(t) : pc[c] = "returned"
    /\ \A t \in Tasks :
          (pc[t] \in {"prefail", "postfail", "done", "timedout", "settle"}
              \/ (pc[t] = "returned" /\ ~(IsIteration(t) /\ Children(t) # {})))
              => \A c \in Children(t) : pc[c] \in {"idle", "returned"}

\* The rows of tasks that do not run, and of iterations that ended.
RowsFit ==
    /\ \A t \in Tasks : pc[t] \in {"idle", "queued", "settle"} => trace[t] = mem[t]
    /\ \A t \in Tasks : pc[t] = "returned" => iteration[t] # "running"
    /\ \A t \in AbortOnFailure : t \notin aborting =>
          \A c \in Children(t) : pc[c] = "returned" =>
              iteration[c] = "completed" /\ mem[c] = "completed"

\* An escalated task of the workflow is in the current group or behind it.
EscalatedAhead ==
    policy # "continue_independent" =>
        \A t \in Children(Root) : mem[t] = "escalated" => Level[t] >= stage[Root]

\* A cancellation reaches every coroutine at once, and it is how a gatherer
\* comes to see one.
CancelsSpread ==
    /\ \A o \in Tasks \cup {Root} : fault[o] = "cancelled" =>
          \E t \in Tasks : pc[t] = "cancelled"
    /\ FlatIterations =>
          ((\E t \in Tasks : t \in doomed \/ pc[t] = "cancelled") =>
              \A t \in Tasks : Working(t) => t \in doomed)

FlowInv ==
    /\ TypeOK
    /\ KindsFit
    /\ CancelsFit
    /\ MainFits
    /\ EarlyIdle
    /\ StagesFit
    /\ RootQuiet
    /\ KidsDone
    /\ RowsFit
    /\ EscalatedAhead
    /\ CancelsSpread
    /\ GraphRespected
    /\ ReturnedRecorded
    /\ ConcurrencyBounded
    /\ IterationsSettled
    /\ LoopFailureSeen
-----------------------------------------------------------------------------
(* The depth of a task in the dependency graph                             *)

\* A finite set of numbers that is not empty has a greatest one.
LEMMA MaxIsGreatest ==
    ASSUME NEW S \in SUBSET Nat, IsFiniteSet(S), S # {}
    PROVE  Max(S) \in S /\ \A y \in S : Max(S) >= y
<1> DEFINE Greatest(T) == \E x \in T : \A y \in T : x >= y
           Bad == {n \in Nat : \E T \in SUBSET Nat :
                      IsFiniteSet(T) /\ T # {} /\ Cardinality(T) = n /\ ~Greatest(T)}
<1>1. ASSUME Bad # {} PROVE FALSE
  <2>1. PICK n \in Bad : \A m \in Bad : n <= m
    BY <1>1, MinIsLeast
  <2>2. PICK T \in SUBSET Nat :
            IsFiniteSet(T) /\ T # {} /\ Cardinality(T) = n /\ ~Greatest(T)
    BY <2>1
  <2>3. PICK x \in T : TRUE
    BY <2>2
  <2>4. /\ IsFiniteSet(T \ {x})
        /\ Cardinality(T \ {x}) = n - 1
    BY <2>2, <2>3, FS_RemoveElement
  <2>5. n - 1 \in Nat
    BY <2>4, FS_CardinalityType
  <2>6. CASE T \ {x} = {}
    <3>1. \A y \in T : x >= y
      BY <2>6, <2>3
    <3> QED
      BY <3>1, <2>2, <2>3
  <2>7. CASE T \ {x} # {}
    <3>1. n - 1 \notin Bad
      BY <2>1, <2>5
    <3>2. Greatest(T \ {x})
      BY <3>1, <2>5, <2>4, <2>7
    <3>3. PICK m \in T \ {x} : \A y \in T \ {x} : m >= y
      BY <3>2
    <3>4. CASE x >= m
      <4>1. \A y \in T : x >= y
        BY <3>3, <3>4, <2>3
      <4> QED
        BY <4>1, <2>2, <2>3
    <3>5. CASE ~(x >= m)
      <4>1. \A y \in T : m >= y
        BY <3>3, <3>5, <2>3
      <4> QED
        BY <4>1, <2>2, <3>3
    <3> QED
      BY <3>4, <3>5
  <2> QED
    BY <2>6, <2>7
<1>2. Cardinality(S) \in Nat
  BY FS_CardinalityType
<1>3. Greatest(S)
  BY <1>1, <1>2
<1> QED
  BY <1>3 DEF Max

\* The dependencies of a task are tasks of the same parent, finitely many,
\* and no set of tasks depends on itself only.
LEMMA DepsFit ==
    /\ \A t \in Tasks : /\ Deps[t] \subseteq Tasks /\ IsFiniteSet(Deps[t])
                        /\ \A d \in Deps[t] : Parent[d] = Parent[t]
    /\ \A S \in SUBSET Tasks : S # {} => \E t \in S : Deps[t] \cap S = {}
<1>1. ASSUME NEW t \in Tasks
      PROVE  /\ Deps[t] \subseteq DependsOn[t] /\ Deps[t] \subseteq Tasks
             /\ \A d \in Deps[t] : Parent[d] = Parent[t]
  BY WorkflowAssumption DEF Deps
<1>2. ASSUME NEW t \in Tasks PROVE IsFiniteSet(Deps[t])
  BY <1>1, TreeAssumption, FS_Subset
<1>3. ASSUME NEW S \in SUBSET Tasks, S # {}
      PROVE  \E t \in S : Deps[t] \cap S = {}
  <2>1. PICK t \in S : DependsOn[t] \cap S = {}
    BY <1>3, TreeAssumption
  <2> QED
    BY <2>1, <1>1
<1> QED
  BY <1>1, <1>2, <1>3

\* What find_parallel_groups makes of the depths of the dependencies.
DepthFrom(l, t) == IF Deps[t] = {} THEN 0 ELSE 1 + Max({l[d] : d \in Deps[t]})

\* l gives the depth of the tasks in S, which depend on each other only.
Depths(l, S) == \A t \in S : Deps[t] \subseteq S /\ l[t] = DepthFrom(l, t)

LEMMA DepthIsNumber ==
    ASSUME NEW S \in SUBSET Tasks, NEW l \in [S -> Nat], NEW t \in Tasks,
           Deps[t] \subseteq S
    PROVE  /\ DepthFrom(l, t) \in Nat
           /\ \A d \in Deps[t] : l[d] < DepthFrom(l, t)
           /\ Deps[t] # {} => \E d \in Deps[t] : DepthFrom(l, t) = l[d] + 1
<1>1. CASE Deps[t] = {}
  BY <1>1 DEF DepthFrom
<1>2. CASE Deps[t] # {}
  <2> DEFINE V == {l[d] : d \in Deps[t]}
  <2>1. V \in SUBSET Nat /\ V # {}
    BY <1>2
  <2>2. IsFiniteSet(V)
    <3>1. IsFiniteSet(Deps[t])
      BY DepsFit
    <3> DEFINE g == [d \in Deps[t] |-> l[d]]
    <3>2. g \in Surjection(Deps[t], V)
      BY DEF Surjection
    <3> QED
      <4> HIDE DEF g, V
      <4> QED
        BY <3>1, <3>2, FS_Surjection
  <2>3. Max(V) \in V /\ \A y \in V : Max(V) >= y
    <3> HIDE DEF V
    <3> QED
      BY <2>1, <2>2, MaxIsGreatest
  <2>4. DepthFrom(l, t) = 1 + Max(V)
    BY <1>2 DEF DepthFrom
  <2>5. Max(V) \in Nat
    BY <2>1, <2>3
  <2>6. \A d \in Deps[t] : l[d] \in V /\ l[d] \in Nat
    BY <2>1
  <2>7. \A d \in Deps[t] : l[d] <= Max(V)
    BY <2>3, <2>5, <2>6
  <2>8. \E d \in Deps[t] : Max(V) = l[d]
    BY <2>3
  <2> HIDE DEF V
  <2> QED
    BY <2>4, <2>5, <2>6, <2>7, <2>8
<1> QED
  BY <1>1, <1>2

\* Two depths of the same tasks agree.
LEMMA DepthsAgree ==
    ASSUME NEW S1 \in SUBSET Tasks, NEW S2 \in SUBSET Tasks, NEW l1, NEW l2,
           Depths(l1, S1), Depths(l2, S2)
    PROVE  \A t \in S1 \cap S2 : l1[t] = l2[t]
<1> DEFINE Bad == {t \in S1 \cap S2 : l1[t] # l2[t]}
<1>1. ASSUME Bad # {} PROVE FALSE
  <2>1. Bad \in SUBSET Tasks
    OBVIOUS
  <2>2. PICK t \in Bad : Deps[t] \cap Bad = {}
    BY <1>1, <2>1, DepsFit
  <2>3. /\ Deps[t] \subseteq S1 \cap S2
        /\ l1[t] = DepthFrom(l1, t) /\ l2[t] = DepthFrom(l2, t)
    BY <2>2 DEF Depths
  <2>4. \A d \in Deps[t] : l1[d] = l2[d]
    BY <2>2, <2>3
  <2>5. {l1[d] : d \in Deps[t]} = {l2[d] : d \in Deps[t]}
    BY <2>4
  <2>6. DepthFrom(l1, t) = DepthFrom(l2, t)
    BY <2>5, Zenon DEF DepthFrom
  <2> QED
    BY <2>2, <2>3, <2>6
<1> QED
  BY <1>1

\* There is a depth for every task.
LEMMA DepthsExist == \E l \in [Tasks -> Nat] : Depths(l, Tasks)
<1> DEFINE Known(S) == \E l \in [S -> Nat] : Depths(l, S)
           D == {t \in Tasks : \E S \in SUBSET Tasks : t \in S /\ Known(S)}
           At0(t) == CHOOSE S \in SUBSET Tasks : t \in S /\ Known(S)
           L0(t) == CHOOSE l \in [At0(t) -> Nat] : Depths(l, At0(t))
           m == [t \in D |-> L0(t)[t]]
<1>1. ASSUME NEW t \in D
      PROVE  /\ At0(t) \in SUBSET Tasks /\ t \in At0(t)
             /\ L0(t) \in [At0(t) -> Nat] /\ Depths(L0(t), At0(t))
             /\ At0(t) \subseteq D
  <2>1. /\ At0(t) \in SUBSET Tasks /\ t \in At0(t) /\ Known(At0(t))
    <3>1. \E S \in SUBSET Tasks : t \in S /\ Known(S)
      BY <1>1
    <3> HIDE DEF Known
    <3> QED
      BY <3>1
  <2>2. \A u \in At0(t) : u \in D
    BY <2>1
  <2>3. L0(t) \in [At0(t) -> Nat] /\ Depths(L0(t), At0(t))
    <3> DEFINE A == At0(t)
    <3>1. \E l \in [A -> Nat] : Depths(l, A)
      BY <2>1
    <3> HIDE DEF A
    <3>2. /\ (CHOOSE l \in [A -> Nat] : Depths(l, A)) \in [A -> Nat]
          /\ Depths((CHOOSE l \in [A -> Nat] : Depths(l, A)), A)
      BY <3>1, Zenon
    <3> QED
      BY <3>2 DEF A
  <2> QED
    BY <2>1, <2>2, <2>3
<1>2. m \in [D -> Nat]
  <2>1. ASSUME NEW t \in D PROVE L0(t)[t] \in Nat
    <3> HIDE DEF At0, L0, D
    <3> QED
      BY <1>1
  <2> HIDE DEF L0, D
  <2> QED
    BY <2>1
<1>3. ASSUME NEW t \in D, NEW u \in At0(t)
      PROVE  m[u] = L0(t)[u]
  <2>1. u \in D
    BY <1>1, <1>3
  <2>2. m[u] = L0(u)[u]
    <3> HIDE DEF At0, L0, D
    <3> QED
      BY <2>1
  <2>3. u \in At0(u) \cap At0(t)
    BY <1>1, <2>1, <1>3
  <2>4. L0(u)[u] = L0(t)[u]
    <3> HIDE DEF At0, L0, D
    <3> QED
      BY <1>1, <2>1, <2>3, DepthsAgree
  <2> QED
    BY <2>2, <2>4
<1>4. Depths(m, D)
  <2> SUFFICES ASSUME NEW t \in D
               PROVE  Deps[t] \subseteq D /\ m[t] = DepthFrom(m, t)
    BY DEF Depths
  <2> HIDE DEF At0, L0, D, m
  <2>1. /\ t \in At0(t) /\ Deps[t] \subseteq At0(t)
        /\ L0(t)[t] = DepthFrom(L0(t), t)
    BY <1>1 DEF Depths
  <2>2. Deps[t] \subseteq D
    BY <1>1, <2>1
  <2>3. m[t] = L0(t)[t] /\ \A d \in Deps[t] : m[d] = L0(t)[d]
    BY <1>3, <2>1
  <2>4. {m[d] : d \in Deps[t]} = {L0(t)[d] : d \in Deps[t]}
    BY <2>3
  <2>5. DepthFrom(m, t) = DepthFrom(L0(t), t)
    BY <2>4, Zenon DEF DepthFrom
  <2> QED
    BY <2>1, <2>2, <2>3, <2>5
<1>5. ASSUME D # Tasks PROVE FALSE
  <2>1. PICK t \in Tasks \ D : Deps[t] \cap (Tasks \ D) = {}
    <3>1. Tasks \ D \in SUBSET Tasks /\ Tasks \ D # {}
      BY <1>5
    <3> HIDE DEF D
    <3> QED
      BY <3>1, DepsFit
  <2> DEFINE S == D \cup {t}
             l == [u \in S |-> IF u = t THEN DepthFrom(m, t) ELSE m[u]]
  <2>2. D \in SUBSET Tasks /\ Deps[t] \subseteq D
    BY <2>1, DepsFit
  <2>3. DepthFrom(m, t) \in Nat
    <3> HIDE DEF D, m
    <3> QED
      BY <2>1, <2>2, <1>2, DepthIsNumber
  <2>4. l \in [S -> Nat]
    <3> HIDE DEF D, m
    <3> QED
      BY <2>3, <1>2
  <2>5. \A u \in D : l[u] = m[u]
    BY <2>1
  <2>6. ASSUME NEW u \in S
        PROVE  Deps[u] \subseteq D /\ l[u] = DepthFrom(m, u)
    <3> HIDE DEF D, m
    <3>1. CASE u = t
      BY <3>1, <2>2
    <3>2. CASE u # t
      BY <3>2, <1>4 DEF Depths
    <3> QED
      BY <3>1, <3>2
  <2>7. ASSUME NEW u \in S PROVE DepthFrom(m, u) = DepthFrom(l, u)
    <3> HIDE DEF D, m, l
    <3>1. {m[d] : d \in Deps[u]} = {l[d] : d \in Deps[u]}
      BY <2>5, <2>6
    <3> QED
      BY <3>1, Zenon DEF DepthFrom
  <2>8. Depths(l, S)
    <3> HIDE DEF D, m, l
    <3> QED
      BY <2>6, <2>7 DEF Depths
  <2>9. t \in D
    <3>1. S \in SUBSET Tasks /\ t \in S
      BY <2>1, <2>2
    <3>2. Known(S)
      <4> HIDE DEF S, l, D
      <4> QED
        BY <2>4, <2>8
    <3> HIDE DEF S, Known
    <3> QED
      BY <3>1, <3>2, <2>1
  <2> QED
    BY <2>1, <2>9
<1> HIDE DEF D, m
<1> QED
  BY <1>2, <1>4, <1>5

\* find_parallel_groups: the depth of a task is greater than the depths of
\* its dependencies, and just greater than the greatest one.
LEMMA LevelFits ==
    /\ Level \in [Tasks -> Nat]
    /\ \A t \in Tasks : /\ \A d \in Deps[t] : Level[d] < Level[t]
                        /\ Level[t] > 0 => \E d \in Deps[t] : Level[t] = Level[d] + 1
<1> DEFINE Body(l) == [t \in Tasks |->
                IF Deps[t] = {} THEN 0 ELSE 1 + Max({l[d] : d \in Deps[t]})]
<1>1. PICK l \in [Tasks -> Nat] : Depths(l, Tasks)
  BY DepthsExist
<1>2. l = Body(l)
  BY <1>1 DEF Depths, DepthFrom
<1>3. Level = CHOOSE f : f = Body(f)
  BY DEF Level
<1>4. Level = Body(Level)
  <2> HIDE DEF Body
  <2> QED
    BY <1>2, <1>3
<1>5. Depths(Level, Tasks)
  <2>1. ASSUME NEW t \in Tasks PROVE Level[t] = DepthFrom(Level, t)
    BY <1>4, Zenon DEF DepthFrom
  <2> QED
    BY <2>1, DepsFit DEF Depths
<1>6. \A t \in Tasks : Level[t] = l[t]
  BY <1>1, <1>5, DepthsAgree
<1>7. Level = l
  <2>1. Level = [t \in Tasks |-> Level[t]]
    BY <1>4
  <2> QED
    BY <2>1, <1>6
<1>8. ASSUME NEW t \in Tasks
      PROVE  /\ \A d \in Deps[t] : Level[d] < Level[t]
             /\ Level[t] > 0 => \E d \in Deps[t] : Level[t] = Level[d] + 1
  <2>1. Deps[t] \subseteq Tasks /\ Level[t] = DepthFrom(Level, t)
    BY <1>5 DEF Depths
  <2>2. Deps[t] = {} => DepthFrom(Level, t) = 0
    BY DEF DepthFrom
  <2> QED
    BY <2>1, <2>2, <1>7, DepthIsNumber
<1> QED
  BY <1>7, <1>8

\* When a gatherer has no group at depth k, it has no task at depth k or more.
LEMMA NoGap ==
    ASSUME NEW o, NEW k \in Nat, Group(o, k) = {}
    PROVE  \A c \in Children(o) : Level[c] < k
<1> DEFINE S == {c \in Children(o) : Level[c] >= k}
<1>1. ASSUME S # {} PROVE FALSE
  <2>1. S \in SUBSET Tasks
    BY DEF Children
  <2>2. PICK c \in S : Deps[c] \cap S = {}
    BY <1>1, <2>1, DepsFit
  <2>3. c \in Tasks /\ Parent[c] = o /\ Level[c] >= k /\ Level[c] \in Nat
    BY <2>2, LevelFits DEF Children
  <2>4. Level[c] # k
    BY <2>2, <2>3 DEF Group, Children
  <2>5. PICK d \in Deps[c] : Level[c] = Level[d] + 1
    BY <2>3, <2>4, LevelFits
  <2>6. d \in Tasks /\ Parent[d] = o /\ Level[d] \in Nat
    BY <2>3, DepsFit, LevelFits
  <2>7. d \in S
    BY <2>3, <2>4, <2>5, <2>6 DEF Children
  <2> QED
    BY <2>2, <2>7
<1>2. \A c \in Children(o) : Level[c] \in Nat
  BY LevelFits DEF Children
<1> QED
  BY <1>1, <1>2

-----------------------------------------------------------------------------
(* What a step of a task's coroutine does                                  *)

\* t creates the coroutine of its subtask u.
Spawns(t, u) ==
    /\ u \in Children(t) /\ pc[u] = "idle"
    /\ pc[t] \in {"act", "work"} /\ pc'[t] = "work" /\ t \notin doomed
    /\ IF IsIteration(u) THEN pc'[u] = "queued"
                         ELSE pc'[u] = "gate" /\ Level[u] = stage'[t]

\* The coroutines that a step of t's moves: t's own, and those it creates.
MovesOnly(t) ==
    \A u \in Tasks : \/ pc'[u] = pc[u]
                     \/ u = t /\ Working(t) /\ pc'[t] \notin {"idle", "queued"}
                     \/ Spawns(t, u)

\* Either nothing is to be cancelled in t, or its cancellation is delivered.
Turn(t) ==
    \/ pc' = pc /\ doomed' = doomed
    \/ Working(t) /\ t \notin doomed /\ doomed' = doomed
    \/ /\ t \in doomed /\ doomed' = doomed \ {t}
       /\ pc' = [pc EXCEPT ![t] = "cancelled"]

\* The state of the other tasks, and of the run, stays.
LeavesRest(t) ==
    /\ UNCHANGED <<policy, status, main, aborter, heard>>
    /\ \A u \in Tasks : u # t =>
          mem'[u] = mem[u] /\ trace'[u] = trace[u] /\ iteration'[u] = iteration[u]
    /\ mem'[t] # mem[t] => Working(t) \/ t \in abortLeft
    /\ iteration'[t] # iteration[t] => Working(t)
    /\ \A u \in abortLeft' : u \in abortLeft
    /\ \A u \in aborting : u \in aborting'

\* A gatherer keeps the first exception it sees.
FirstFault(t) ==
    /\ \A o \in Tasks \cup {Root} :
          /\ fault[o] # "none" => fault'[o] = fault[o]
          /\ fault'[o] = "cancelled" => fault[o] = "cancelled" \/ pc'[t] = "cancelled"
    /\ pc'[t] = "cancelled" =>
          t \in doomed \/ pc[t] = "cancelled" \/ fault[t] = "cancelled"

\* A gatherer goes on to the next group when the current one has returned.
NextGroup(t) ==
    \/ stage' = stage
    \/ /\ stage' = [stage EXCEPT ![t] = @ + 1]
       /\ pc[t] = "work" /\ pc'[t] \in {"work", "post"}
       /\ \A c \in Children(t) : Level[c] = stage[t] => pc[c] = "returned"

StepFrame(t) ==
    MovesOnly(t) /\ Turn(t) /\ LeavesRest(t) /\ FirstFault(t) /\ NextGroup(t)

\* What the assumptions say of a task and its parent.
LEMMA TreeFits ==
    /\ Root \notin Tasks
    /\ \A t \in Tasks : /\ Parent[t] \in Tasks \cup {Root} /\ Parent[t] # t
                        /\ Kind[t] \in Kinds
    /\ \A t \in Tasks : Kind[t] \notin {"composite", "for_each"} => Children(t) = {}
    /\ \A t \in Tasks : IsIteration(t) => Deps[t] = {} /\ Parent[t] \in Tasks
    /\ \A t \in Tasks : \A c \in Children(t) : IsIteration(c) <=> Kind[t] = "for_each"
<1>1. \A t \in Tasks : Parent[t] # t
  <2> SUFFICES ASSUME NEW t \in Tasks PROVE Parent[t] # t
    OBVIOUS
  <2>1. {t} \in SUBSET Tasks /\ {t} # {}
    OBVIOUS
  <2>2. \E u \in {t} : Parent[u] \notin {t}
    BY <2>1, TreeAssumption
  <2> QED
    BY <2>2
<1>2. \A t \in Tasks : IsIteration(t) => Deps[t] = {} /\ Parent[t] \in Tasks
  BY WorkflowAssumption, TreeAssumption DEF IsIteration, Deps
<1> QED
  BY <1>1, <1>2, WorkflowAssumption DEF Children, IsIteration

\* The steps that only move t's own coroutine.
OwnStep(t) ==
    \/ PassGate(t) \/ InsertTask(t) \/ BeginTask(t) \/ RefuseWrite(t)
    \/ WritePrechecking(t) \/ RunPrechecks(t) \/ WriteEnd(t)
    \/ AgentEnds(t) \/ FunctionEnds(t) \/ DecisionEnds(t) \/ HearEvent(t)
    \/ WaitTimesOut(t) \/ WritePostchecking(t) \/ RunPostchecks(t)
    \/ GatherFaults(t) \/ EnterIteration(t) \/ SettleIteration(t) \/ LoopDone(t)

LEMMA OwnStepMoves ==
    ASSUME TypeOK, NEW t \in Tasks, OwnStep(t)
    PROVE  /\ Working(t) /\ t \notin doomed /\ doomed' = doomed
           /\ pc' = [pc EXCEPT ![t] = pc'[t]]
           /\ pc'[t] \in Pc \ {"idle", "queued"}
           /\ UNCHANGED <<policy, status, main, aborter, heard, abortLeft, stage>>
           /\ \/ fault' = fault
              \/ /\ fault[Parent[t]] = "none"
                 /\ fault' = [fault EXCEPT ![Parent[t]] = pc'[t]]
                 /\ pc'[t] \in {"raised", "cancelled"}
           /\ pc'[t] = "cancelled" => fault[t] = "cancelled"
<1> USE DEF TypeOK, Pc, Writes, Ended, Working, run, loops
<1>1. CASE PassGate(t)
  BY <1>1, WorkflowAssumption DEF PassGate, At
<1>2. CASE InsertTask(t)
  BY <1>2, WorkflowAssumption DEF InsertTask, At, Assign
<1>3. CASE BeginTask(t)
  BY <1>3, WorkflowAssumption DEF BeginTask, At, Assign, Raise, Ends
<1>4. CASE RefuseWrite(t)
  BY <1>4, WorkflowAssumption DEF RefuseWrite, Writes, Raise, Ends
<1>5. CASE WritePrechecking(t)
  BY <1>5, WorkflowAssumption DEF WritePrechecking, At, Commit, Assign
<1>6. CASE RunPrechecks(t)
  BY <1>6, WorkflowAssumption DEF RunPrechecks, At, Assign, Raise, Ends
<1>7. CASE WriteEnd(t)
  BY <1>7, WorkflowAssumption DEF WriteEnd, Commit, Return, Ends
<1>8. CASE AgentEnds(t)
  BY <1>8, WorkflowAssumption DEF AgentEnds, At, Return, Raise, Ends
<1>9. CASE FunctionEnds(t)
  BY <1>9, WorkflowAssumption DEF FunctionEnds, At, Assign, Raise, Ends
<1>10. CASE DecisionEnds(t)
  BY <1>10, WorkflowAssumption DEF DecisionEnds, At, Assign, Raise, Ends
<1>11. CASE HearEvent(t)
  BY <1>11, WorkflowAssumption DEF HearEvent, At, Assign
<1>12. CASE WaitTimesOut(t)
  BY <1>12, WorkflowAssumption DEF WaitTimesOut, At, Assign
<1>13. CASE WritePostchecking(t)
  BY <1>13, WorkflowAssumption DEF WritePostchecking, At, Commit
<1>14. CASE RunPostchecks(t)
  BY <1>14, WorkflowAssumption DEF RunPostchecks, At, Assign, Raise, Ends
<1>15. CASE GatherFaults(t)
  BY <1>15, WorkflowAssumption DEF GatherFaults, At, Raise, Ends
<1>16. CASE EnterIteration(t)
  BY <1>16, WorkflowAssumption DEF EnterIteration, At, Ends
<1>17. CASE SettleIteration(t)
  BY <1>17, WorkflowAssumption DEF SettleIteration, Ends
<1>18. CASE LoopDone(t)
  BY <1>18, WorkflowAssumption DEF LoopDone, At, Assign
<1> QED
  BY <1>1, <1>2, <1>3, <1>4, <1>5, <1>6, <1>7, <1>8, <1>9, <1>10, <1>11, <1>12, <1>13, <1>14, <1>15, <1>16, <1>17, <1>18 DEF OwnStep

LEMMA OwnStepRest ==
    ASSUME TypeOK, NEW t \in Tasks, OwnStep(t)
    PROVE  /\ \A u \in Tasks : u # t =>
                 /\ mem'[u] = mem[u] /\ trace'[u] = trace[u]
                 /\ iteration'[u] = iteration[u]
           /\ \A u \in aborting : u \in aborting'
<1> USE DEF TypeOK, run, loops
<1>1. CASE PassGate(t)
  BY <1>1 DEF PassGate, At
<1>2. CASE InsertTask(t)
  BY <1>2 DEF InsertTask, At, Assign
<1>3. CASE BeginTask(t)
  BY <1>3 DEF BeginTask, At, Assign, Raise, Ends
<1>4. CASE RefuseWrite(t)
  BY <1>4 DEF RefuseWrite, Raise, Ends
<1>5. CASE WritePrechecking(t)
  BY <1>5 DEF WritePrechecking, At, Commit, Assign
<1>6. CASE RunPrechecks(t)
  BY <1>6 DEF RunPrechecks, At, Assign, Raise, Ends
<1>7. CASE WriteEnd(t)
  BY <1>7 DEF WriteEnd, Commit, Return, Ends
<1>8. CASE AgentEnds(t)
  BY <1>8 DEF AgentEnds, At, Return, Raise, Ends
<1>9. CASE FunctionEnds(t)
  BY <1>9 DEF FunctionEnds, At, Assign, Raise, Ends
<1>10. CASE DecisionEnds(t)
  BY <1>10 DEF DecisionEnds, At, Assign, Raise, Ends
<1>11. CASE HearEvent(t)
  BY <1>11 DEF HearEvent, At, Assign
<1>12. CASE WaitTimesOut(t)
  BY <1>12 DEF WaitTimesOut, At, Assign
<1>13. CASE WritePostchecking(t)
  BY <1>13 DEF WritePostchecking, At, Commit
<1>14. CASE RunPostchecks(t)
  BY <1>14 DEF RunPostchecks, At, Assign, Raise, Ends
<1>15. CASE GatherFaults(t)
  BY <1>15 DEF GatherFaults, At, Raise, Ends
<1>16. CASE EnterIteration(t)
  BY <1>16 DEF EnterIteration, At, Ends
<1>17. CASE SettleIteration(t)
  BY <1>17 DEF SettleIteration, Ends
<1>18. CASE LoopDone(t)
  BY <1>18 DEF LoopDone, At, Assign
<1> QED
  BY <1>1, <1>2, <1>3, <1>4, <1>5, <1>6, <1>7, <1>8, <1>9, <1>10, <1>11, <1>12, <1>13, <1>14, <1>15, <1>16, <1>17, <1>18 DEF OwnStep

\* Every step of a task is its own, creates subtasks, or is its cancellation.
LEMMA StepCases ==
    ASSUME NEW t \in Tasks, TaskStep(t)
    PROVE  OwnStep(t) \/ WriteActive(t) \/ SubgroupDone(t) \/ DeliverCancel(t)
               \/ AbortTask(t)
BY DEF TaskStep, OwnStep

LEMMA OwnStepFrame ==
    ASSUME TypeOK, NEW t \in Tasks, OwnStep(t)
    PROVE  StepFrame(t)
<1>1. MovesOnly(t)
  BY OwnStepMoves DEF MovesOnly, TypeOK
<1>2. Turn(t)
  BY OwnStepMoves DEF Turn
<1>3. LeavesRest(t)
  BY OwnStepMoves, OwnStepRest DEF LeavesRest
<1>4. FirstFault(t)
  BY OwnStepMoves, TreeFits DEF FirstFault, TypeOK
<1>5. NextGroup(t)
  BY OwnStepMoves DEF NextGroup
<1> QED
  BY <1>1, <1>2, <1>3, <1>4, <1>5 DEF StepFrame

\* Subtasks that are created are idle.
LEMMA WriteActiveFrame ==
    ASSUME TypeOK, EarlyIdle, NEW t \in Tasks, WriteActive(t)
    PROVE  StepFrame(t) /\ stage' = stage
<1>1. /\ pc[t] = "act" /\ t \notin doomed /\ Working(t)
      /\ UNCHANGED <<policy, status, main, aborter, abortLeft, open, signals, mem,
                     iteration, aborting, heard, stage, fault, doomed>>
      /\ trace' = [trace EXCEPT ![t] = mem[t]]
      /\ pc' = [c \in Tasks |-> IF c \in DOMAIN Spawned(t) THEN Spawned(t)[c]
                                ELSE IF c = t THEN "work" ELSE pc[c]]
  BY DEF WriteActive, At, Commit, Working, Ended, run, loops
<1>2. /\ stage[t] = 0
      /\ \A c \in Children(t) : pc[c] = "idle"
  BY <1>1 DEF EarlyIdle, Early
<1>3. /\ \A c \in DOMAIN Spawned(t) : c \in Children(t)
      /\ \A c \in DOMAIN Spawned(t) :
            IF IsIteration(c) THEN Spawned(t)[c] = "queued"
            ELSE Spawned(t)[c] = "gate" /\ Level[c] = 0
  <2>1. CASE Kind[t] = "composite"
    <3>1. Spawned(t) = [c \in Group(t, 0) |-> "gate"]
      BY <2>1 DEF Spawned
    <3>2. \A c \in Group(t, 0) : c \in Children(t) /\ ~IsIteration(c) /\ Level[c] = 0
      BY <2>1, TreeFits DEF Group
    <3> QED
      BY <3>1, <3>2
  <2>2. CASE Kind[t] = "for_each"
    <3>1. Spawned(t) = [c \in Children(t) |-> "queued"]
      BY <2>2 DEF Spawned
    <3>2. \A c \in Children(t) : IsIteration(c)
      BY <2>2, TreeFits
    <3> QED
      BY <3>1, <3>2
  <2>3. CASE Kind[t] \notin {"composite", "for_each"}
    <3>1. Spawned(t) = [c \in {} |-> "idle"]
      BY <2>3 DEF Spawned
    <3> QED
      BY <3>1
  <2> QED
    BY <2>1, <2>2, <2>3
<1>4. t \notin DOMAIN Spawned(t)
  BY <1>3, TreeFits DEF Children
<1>5. pc'[t] = "work"
  BY <1>1, <1>4
<1>6. MovesOnly(t)
  <2> SUFFICES ASSUME NEW u \in Tasks
               PROVE  \/ pc'[u] = pc[u]
                      \/ u = t /\ Working(t) /\ pc'[t] \notin {"idle", "queued"}
                      \/ Spawns(t, u)
    BY DEF MovesOnly
  <2>1. CASE u \in DOMAIN Spawned(t)
    <3>1. pc'[u] = Spawned(t)[u]
      BY <1>1, <2>1
    <3> QED
      BY <2>1, <3>1, <1>1, <1>2, <1>3, <1>5 DEF Spawns
  <2>2. CASE u \notin DOMAIN Spawned(t)
    BY <2>2, <1>1, <1>5
  <2> QED
    BY <2>1, <2>2
<1>7. Turn(t) /\ NextGroup(t)
  BY <1>1 DEF Turn, NextGroup
<1>8. LeavesRest(t)
  BY <1>1 DEF LeavesRest, TypeOK
<1>9. FirstFault(t)
  BY <1>1, <1>5 DEF FirstFault
<1> QED
  BY <1>1, <1>6, <1>7, <1>8, <1>9 DEF StepFrame

LEMMA SubgroupDoneFrame ==
    ASSUME TypeOK, StagesFit, NEW t \in Tasks, SubgroupDone(t)
    PROVE  StepFrame(t)
<1>1. /\ pc[t] = "work" /\ t \notin doomed /\ Working(t) /\ Kind[t] = "composite"
      /\ UNCHANGED <<policy, status, main, aborter, abortLeft, trace,
                     iteration, aborting, heard, fault, doomed>>
      /\ stage' = [stage EXCEPT ![t] = @ + 1]
      /\ \A c \in Group(t, stage[t]) : pc[c] = "returned"
  BY DEF SubgroupDone, At, Assign, Working, Ended, run, loops
<1>2. \/ /\ mem' = mem
         /\ pc' = [c \in Tasks |->
                     IF c \in Group(t, stage[t] + 1) THEN "gate" ELSE pc[c]]
      \/ pc' = [pc EXCEPT ![t] = "post"] /\ mem' = [mem EXCEPT ![t] = "postchecking"]
  BY DEF SubgroupDone, Assign
<1>3. t \notin Group(t, stage[t] + 1)
  BY TreeFits DEF Group, Children
<1>4. pc'[t] \in {"work", "post"}
  BY <1>1, <1>2, <1>3 DEF TypeOK
<1>5. stage[t] \in Nat /\ stage'[t] = stage[t] + 1
  BY <1>1 DEF TypeOK
<1>6. ASSUME NEW c \in Group(t, stage[t] + 1)
      PROVE  /\ c \in Children(t) /\ pc[c] = "idle" /\ ~IsIteration(c)
             /\ Level[c] = stage'[t]
  <2>1. c \in Children(t) /\ Level[c] = stage[t] + 1 /\ c \in Tasks /\ Parent[c] = t
    BY DEF Group, Children
  <2>2. ~IsIteration(c)
    BY <2>1, <1>1, TreeFits
  <2>3. pc[c] = "idle"
    BY <2>1, <2>2, <1>5 DEF StagesFit
  <2> QED
    BY <2>1, <2>2, <2>3, <1>5
<1>7. MovesOnly(t)
  <2> SUFFICES ASSUME NEW u \in Tasks
               PROVE  \/ pc'[u] = pc[u]
                      \/ u = t /\ Working(t) /\ pc'[t] \notin {"idle", "queued"}
                      \/ Spawns(t, u)
    BY DEF MovesOnly
  <2>1. CASE u = t
    BY <2>1, <1>1, <1>4
  <2>2. CASE pc'[u] # pc[u] /\ u # t
    <3>1. u \in Group(t, stage[t] + 1) /\ pc'[u] = "gate" /\ pc'[t] = "work"
      BY <2>2, <1>1, <1>2, <1>3 DEF TypeOK
    <3> QED
      BY <3>1, <1>1, <1>6 DEF Spawns
  <2> QED
    BY <2>1, <2>2
<1>8. Turn(t)
  BY <1>1 DEF Turn
<1>9. NextGroup(t)
  BY <1>1, <1>4 DEF NextGroup, Group
<1>10. LeavesRest(t)
  BY <1>1, <1>2 DEF LeavesRest, TypeOK
<1>11. FirstFault(t)
  BY <1>1, <1>4 DEF FirstFault
<1> QED
  BY <1>7, <1>8, <1>9, <1>10, <1>11 DEF StepFrame

LEMMA TaskStepFrame ==
    ASSUME TypeOK, CancelsFit, EarlyIdle, StagesFit, NEW t \in Tasks, TaskStep(t)
    PROVE  StepFrame(t)
<1>1. CASE DeliverCancel(t)
  <2>1. /\ t \in doomed /\ Working(t) /\ doomed' = doomed \ {t}
        /\ pc' = [pc EXCEPT ![t] = "cancelled"] /\ pc'[t] = "cancelled"
        /\ UNCHANGED <<policy, status, main, aborter, heard, abortLeft, mem, stage,
                       iteration, aborting>>
    BY <1>1 DEF DeliverCancel, Ends, CancelsFit, TypeOK, run, loops
  <2>2. \A u \in Tasks : u # t => trace'[u] = trace[u]
    BY <1>1 DEF DeliverCancel, Commit, TypeOK
  <2>3. FirstFault(t)
    BY <1>1, <2>1, TreeFits DEF DeliverCancel, Ends, FirstFault, TypeOK
  <2>4. MovesOnly(t) /\ Turn(t) /\ LeavesRest(t) /\ NextGroup(t)
    BY <2>1, <2>2 DEF MovesOnly, Turn, LeavesRest, NextGroup, TypeOK
  <2> QED
    BY <2>3, <2>4 DEF StepFrame
<1>2. CASE AbortTask(t)
  BY <1>2 DEF AbortTask, StepFrame, MovesOnly, Turn, LeavesRest, FirstFault,
              NextGroup, TypeOK, loops
<1> QED
  BY <1>1, <1>2, StepCases, OwnStepFrame, WriteActiveFrame, SubgroupDoneFrame

\* t waits for its subtasks when it has created them.
LEMMA WriteActiveMoves ==
    ASSUME TypeOK, EarlyIdle, NEW t \in Tasks, WriteActive(t)
    PROVE  /\ pc[t] = "act" /\ pc'[t] = "work" /\ t \notin doomed
           /\ mem' = mem /\ trace' = [trace EXCEPT ![t] = mem[t]]
<1>1. pc[t] = "act" /\ t \notin doomed
  BY DEF WriteActive, At
<1>2. \A c \in DOMAIN Spawned(t) : c \in Children(t)
  BY DEF Spawned, Group
<1>3. t \notin DOMAIN Spawned(t)
  BY <1>2, TreeFits DEF Children
<1> QED
  BY <1>1, <1>3 DEF WriteActive, Commit

LEMMA SubgroupDoneMoves ==
    ASSUME TypeOK, NEW t \in Tasks, SubgroupDone(t)
    PROVE  /\ pc[t] = "work" /\ t \notin doomed /\ Kind[t] = "composite"
           /\ trace' = trace
           /\ \/ pc'[t] = "work" /\ mem' = mem
              \/ /\ Group(t, stage[t] + 1) = {}
                 /\ pc' = [pc EXCEPT ![t] = "post"]
                 /\ mem' = [mem EXCEPT ![t] = "postchecking"]
<1>1. t \notin Group(t, stage[t] + 1)
  BY TreeFits DEF Group, Children
<1>2. pc[t] = "work" /\ t \notin doomed /\ Kind[t] = "composite" /\ trace' = trace
  BY DEF SubgroupDone, At
<1> QED
  BY <1>1, <1>2 DEF SubgroupDone, Assign, TypeOK

\* t waits where its mode allows, and never goes back to before its work.
OwnPlace(t) ==
    /\ pc'[t] \in {"prechecks", "post", "postchecks", "prefail"}
          => Kind[t] = "composite"
    /\ pc'[t] \in {"queued", "settle", "fail"} => IsIteration(t)
    /\ (pc'[t] \in {"idle", "queued"} \/ ~IsIteration(t))
          => iteration'[t] = "none"
    /\ pc'[t] \in Early => pc[t] \in Early
    /\ t \in abortLeft' =>
          mem'[t] = mem[t] /\ (pc'[t] \in Ended \/ t \in doomed')
    /\ pc'[t] = "idle" => mem'[t] = mem[t]
    /\ pc[t] = "queued" => pc'[t] \in Ended \cup {"queued"} \/ Permit(Parent[t])

\* Where a step of a task leaves it.
LEMMA OwnPlaceHolds ==
    ASSUME TypeOK, KindsFit, CancelsFit, EarlyIdle, NEW t \in Tasks, TaskStep(t)
    PROVE  OwnPlace(t)
<1> USE DEF TypeOK, KindsFit, CancelsFit, EarlyIdle, OwnPlace, Early, Working, Ended, run, loops
<1>1. CASE PassGate(t)
  BY <1>1 DEF PassGate, At
<1>2. CASE InsertTask(t)
  BY <1>2 DEF InsertTask, At, Assign
<1>3. CASE BeginTask(t)
  BY <1>3 DEF BeginTask, At, Assign, Raise, Ends
<1>4. CASE RefuseWrite(t)
  BY <1>4 DEF RefuseWrite, Writes, Raise, Ends
<1>5. CASE WritePrechecking(t)
  BY <1>5 DEF WritePrechecking, At, Commit, Assign
<1>6. CASE RunPrechecks(t)
  BY <1>6 DEF RunPrechecks, At, Assign, Raise, Ends
<1>7. CASE WriteActive(t)
  <2>1. pc'[t] = "work" /\ pc[t] = "act" /\ t \notin doomed
    BY <1>7, WriteActiveMoves
  <2> QED
    BY <2>1, <1>7 DEF WriteActive, At, Commit
<1>8. CASE WriteEnd(t)
  BY <1>8 DEF WriteEnd, Commit, Return, Ends
<1>9. CASE AgentEnds(t)
  BY <1>9 DEF AgentEnds, At, Return, Raise, Ends
<1>10. CASE FunctionEnds(t)
  BY <1>10 DEF FunctionEnds, At, Assign, Raise, Ends
<1>11. CASE DecisionEnds(t)
  BY <1>11 DEF DecisionEnds, At, Assign, Raise, Ends
<1>12. CASE HearEvent(t)
  BY <1>12 DEF HearEvent, At, Assign
<1>13. CASE WaitTimesOut(t)
  BY <1>13 DEF WaitTimesOut, At, Assign
<1>14. CASE SubgroupDone(t)
  <2>1. /\ pc[t] = "work" /\ t \notin doomed /\ Kind[t] = "composite"
        /\ (pc'[t] = "work" /\ mem' = mem) \/ pc'[t] = "post"
    BY <1>14, SubgroupDoneMoves
  <2> QED
    BY <2>1, <1>14 DEF SubgroupDone, At, Assign
<1>15. CASE WritePostchecking(t)
  BY <1>15 DEF WritePostchecking, At, Commit
<1>16. CASE RunPostchecks(t)
  BY <1>16 DEF RunPostchecks, At, Assign, Raise, Ends
<1>17. CASE GatherFaults(t)
  BY <1>17 DEF GatherFaults, At, Raise, Ends
<1>18. CASE EnterIteration(t)
  BY <1>18 DEF EnterIteration, At, Ends
<1>19. CASE SettleIteration(t)
  BY <1>19 DEF SettleIteration, Ends, Passed
<1>20. CASE LoopDone(t)
  BY <1>20 DEF LoopDone, At, Assign
<1>21. CASE DeliverCancel(t)
  BY <1>21 DEF DeliverCancel, Ends, Commit, Writes
<1>22. CASE AbortTask(t)
  BY <1>22 DEF AbortTask, ActiveStates
<1> QED
  BY <1>1, <1>2, <1>3, <1>4, <1>5, <1>6, <1>7, <1>8, <1>9, <1>10, <1>11,
     <1>12, <1>13, <1>14, <1>15, <1>16, <1>17, <1>18, <1>19, <1>20,
     <1>21, <1>22 DEF TaskStep

\* t is past its gather when its subtasks have returned.
OwnKids(t) ==
    /\ (Kind[t] = "composite" /\ (\/ pc'[t] \in {"post", "postchecks"}
                                  \/ mem'[t] \in {"postchecking", "completed"}))
          => \A c \in Children(t) : pc[c] = "returned"
    /\ (pc'[t] \in {"prefail", "postfail", "done", "timedout", "settle"}
           \/ (pc'[t] = "returned" /\ ~(IsIteration(t) /\ Children(t) # {})))
          => \A c \in Children(t) : pc[c] \in {"idle", "returned"}
    /\ (Kind[t] = "for_each" /\ mem'[t] \in {"completed", "postcheck_failed"})
          => \A c \in Children(t) : pc[c] = "returned"
    /\ (t \in AbortOnFailure /\ mem'[t] = "completed")
          => mem[t] = "completed" \/ (t \notin aborting /\ \A c \in Children(t) : pc[c] = "returned")

\* What a step of a task says of its subtasks.
LEMMA OwnKidsHolds ==
    ASSUME TypeOK, KindsFit, EarlyIdle, StagesFit, KidsDone, IterationsSettled, NEW t \in Tasks, TaskStep(t)
    PROVE  OwnKids(t)
<1> USE DEF TypeOK, KindsFit, EarlyIdle, KidsDone, IterationsSettled, OwnKids, Early, run, loops
<1>1. CASE PassGate(t)
  BY <1>1, TreeFits, WorkflowAssumption DEF PassGate, At
<1>2. CASE InsertTask(t)
  BY <1>2, TreeFits, WorkflowAssumption DEF InsertTask, At, Assign
<1>3. CASE BeginTask(t)
  BY <1>3, TreeFits, WorkflowAssumption DEF BeginTask, At, Assign, Raise, Ends
<1>4. CASE RefuseWrite(t)
  BY <1>4, TreeFits, WorkflowAssumption DEF RefuseWrite, Writes, Raise, Ends
<1>5. CASE WritePrechecking(t)
  BY <1>5, TreeFits, WorkflowAssumption DEF WritePrechecking, At, Commit, Assign
<1>6. CASE RunPrechecks(t)
  BY <1>6, TreeFits, WorkflowAssumption DEF RunPrechecks, At, Assign, Raise, Ends
<1>7. CASE WriteActive(t)
  <2>1. pc'[t] = "work" /\ pc[t] = "act" /\ mem' = mem
    BY <1>7, WriteActiveMoves
  <2> QED
    BY <2>1
<1>8. CASE WriteEnd(t)
  BY <1>8, TreeFits, WorkflowAssumption DEF WriteEnd, Commit, Return, Ends
<1>9. CASE AgentEnds(t)
  BY <1>9, TreeFits, WorkflowAssumption DEF AgentEnds, At, Return, Raise, Ends
<1>10. CASE FunctionEnds(t)
  BY <1>10, TreeFits, WorkflowAssumption DEF FunctionEnds, At, Assign, Raise, Ends
<1>11. CASE DecisionEnds(t)
  BY <1>11, TreeFits, WorkflowAssumption DEF DecisionEnds, At, Assign, Raise, Ends
<1>12. CASE HearEvent(t)
  BY <1>12, TreeFits, WorkflowAssumption DEF HearEvent, At, Assign
<1>13. CASE WaitTimesOut(t)
  BY <1>13, TreeFits, WorkflowAssumption DEF WaitTimesOut, At, Assign
<1>14. CASE SubgroupDone(t)
  <2>1. CASE pc'[t] = "work" /\ mem' = mem
    BY <2>1
  <2>2. CASE Group(t, stage[t] + 1) = {} /\ pc' = [pc EXCEPT ![t] = "post"]
                /\ mem' = [mem EXCEPT ![t] = "postchecking"]
    <3>1. \A c \in Children(t) : pc[c] = "returned"
      <4> SUFFICES ASSUME NEW c \in Children(t) PROVE pc[c] = "returned"
        OBVIOUS
      <4>1. stage[t] \in Nat /\ Level[c] \in Nat /\ c \in Tasks /\ Parent[c] = t
        BY LevelFits DEF Children
      <4>2. Level[c] < stage[t] + 1
        BY <4>1, <2>2, NoGap
      <4>3. Kind[t] = "composite" /\ ~IsIteration(c)
        BY <1>14, <4>1, SubgroupDoneMoves, TreeFits
      <4>4. CASE Level[c] = stage[t]
        BY <4>4, <1>14 DEF SubgroupDone, Group
      <4>5. CASE Level[c] < stage[t]
        BY <4>5, <4>1, <4>3 DEF StagesFit
      <4> QED
        BY <4>1, <4>2, <4>4, <4>5
    <3>2. mem'[t] = "postchecking" /\ pc'[t] = "post"
      BY <2>2
    <3> QED
      BY <3>1, <3>2
  <2> QED
    BY <1>14, <2>1, <2>2, SubgroupDoneMoves
<1>15. CASE WritePostchecking(t)
  BY <1>15, TreeFits, WorkflowAssumption DEF WritePostchecking, At, Commit
<1>16. CASE RunPostchecks(t)
  BY <1>16, TreeFits, WorkflowAssumption DEF RunPostchecks, At, Assign, Raise, Ends
<1>17. CASE GatherFaults(t)
  BY <1>17, TreeFits, WorkflowAssumption DEF GatherFaults, At, Raise, Ends
<1>18. CASE EnterIteration(t)
  BY <1>18, TreeFits, WorkflowAssumption DEF EnterIteration, At, Ends
<1>19. CASE SettleIteration(t)
  BY <1>19, TreeFits, WorkflowAssumption DEF SettleIteration, Ends, Passed
<1>20. CASE LoopDone(t)
  BY <1>20, TreeFits, WorkflowAssumption DEF LoopDone, At, Assign
<1>21. CASE DeliverCancel(t)
  BY <1>21, TreeFits, WorkflowAssumption DEF DeliverCancel, Ends, Commit, Writes
<1>22. CASE AbortTask(t)
  BY <1>22, TreeFits, WorkflowAssumption DEF AbortTask, ActiveStates
<1> QED
  BY <1>1, <1>2, <1>3, <1>4, <1>5, <1>6, <1>7, <1>8, <1>9, <1>10, <1>11,
     <1>12, <1>13, <1>14, <1>15, <1>16, <1>17, <1>18, <1>19, <1>20,
     <1>21, <1>22 DEF TaskStep

\* The row of t is written when t has returned.
OwnRows(t) ==
    /\ pc'[t] \in {"idle", "queued", "settle"} => trace'[t] = mem'[t]
    /\ pc'[t] = "returned" => iteration'[t] # "running"
    /\ (pc'[t] = "returned" /\ iteration'[t] # "failed") => trace'[t] = mem'[t]
    /\ (/\ pc'[t] = "returned" /\ IsIteration(t)
        /\ Parent[t] \in AbortOnFailure /\ Parent[t] \notin aborting')
          => iteration'[t] = "completed" /\ mem'[t] = "completed"
    /\ mem'[t] = "escalated" => mem[t] = "escalated" \/ pc[t] = "work"

\* What a step of a task writes.
LEMMA OwnRowsHolds ==
    ASSUME TypeOK, KindsFit, CancelsFit, EarlyIdle, RowsFit, ReturnedRecorded,
           NEW t \in Tasks, TaskStep(t)
    PROVE  OwnRows(t)
<1> USE DEF TypeOK, KindsFit, CancelsFit, RowsFit, ReturnedRecorded, OwnRows, Children, IsIteration, run, loops
<1>1. CASE PassGate(t)
  BY <1>1, TreeFits DEF PassGate, At
<1>2. CASE InsertTask(t)
  BY <1>2, TreeFits DEF InsertTask, At, Assign
<1>3. CASE BeginTask(t)
  BY <1>3, TreeFits DEF BeginTask, At, Assign, Raise, Ends
<1>4. CASE RefuseWrite(t)
  BY <1>4, TreeFits DEF RefuseWrite, Writes, Raise, Ends
<1>5. CASE WritePrechecking(t)
  BY <1>5, TreeFits DEF WritePrechecking, At, Commit, Assign
<1>6. CASE RunPrechecks(t)
  BY <1>6, TreeFits DEF RunPrechecks, At, Assign, Raise, Ends
<1>7. CASE WriteActive(t)
  <2>1. /\ pc'[t] = "work" /\ mem' = mem
    BY <1>7, WriteActiveMoves
  <2> QED
    BY <2>1
<1>8. CASE WriteEnd(t)
  BY <1>8, TreeFits DEF WriteEnd, Commit, Return, Ends
<1>9. CASE AgentEnds(t)
  BY <1>9, TreeFits DEF AgentEnds, At, Return, Raise, Ends
<1>10. CASE FunctionEnds(t)
  BY <1>10, TreeFits DEF FunctionEnds, At, Assign, Raise, Ends
<1>11. CASE DecisionEnds(t)
  BY <1>11, TreeFits DEF DecisionEnds, At, Assign, Raise, Ends
<1>12. CASE HearEvent(t)
  BY <1>12, TreeFits DEF HearEvent, At, Assign
<1>13. CASE WaitTimesOut(t)
  BY <1>13, TreeFits DEF WaitTimesOut, At, Assign
<1>14. CASE SubgroupDone(t)
  <2>1. /\ pc[t] = "work" /\ pc'[t] \in {"work", "post"}
    BY <1>14, SubgroupDoneMoves
  <2> QED
    BY <2>1
<1>15. CASE WritePostchecking(t)
  BY <1>15, TreeFits DEF WritePostchecking, At, Commit
<1>16. CASE RunPostchecks(t)
  BY <1>16, TreeFits DEF RunPostchecks, At, Assign, Raise, Ends
<1>17. CASE GatherFaults(t)
  BY <1>17, TreeFits DEF GatherFaults, At, Raise, Ends
<1>18. CASE EnterIteration(t)
  BY <1>18, TreeFits DEF EnterIteration, At, Ends
<1>19. CASE SettleIteration(t)
  BY <1>19, TreeFits DEF SettleIteration, Ends, Passed
<1>20. CASE LoopDone(t)
  BY <1>20, TreeFits DEF LoopDone, At, Assign
<1>21. CASE DeliverCancel(t)
  BY <1>21, TreeFits DEF DeliverCancel, Ends, Commit, Writes
<1>22. CASE AbortTask(t)
  BY <1>22, TreeFits DEF AbortTask, ActiveStates
<1> QED
  BY <1>1, <1>2, <1>3, <1>4, <1>5, <1>6, <1>7, <1>8, <1>9, <1>10, <1>11,
     <1>12, <1>13, <1>14, <1>15, <1>16, <1>17, <1>18, <1>19, <1>20,
     <1>21, <1>22 DEF TaskStep

\* Steps keep the types.
LEMMA TaskStepTypes ==
    ASSUME TypeOK, NEW t \in Tasks, TaskStep(t)
    PROVE  TypeOK'
<1> USE DEF TypeOK, Pc, Writes, Ended, TaskState, run, loops
<1>1. CASE PassGate(t)
  BY <1>1, WorkflowAssumption DEF PassGate, At
<1>2. CASE InsertTask(t)
  BY <1>2, WorkflowAssumption DEF InsertTask, At, Assign
<1>3. CASE BeginTask(t)
  BY <1>3, WorkflowAssumption DEF BeginTask, At, Assign, Raise, Ends
<1>4. CASE RefuseWrite(t)
  BY <1>4, WorkflowAssumption DEF RefuseWrite, Writes, Raise, Ends
<1>5. CASE WritePrechecking(t)
  BY <1>5, WorkflowAssumption DEF WritePrechecking, At, Commit, Assign
<1>6. CASE RunPrechecks(t)
  BY <1>6, WorkflowAssumption DEF RunPrechecks, At, Assign, Raise, Ends
<1>7. CASE WriteActive(t)
  <2>1. \A c \in Tasks : c \in DOMAIN Spawned(t) => Spawned(t)[c] \in Pc
    BY DEF Spawned
  <2>2. pc' \in [Tasks -> Pc]
    BY <1>7, <2>1 DEF WriteActive
  <2> QED
    BY <1>7, <2>2 DEF WriteActive, Commit
<1>8. CASE WriteEnd(t)
  BY <1>8, WorkflowAssumption DEF WriteEnd, Commit, Return, Ends
<1>9. CASE AgentEnds(t)
  BY <1>9, WorkflowAssumption DEF AgentEnds, At, Return, Raise, Ends
<1>10. CASE FunctionEnds(t)
  BY <1>10, WorkflowAssumption, SMTT(30) DEF FunctionEnds, At, Assign, Raise, Ends
<1>11. CASE DecisionEnds(t)
  BY <1>11, WorkflowAssumption, SMTT(30) DEF DecisionEnds, At, Assign, Raise, Ends
<1>12. CASE HearEvent(t)
  BY <1>12, WorkflowAssumption DEF HearEvent, At, Assign
<1>13. CASE WaitTimesOut(t)
  BY <1>13, WorkflowAssumption DEF WaitTimesOut, At, Assign
<1>14. CASE SubgroupDone(t)
  <2>1. /\ pc[t] = "work" /\ t \notin doomed /\ Kind[t] = "composite"
        /\ (pc'[t] = "work" /\ mem' = mem) \/ pc'[t] = "post"
    BY <1>14, SubgroupDoneMoves
  <2> QED
    BY <2>1, <1>14, WorkflowAssumption, SMTT(30) DEF SubgroupDone, At, Assign
<1>15. CASE WritePostchecking(t)
  BY <1>15, WorkflowAssumption DEF WritePostchecking, At, Commit
<1>16. CASE RunPostchecks(t)
  BY <1>16, WorkflowAssumption DEF RunPostchecks, At, Assign, Raise, Ends
<1>17. CASE GatherFaults(t)
  BY <1>17, WorkflowAssumption, SMTT(30) DEF GatherFaults, At, Raise, Ends
<1>18. CASE EnterIteration(t)
  BY <1>18, WorkflowAssumption DEF EnterIteration, At, Ends
<1>19. CASE SettleIteration(t)
  BY <1>19, WorkflowAssumption DEF SettleIteration, Ends, Passed
<1>20. CASE LoopDone(t)
  BY <1>20, WorkflowAssumption DEF LoopDone, At, Assign
<1>21. CASE DeliverCancel(t)
  <2>1. fault' \in [Tasks \cup {Root} -> {"none", "raised", "cancelled"}]
    BY <1>21, WorkflowAssumption DEF DeliverCancel, Ends
  <2>2. trace' \in [Tasks -> TaskState \cup {"none"}]
    BY <1>21 DEF DeliverCancel, Commit
  <2>3. pc' \in [Tasks -> Pc]
    BY <1>21 DEF DeliverCancel, Ends
  <2>4. /\ doomed' \subseteq Tasks
        /\ UNCHANGED <<policy, status, main, mem, iteration, stage, aborting, heard,
                       open, abortLeft, aborter, signals>>
    BY <1>21 DEF DeliverCancel
  <2> QED
    BY <2>1, <2>2, <2>3, <2>4
<1>22. CASE AbortTask(t)
  BY <1>22, WorkflowAssumption DEF AbortTask, ActiveStates
<1> QED
  BY <1>1, <1>2, <1>3, <1>4, <1>5, <1>6, <1>7, <1>8, <1>9, <1>10, <1>11,
     <1>12, <1>13, <1>14, <1>15, <1>16, <1>17, <1>18, <1>19, <1>20,
     <1>21, <1>22 DEF TaskStep

\* A coroutine that has ended stays as it is.
LEMMA EndedStays ==
    ASSUME TypeOK, NEW t \in Tasks, StepFrame(t), NEW u \in Tasks
    PROVE  /\ pc[u] \in Ended => pc'[u] = pc[u]
           /\ pc[u] = "idle" => pc'[u] = "idle" \/ Spawns(t, u)
           /\ pc[u] # "idle" => pc'[u] # "idle"
           /\ u # t => pc'[u] = pc[u] \/ Spawns(t, u)
BY DEF StepFrame, MovesOnly, Spawns, Working, Ended

-----------------------------------------------------------------------------
(* A step of a task keeps the invariant                                    *)

LEMMA KindsStay ==
    ASSUME TypeOK, KindsFit, NEW t \in Tasks, StepFrame(t), OwnPlace(t)
    PROVE  KindsFit'
<1> SUFFICES ASSUME NEW u \in Tasks
             PROVE  /\ pc'[u] \in {"prechecks", "post", "postchecks", "prefail"}
                          => Kind[u] = "composite"
                    /\ pc'[u] \in {"queued", "settle", "fail"} => IsIteration(u)
                    /\ heard'[u] # "no" => Kind[u] = "wait_for"
                    /\ (pc'[u] \in {"idle", "queued"} \/ ~IsIteration(u))
                          => iteration'[u] = "none"
  BY DEF KindsFit, IsIteration
<1>1. heard' = heard
  BY DEF StepFrame, LeavesRest
<1>2. CASE u = t
  BY <1>1, <1>2 DEF OwnPlace, KindsFit
<1>3. CASE u # t
  <2>1. iteration'[u] = iteration[u]
    BY <1>3 DEF StepFrame, LeavesRest
  <2>2. pc'[u] = pc[u] \/ Spawns(t, u)
    BY <1>3, EndedStays
  <2> QED
    BY <1>1, <2>1, <2>2 DEF KindsFit, Spawns
<1> QED
  BY <1>2, <1>3

LEMMA CancelsStay ==
    ASSUME TypeOK, CancelsFit, EarlyIdle, NEW t \in Tasks, StepFrame(t), OwnPlace(t)
    PROVE  CancelsFit'
<1>1. ASSUME NEW u \in doomed' PROVE pc'[u] \notin {"idle"} \cup Ended
  <2>1. u \in doomed /\ u \in Tasks /\ pc[u] \notin {"idle"} \cup Ended
    BY DEF StepFrame, Turn, CancelsFit, Working, TypeOK
  <2>2. CASE u # t
    BY <2>1, <2>2, EndedStays DEF Spawns
  <2>3. CASE u = t
    BY <2>1, <2>3 DEF StepFrame, Turn, MovesOnly, Spawns, CancelsFit, Working, OwnPlace
  <2> QED
    BY <2>2, <2>3
<1>2. ASSUME NEW u \in abortLeft'
      PROVE  /\ mem'[u] \in ActiveStates
             /\ pc'[u] \notin {"idle"} \cup Ended => u \in doomed'
  <2>1. u \in abortLeft /\ u \in Tasks
    BY DEF StepFrame, LeavesRest, TypeOK
  <2>2. mem[u] \in ActiveStates /\ (pc[u] \notin {"idle"} \cup Ended => u \in doomed)
    BY <2>1 DEF CancelsFit, Working
  <2>3. CASE u = t
    BY <2>1, <2>2, <2>3, <1>2 DEF OwnPlace
  <2>4. CASE u # t
    <3>1. mem'[u] = mem[u] /\ (u \in doomed => u \in doomed')
      BY <2>4, <2>1 DEF StepFrame, LeavesRest, Turn
    <3>2. pc'[u] = pc[u] \/ pc[u] = "idle"
      BY <2>1, <2>4, EndedStays DEF Spawns
    <3>3. pc[u] # "idle"
      BY <2>1, <2>2 DEF EarlyIdle, ActiveStates
    <3> QED
      BY <2>2, <3>1, <3>2, <3>3
  <2> QED
    BY <2>3, <2>4
<1> QED
  BY <1>1, <1>2 DEF CancelsFit, Working

LEMMA MainStays ==
    ASSUME TypeOK, MainFits, RootQuiet, NEW t \in Tasks, StepFrame(t)
    PROVE  MainFits' /\ RootQuiet'
<1>1. main' = main /\ status' = status /\ aborter' = aborter
  BY DEF StepFrame, LeavesRest
<1>2. fault[Root] = "cancelled" => fault'[Root] = "cancelled"
  BY DEF StepFrame, FirstFault
<1>3. ASSUME main = "register", NEW u \in Tasks PROVE pc'[u] = "idle"
  BY <1>3, EndedStays DEF MainFits, Spawns, StepFrame, MovesOnly, Working
<1>4. MainFits'
  BY <1>1, <1>2, <1>3 DEF MainFits
<1>5. ASSUME NEW u \in Children(Root), pc[u] \in {"idle", "returned"}
      PROVE  pc'[u] = pc[u]
  <2>1. u \in Tasks /\ ~Spawns(t, u)
    BY TreeFits DEF Children, Spawns
  <2> QED
    BY <2>1, <1>5, EndedStays DEF Ended
<1>6. stage'[Root] = stage[Root]
  BY TreeFits DEF StepFrame, NextGroup, TypeOK
<1>7. RootQuiet'
  BY <1>1, <1>5, <1>6 DEF RootQuiet, Children
<1> QED
  BY <1>4, <1>7

LEMMA EarlyStays ==
    ASSUME TypeOK, EarlyIdle, NEW t \in Tasks, StepFrame(t), OwnPlace(t)
    PROVE  EarlyIdle'
<1>1. ASSUME NEW u \in Tasks, pc'[u] = "idle" PROVE mem'[u] \in {"none", "created"}
  <2>1. pc[u] = "idle"
    BY <1>1, EndedStays
  <2>2. mem'[u] = mem[u]
    BY <1>1 DEF OwnPlace, StepFrame, LeavesRest
  <2> QED
    BY <2>1, <2>2 DEF EarlyIdle
<1>2. ASSUME NEW u \in Tasks, pc'[u] \in Early
      PROVE  stage'[u] = 0 /\ \A c \in Children(u) : pc'[c] = "idle"
  <2>1. pc[u] \in Early
    <3>1. CASE u = t
      BY <1>2, <3>1 DEF OwnPlace
    <3>2. CASE u # t
      BY <1>2, <3>2, EndedStays DEF Spawns, Early
    <3> QED
      BY <3>1, <3>2
  <2>2. stage[u] = 0 /\ \A c \in Children(u) : pc[c] = "idle"
    BY <2>1 DEF EarlyIdle
  <2>3. stage'[u] = stage[u]
    BY <1>2, <2>1 DEF StepFrame, NextGroup, Early, TypeOK
  <2>4. ASSUME NEW c \in Children(u) PROVE pc'[c] = "idle"
    <3>1. c \in Tasks /\ Parent[c] = u
      BY DEF Children
    <3>2. ~Spawns(t, c)
      BY <3>1, <1>2 DEF Spawns, Children, Early
    <3> QED
      BY <3>1, <3>2, <2>2, EndedStays
  <2> QED
    BY <2>2, <2>3, <2>4
<1> QED
  BY <1>1, <1>2 DEF EarlyIdle, Children

LEMMA StagesStay ==
    ASSUME TypeOK, StagesFit, NEW t \in Tasks, StepFrame(t)
    PROVE  StagesFit'
<1> SUFFICES ASSUME NEW c \in Tasks, ~IsIteration(c)
             PROVE  /\ Level[c] < stage'[Parent[c]] => pc'[c] = "returned"
                    /\ Level[c] > stage'[Parent[c]] => pc'[c] = "idle"
  BY DEF StagesFit, IsIteration
<1> DEFINE p == Parent[c]
<1>1. p \in Tasks \cup {Root} /\ stage[p] \in Nat /\ Level[c] \in Nat
  BY TreeFits, LevelFits DEF TypeOK
<1>2. /\ Level[c] < stage[p] => pc[c] = "returned"
      /\ Level[c] > stage[p] => pc[c] = "idle"
  BY DEF StagesFit
<1>3. pc[c] = "returned" => pc'[c] = "returned"
  BY EndedStays DEF Ended
<1>4. pc[c] = "idle" => pc'[c] = "idle" \/ (p = t /\ Level[c] = stage'[p])
  BY EndedStays DEF Spawns, Children
<1>5. CASE stage'[p] = stage[p]
  BY <1>1, <1>2, <1>3, <1>4, <1>5
<1>6. CASE stage'[p] # stage[p]
  <2>1. stage'[p] = stage[p] + 1 /\ (Level[c] = stage[p] => pc[c] = "returned")
    BY <1>1, <1>6 DEF StepFrame, NextGroup, TypeOK, Children
  <2> QED
    BY <1>1, <1>2, <1>3, <1>4, <2>1
<1> QED
  BY <1>5, <1>6

LEMMA KidsStay ==
    ASSUME TypeOK, KidsDone, NEW t \in Tasks, StepFrame(t), OwnKids(t)
    PROVE  KidsDone'
<1>1. ASSUME NEW u \in Tasks, Kind[u] = "composite",
             \/ pc'[u] \in {"post", "postchecks"}
             \/ mem'[u] \in {"postchecking", "completed"},
             NEW c \in Children(u)
      PROVE  pc'[c] = "returned"
  <2>1. pc[c] = "returned"
    <3>1. CASE u = t
      BY <1>1, <3>1 DEF OwnKids
    <3>2. CASE u # t
      <4>1. mem'[u] = mem[u] /\ (pc'[u] = pc[u] \/ Spawns(t, u))
        BY <3>2, EndedStays DEF StepFrame, LeavesRest
      <4> QED
        BY <4>1, <1>1 DEF KidsDone, Spawns
    <3> QED
      BY <3>1, <3>2
  <2> QED
    BY <2>1, EndedStays DEF Children, Ended
<1>2. ASSUME NEW u \in Tasks,
             \/ pc'[u] \in {"prefail", "postfail", "done", "timedout", "settle"}
             \/ pc'[u] = "returned" /\ ~(IsIteration(u) /\ Children(u) # {}),
             NEW c \in Children(u)
      PROVE  pc'[c] \in {"idle", "returned"}
  <2>1. pc[c] \in {"idle", "returned"}
    <3>1. CASE u = t
      BY <1>2, <3>1 DEF OwnKids
    <3>2. CASE u # t
      <4>1. pc'[u] = pc[u]
        BY <3>2, <1>2, EndedStays DEF Spawns
      <4> QED
        BY <4>1, <1>2 DEF KidsDone
    <3> QED
      BY <3>1, <3>2
  <2>2. c \in Tasks /\ ~Spawns(t, c)
    BY <1>2 DEF Spawns, Children
  <2> QED
    BY <2>1, <2>2, EndedStays DEF Ended
<1> QED
  BY <1>1, <1>2 DEF KidsDone, Children, IsIteration

LEMMA RowsStay ==
    ASSUME TypeOK, RowsFit, ReturnedRecorded,
           NEW t \in Tasks, StepFrame(t), OwnRows(t)
    PROVE  RowsFit' /\ ReturnedRecorded'
<1>1. ASSUME NEW u \in Tasks, u # t
      PROVE  /\ mem'[u] = mem[u] /\ trace'[u] = trace[u]
             /\ iteration'[u] = iteration[u]
             /\ \/ pc'[u] = pc[u]
                \/ pc[u] = "idle" /\ pc'[u] \in {"gate", "queued"}
  BY <1>1, EndedStays DEF StepFrame, LeavesRest, Spawns
<1>2. ASSUME NEW u \in Tasks
      PROVE  /\ pc'[u] \in {"idle", "queued", "settle"} => trace'[u] = mem'[u]
             /\ pc'[u] = "returned" => iteration'[u] # "running"
             /\ (pc'[u] = "returned" /\ iteration'[u] # "failed")
                    => trace'[u] = mem'[u]
  BY <1>1 DEF OwnRows, RowsFit, ReturnedRecorded
<1>3. ASSUME NEW o \in AbortOnFailure, o \notin aborting', NEW c \in Children(o),
             pc'[c] = "returned"
      PROVE  iteration'[c] = "completed" /\ mem'[c] = "completed"
  <2>1. c \in Tasks /\ IsIteration(c) /\ Parent[c] = o /\ o \notin aborting
    BY <1>3, WorkflowAssumption, TreeFits DEF Children, StepFrame, LeavesRest
  <2>2. CASE c = t
    BY <2>1, <2>2, <1>3 DEF OwnRows
  <2>3. CASE c # t
    BY <2>1, <2>3, <1>1, <1>3 DEF RowsFit
  <2> QED
    BY <2>2, <2>3
<1> QED
  BY <1>2, <1>3 DEF RowsFit, ReturnedRecorded, Children

LEMMA EscalatedStays ==
    ASSUME TypeOK, StagesFit, EscalatedAhead,
           NEW t \in Tasks, StepFrame(t), OwnRows(t)
    PROVE  EscalatedAhead'
<1>1. stage'[Root] = stage[Root] /\ policy' = policy /\ stage[Root] \in Nat
  BY TreeFits DEF StepFrame, NextGroup, LeavesRest, TypeOK
<1>2. ASSUME policy # "continue_independent", NEW u \in Children(Root),
             mem'[u] = "escalated"
      PROVE  Level[u] >= stage[Root]
  <2>1. u \in Tasks /\ Parent[u] = Root /\ ~IsIteration(u) /\ Level[u] \in Nat
    BY LevelFits DEF Children, IsIteration
  <2>2. CASE mem[u] = "escalated"
    BY <2>2, <1>2 DEF EscalatedAhead
  <2>3. CASE mem[u] # "escalated"
    <3>1. u = t /\ pc[t] = "work"
      BY <2>1, <2>3, <1>2 DEF StepFrame, LeavesRest, OwnRows
    <3>2. ~(Level[u] < stage[Root])
      BY <3>1, <2>1 DEF StagesFit
    <3> QED
      BY <3>2, <2>1, <1>1
  <2> QED
    BY <2>2, <2>3
<1> QED
  BY <1>1, <1>2 DEF EscalatedAhead, Children

LEMMA SpreadStays ==
    ASSUME TypeOK, CancelsFit, CancelsSpread, NEW t \in Tasks, StepFrame(t)
    PROVE  CancelsSpread'
<1>1. ASSUME NEW u \in Tasks, pc[u] = "cancelled" PROVE pc'[u] = "cancelled"
  BY <1>1, EndedStays DEF Ended
<1>2. ASSUME NEW o \in Tasks \cup {Root}, fault'[o] = "cancelled"
      PROVE  \E u \in Tasks : pc'[u] = "cancelled"
  <2>1. fault[o] = "cancelled" \/ pc'[t] = "cancelled"
    BY <1>2 DEF StepFrame, FirstFault
  <2>2. fault[o] = "cancelled" => \E u \in Tasks : pc[u] = "cancelled"
    BY DEF CancelsSpread
  <2> QED
    BY <2>1, <2>2, <1>1
<1>3. ASSUME FlatIterations,
             \E u \in Tasks : u \in doomed' \/ pc'[u] = "cancelled",
             NEW w \in Tasks, pc'[w] \notin {"idle"} \cup Ended
      PROVE  w \in doomed'
  <2>1. (\E u \in Tasks : u \in doomed \/ pc[u] = "cancelled") =>
            \A u \in Tasks : Working(u) => u \in doomed
    BY <1>3 DEF CancelsSpread
  <2>2. CASE pc' = pc /\ doomed' = doomed
    BY <2>1, <2>2, <1>3 DEF Working
  <2>3. CASE Working(t) /\ t \notin doomed /\ doomed' = doomed
    <3>1. \A u \in Tasks : u \notin doomed /\ pc[u] # "cancelled"
      BY <2>1, <2>3
    <3>2. fault[t] # "cancelled"
      BY <3>1 DEF CancelsSpread
    <3>3. pc'[t] # "cancelled"
      BY <3>1, <3>2 DEF StepFrame, FirstFault
    <3>4. ASSUME NEW u \in Tasks PROVE u \notin doomed' /\ pc'[u] # "cancelled"
      <4>1. CASE u = t
        BY <4>1, <3>1, <3>3, <2>3
      <4>2. CASE u # t
        BY <4>2, <3>1, <2>3, EndedStays DEF Spawns, Children
      <4> QED
        BY <4>1, <4>2
    <3> QED
      BY <3>4, <1>3
  <2>4. CASE /\ t \in doomed /\ doomed' = doomed \ {t}
             /\ pc' = [pc EXCEPT ![t] = "cancelled"]
    <3>1. \A u \in Tasks : Working(u) => u \in doomed
      BY <2>1, <2>4
    <3>2. w # t /\ pc'[w] = pc[w]
      BY <2>4, <1>3 DEF TypeOK, Ended
    <3> QED
      BY <3>1, <3>2, <2>4, <1>3 DEF Working
  <2> QED
    BY <2>2, <2>3, <2>4 DEF StepFrame, Turn
<1> QED
  BY <1>2, <1>3 DEF CancelsSpread, Working, FlatIterations, IsIteration, Children

LEMMA GraphStays ==
    ASSUME TypeOK, GraphRespected, StagesFit, StagesFit', NEW t \in Tasks, StepFrame(t)
    PROVE  GraphRespected'
<1> SUFFICES ASSUME NEW u \in Tasks, pc'[u] # "idle", NEW d \in Deps[u]
             PROVE  pc'[d] = "returned"
  BY DEF GraphRespected, Deps
<1>1. d \in Tasks /\ Parent[d] = Parent[u]
  BY DepsFit
<1>2. CASE pc[u] # "idle"
  <2>1. pc[d] = "returned"
    BY <1>2 DEF GraphRespected
  <2> QED
    BY <1>1, <2>1, EndedStays DEF Ended
<1>3. CASE pc[u] = "idle"
  <2>1. Spawns(t, u)
    BY <1>3, EndedStays
  <2>2. ~IsIteration(u) /\ Level[u] = stage'[t] /\ Parent[u] = t
    BY <2>1, TreeFits DEF Spawns, Children
  <2>3. ~IsIteration(d) /\ Level[d] < stage'[Parent[d]]
    BY <2>2, <1>1, LevelFits DEF IsIteration
  <2> QED
    BY <1>1, <2>3 DEF StagesFit, IsIteration
<1> QED
  BY <1>2, <1>3

\* The semaphore of a for_each: an iteration enters with a permit.
LEMMA ConcurrencyStays ==
    ASSUME TypeOK, ConcurrencyBounded, NEW t \in Tasks, StepFrame(t), OwnPlace(t)
    PROVE  ConcurrencyBounded'
<1> SUFFICES ASSUME NEW o \in Tasks, Kind[o] = "for_each"
             PROVE  Cardinality(Holding(o)') <= MaxConcurrency
  BY DEF ConcurrencyBounded
<1>1. /\ Holding(o) \subseteq Tasks /\ Holding(o)' \subseteq Tasks
      /\ IsFiniteSet(Holding(o)) /\ IsFiniteSet(Holding(o)')
      /\ Cardinality(Holding(o)) \in Nat /\ Cardinality(Holding(o)') \in Nat
  <2>1. Holding(o) \subseteq Tasks /\ Holding(o)' \subseteq Tasks
    BY DEF Holding, Children
  <2> QED
    BY <2>1, TreeAssumption, FS_Subset, FS_CardinalityType
<1>2. MaxConcurrency \in Nat
  BY WorkflowAssumption
<1>3. ASSUME NEW u \in Holding(o)', u \notin Holding(o)
      PROVE  u = t /\ pc[t] = "queued" /\ Parent[t] = o /\ Permit(o)
  <2>1. /\ u \in Tasks /\ Parent[u] = o /\ pc'[u] \notin {"idle", "queued"} \cup Ended
        /\ pc[u] \in {"idle", "queued"} \cup Ended
    BY <1>3 DEF Holding, Children, Working
  <2>2. IsIteration(u)
    BY <2>1, TreeFits DEF Children
  <2>3. ~Spawns(t, u)
    BY <2>1, <2>2 DEF Spawns
  <2>4. u = t /\ pc[t] = "queued"
    BY <2>1, <2>3, EndedStays DEF StepFrame, MovesOnly, Working
  <2>5. Permit(Parent[t])
    BY <2>1, <2>4 DEF OwnPlace
  <2> QED
    BY <2>1, <2>4, <2>5
<1>4. CASE Holding(o)' \subseteq Holding(o)
  <2>1. Cardinality(Holding(o)') <= Cardinality(Holding(o))
    BY <1>1, <1>4, FS_Subset
  <2>2. Cardinality(Holding(o)) <= MaxConcurrency
    BY DEF ConcurrencyBounded
  <2> QED
    BY <1>1, <1>2, <2>1, <2>2
<1>5. CASE ~(Holding(o)' \subseteq Holding(o))
  <2>1. Cardinality(Holding(o)) < MaxConcurrency
    BY <1>3, <1>5 DEF Permit
  <2>2. Holding(o)' \subseteq Holding(o) \cup {t}
    BY <1>3
  <2>3. /\ IsFiniteSet(Holding(o) \cup {t})
        /\ Cardinality(Holding(o) \cup {t}) \in {Cardinality(Holding(o)), Cardinality(Holding(o)) + 1}
    BY <1>1, FS_AddElement
  <2>4. Cardinality(Holding(o)') <= Cardinality(Holding(o) \cup {t})
    BY <2>2, <2>3, FS_Subset
  <2> QED
    BY <1>1, <1>2, <2>1, <2>3, <2>4
<1> QED
  BY <1>4, <1>5

LEMMA IterationsStay ==
    ASSUME TypeOK, CancelsFit, RowsFit, IterationsSettled, LoopFailureSeen,
           NEW t \in Tasks, StepFrame(t), OwnKids(t)
    PROVE  IterationsSettled' /\ LoopFailureSeen'
<1>1. ASSUME NEW c \in Tasks, pc[c] = "returned"
      PROVE  /\ pc'[c] = "returned" /\ iteration'[c] = iteration[c]
             /\ mem[c] = "completed" => mem'[c] = "completed"
  BY <1>1, EndedStays
     DEF StepFrame, LeavesRest, Working, Ended, CancelsFit, ActiveStates
<1>2. ASSUME NEW u \in Tasks, Kind[u] = "for_each",
             mem'[u] \in {"completed", "postcheck_failed"}, NEW c \in Children(u)
      PROVE  pc[c] = "returned" /\ iteration[c] # "running" /\ c \in Tasks
  <2>1. c \in Tasks /\ (pc[c] = "returned" => iteration[c] # "running")
    BY DEF Children, RowsFit
  <2>2. pc[c] = "returned"
    <3>1. CASE u = t
      BY <3>1, <1>2 DEF OwnKids
    <3>2. CASE u # t
      BY <3>2, <1>2 DEF StepFrame, LeavesRest, IterationsSettled
    <3> QED
      BY <3>1, <3>2
  <2> QED
    BY <2>1, <2>2
<1>3. IterationsSettled'
  BY <1>1, <1>2 DEF IterationsSettled, Children
<1>4. ASSUME NEW u \in AbortOnFailure, mem'[u] = "completed", NEW c \in Children(u)
      PROVE  iteration'[c] = "completed" /\ mem'[c] = "completed"
  <2>1. u \in Tasks /\ Kind[u] = "for_each"
    BY WorkflowAssumption
  <2>2. pc[c] = "returned" /\ c \in Tasks
    BY <2>1, <1>2, <1>4
  <2>3. iteration[c] = "completed" /\ mem[c] = "completed"
    <3>1. CASE mem[u] = "completed"
      BY <3>1 DEF LoopFailureSeen
    <3>2. CASE mem[u] # "completed"
      <4>1. u = t /\ u \notin aborting
        BY <2>1, <3>2, <1>4 DEF StepFrame, LeavesRest, OwnKids
      <4> QED
        BY <4>1, <2>2 DEF RowsFit
    <3> QED
      BY <3>1, <3>2
  <2> QED
    BY <2>2, <2>3, <1>1
<1>5. LoopFailureSeen'
  BY <1>4 DEF LoopFailureSeen, Children
<1> QED
  BY <1>3, <1>5

LEMMA TaskStepKeeps ==
    ASSUME FlowInv, NEW t \in Tasks, TaskStep(t)
    PROVE  FlowInv'
<1>1. /\ StepFrame(t) /\ OwnPlace(t) /\ OwnKids(t) /\ OwnRows(t) /\ TypeOK'
  BY TaskStepFrame, OwnPlaceHolds, OwnKidsHolds, OwnRowsHolds, TaskStepTypes
     DEF FlowInv
<1>2. StagesFit'
  BY <1>1, StagesStay DEF FlowInv
<1> QED
  BY <1>1, <1>2, KindsStay, CancelsStay, MainStays, EarlyStays, KidsStay, RowsStay,
     EscalatedStays, SpreadStays, GraphStays, ConcurrencyStays, IterationsStay
     DEF FlowInv

-----------------------------------------------------------------------------
(* The steps of the workflow's coroutine, and the signals                  *)

\* When the workflow's own tasks are idle or have returned, every task is or
\* has: a task that is at work has a parent that is.
LEMMA NothingLeft ==
    ASSUME TypeOK, EarlyIdle, KidsDone, FlatIterations,
           \A c \in Children(Root) : pc[c] \in {"idle", "returned"}
    PROVE  \A t \in Tasks : pc[t] \in {"idle", "returned"}
<1> DEFINE S == {t \in Tasks : pc[t] \notin {"idle", "returned"}}
<1>1. ASSUME S # {} PROVE FALSE
  <2>1. PICK x \in S : Parent[x] \notin S
    <3>1. S \in SUBSET Tasks
      OBVIOUS
    <3> QED
      BY <1>1, <3>1, TreeAssumption
  <2>2. x \in Tasks /\ x \in Children(Parent[x]) /\ pc[x] \notin {"idle", "returned"}
    BY DEF Children
  <2>3. Parent[x] # Root
    BY <2>2
  <2>4. Parent[x] \in Tasks /\ pc[Parent[x]] \in {"idle", "returned"}
    BY <2>1, <2>2, <2>3, TreeFits
  <2>5. CASE pc[Parent[x]] = "idle"
    BY <2>2, <2>4, <2>5 DEF EarlyIdle, Early
  <2>6. CASE pc[Parent[x]] = "returned"
    <3>1. ~(IsIteration(Parent[x]) /\ Children(Parent[x]) # {})
      BY <2>4 DEF FlatIterations
    <3> QED
      BY <2>2, <2>4, <2>6, <3>1 DEF KidsDone
  <2> QED
    BY <2>4, <2>5, <2>6
<1> QED
  BY <1>1

LEMMA RegisterKeeps == FlowInv /\ RegisterTasks => FlowInv'
<1> SUFFICES ASSUME FlowInv, RegisterTasks PROVE FlowInv'
  OBVIOUS
<1>1. /\ main = "register" /\ main' = "gate" /\ trace' = mem'
      /\ mem' = [t \in Tasks |-> IF Parent[t] = Root THEN "created" ELSE "none"]
      /\ UNCHANGED <<policy, status, iteration, aborting, heard, pc, stage, fault,
                     open, doomed, abortLeft, aborter, signals>>
  BY DEF RegisterTasks, loops
<1>2. TypeOK /\ \A t \in Tasks : pc[t] = "idle"
  BY <1>1 DEF FlowInv, MainFits
<1>3. \A t \in Tasks : mem'[t] \in {"none", "created"} /\ trace'[t] = mem'[t]
  BY <1>1
<1>4. abortLeft = {} /\ doomed = {}
  BY <1>2 DEF FlowInv, CancelsFit, EarlyIdle, ActiveStates, Working, TypeOK
<1>5. TypeOK'
  BY <1>1, <1>2, <1>3 DEF TypeOK, TaskState
<1>6. KindsFit' /\ CancelsFit' /\ MainFits'
  BY <1>1, <1>2, <1>4 DEF FlowInv, KindsFit, CancelsFit, MainFits, IsIteration
<1>7. EarlyIdle' /\ StagesFit' /\ RootQuiet'
  BY <1>1, <1>2, <1>3
     DEF FlowInv, EarlyIdle, StagesFit, RootQuiet, Children, IsIteration
<1>8. KidsDone' /\ RowsFit' /\ ReturnedRecorded'
  BY <1>1, <1>2, <1>3, WorkflowAssumption
     DEF KidsDone, RowsFit, ReturnedRecorded, Children, IsIteration
<1>9. EscalatedAhead' /\ CancelsSpread'
  BY <1>1, <1>2, <1>3, <1>4
     DEF FlowInv, EscalatedAhead, CancelsSpread, Children, Working, Ended,
         FlatIterations, IsIteration
<1>10. GraphRespected' /\ ConcurrencyBounded' /\ IterationsSettled' /\ LoopFailureSeen'
  <2>1. ConcurrencyBounded'
    BY <1>1 DEF FlowInv, ConcurrencyBounded, Holding, Children, Working
  <2>2. GraphRespected'
    BY <1>1, <1>2 DEF GraphRespected
  <2>3. IterationsSettled' /\ LoopFailureSeen'
    BY <1>3, WorkflowAssumption DEF IterationsSettled, LoopFailureSeen
  <2> QED
    BY <2>1, <2>2, <2>3
<1> QED
  BY <1>5, <1>6, <1>7, <1>8, <1>9, <1>10 DEF FlowInv

LEMMA OpenGroupKeeps == FlowInv /\ OpenGroup => FlowInv'
<1> SUFFICES ASSUME FlowInv, OpenGroup PROVE FlowInv'
  OBVIOUS
<1> DEFINE G == Group(Root, stage[Root])
<1>1. /\ main = "gate"
      /\ UNCHANGED <<policy, status, mem, trace, iteration, aborting, heard, stage,
                     fault, open, doomed, abortLeft, aborter, signals>>
      /\ \/ /\ main' = "gather"
            /\ pc' = [t \in Tasks |-> IF t \in G THEN "gate" ELSE pc[t]]
         \/ main' = "finish" /\ pc' = pc
  BY DEF OpenGroup, loops
<1>2. TypeOK /\ stage[Root] \in Nat
  BY DEF FlowInv, TypeOK
<1>3. ASSUME NEW c \in G
      PROVE  /\ c \in Tasks /\ c \in Children(Root) /\ Parent[c] = Root
             /\ pc[c] = "idle" /\ Level[c] = stage[Root] /\ ~IsIteration(c)
  <2>1. c \in Tasks /\ c \in Children(Root) /\ Level[c] = stage[Root] /\ Parent[c] = Root
    BY DEF Group, Children
  <2>2. pc[c] = "idle"
    BY <1>1, <1>2, <2>1 DEF FlowInv, RootQuiet
  <2> QED
    BY <2>1, <2>2 DEF IsIteration
<1>4. ASSUME NEW u \in Tasks
      PROVE  pc'[u] = pc[u] \/ (u \in G /\ pc'[u] = "gate" /\ main' = "gather")
  BY <1>1, <1>2 DEF TypeOK
<1>5. status # "completed"
  BY <1>1 DEF FlowInv, MainFits
<1> HIDE DEF G
<1>6. TypeOK'
  BY <1>1, <1>2 DEF TypeOK, Pc
<1>7. KindsFit'
  BY <1>1, <1>3, <1>4 DEF FlowInv, KindsFit, IsIteration
<1>8. CancelsFit'
  <2>1. ASSUME NEW u \in doomed PROVE pc'[u] = pc[u]
    BY <1>3, <1>4 DEF FlowInv, CancelsFit, Working, TypeOK
  <2>2. ASSUME NEW u \in abortLeft PROVE pc'[u] = pc[u]
    BY <1>3, <1>4 DEF FlowInv, CancelsFit, EarlyIdle, ActiveStates, TypeOK
  <2> QED
    BY <1>1, <2>1, <2>2 DEF FlowInv, CancelsFit, Working
<1>9. MainFits'
  BY <1>1, <1>5 DEF FlowInv, MainFits
<1>10. EarlyIdle'
  <2>1. ASSUME NEW u \in Tasks, pc'[u] \in Early
        PROVE  stage[u] = 0 /\ \A c \in Children(u) : pc'[c] = "idle"
    <3>1. pc[u] \in Early
      BY <2>1, <1>3, <1>4 DEF Early
    <3>2. \A c \in Children(u) : c \in Tasks /\ c \notin G
      BY <1>3, TreeFits DEF Children
    <3> QED
      BY <3>1, <3>2, <1>4 DEF FlowInv, EarlyIdle
  <2> QED
    BY <2>1, <1>1, <1>4 DEF FlowInv, EarlyIdle, Children
<1>11. StagesFit'
  BY <1>1, <1>2, <1>3, <1>4, LevelFits DEF FlowInv, StagesFit, IsIteration
<1>12. RootQuiet'
  BY <1>1, <1>5, <1>4 DEF FlowInv, RootQuiet, Children
<1>13. KidsDone'
  <2>1. ASSUME NEW u \in Tasks, NEW c \in Children(u) PROVE pc'[c] = pc[c]
    BY <1>3, <1>4, TreeFits DEF Children
  <2>2. ASSUME NEW u \in Tasks PROVE pc'[u] = pc[u] \/ pc'[u] = "gate"
    BY <1>4
  <2> QED
    BY <1>1, <2>1, <2>2 DEF FlowInv, KidsDone, Children, IsIteration
<1>14. RowsFit' /\ ReturnedRecorded'
  BY <1>1, <1>4, WorkflowAssumption DEF FlowInv, RowsFit, ReturnedRecorded, Children
<1>15. EscalatedAhead'
  BY <1>1 DEF FlowInv, EscalatedAhead, Children
<1>16. CancelsSpread'
  <2>1. ASSUME NEW u \in Tasks, pc[u] = "cancelled" PROVE pc'[u] = "cancelled"
    BY <2>1, <1>3, <1>4
  <2>2. ASSUME FlatIterations PROVE \A u \in Tasks : u \notin doomed /\ pc'[u] # "cancelled"
    <3>1. \A u \in Tasks : pc[u] \in {"idle", "returned"}
      BY <1>1, <2>2, NothingLeft DEF FlowInv, RootQuiet
    <3> QED
      BY <3>1, <1>4 DEF FlowInv, CancelsFit, Working, Ended
  <2> QED
    BY <1>1, <2>1, <2>2
       DEF FlowInv, CancelsSpread, FlatIterations, IsIteration, Children
<1>17. GraphRespected'
  <2> SUFFICES ASSUME NEW u \in Tasks, pc'[u] # "idle", NEW d \in Deps[u]
               PROVE  pc'[d] = "returned"
    BY DEF GraphRespected, Deps
  <2>1. d \in Tasks /\ Parent[d] = Parent[u] /\ (pc[d] = "returned" => pc'[d] = "returned")
    BY DepsFit, <1>3, <1>4
  <2>2. CASE pc[u] # "idle"
    BY <2>1, <2>2 DEF FlowInv, GraphRespected
  <2>3. CASE pc[u] = "idle"
    <3>1. Parent[d] = Root /\ Level[d] < stage[Root] /\ ~IsIteration(d)
      BY <2>1, <2>3, <1>3, <1>4, LevelFits DEF IsIteration
    <3> QED
      BY <3>1, <2>1 DEF FlowInv, StagesFit
  <2> QED
    BY <2>2, <2>3
<1>18. ConcurrencyBounded'
  <2>1. ASSUME NEW o \in Tasks PROVE Holding(o)' = Holding(o)
    BY <1>3, <1>4, TreeFits DEF Holding, Children, Working
  <2> QED
    BY <2>1 DEF FlowInv, ConcurrencyBounded
<1>19. IterationsSettled' /\ LoopFailureSeen'
  BY <1>1, <1>3, <1>4, TreeFits DEF FlowInv, IterationsSettled, LoopFailureSeen, Children
<1> QED
  BY <1>6, <1>7, <1>8, <1>9, <1>10, <1>11, <1>12, <1>13, <1>14, <1>15, <1>16, <1>17,
     <1>18, <1>19 DEF FlowInv

\* A step that leaves the coroutines and the tasks' states alone.
LEMMA QuietKeeps ==
    ASSUME FlowInv, TypeOK', KindsFit', CancelsFit', MainFits', RootQuiet',
           CancelsSpread',
           UNCHANGED <<policy, mem, trace, iteration, aborting, pc, stage, fault>>
    PROVE  FlowInv'
<1>1. EarlyIdle' /\ StagesFit' /\ KidsDone'
  BY DEF FlowInv, EarlyIdle, StagesFit, KidsDone, Children, IsIteration
<1>2. RowsFit' /\ ReturnedRecorded' /\ EscalatedAhead'
  BY DEF FlowInv, RowsFit, ReturnedRecorded, EscalatedAhead, Children
<1>3. GraphRespected' /\ IterationsSettled' /\ LoopFailureSeen'
  BY DEF FlowInv, GraphRespected, IterationsSettled, LoopFailureSeen, Children, Deps
<1>4. ConcurrencyBounded'
  BY DEF FlowInv, ConcurrencyBounded, Holding, Children, Working
<1> QED
  BY <1>1, <1>2, <1>3, <1>4 DEF FlowInv

\* The cancellations stay as they are.
LEMMA SameCancels ==
    ASSUME FlowInv, UNCHANGED <<mem, pc, fault, doomed, abortLeft>>
    PROVE  CancelsFit' /\ CancelsSpread'
BY DEF FlowInv, CancelsFit, CancelsSpread, Working, FlatIterations, IsIteration,
       Children

\* Every coroutine at work is cancelled, and perhaps the tasks aborted.
LEMMA AllCancelled ==
    ASSUME FlowInv, UNCHANGED <<mem, pc, fault>>, doomed' = RunningTasks,
           \/ abortLeft' = abortLeft
           \/ abortLeft' = {t \in Tasks : mem[t] \in ActiveStates}
    PROVE  CancelsFit' /\ CancelsSpread'
<1>1. \A t \in Tasks : t \in doomed' <=> Working(t)
  BY DEF RunningTasks
<1>2. \A t \in doomed' : t \in Tasks /\ Working(t)
  BY DEF RunningTasks
<1>3. \A t \in abortLeft' : t \in Tasks /\ mem[t] \in ActiveStates
  BY DEF FlowInv, CancelsFit, TypeOK
<1>4. CancelsFit'
  BY <1>1, <1>2, <1>3 DEF CancelsFit, Working
<1>5. CancelsSpread'
  BY <1>1, <1>2
     DEF FlowInv, CancelsSpread, Working, FlatIterations, IsIteration, Children
<1> QED
  BY <1>4, <1>5

\* A group of the workflow has returned, and so nothing of it is left.
LEMMA GroupQuiet ==
    ASSUME FlowInv, \A t \in Group(Root, stage[Root]) : pc[t] = "returned"
    PROVE  \A c \in Children(Root) :
               /\ Level[c] <= stage[Root] => pc[c] = "returned"
               /\ Level[c] > stage[Root] => pc[c] = "idle"
<1> SUFFICES ASSUME NEW c \in Children(Root)
             PROVE  /\ Level[c] <= stage[Root] => pc[c] = "returned"
                    /\ Level[c] > stage[Root] => pc[c] = "idle"
  OBVIOUS
<1>1. /\ c \in Tasks /\ Parent[c] = Root /\ ~IsIteration(c) /\ Level[c] \in Nat
      /\ stage[Root] \in Nat
  BY LevelFits DEF Children, IsIteration, FlowInv, TypeOK
<1>2. Level[c] = stage[Root] => pc[c] = "returned"
  BY DEF Group
<1>3. /\ Level[c] < stage[Root] => pc[c] = "returned"
      /\ Level[c] > stage[Root] => pc[c] = "idle"
  BY <1>1 DEF FlowInv, StagesFit
<1> QED
  BY <1>1, <1>2, <1>3

LEMMA GroupDoneKeeps == FlowInv /\ GroupDone => FlowInv'
<1> SUFFICES ASSUME FlowInv, GroupDone PROVE FlowInv'
  OBVIOUS
<1>1. /\ main = "gather" /\ fault[Root] = "none"
      /\ \A t \in Group(Root, stage[Root]) : pc[t] = "returned"
      /\ UNCHANGED <<policy, status, mem, trace, iteration, aborting, heard, pc,
                     fault, signals>>
  BY DEF GroupDone, loops
<1>2. TypeOK /\ stage[Root] \in Nat /\ status # "completed" /\ aborter # "main"
  BY <1>1 DEF FlowInv, TypeOK, MainFits
<1>3. \A c \in Children(Root) :
          /\ Level[c] <= stage[Root] => pc[c] = "returned"
          /\ Level[c] > stage[Root] => pc[c] = "idle"
          /\ Level[c] \in Nat /\ pc[c] \in {"idle", "returned"}
  BY <1>1, <1>2, GroupQuiet, LevelFits DEF Children
<1>4. KindsFit'
  BY <1>1 DEF FlowInv, KindsFit, IsIteration
<1>5. CASE stage' = stage
  <2>1. \/ open' = FALSE /\ main' = "finish" /\ UNCHANGED <<doomed, abortLeft, aborter>>
        \/ main' = "abort" /\ BeginAbort("main") /\ open' = open
    BY <1>2, <1>5 DEF GroupDone, TypeOK
  <2>2. CancelsFit' /\ CancelsSpread'
    BY <1>1, <2>1, SameCancels, AllCancelled DEF BeginAbort
  <2>3. TypeOK'
    BY <1>1, <1>2, <1>5, <2>1 DEF TypeOK, BeginAbort, RunningTasks
  <2>4. MainFits'
    BY <1>1, <1>2, <2>1 DEF MainFits, BeginAbort
  <2>5. RootQuiet'
    BY <1>1, <1>3, <2>1, <1>5 DEF RootQuiet, Children
  <2> QED
    BY <1>1, <1>4, <1>5, <2>2, <2>3, <2>4, <2>5, QuietKeeps
<1>6. CASE stage' # stage
  <2>1. /\ EscalatedInGroup => policy = "continue_independent"
        /\ stage' = [stage EXCEPT ![Root] = @ + 1] /\ main' = "gate"
        /\ UNCHANGED <<open, doomed, abortLeft, aborter>>
    BY <1>6 DEF GroupDone
  <2>2. CancelsFit' /\ CancelsSpread'
    BY <1>1, <2>1, SameCancels
  <2>3. TypeOK'
    BY <1>1, <1>2, <2>1 DEF TypeOK
  <2>4. MainFits'
    BY <1>1, <1>2, <2>1 DEF MainFits
  <2>5. stage'[Root] = stage[Root] + 1 /\ \A t \in Tasks : stage'[t] = stage[t]
    BY <1>2, <2>1, TreeFits DEF TypeOK
  <2>6. RootQuiet'
    BY <1>1, <1>2, <1>3, <2>1, <2>5 DEF RootQuiet, Children
  <2>7. EarlyIdle' /\ KidsDone'
    BY <1>1, <2>5 DEF FlowInv, EarlyIdle, KidsDone, Children, IsIteration
  <2>8. StagesFit'
    <3> SUFFICES ASSUME NEW c \in Tasks, ~IsIteration(c)
                 PROVE  /\ Level[c] < stage'[Parent[c]] => pc[c] = "returned"
                        /\ Level[c] > stage'[Parent[c]] => pc[c] = "idle"
      BY <1>1 DEF StagesFit, IsIteration
    <3>1. CASE Parent[c] = Root
      BY <3>1, <1>2, <1>3, <2>5 DEF Children
    <3>2. CASE Parent[c] # Root
      BY <3>2, <2>5, TreeFits DEF FlowInv, StagesFit
    <3> QED
      BY <3>1, <3>2
  <2>9. EscalatedAhead'
    <3>1. ASSUME policy # "continue_independent", NEW t \in Children(Root),
                 mem[t] = "escalated"
          PROVE  Level[t] >= stage[Root] + 1
      <4>1. Level[t] >= stage[Root] /\ Level[t] \in Nat
        BY <3>1, <1>3 DEF FlowInv, EscalatedAhead
      <4>2. Level[t] # stage[Root]
        BY <3>1, <2>1 DEF EscalatedInGroup, Group
      <4> QED
        BY <4>1, <4>2, <1>2
    <3> QED
      BY <3>1, <1>1, <2>5 DEF EscalatedAhead, Children
  <2>10. RowsFit' /\ ReturnedRecorded' /\ GraphRespected' /\ IterationsSettled'
            /\ LoopFailureSeen'
    BY <1>1 DEF FlowInv, RowsFit, ReturnedRecorded, GraphRespected,
                IterationsSettled, LoopFailureSeen, Children, Deps
  <2>11. ConcurrencyBounded'
    BY <1>1 DEF FlowInv, ConcurrencyBounded, Holding, Children, Working
  <2> QED
    BY <1>4, <2>2, <2>3, <2>4, <2>6, <2>7, <2>8, <2>9, <2>10, <2>11 DEF FlowInv
<1> QED
  BY <1>5, <1>6

\* The other steps of the workflow's coroutine, and the signals.
LEMMA ControlKeeps ==
    ASSUME FlowInv,
           \/ WorkflowFaults \/ CompleteRun \/ FailRun \/ AbortDone \/ Pause
           \/ Resume \/ Abort \/ Rest \/ vars' = vars
           \/ \E payload \in {"payload", "None"} : Fire(payload)
    PROVE  FlowInv'
<1> USE DEF loops, run
<1>0. TypeOK /\ KindsFit /\ MainFits /\ RootQuiet
  BY DEF FlowInv
<1>1. CASE WorkflowFaults
  <2>1. CancelsFit' /\ CancelsSpread' /\ KindsFit'
    BY <1>0, <1>1, SameCancels DEF WorkflowFaults, KindsFit, IsIteration
  <2>2. TypeOK' /\ MainFits' /\ RootQuiet'
    BY <1>0, <1>1 DEF WorkflowFaults, TypeOK, MainFits, RootQuiet, Children
  <2> QED
    BY <1>1, <2>1, <2>2, QuietKeeps DEF WorkflowFaults
<1>2. CASE CompleteRun
  <2>1. CancelsFit' /\ CancelsSpread' /\ KindsFit'
    BY <1>0, <1>2, SameCancels DEF CompleteRun, KindsFit, IsIteration
  <2>2. TypeOK' /\ MainFits' /\ RootQuiet'
    BY <1>0, <1>2 DEF CompleteRun, TypeOK, RunState, MainFits, RootQuiet, Children
  <2> QED
    BY <1>2, <2>1, <2>2, QuietKeeps DEF CompleteRun
<1>3. CASE FailRun
  <2>1. CancelsFit' /\ CancelsSpread' /\ KindsFit'
    BY <1>0, <1>3, SameCancels DEF FailRun, KindsFit, IsIteration
  <2>2. TypeOK' /\ MainFits' /\ RootQuiet'
    BY <1>0, <1>3 DEF FailRun, TypeOK, RunState, MainFits, RootQuiet, Children
  <2> QED
    BY <1>3, <2>1, <2>2, QuietKeeps DEF FailRun
<1>4. CASE AbortDone
  <2>1. CancelsFit' /\ CancelsSpread' /\ KindsFit'
    BY <1>0, <1>4, SameCancels DEF AbortDone, KindsFit, IsIteration
  <2>2. TypeOK' /\ MainFits' /\ RootQuiet'
    BY <1>0, <1>4 DEF AbortDone, TypeOK, MainFits, RootQuiet, Children
  <2> QED
    BY <1>4, <2>1, <2>2, QuietKeeps DEF AbortDone
<1>5. CASE Pause
  <2>1. CancelsFit' /\ CancelsSpread' /\ KindsFit'
    BY <1>0, <1>5, AllCancelled DEF Pause, KindsFit, IsIteration
  <2>2. TypeOK'
    <3>1. signals' \in 0..MaxSignals
      BY <1>0, <1>5, WorkflowAssumption DEF Pause, Signal, TypeOK
    <3>2. /\ status' = "paused" /\ open' = FALSE /\ doomed' \subseteq Tasks
          /\ UNCHANGED <<policy, main, mem, trace, iteration, aborting, heard, pc,
                         stage, fault, abortLeft, aborter>>
      BY <1>5 DEF Pause, RunningTasks
    <3> QED
      BY <1>0, <3>1, <3>2 DEF TypeOK, RunState
  <2>3. MainFits' /\ RootQuiet'
    BY <1>0, <1>5 DEF Pause, Listening, MainFits, RootQuiet, Children
  <2> QED
    BY <1>5, <2>1, <2>2, <2>3, QuietKeeps DEF Pause
<1>6. CASE Resume
  <2>1. CancelsFit' /\ CancelsSpread' /\ KindsFit'
    BY <1>0, <1>6, SameCancels DEF Resume, KindsFit, IsIteration
  <2>2. TypeOK' /\ MainFits' /\ RootQuiet'
    BY <1>0, <1>6, WorkflowAssumption
       DEF Resume, Signal, TypeOK, RunState, MainFits, RootQuiet, Children
  <2> QED
    BY <1>6, <2>1, <2>2, QuietKeeps DEF Resume
<1>7. CASE Abort
  <2>1. CancelsFit' /\ CancelsSpread' /\ KindsFit'
    BY <1>0, <1>7, AllCancelled DEF Abort, BeginAbort, KindsFit, IsIteration
  <2>2. TypeOK' /\ MainFits' /\ RootQuiet'
    BY <1>0, <1>7, WorkflowAssumption
       DEF Abort, BeginAbort, Signal, RunningTasks, TypeOK, RunState, MainFits,
           RootQuiet, Children
  <2> QED
    BY <1>7, <2>1, <2>2, QuietKeeps DEF Abort
<1>8. CASE Rest \/ vars' = vars
  <2>1. vars' = vars
    BY <1>8 DEF Rest
  <2>2. CancelsFit' /\ CancelsSpread' /\ KindsFit'
    BY <1>0, <2>1, SameCancels DEF vars, KindsFit, IsIteration
  <2>3. TypeOK' /\ MainFits' /\ RootQuiet'
    BY <1>0, <2>1 DEF vars, TypeOK, MainFits, RootQuiet, Children
  <2> QED
    BY <2>1, <2>2, <2>3, QuietKeeps DEF vars
<1>9. ASSUME NEW payload \in {"payload", "None"}, Fire(payload) PROVE FlowInv'
  <2>1. CancelsFit' /\ CancelsSpread' /\ KindsFit'
    BY <1>0, <1>9, SameCancels DEF Fire, KindsFit, IsIteration, TypeOK
  <2>2. TypeOK' /\ MainFits' /\ RootQuiet'
    BY <1>0, <1>9 DEF Fire, TypeOK, MainFits, RootQuiet, Children
  <2> QED
    BY <1>9, <2>1, <2>2, QuietKeeps DEF Fire
<1> QED
  BY <1>1, <1>2, <1>3, <1>4, <1>5, <1>6, <1>7, <1>8, <1>9

LEMMA FlowInvInit == Init => FlowInv
<1> SUFFICES ASSUME Init PROVE FlowInv
  OBVIOUS
<1> USE DEF Init
<1>1. TypeOK
  BY WorkflowAssumption DEF TypeOK, RunState, Pc
<1>2. KindsFit /\ CancelsFit /\ MainFits /\ EarlyIdle
  BY WorkflowAssumption DEF KindsFit, CancelsFit, MainFits, EarlyIdle, Children
<1>3. StagesFit /\ RootQuiet /\ EscalatedAhead
  BY TreeFits, LevelFits DEF StagesFit, RootQuiet, EscalatedAhead, Children
<1>4. KidsDone /\ RowsFit /\ ReturnedRecorded
  BY WorkflowAssumption DEF KidsDone, RowsFit, ReturnedRecorded, Children
<1>5. CancelsSpread /\ GraphRespected
  BY DEF CancelsSpread, GraphRespected
<1>6. IterationsSettled /\ LoopFailureSeen
  BY WorkflowAssumption DEF IterationsSettled, LoopFailureSeen
<1>7. ConcurrencyBounded
  <2>1. \A o \in Tasks : Holding(o) = {}
    BY DEF Holding, Children, Working
  <2> QED
    <3>1. \A o \in Tasks : Cardinality(Holding(o)) = 0
      BY <2>1, FS_EmptySet, Zenon
    <3>2. MaxConcurrency \in Nat
      BY WorkflowAssumption
    <3> QED
      BY <3>1, <3>2 DEF ConcurrencyBounded
<1> QED
  BY <1>1, <1>2, <1>3, <1>4, <1>5, <1>6, <1>7 DEF FlowInv

LEMMA FlowInvNext == FlowInv /\ [Next]_vars => FlowInv'
<1> SUFFICES ASSUME FlowInv, [Next]_vars PROVE FlowInv'
  OBVIOUS
<1>1. CASE \E t \in Tasks : TaskStep(t)
  BY <1>1, TaskStepKeeps
<1> QED
  BY <1>1, RegisterKeeps, OpenGroupKeeps, GroupDoneKeeps, ControlKeeps
     DEF Next, MainStep

LEMMA FlowInvHolds == Spec => []FlowInv
<1> QED
  BY FlowInvInit, FlowInvNext, PTL DEF Spec

\* Whatever the tree of tasks, what fails, raises, times out or is cancelled:
\* a task's coroutine exists only once every task before it in the graph has
\* returned, a composite is past its gather only after its subtasks, a
\* for_each has settled every iteration when it is past its own, and never
\* runs more of them than max_concurrency.
THEOREM OrderAlwaysKept == Spec => []OrderKept
<1>1. FlowInv => OrderKept
  <2> SUFFICES ASSUME FlowInv PROVE OrderKept
    OBVIOUS
  <2>1. CompositeWaits
    BY DEF FlowInv, KidsDone, CompositeWaits
  <2> QED
    BY <2>1 DEF FlowInv, OrderKept
<1> QED
  BY <1>1, FlowInvHolds, PTL

\* Whatever the tree of tasks: a task that returned a result has its final
\* state in the trace, nothing behind an escalated task is begun under "halt"
\* and "abort_all", a completed run has no coroutine left, a cancellation that
\* ends the workflow's coroutine reaches every task, and a for_each never
\* reports success over a failed iteration it was to abort on.
THEOREM OutcomesAlwaysRecorded == Spec => []OutcomesRecorded
<1>1. FlowInv => OutcomesRecorded
  <2> SUFFICES ASSUME FlowInv PROVE OutcomesRecorded
    OBVIOUS
  <2>1. EscalationStops
    <3> SUFFICES ASSUME policy # "continue_independent", NEW t \in Children(Root),
                        mem[t] = "escalated", NEW u \in Children(Root),
                        Level[u] > Level[t]
                 PROVE  pc[u] = "idle"
      BY DEF EscalationStops
    <3>1. /\ u \in Tasks /\ Parent[u] = Root /\ ~IsIteration(u)
          /\ Level[u] \in Nat /\ Level[t] \in Nat /\ stage[Root] \in Nat
      BY LevelFits DEF Children, IsIteration, FlowInv, TypeOK
    <3>2. Level[t] >= stage[Root]
      BY DEF FlowInv, EscalatedAhead
    <3> QED
      BY <3>1, <3>2 DEF FlowInv, StagesFit
  <2>2. CompletedRunQuiet
    <3> SUFFICES ASSUME status = "completed", FlatIterations
                 PROVE  \A t \in Tasks : ~Working(t)
      BY DEF CompletedRunQuiet
    <3>1. \A t \in Tasks : pc[t] \in {"idle", "returned"}
      BY NothingLeft DEF FlowInv, RootQuiet
    <3> QED
      BY <3>1 DEF Working, Ended
  <2>3. CancelReachesAll
    <3> SUFFICES ASSUME main = "gone", FlatIterations
                 PROVE  \A t \in Tasks : Working(t) => t \in doomed
      BY DEF CancelReachesAll
    <3>1. fault[Root] = "cancelled"
      BY DEF FlowInv, MainFits
    <3>2. \E t \in Tasks : pc[t] = "cancelled"
      BY <3>1 DEF FlowInv, CancelsSpread
    <3> QED
      BY <3>2 DEF FlowInv, CancelsSpread
  <2> QED
    BY <2>1, <2>2, <2>3 DEF FlowInv, OutcomesRecorded
<1> QED
  BY <1>1, FlowInvHolds, PTL
=============================================================================
