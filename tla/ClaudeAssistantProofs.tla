------------------------- MODULE ClaudeAssistantProofs -------------------------
(***************************************************************************)
(* What the compaction of ClaudeAssistant and its loop of tool calls keep, *)
(* for every size of the buffer, every interval and any number of calls;   *)
(* and what the code tool that the loop calls keeps, for any number of     *)
(* callers and versions, whatever is deployed, fails or is cancelled       *)
(* meanwhile.                                                              *)
(***************************************************************************)
EXTENDS ClaudeAssistant, CodeTool, TLAPS

\* The step changes neither the times of compactions nor turns back the clock.
LEMMA QuietKeepsClockInv ==
    ASSUME ClockInv, UNCHANGED <<lastAuto, autoStarts>>,
           clock' \in Nat, clock' >= clock
    PROVE  ClockInv'
  BY ClaudeAssumption DEF ClockInv, CompactionsApart, Never

\* Starting a compaction takes the time from the clock.
LEMMA StartKeepsClockInv == ClockInv /\ StartAutoCompaction => ClockInv'
<1> SUFFICES ASSUME ClockInv, StartAutoCompaction PROVE ClockInv'
  OBVIOUS
<1>1. /\ clock \in Nat /\ clock' = clock /\ lastAuto' = clock
      /\ autoStarts \in Seq(Nat) /\ autoStarts' = Append(autoStarts, clock)
  BY DEF ClockInv, StartAutoCompaction
<1>2. /\ autoStarts' \in Seq(Nat) /\ Len(autoStarts') = Len(autoStarts) + 1
      /\ autoStarts'[Len(autoStarts')] = clock
      /\ \A i \in 1..Len(autoStarts) : autoStarts'[i] = autoStarts[i]
  BY <1>1
<1>3. CompactionsApart'
  <2> SUFFICES ASSUME NEW i \in 1..Len(autoStarts)
               PROVE  autoStarts'[i + 1] - autoStarts'[i] >= MinInterval
    BY <1>1, <1>2 DEF CompactionsApart
  <2>1. CASE i < Len(autoStarts)
    <3>1. i \in 1..(Len(autoStarts) - 1) /\ i + 1 \in 1..Len(autoStarts)
      BY <1>1, <2>1
    <3>2. autoStarts[i + 1] - autoStarts[i] >= MinInterval
      BY <3>1 DEF ClockInv, CompactionsApart
    <3> QED  BY <1>2, <3>1, <3>2
  <2>2. CASE i = Len(autoStarts)
    <3>1. autoStarts # <<>> /\ lastAuto = autoStarts[i] /\ lastAuto \in Nat
      BY <1>1, <2>2 DEF ClockInv
    <3>2. clock - lastAuto >= MinInterval
      BY <3>1 DEF StartAutoCompaction, CanCompact, Never
    <3> QED  BY <1>2, <2>2, <3>1, <3>2
  <2> QED  BY <1>1, <2>1, <2>2
<1> QED  BY <1>1, <1>2, <1>3 DEF ClockInv

\* Every step keeps the times of the compaction behind the clock.
LEMMA NextKeepsClockInv == ClockInv /\ [Next]_vars => ClockInv'
<1> SUFFICES ASSUME ClockInv, [Next]_vars PROVE ClockInv'
  OBVIOUS
<1>1. CASE StartAutoCompaction
  BY <1>1, StartKeepsClockInv
<1>2. CASE ~StartAutoCompaction
  <2>1. UNCHANGED <<lastAuto, autoStarts>> /\ (clock' = clock \/ clock' = clock + 1)
    BY <1>2 DEF Next, Own, External, Tick, Cancel, Start, StartCompact, CompactionResponds,
       CompactionOk, CompactionFails, NoCompaction, DropOldest, CompactionCancelled,
       Request, ApiCancelled, ApiFails, ApiResponds, ToolCancelled, ApiAnswers,
       ToolReturns, ApiToolUse, vars, compactVars
  <2>2. clock' \in Nat /\ clock' >= clock
    BY <2>1 DEF ClockInv
  <2> QED  BY <2>1, <2>2, QuietKeepsClockInv
<1> QED  BY <1>1, <1>2

\* The times of the compaction are behind the clock in every state.
LEMMA ClockInvCorrect == Spec => []ClockInv
<1>1. Init => ClockInv
  BY DEF Init, ClockInv, CompactionsApart
<1> QED  BY <1>1, NextKeepsClockInv, PTL DEF Spec

(***************************************************************************)
(* The rate limit of automatic compactions (maybe_compact): between the    *)
(* starts of two there is at least min_interval, whether they succeed or   *)
(* not.                                                                    *)
(***************************************************************************)
THEOREM CompactionsAlwaysApart == Spec => []CompactionsApart
<1>1. ClockInv => CompactionsApart
  BY DEF ClockInv
<1> QED  BY <1>1, ClockInvCorrect, PTL

-----------------------------------------------------------------------------

\* The numbers of consecutive messages are an interval.
LEMMA NumbersOfConsecutive ==
    ASSUME NEW msgs \in Seq(Message), NEW base \in Nat,
           \A i \in 1..Len(msgs) : msgs[i].number = base + i
    PROVE  Numbers(msgs) = (base + 1)..(base + Len(msgs))
<1>1. ASSUME NEW n \in Numbers(msgs) PROVE n \in (base + 1)..(base + Len(msgs))
  BY <1>1 DEF Numbers
<1>2. ASSUME NEW n \in (base + 1)..(base + Len(msgs)) PROVE n \in Numbers(msgs)
  <2>1. n - base \in 1..Len(msgs) /\ msgs[n - base].number = n
    OBVIOUS
  <2> QED  BY <2>1 DEF Numbers
<1> QED  BY <1>1, <1>2

\* MessageBuffer::push keeps the order and forgets nothing.
LEMMA PushKeepsHistoryInv ==
    ASSUME HistoryInv, NEW kind \in {"chat", "toolUse", "toolResult"},
           NEW size \in Nat, NEW uses \in Nat,
           Push(kind, size, uses), UNCHANGED <<summary, dropped>>
    PROVE  HistoryInv'
<1> DEFINE new == [kind |-> kind, number |-> pushed + 1, size |-> size, uses |-> uses]
<1>1. /\ messages \in Seq(Message) /\ pushed \in Nat /\ Len(messages) <= pushed
      /\ messages' = Append(messages, new) /\ pushed' = pushed + 1
  BY DEF HistoryInv, Push
<1>2. new \in Message
  BY <1>1 DEF Message
<1>3. /\ messages' \in Seq(Message) /\ Len(messages') = Len(messages) + 1
      /\ messages'[Len(messages')] = new
      /\ \A i \in 1..Len(messages) : messages'[i] = messages[i]
  BY <1>1, <1>2
<1>4. ASSUME NEW i \in 1..Len(messages')
      PROVE  messages'[i].number = pushed' - Len(messages') + i
  <2>1. CASE i \in 1..Len(messages)
    <3>1. messages[i].number = pushed - Len(messages) + i
      BY <2>1 DEF HistoryInv, HistoryAccounted
    <3> QED  BY <1>1, <1>3, <2>1, <3>1
  <2>2. CASE i = Len(messages')
    BY <1>1, <1>3, <2>2
  <2> QED  BY <1>1, <1>3, <2>1, <2>2
<1>5. pushed' - Len(messages') = pushed - Len(messages)
  BY <1>1, <1>3
<1>6. 1..(pushed' - Len(messages')) = summary' \cup dropped'
  BY <1>5 DEF HistoryInv, HistoryAccounted
<1>7. MinInterval = 0 => dropped' = {}
  BY DEF HistoryInv, HistoryAccounted
<1>8. HistoryAccounted'
  BY <1>4, <1>6, <1>7 DEF HistoryAccounted
<1> QED  BY <1>1, <1>3, <1>8 DEF HistoryInv

\* A compaction puts all of the buffer into the summary.
LEMMA SummarizeKeepsHistoryInv ==
    ASSUME HistoryInv, Summarize, UNCHANGED <<pushed, dropped>>
    PROVE  HistoryInv'
<1> DEFINE base == pushed - Len(messages)
<1>1. /\ messages \in Seq(Message) /\ pushed \in Nat /\ base \in Nat
      /\ base + Len(messages) = pushed
  BY DEF HistoryInv
<1>2. /\ \A i \in 1..Len(messages) : messages[i].number = base + i
      /\ 1..base = summary \cup dropped
  BY DEF HistoryInv, HistoryAccounted
<1>3. Numbers(messages) = (base + 1)..pushed
  BY <1>1, <1>2, NumbersOfConsecutive
<1>4. /\ messages' = <<>> /\ summary' = summary \cup ((base + 1)..pushed)
      /\ dropped' = dropped /\ pushed' = pushed
  BY <1>3 DEF Summarize
<1>5. 1..pushed = (1..base) \cup ((base + 1)..pushed)
  BY <1>1
<1>6. 1..pushed' = summary' \cup dropped'
  BY <1>2, <1>4, <1>5
<1>7. MinInterval = 0 => dropped' = {}
  BY <1>4 DEF HistoryInv, HistoryAccounted
<1>8. messages' \in Seq(Message) /\ Len(messages') = 0
  BY <1>4
<1> QED  BY <1>1, <1>4, <1>6, <1>7, <1>8 DEF HistoryInv, HistoryAccounted

\* The rate limit drops the oldest messages, if there is a rate limit.
LEMMA DropKeepsHistoryInv == ClockInv /\ HistoryInv /\ DropOldest => HistoryInv'
<1> SUFFICES ASSUME ClockInv, HistoryInv, DropOldest PROVE HistoryInv'
  OBVIOUS
<1>1. PICK k \in 0..Len(messages) :
          /\ messages' = SubSeq(messages, k + 1, Len(messages))
          /\ dropped' = dropped \cup Numbers(SubSeq(messages, 1, k))
  BY DEF DropOldest
<1> DEFINE base == pushed - Len(messages)
           old  == SubSeq(messages, 1, k)
<1>2. /\ messages \in Seq(Message) /\ pushed \in Nat /\ base \in Nat
      /\ pushed' = pushed /\ summary' = summary
  BY DEF HistoryInv, DropOldest
<1>3. /\ \A i \in 1..Len(messages) : messages[i].number = base + i
      /\ 1..base = summary \cup dropped
  BY DEF HistoryInv, HistoryAccounted
<1>4. /\ messages' \in Seq(Message) /\ Len(messages') = Len(messages) - k
      /\ \A i \in 1..Len(messages') : messages'[i] = messages[k + i]
  BY <1>1, <1>2
<1>5. /\ old \in Seq(Message) /\ Len(old) = k
      /\ \A i \in 1..k : old[i] = messages[i]
  BY <1>1, <1>2
<1>6. Numbers(old) = (base + 1)..(base + k)
  <2>1. \A i \in 1..Len(old) : old[i].number = base + i
    BY <1>2, <1>3, <1>5
  <2> QED  BY <1>2, <1>5, <2>1, NumbersOfConsecutive
<1>7. \A i \in 1..Len(messages') : messages'[i].number = pushed' - Len(messages') + i
  <2> SUFFICES ASSUME NEW i \in 1..Len(messages')
               PROVE  messages'[i].number = pushed' - Len(messages') + i
    OBVIOUS
  <2>1. k + i \in 1..Len(messages) /\ messages'[i] = messages[k + i]
    BY <1>2, <1>4
  <2> QED  BY <1>2, <1>3, <1>4, <2>1
<1>8. 1..(pushed' - Len(messages')) = summary' \cup dropped'
  <2>1. 1..(base + k) = (1..base) \cup ((base + 1)..(base + k))
    BY <1>2
  <2>2. pushed' - Len(messages') = base + k
    BY <1>2, <1>4
  <2> QED  BY <1>1, <1>2, <1>3, <1>6, <2>1, <2>2
<1>9. MinInterval # 0
  BY ClaudeAssumption DEF ClockInv, DropOldest, CanCompact, Never
<1> QED  BY <1>2, <1>4, <1>7, <1>8, <1>9 DEF HistoryInv, HistoryAccounted

\* Every step keeps the invariant of the history.
LEMMA NextKeepsHistoryInv == ClockInv /\ HistoryInv /\ [Next]_vars => HistoryInv'
<1> SUFFICES ASSUME ClockInv, HistoryInv, [Next]_vars PROVE HistoryInv'
  OBVIOUS
<1>1. ASSUME NEW size \in Sizes, NEW method, Start(method, size) PROVE HistoryInv'
  BY <1>1, PushKeepsHistoryInv, ClaudeAssumption DEF Start, compactVars
<1>2. ASSUME NEW size \in ToolSizes, NEW uses \in 0..MaxTools, ApiToolUse(size, uses)
      PROVE  HistoryInv'
  BY <1>2, PushKeepsHistoryInv, ClaudeAssumption DEF ApiToolUse, compactVars
<1>3. ASSUME NEW size \in ToolSizes, ToolReturns(size) PROVE HistoryInv'
  BY <1>3, PushKeepsHistoryInv, ClaudeAssumption DEF ToolReturns, compactVars
<1>4. CASE CompactionOk
  BY <1>4, SummarizeKeepsHistoryInv DEF CompactionOk
<1>5. CASE DropOldest
  BY <1>5, DropKeepsHistoryInv
<1>6. CASE \/ Tick \/ Cancel \/ StartCompact \/ CompactionFails \/ NoCompaction
           \/ StartAutoCompaction \/ CompactionResponds \/ CompactionCancelled
           \/ Request \/ ApiCancelled \/ ApiFails \/ ApiResponds \/ ToolCancelled
           \/ ApiAnswers \/ UNCHANGED vars
  <2>1. UNCHANGED <<messages, pushed, summary, dropped>>
    BY <1>6 DEF Tick, Cancel, StartCompact, CompactionFails, NoCompaction,
       StartAutoCompaction, CompactionResponds, CompactionCancelled, Request,
       ApiCancelled, ApiFails, ApiResponds, ToolCancelled, ApiAnswers, vars, bufferVars,
       compactVars
  <2> QED  BY <2>1 DEF HistoryInv, HistoryAccounted
<1> QED  BY <1>1, <1>2, <1>3, <1>4, <1>5, <1>6 DEF Next, Own, External

(***************************************************************************)
(* The history of the assistant (MessageBuffer, do_compact and             *)
(* drop_oldest_messages): the buffer always holds the newest messages in   *)
(* order, and all older ones are in the summary, or were dropped where a   *)
(* rate limit is configured.                                               *)
(***************************************************************************)
THEOREM HistoryAlwaysAccounted == Spec => []HistoryAccounted
<1>1. Init => HistoryInv
  BY DEF Init, HistoryInv, HistoryAccounted
<1>2. HistoryInv => HistoryAccounted
  BY DEF HistoryInv
<1> QED  BY <1>1, <1>2, ClockInvCorrect, NextKeepsHistoryInv, PTL DEF Spec
-----------------------------------------------------------------------------
(* Tool calls and their results.                                           *)

\* Of every message's tool calls the results follow it, but for those of the last
\* open places, which the buffer does not have yet.
Answered(open) ==
    \A i \in 1..Len(messages) : \A k \in 1..messages[i].uses :
        IF i + k <= Len(messages) THEN messages[i + k].kind = "toolResult"
                                  ELSE i + k <= Len(messages) + open

\* The strengthening of ToolResultsFollow that every step keeps: between tool calls,
\* the results that are missing are those of the calls still to be made.
Open == IF pc = "tool" THEN tools ELSE 0
ToolInv ==
    /\ pc = "tool" => tools \in Nat \ {0}
    /\ ~broken => Answered(Open)

\* A message with tool calls, or one without, is pushed after a whole conversation.
LEMMA PushOpens ==
    ASSUME messages \in Seq(Message), Answered(0), NEW kind, NEW size, NEW uses \in Nat,
           Push(kind, size, uses)
    PROVE  Answered(uses)'
<1> DEFINE new == [kind |-> kind, number |-> pushed + 1, size |-> size, uses |-> uses]
<1>1. /\ Len(messages) \in Nat /\ Len(messages') = Len(messages) + 1
      /\ messages'[Len(messages) + 1] = new
      /\ \A i \in 1..Len(messages) : messages'[i] = messages[i]
  BY DEF Push
<1>2. new.uses = uses
  OBVIOUS
<1> HIDE DEF new
<1> SUFFICES ASSUME NEW i \in 1..Len(messages'), NEW k \in 1..messages'[i].uses
             PROVE  IF i + k <= Len(messages') THEN messages'[i + k].kind = "toolResult"
                                               ELSE i + k <= Len(messages') + uses
  BY DEF Answered
<1>3. CASE i = Len(messages) + 1
  <2>1. k \in 1..uses
    BY <1>1, <1>2, <1>3
  <2> QED  BY <1>1, <1>3, <2>1
<1>4. CASE i # Len(messages) + 1
  <2>1. i \in 1..Len(messages) /\ messages'[i] = messages[i]
    BY <1>1, <1>4
  <2>2. messages[i] \in Message
    BY <2>1
  <2>3. k \in 1..messages[i].uses /\ k \in Nat
    BY <2>1, <2>2 DEF Message
  <2>4. IF i + k <= Len(messages) THEN messages[i + k].kind = "toolResult"
                                  ELSE i + k <= Len(messages) + 0
    BY <2>1, <2>3 DEF Answered
  <2>5. i + k \in 1..Len(messages) /\ messages[i + k].kind = "toolResult"
    BY <1>1, <2>1, <2>3, <2>4
  <2> QED  BY <1>1, <2>5
<1> QED  BY <1>3, <1>4

\* The result of the next tool is pushed.
LEMMA ResultCloses ==
    ASSUME messages \in Seq(Message), NEW open \in Nat \ {0}, Answered(open), NEW size,
           Push("toolResult", size, 0)
    PROVE  Answered(open - 1)'
<1> DEFINE new == [kind |-> "toolResult", number |-> pushed + 1, size |-> size, uses |-> 0]
<1>1. /\ Len(messages) \in Nat /\ Len(messages') = Len(messages) + 1
      /\ messages'[Len(messages) + 1] = new
      /\ \A i \in 1..Len(messages) : messages'[i] = messages[i]
  BY DEF Push
<1>2. new.uses = 0 /\ new.kind = "toolResult"
  OBVIOUS
<1> HIDE DEF new
<1> SUFFICES ASSUME NEW i \in 1..Len(messages'), NEW k \in 1..messages'[i].uses
             PROVE  IF i + k <= Len(messages') THEN messages'[i + k].kind = "toolResult"
                                               ELSE i + k <= Len(messages') + (open - 1)
  BY DEF Answered
<1>3. i # Len(messages) + 1
  BY <1>1, <1>2
<1>4. i \in 1..Len(messages) /\ messages'[i] = messages[i]
  BY <1>1, <1>3
<1>5. messages[i] \in Message
  BY <1>4
<1>6. k \in 1..messages[i].uses /\ k \in Nat
  BY <1>4, <1>5 DEF Message
<1>7. IF i + k <= Len(messages) THEN messages[i + k].kind = "toolResult"
                                ELSE i + k <= Len(messages) + open
  BY <1>4, <1>6 DEF Answered
<1>8. CASE i + k <= Len(messages)
  <2>1. i + k \in 1..Len(messages)
    BY <1>4, <1>6, <1>8
  <2> QED  BY <1>1, <1>7, <1>8, <2>1
<1>9. CASE i + k = Len(messages) + 1
  BY <1>1, <1>2, <1>9
<1>10. CASE i + k > Len(messages) + 1
  BY <1>1, <1>4, <1>6, <1>7, <1>10
<1> QED  BY <1>1, <1>4, <1>6, <1>8, <1>9, <1>10

\* Every step keeps the results with their calls.
LEMMA NextKeepsToolInv == HistoryInv /\ ToolInv /\ [Next]_vars => ToolInv'
<1> SUFFICES ASSUME HistoryInv, ToolInv, [Next]_vars PROVE ToolInv'
  OBVIOUS
<1>1. messages \in Seq(Message)
  BY DEF HistoryInv
\* The start of a call comes after the end of the one before.
<1>2. ASSUME NEW size \in Sizes, NEW method, Start(method, size) PROVE ToolInv'
  <2>1. Push("chat", size, 0) /\ Open = 0 /\ Open' = 0 /\ pc' # "tool" /\ broken' = broken
    BY <1>2 DEF Start, Open
  <2>2. ~broken => Answered(0)'
    BY <1>1, <2>1, PushOpens DEF ToolInv
  <2> QED  BY <2>1, <2>2 DEF ToolInv, Answered
\* The calls of an answer are all still to be made.
<1>3. ASSUME NEW size \in ToolSizes, NEW uses \in 0..MaxTools, ApiToolUse(size, uses)
      PROVE  ToolInv'
  <2>1. /\ Push("toolUse", size, uses) /\ Open = 0 /\ Open' = uses
        /\ pc' = "tool" => uses # 0
        /\ tools' = uses /\ broken' = broken
    BY <1>3 DEF ApiToolUse, Open
  <2>2. uses \in Nat
    BY ClaudeAssumption
  <2>3. ~broken => Answered(uses)'
    BY <1>1, <2>1, <2>2, PushOpens DEF ToolInv
  <2> QED  BY <2>1, <2>2, <2>3 DEF ToolInv, Answered
\* The loop goes on only after the last result.
<1>4. ASSUME NEW size \in ToolSizes, ToolReturns(size) PROVE ToolInv'
  <2>1. /\ Push("toolResult", size, 0) /\ pc = "tool" /\ tools' = tools - 1
        /\ tools = 1 => pc' = "request"
        /\ tools # 1 => pc' = pc
        /\ broken' = broken /\ Open = tools
    BY <1>4 DEF ToolReturns, Open
  <2>2. tools \in Nat \ {0}
    BY <2>1 DEF ToolInv
  <2> PICK n \in Nat \ {0} : n = tools
    BY <2>2
  <2>3. ~broken => Answered(n - 1)'
    BY <1>1, <2>1, ResultCloses DEF ToolInv
  <2>4. Open' = n - 1 /\ (pc' = "tool" => tools' \in Nat \ {0})
    BY <2>1, <2>2 DEF Open
  <2> QED  BY <2>1, <2>3, <2>4 DEF ToolInv, Answered
\* An empty buffer lacks nothing.
<1>5. CASE CompactionOk
  <2>1. messages' = <<>> /\ pc' # "tool"
    BY <1>5 DEF CompactionOk, CompactionEnds, Summarize, AfterCompaction, Return
  <2> QED  BY <2>1 DEF ToolInv, Answered
\* From here on nothing is promised.
<1>6. CASE DropOldest \/ ToolCancelled
  <2>1. broken' /\ pc' # "tool"
    BY <1>6 DEF DropOldest, ToolCancelled, AfterCompaction, Return
  <2> QED  BY <2>1 DEF ToolInv
<1>7. CASE \/ Tick \/ Cancel \/ StartCompact \/ CompactionFails \/ NoCompaction
           \/ StartAutoCompaction \/ CompactionResponds \/ CompactionCancelled
           \/ Request \/ ApiCancelled \/ ApiFails \/ ApiResponds \/ ApiAnswers
           \/ UNCHANGED vars
  <2>1. /\ messages' = messages /\ broken' = broken
        /\ (pc' = pc /\ tools' = tools) \/ (pc # "tool" /\ pc' # "tool")
    BY <1>7 DEF Tick, Cancel, StartCompact, CompactionFails, NoCompaction,
       StartAutoCompaction, CompactionResponds, CompactionEnds, CompactionCancelled,
       Request, ApiCancelled, ApiFails, ApiResponds, ApiAnswers, AfterCompaction, Return,
       vars, bufferVars, callVars
  <2>2. Open' = Open
    BY <2>1 DEF Open
  <2> QED  BY <2>1, <2>2 DEF ToolInv, Answered
<1> QED  BY <1>2, <1>3, <1>4, <1>5, <1>6, <1>7 DEF Next, Own, External

(***************************************************************************)
(* The conversation that handle_request sends: as long as no call ended    *)
(* between its tool calls and nothing was dropped, every tool call in the  *)
(* buffer is followed by its result, for any number of tools, answers and  *)
(* failed or successful compactions.                                       *)
(***************************************************************************)
THEOREM ToolResultsAlwaysFollow == Spec => []ToolResultsFollow
<1>1. Init => HistoryInv /\ ToolInv
  BY DEF Init, HistoryInv, HistoryAccounted, ToolInv, Answered
<1>2. HistoryInv /\ ToolInv => ToolResultsFollow
  <2> SUFFICES ASSUME HistoryInv, ToolInv, pc = "api", ~broken,
                      NEW i \in 1..Len(messages), NEW k \in 1..messages[i].uses
               PROVE  i + k <= Len(messages) /\ messages[i + k].kind = "toolResult"
    BY DEF ToolResultsFollow
  <2>1. IF i + k <= Len(messages) THEN messages[i + k].kind = "toolResult"
                                  ELSE i + k <= Len(messages) + 0
    BY DEF ToolInv, Answered, Open
  <2>2. Len(messages) \in Nat
    BY DEF HistoryInv
  <2> QED  BY <2>1, <2>2
<1> QED
  BY <1>1, <1>2, ClockInvCorrect, NextKeepsHistoryInv, NextKeepsToolInv, PTL DEF Spec

-----------------------------------------------------------------------------
(* The code tool: types; GuardInv, which says who has the guard, what a    *)
(* call that has not failed knows of the version it was told, and what the *)
(* cache then holds; from it both safety properties.                       *)

\* Every variable of the code tool keeps its type.
THEOREM ToolTypes == ToolSpec => []ToolTypeOK
<1> USE ToolAssumption
<1>1. ToolInit => ToolTypeOK
  BY DEF ToolInit, ToolTypeOK, Nothing
<1>2. ToolTypeOK /\ [ToolNext]_toolVars => ToolTypeOK'
  <2> SUFFICES ASSUME ToolTypeOK, [ToolNext]_toolVars PROVE ToolTypeOK'
    OBVIOUS
  <2>0. DOMAIN plan.tarball \subseteq Versions
    BY DEF ToolTypeOK
  <2>1. ASSUME NEW v \in Versions, Deploy(v) PROVE ToolTypeOK'
    BY <2>0, <2>1 DEF Deploy, ToolTypeOK, Nothing
  <2>2. ASSUME NEW c \in Calls, Call(c) PROVE ToolTypeOK'
    BY <2>0, <2>2 DEF Call, Goto, ToolTypeOK, Nothing
  <2>3. ASSUME NEW c \in Calls, Outside(c) PROVE ToolTypeOK'
    <3>1. CASE GetSha(c)
      BY <2>0, <3>1 DEF GetSha, Goto, ToolTypeOK, Nothing
    <3>2. CASE GetShaFail(c)
      BY <3>2 DEF GetShaFail, Goto, ToolTypeOK, Nothing
    <3>3. CASE LoadOk(c)
      <4>1. cache' \in [sha : Versions, holds : Versions]
        BY <2>0, <3>3 DEF LoadOk, ToolTypeOK
      <4>2. QED
        BY <2>0, <3>3, <4>1 DEF LoadOk, Goto, ToolTypeOK, Nothing
    <3>4. CASE LoadFail(c)
      BY <3>4 DEF LoadFail, Goto, ToolTypeOK, Nothing
    <3>5. QED
      BY <2>3, <3>1, <3>2, <3>3, <3>4 DEF Outside
  <2>4. ASSUME NEW c \in Calls, Inside(c) PROVE ToolTypeOK'
    <3>1. CASE Lock(c)
      BY <3>1 DEF Lock, Goto, ToolTypeOK, Nothing
    <3>2. CASE Use(c)
      BY <3>2 DEF Use, Goto, ToolTypeOK, Nothing
    <3>3. CASE ReturnAnswer(c)
      BY <3>3 DEF ReturnAnswer, Goto, ToolTypeOK, Nothing
    <3>4. QED
      BY <2>4, <3>1, <3>2, <3>3 DEF Inside
  <2>5. ASSUME NEW c \in Calls, CancelCall(c) PROVE ToolTypeOK'
    BY <2>5 DEF CancelCall, Goto, ToolTypeOK, Nothing
  <2>6. ASSUME NEW c \in Calls, CallAtOnce(c) PROVE ToolTypeOK'
    BY <2>0, <2>6 DEF CallAtOnce, Goto, ToolTypeOK, Nothing
  <2>7. CASE UNCHANGED toolVars
    BY <2>7 DEF toolVars, ToolTypeOK, Nothing
  <2>8. QED
    BY <2>1, <2>2, <2>3, <2>4, <2>5, <2>6, <2>7 DEF ToolNext
<1>3. QED
  BY <1>1, <1>2, PTL DEF ToolSpec

-----------------------------------------------------------------------------
\* Who has the guard; that a call which has not failed was told a version deployed
\* while it runs; and that it has that version in use, if it comes from GitHub.
GuardInv ==
    /\ ToolTypeOK
    /\ \A c \in Calls : stage[c] \in {"load", "use"} => holder = c
    /\ \A c \in Calls : stage[c] \in {"lock", "load", "use"} /\ ~failed[c]
           => sha[c] \in Versions /\ sha[c] \in during[c]
    /\ \A c \in Calls : stage[c] \in {"lock", "load"} /\ failed[c] => sha[c] = NoVersion
    /\ \A c \in Calls : stage[c] = "sha" => ~failed[c]
    /\ \A c \in Calls : stage[c] # "idle" => deployed \in during[c]
    /\ cache # Nothing /\ ~plan.fromFile => cache.holds = cache.sha
    /\ cache # Nothing /\ plan.fromFile => \A c \in Calls : stage[c] # "load"
    /\ \A c \in Calls : stage[c] = "use" /\ ~failed[c]
           => cache # Nothing /\ (~plan.fromFile => cache.sha = sha[c])

\* It holds at every step.
THEOREM GuardInvCorrect == ToolSpec => []GuardInv
<1> USE ToolAssumption
<1>1. ToolInit => GuardInv
  <2> SUFFICES ASSUME ToolInit PROVE GuardInv
    OBVIOUS
  <2>1. ToolTypeOK
    BY DEF ToolInit, ToolTypeOK, Nothing
  <2>2. QED
    BY <2>1 DEF ToolInit, GuardInv
<1>2. GuardInv /\ ToolTypeOK' /\ [ToolNext]_toolVars => GuardInv'
  <2> SUFFICES ASSUME GuardInv, ToolTypeOK', [ToolNext]_toolVars PROVE GuardInv'
    OBVIOUS
  <2> USE DEF GuardInv, ToolTypeOK
  <2>1. ASSUME NEW v \in Versions, Deploy(v) PROVE GuardInv'
    BY <2>1 DEF Deploy
  <2>2. ASSUME NEW c \in Calls, Call(c) PROVE GuardInv'
    BY <2>2 DEF Call, Goto
  <2>3. ASSUME NEW c \in Calls, GetSha(c) PROVE GuardInv'
    BY <2>3 DEF GetSha, Goto
  <2>4. ASSUME NEW c \in Calls, GetShaFail(c) PROVE GuardInv'
    BY <2>4 DEF GetShaFail, Goto
  <2>5. ASSUME NEW c \in Calls, LoadOk(c) PROVE GuardInv'
    <3>1. cache' # Nothing /\ cache'.sha = sha[c] /\ (~plan.fromFile => cache'.holds = sha[c])
      BY <2>5 DEF LoadOk, Nothing
    <3>2. /\ stage' = [stage EXCEPT ![c] = "use"]
          /\ UNCHANGED <<plan, deployed, sha, holder, during, failed>>
          /\ stage[c] = "load" /\ ~failed[c]
      BY <2>5 DEF LoadOk, Goto
    <3>3. \A d \in Calls \ {c} : stage'[d] = stage[d] /\ stage[d] \notin {"load", "use"}
      BY <3>2
    <3>4. stage'[c] = "use"
      BY <3>2
    <3>5. \A d \in Calls : stage'[d] # "load" /\ (stage'[d] = "use" => d = c)
      BY <3>3, <3>4
    <3>6. cache' # Nothing'
      BY <3>1 DEF Nothing
    <3>7. \A d \in Calls : stage'[d] \in {"lock", "load", "use"} /\ ~failed'[d]
              => sha'[d] \in Versions /\ sha'[d] \in during'[d]
      BY <3>2, <3>3, <3>4
    <3>8. \A d \in Calls : stage'[d] \in {"lock", "load"} /\ failed'[d] => sha'[d] = NoVersion
      BY <3>2, <3>3, <3>4
    <3>9. \A d \in Calls : stage'[d] # "idle" => deployed' \in during'[d]
      BY <3>2, <3>3, <3>4
    <3>10. QED
      BY <3>1, <3>2, <3>4, <3>5, <3>6, <3>7, <3>8, <3>9
  <2>6. ASSUME NEW c \in Calls, LoadFail(c) PROVE GuardInv'
    BY <2>6 DEF LoadFail, Goto
  <2>7. ASSUME NEW c \in Calls, Lock(c) PROVE GuardInv'
    BY <2>7 DEF Lock, Goto, NeedsRefresh
  <2>8. ASSUME NEW c \in Calls, Use(c) PROVE GuardInv'
    BY <2>8 DEF Use, Goto
  <2>9. ASSUME NEW c \in Calls, ReturnAnswer(c) PROVE GuardInv'
    BY <2>9 DEF ReturnAnswer, Goto
  <2>10. ASSUME NEW c \in Calls, CancelCall(c) PROVE GuardInv'
    BY <2>10 DEF CancelCall, Goto
  <2>11. ASSUME NEW c \in Calls, CallAtOnce(c) PROVE GuardInv'
    BY <2>11 DEF CallAtOnce, Goto
  <2>12. CASE UNCHANGED toolVars
    BY <2>12 DEF toolVars, Nothing
  <2>13. QED
    BY <2>1, <2>2, <2>3, <2>4, <2>5, <2>6, <2>7, <2>8, <2>9, <2>10, <2>11, <2>12
       DEF ToolNext, Outside, Inside
<1>3. QED
  BY <1>1, <1>2, ToolTypes, PTL DEF ToolSpec

\* A call that has not failed answers from a version deployed while it ran.
THEOREM CurrentVersion == ToolSpec => []CurrentUnlessFailed
<1>1. GuardInv => CurrentUnlessFailed
  BY DEF GuardInv, CurrentUnlessFailed
<1>2. QED
  BY <1>1, GuardInvCorrect, PTL

\* What is cached stays, but for the call that loads.
THEOREM NeverNone == ToolSpec => StaleRatherThanNone
<1> DEFINE Kept == /\ cache # Nothing => cache' # Nothing
                   /\ cache # Nothing /\ plan.fromFile => cache' = cache
                   /\ \A c \in Calls : stage[c] = "use" => cache' = cache
<1>1. GuardInv /\ [ToolNext]_toolVars => [Kept]_toolVars
  <2> SUFFICES ASSUME GuardInv, ToolNext PROVE Kept
    OBVIOUS
  <2> USE ToolAssumption
  <2>1. ASSUME NEW c \in Calls, LoadOk(c) PROVE Kept
    <3>1. cache' # Nothing
      BY <2>1 DEF LoadOk, GuardInv, ToolTypeOK, Nothing
    <3>2. ~(cache # Nothing /\ plan.fromFile)
      BY <2>1 DEF LoadOk, GuardInv
    <3>3. \A d \in Calls : stage[d] # "use"
      BY <2>1 DEF LoadOk, GuardInv
    <3>4. QED
      BY <3>1, <3>2, <3>3
  <2>2. ASSUME cache' = cache PROVE Kept
    BY <2>2
  <2>3. QED
    BY <2>1, <2>2 DEF ToolNext, Outside, Inside, Deploy, CallAtOnce, Call,
                      GetSha, GetShaFail, LoadFail, Lock, Use, ReturnAnswer, CancelCall
<1>2. QED
  BY <1>1, GuardInvCorrect, PTL DEF ToolSpec, StaleRatherThanNone
=============================================================================
