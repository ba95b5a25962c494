---------------------------- MODULE ClaudeAssistant ----------------------------
(***************************************************************************)
(* ClaudeAssistant (signal-gateway-assistant/claude/src/lib.rs), the       *)
(* Assistant behind the agent's worker: the message buffer with its cached *)
(* size (message_buffer.rs), the loop of API requests and tool calls that  *)
(* answers a prompt, and the compaction of the buffer into a summary, by   *)
(* itself when the buffer is too large or on request.  The worker makes    *)
(* one call at a time (&mut self); a call may be cancelled through its     *)
(* token at any time, but does not look at it wherever it awaits.  The API,*)
(* the tools and their answers are external: a response begins, and its    *)
(* body comes later.                                                       *)
(*                                                                         *)
(* A message is its kind, its number in the order of all messages, its     *)
(* size, and for the assistant's tool requests how many tools it calls.    *)
(***************************************************************************)
EXTENDS Integers, Sequences, SequencesExt

CONSTANTS
    TriggerChars,   \* compaction.trigger_chars
    MinInterval,    \* compaction.min_interval; 0 stands for None
    MaxIterations,  \* claude_max_iterations
    Sizes,          \* the sizes of chat messages
    ToolSizes,      \* the sizes of tool requests and results
    MaxTools,       \* bound: tool calls in one answer of the API
    MaxCalls,       \* bound: calls of the worker
    MaxClock        \* bound: the clock

ASSUME ClaudeAssumption ==
    /\ TriggerChars \in Nat /\ MinInterval \in Nat /\ MaxIterations \in Nat
    /\ Sizes \subseteq Nat \ {0} /\ ToolSizes \subseteq Nat \ {0}
    /\ MaxTools \in Nat /\ MaxCalls \in Nat /\ MaxClock \in Nat

Never == -1

VARIABLES
    messages,   \* MessageBuffer::messages
    totalChars, \* MessageBuffer::total_chars
    summary,    \* the numbers of the messages that self.summary was made from
    lastAuto,   \* last_auto_compaction
    call,       \* the trait method that is running: its name, or "none"
    pc,         \* where it is
    cancelled,  \* the call's cancellation token
    iteration,  \* handle_request's loop counter
    tools,      \* tool calls of the last answer that are still to be made
    clock,      \* the time
    calls,      \* history: the number of calls
    pushed,     \* history: the number of messages ever pushed
    dropped,    \* history: the messages drop_oldest_messages removed
    autoStarts, \* history: when automatic compactions were started
    broken      \* history: a call ended between its tool calls, or messages were dropped

bufferVars  == <<messages, totalChars, pushed>>
compactVars == <<summary, lastAuto, dropped, autoStarts>>
callVars    == <<call, pc, cancelled, iteration, tools>>
vars == <<bufferVars, compactVars, callVars, clock, calls, broken>>

Init ==
    /\ messages = <<>> /\ totalChars = 0 /\ summary = {} /\ lastAuto = Never
    /\ call = "none" /\ pc = "idle" /\ cancelled = FALSE /\ iteration = 0 /\ tools = 0
    /\ clock = 0 /\ calls = 0 /\ pushed = 0 /\ dropped = {} /\ autoStarts = <<>>
    /\ broken = FALSE

Chars(msgs) ==
    LET sum[i \in 0..Len(msgs)] == IF i = 0 THEN 0 ELSE sum[i - 1] + msgs[i].size
    IN  sum[Len(msgs)]
Numbers(msgs) == {msgs[i].number : i \in 1..Len(msgs)}

\* MessageBuffer::push
Push(kind, size, uses) ==
    /\ messages' = Append(messages, [kind |-> kind, number |-> pushed + 1,
                                     size |-> size, uses |-> uses])
    /\ totalChars' = totalChars + size
    /\ pushed' = pushed + 1

-----------------------------------------------------------------------------
(* The environment.                                                        *)

Tick ==
    /\ clock < MaxClock /\ clock' = clock + 1
    /\ UNCHANGED <<bufferVars, compactVars, callVars, calls, broken>>

\* The worker's stop, or the end of the service.
Cancel ==
    /\ call \in {"prompt", "compact"} /\ ~cancelled
    /\ cancelled' = TRUE
    /\ UNCHANGED <<bufferVars, compactVars, call, pc, iteration, tools, clock, calls, broken>>

-----------------------------------------------------------------------------
(* The calls.                                                              *)

Return ==
    /\ call' = "none" /\ pc' = "idle" /\ cancelled' = FALSE
    /\ iteration' = 0 /\ tools' = 0

\* record_message and prompt push their message and then compact if need be.
Start(method, size) ==
    /\ pc = "idle" /\ calls < MaxCalls
    /\ Push("chat", size, 0)
    /\ call' = method /\ pc' = "maybeCompact" /\ calls' = calls + 1
    /\ UNCHANGED <<compactVars, cancelled, iteration, tools, clock, broken>>

\* compact: nothing to do for an empty buffer.
StartCompact ==
    /\ pc = "idle" /\ calls < MaxCalls
    /\ calls' = calls + 1
    /\ IF messages = <<>> THEN UNCHANGED <<call, pc>>
                          ELSE call' = "compact" /\ pc' = "compactApi"
    /\ UNCHANGED <<bufferVars, compactVars, cancelled, iteration, tools, clock, broken>>

\* What follows maybe_compact: record_message returns; prompt returns Ok(None) if
\* it is cancelled and goes on to handle_request otherwise.
AfterCompaction ==
    IF call = "prompt" /\ ~cancelled
    THEN pc' = "request" /\ UNCHANGED <<call, cancelled, iteration, tools>>
    ELSE Return

-----------------------------------------------------------------------------
(* Compaction.                                                             *)

CanCompact == lastAuto = Never \/ clock - lastAuto >= MinInterval

\* maybe_compact: the buffer is small enough.
NoCompaction ==
    /\ pc = "maybeCompact" /\ totalChars <= TriggerChars
    /\ AfterCompaction
    /\ UNCHANGED <<bufferVars, compactVars, clock, calls, broken>>

\* A mutant of StartAutoCompaction: the time is not noted.
StartAutoCompactionUnstamped ==
    /\ pc = "maybeCompact" /\ totalChars > TriggerChars /\ CanCompact
    /\ autoStarts' = Append(autoStarts, clock)
    /\ pc' = "autoApi"
    /\ UNCHANGED <<bufferVars, summary, lastAuto, dropped, call, cancelled, iteration,
                   tools, clock, calls, broken>>

\* maybe_compact: do_compact(true, None) notes the time and sends the request.
StartAutoCompaction ==
    /\ pc = "maybeCompact" /\ totalChars > TriggerChars /\ CanCompact
    /\ lastAuto' = clock /\ autoStarts' = Append(autoStarts, clock)
    /\ pc' = "autoApi"
    /\ UNCHANGED <<bufferVars, summary, dropped, call, cancelled, iteration, tools,
                   clock, calls, broken>>

\* Without the k oldest messages, and not with fewer, the buffer is small enough.
Excess(k) ==
    LET rest(i) == totalChars - Chars(SubSeq(messages, 1, i))
    IN  rest(k) <= TriggerChars /\ \A i \in 0..(k - 1) : rest(i) > TriggerChars

\* maybe_compact: rate limited, so drop_oldest_messages instead.
DropOldest ==
    /\ pc = "maybeCompact" /\ totalChars > TriggerChars /\ ~CanCompact
    /\ \E k \in 0..Len(messages) :
           /\ Excess(k)
           /\ messages' = SubSeq(messages, k + 1, Len(messages))
           /\ totalChars' = totalChars - Chars(SubSeq(messages, 1, k))
           /\ dropped' = dropped \cup Numbers(SubSeq(messages, 1, k))
    /\ broken' = TRUE
    /\ AfterCompaction
    /\ UNCHANGED <<pushed, summary, lastAuto, autoStarts, clock, calls>>

\* The response begins.  From here on nobody looks at the token.
CompactionResponds ==
    /\ \/ pc = "autoApi" /\ pc' = "autoBody"
       \/ pc = "compactApi" /\ pc' = "compactBody"
    /\ UNCHANGED <<bufferVars, compactVars, call, cancelled, iteration, tools, clock, calls, broken>>

\* The response is parsed into the new summary; the old one was in the request.
Summarize ==
    /\ summary' = summary \cup Numbers(messages)
    /\ messages' = <<>> /\ totalChars' = 0

\* do_compact is over.  An automatic one has no token: it ignores the call's.
CompactionEnds ==
    \/ pc \in {"autoApi", "autoBody"} /\ AfterCompaction
    \/ pc \in {"compactApi", "compactBody"} /\ Return

CompactionOk ==
    /\ pc \in {"autoBody", "compactBody"} /\ CompactionEnds
    /\ Summarize
    /\ UNCHANGED <<pushed, lastAuto, dropped, autoStarts, clock, calls, broken>>

\* A mutant of CompactionFails: the buffer is cleared before the answer is known.
CompactionFailsCleared ==
    /\ CompactionEnds
    /\ messages' = <<>> /\ totalChars' = 0
    /\ UNCHANGED <<pushed, compactVars, clock, calls, broken>>

\* The request fails, its body does, or it says that the API failed.
CompactionFails ==
    /\ CompactionEnds
    /\ UNCHANGED <<bufferVars, compactVars, clock, calls, broken>>

CompactionCancelled ==
    /\ pc = "compactApi" /\ cancelled
    /\ Return
    /\ UNCHANGED <<bufferVars, compactVars, clock, calls, broken>>

-----------------------------------------------------------------------------
(* handle_request.                                                         *)

\* The head of the loop: out of iterations, cancelled, or the next request.
Request ==
    /\ pc = "request"
    /\ IF iteration = MaxIterations \/ cancelled
       THEN Return
       ELSE pc' = "api" /\ UNCHANGED <<call, cancelled, iteration, tools>>
    /\ UNCHANGED <<bufferVars, compactVars, clock, calls, broken>>

\* A mutant of ApiCancelled: the request is awaited without the token.
ApiCancelledNever == FALSE

\* select!: the token is cancelled before the response begins.
ApiCancelled ==
    /\ pc = "api" /\ cancelled
    /\ Return
    /\ UNCHANGED <<bufferVars, compactVars, clock, calls, broken>>

ApiFails ==
    /\ pc = "api"
    /\ Return
    /\ UNCHANGED <<bufferVars, compactVars, clock, calls, broken>>

\* The response begins.  Its body is awaited without the token.
ApiResponds ==
    /\ pc = "api" /\ pc' = "apiBody"
    /\ UNCHANGED <<bufferVars, compactVars, call, cancelled, iteration, tools, clock, calls, broken>>

\* The body is the final text, which is returned and not pushed, or there is an error.
ApiAnswers ==
    /\ pc = "apiBody"
    /\ Return
    /\ UNCHANGED <<bufferVars, compactVars, clock, calls, broken>>

\* stop_reason is tool_use: the answer is pushed, its tools, if any, are called in turn.
ApiToolUse(size, uses) ==
    /\ pc = "apiBody"
    /\ Push("toolUse", size, uses)
    /\ tools' = uses
    /\ IF uses = 0 THEN pc' = "request" /\ iteration' = iteration + 1
                   ELSE pc' = "tool" /\ UNCHANGED iteration
    /\ UNCHANGED <<compactVars, call, cancelled, clock, calls, broken>>

\* The check before a tool call, or select! during it.
ToolCancelled ==
    /\ pc = "tool" /\ cancelled
    /\ Return
    /\ broken' = TRUE
    /\ UNCHANGED <<bufferVars, compactVars, clock, calls>>

\* A mutant of ToolReturns: the error of a tool is only logged.
ToolReturnsResultOnly(size) ==
    /\ pc = "tool"
    /\ Push("toolResult", size, 0) \/ UNCHANGED bufferVars
    /\ tools' = tools - 1
    /\ IF tools = 1 THEN pc' = "request" /\ iteration' = iteration + 1
                    ELSE UNCHANGED <<pc, iteration>>
    /\ UNCHANGED <<compactVars, call, cancelled, clock, calls, broken>>

\* The tool's result, or its error, is pushed; after the last, the next iteration.
ToolReturns(size) ==
    /\ pc = "tool"
    /\ Push("toolResult", size, 0)
    /\ tools' = tools - 1
    /\ IF tools = 1 THEN pc' = "request" /\ iteration' = iteration + 1
                    ELSE UNCHANGED <<pc, iteration>>
    /\ UNCHANGED <<compactVars, call, cancelled, clock, calls, broken>>

External ==
    \/ CompactionResponds \/ CompactionOk \/ CompactionFails
    \/ ApiResponds \/ ApiFails \/ ApiAnswers
    \/ \E size \in ToolSizes, uses \in 0..MaxTools : ApiToolUse(size, uses)
    \/ \E size \in ToolSizes : ToolReturns(size)

Own ==
    \/ NoCompaction \/ StartAutoCompaction \/ DropOldest \/ CompactionCancelled
    \/ Request \/ ApiCancelled \/ ToolCancelled

Next ==
    \/ Tick \/ Cancel
    \/ \E size \in Sizes : Start("record", size) \/ Start("prompt", size)
    \/ StartCompact
    \/ Own \/ External

Spec == Init /\ [][Next]_vars

\* The task goes on when it can.  Of the API and of tools nothing is assumed.
FairSpec == Spec /\ WF_vars(Own)

-----------------------------------------------------------------------------
(* Properties.                                                             *)

TypeOK ==
    /\ totalChars \in Nat /\ lastAuto \in {Never} \cup 0..MaxClock
    /\ call \in {"none", "record", "prompt", "compact"}
    /\ pc \in {"idle", "maybeCompact", "autoApi", "autoBody", "compactApi", "compactBody",
              "request", "api", "apiBody", "tool"}
    /\ call = "none" <=> pc = "idle"
    /\ cancelled \in BOOLEAN /\ broken \in BOOLEAN
    /\ iteration \in 0..MaxIterations /\ tools \in 0..MaxTools

\* No message is forgotten other than by design: the buffer holds the newest messages
\* in order, and every older one is in the summary or was dropped by the rate limit.
\* Compactions that fail or are cancelled forget nothing.
HistoryAccounted ==
    /\ \A i \in 1..Len(messages) : messages[i].number = pushed - Len(messages) + i
    /\ 1..(pushed - Len(messages)) = summary \cup dropped
    /\ MinInterval = 0 => dropped = {}

\* "Minimum interval between automatic compactions": between the starts of two, be
\* they successful or not, there is at least that much time.
CompactionsApart ==
    \A i \in 1..(Len(autoStarts) - 1) : autoStarts[i + 1] - autoStarts[i] >= MinInterval

Message == [kind : {"chat", "toolUse", "toolResult"}, number : Nat, size : Nat, uses : Nat]

\* The strengthening of CompactionsApart that every step keeps: the last automatic
\* compaction is the one lastAuto remembers, and it is not in the future.
ClockInv ==
    /\ clock \in Nat /\ lastAuto \in {Never} \cup 0..clock
    /\ autoStarts \in Seq(Nat)
    /\ autoStarts # <<>> => lastAuto = autoStarts[Len(autoStarts)]
    /\ CompactionsApart

\* The strengthening of HistoryAccounted.
HistoryInv ==
    /\ messages \in Seq(Message)
    /\ pushed \in Nat /\ Len(messages) <= pushed
    /\ HistoryAccounted

\* What the API gets is a conversation: a message with tool calls is followed by the
\* result of every one of them.  Only a call that was cancelled between its tool calls,
\* or the dropping of messages, breaks that.
ToolResultsFollow ==
    pc = "api" /\ ~broken =>
        \A i \in 1..Len(messages) : \A k \in 1..messages[i].uses :
            i + k <= Len(messages) /\ messages[i + k].kind = "toolResult"

\* Awaits of the API that are not raced with the token: the whole request of an
\* automatic compaction, and the body of any response that has begun.
Unraced == pc \in {"autoApi", "autoBody", "compactBody", "apiBody"}

\* "The cancellation token can be used to interrupt long-running operations": a
\* cancelled prompt or compaction returns, though neither the API nor the tools
\* answer, unless it is in one of those awaits, and that never ends.
CancelledReturns == ([]<>~Unraced) => (cancelled ~> (call = "none"))

=============================================================================
