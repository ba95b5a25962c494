---------------------------- MODULE AssistantAgent ----------------------------
(***************************************************************************)
(* AssistantAgent and its background task AssistantWorker                  *)
(* (signal-gateway/src/assistant/mod.rs and worker.rs).  The agent's       *)
(* methods only try_send into two bounded channels: `input` (requests and  *)
(* messages to remember) and `stops` (requests to stop).  The worker       *)
(* handles one input at a time and answers a prompt over its own one-shot  *)
(* channel.  The assistant behind it is the trait `Assistant`: a call puts *)
(* the message into the history first and then runs for as long as it      *)
(* likes.  A call to it is one state of the worker; when it returns is the *)
(* environment's choice.                                                   *)
(*                                                                         *)
(* A chat message is a pair <<sender, id>>; what its text says is left     *)
(* out.  The caller of the methods is modelled in Gateway.                 *)
(***************************************************************************)
EXTENDS Naturals, Sequences, SequencesExt, FiniteSets

CONSTANTS
    Requests,   \* the ids of the prompts that callers may send
    QueueSize,  \* REQUEST_QUEUE_SIZE, 16 in the code
    StopSize    \* the capacity of the stop channel, 3 in the code

ASSUME QueueAssumption == QueueSize \in Nat \ {0} /\ StopSize \in Nat \ {0}

VARIABLES
    input,      \* the channel input_tx -> input_rx
    stops,      \* the number of signals in the channel stop_tx -> stop_rx
    token,      \* cancellation_token (a child of the gateway's) is cancelled
    worker,     \* where the worker task is
    job,        \* the input the worker is handling
    stopping,   \* the token of the running prompt or compaction is cancelled
    answer,     \* what each request's one-shot channel has delivered
    recorded,   \* the assistant's history: every chat message given to it
    accepted    \* the chat messages that callers put into `input`

agentVars ==
    <<input, stops, token, worker, job, stopping, answer, recorded, accepted>>

Prompt(m)    == [kind |-> "prompt",  msg |-> m]
Record(m)    == [kind |-> "record",  msg |-> m]
Command(k)   == [kind |-> k, msg |-> <<"none", 0>>]
NoJob        == Command("none")
IsChat(item) == item.kind \in {"prompt", "record"}

\* The chat messages of a sequence of inputs, in order.
ChatAt(items) == {i \in 1..Len(items) : IsChat(items[i])}
Nth(S, k)     == CHOOSE i \in S : Cardinality({j \in S : j <= i}) = k
Chat(items)   == [k \in 1..Cardinality(ChatAt(items)) |-> items[Nth(ChatAt(items), k)].msg]

AgentInit ==
    /\ input = <<>> /\ stops = 0 /\ token = FALSE
    /\ worker = "select" /\ job = NoJob /\ stopping = FALSE
    /\ answer = [r \in Requests |-> "none"]
    /\ recorded = <<>> /\ accepted = <<>>

-----------------------------------------------------------------------------
(* The agent's methods; each is one step of its caller.                    *)

Accepts == worker # "gone" /\ Len(input) < QueueSize

\* input_tx.try_send: a full or closed channel refuses the item, which
\* record_message, request_compaction and request_debug do not notice.
TrySend(item) ==
    /\ input'    = IF Accepts THEN Append(input, item) ELSE input
    /\ accepted' = IF Accepts THEN accepted \o Chat(<<item>>) ELSE accepted
    /\ UNCHANGED <<stops, token, worker, job, stopping, answer, recorded>>

\* stop_tx.try_send
RequestStop ==
    /\ stops' = IF worker # "gone" /\ stops < StopSize THEN stops + 1 ELSE stops
    /\ UNCHANGED <<input, token, worker, job, stopping, answer, recorded, accepted>>

-----------------------------------------------------------------------------
(* The worker.                                                             *)

Remember(item) == recorded' = recorded \o Chat(<<item>>)

\* Select, first branch: take an input.  A debug request returns at once.
TakeInput ==
    /\ worker = "select" /\ input # <<>>
    /\ input' = Tail(input)
    /\ Remember(Head(input))
    /\ IF Head(input).kind = "debug"
       THEN UNCHANGED <<worker, job>>
       ELSE worker' = Head(input).kind /\ job' = Head(input)
    /\ UNCHANGED <<stops, token, stopping, answer, accepted>>

\* Select, second branch, and the start of handle_stop: drain the stops.
TakeStop ==
    /\ worker = "select" /\ stops > 0
    /\ stops' = 0 /\ worker' = "drain"
    /\ UNCHANGED <<input, token, job, stopping, answer, recorded, accepted>>

\* Requests whose sender is in the queue; dropping the sender wakes the caller.
Queued == {r \in Requests : \E i \in 1..Len(input) :
                                input[i].kind = "prompt" /\ input[i].msg[2] = r}

Answered(r, outcome) == answer' = [answer EXCEPT ![r] = outcome]

\* A mutant of Exit: the receivers outlive the task.
ExitKeepsQueue(answers) ==
    /\ worker' = "gone" /\ answer' = answers
    /\ UNCHANGED <<input, stops>>

\* The task returns: the receivers are dropped, with everything in them.
Exit(answers) ==
    /\ worker' = "gone" /\ input' = <<>> /\ stops' = 0
    /\ answer' = [r \in Requests |-> IF r \in Queued THEN "gone" ELSE answers[r]]

\* Select, third branch.
TakeCancel ==
    /\ worker = "select" /\ token
    /\ Exit(answer)
    /\ UNCHANGED <<token, job, stopping, recorded, accepted>>

\* A stop that arrives during a prompt or compaction cancels its child token;
\* the worker then awaits the assistant and no longer listens for stops.
StopJob ==
    /\ worker \in {"prompt", "compact"} /\ ~stopping /\ stops > 0
    /\ stops' = stops - 1 /\ stopping' = TRUE
    /\ UNCHANGED <<input, token, worker, job, answer, recorded, accepted>>

\* handle_input is over: on with the loop, or, if it was cancelled by a stop,
\* exit when the service is shutting down and handle_stop otherwise.
FinishJob(answers) ==
    /\ job' = NoJob /\ stopping' = FALSE
    /\ IF stopping /\ token
       THEN Exit(answers)
       ELSE /\ worker' = IF stopping THEN "drain" ELSE "select"
            /\ stops' = IF stopping THEN 0 ELSE stops
            /\ answer' = answers
            /\ UNCHANGED input
    /\ UNCHANGED <<token, recorded, accepted>>

\* Assistant::prompt returns.  "Returns Ok(None) if the operation was cancelled."
PromptReturns(outcome) ==
    /\ worker = "prompt"
    /\ outcome = "cancelled" => stopping \/ token
    /\ FinishJob([answer EXCEPT ![job.msg[2]] = outcome])

CompactReturns == worker = "compact" /\ FinishJob(answer)

\* Assistant::record_message may have to wait for an automatic compaction; the
\* worker listens to nothing meanwhile.
RecordReturns ==
    /\ worker = "record"
    /\ worker' = "select" /\ job' = NoJob
    /\ UNCHANGED <<input, stops, token, stopping, answer, recorded, accepted>>

\* A mutant of DrainInput: a cancelled prompt is not recorded.
DrainInputForgets ==
    /\ worker = "drain" /\ input # <<>>
    /\ input' = Tail(input)
    /\ IF Head(input).kind = "record" THEN Remember(Head(input)) ELSE UNCHANGED recorded
    /\ IF IsChat(Head(input))
       THEN worker' = "drainRecord" /\ job' = Head(input)
       ELSE UNCHANGED <<worker, job>>
    /\ UNCHANGED <<stops, token, stopping, answer, accepted>>

\* A mutant of DrainInput: the newest input is handled first.
DrainInputNewest ==
    /\ worker = "drain" /\ input # <<>>
    /\ input' = Front(input)
    /\ Remember(Last(input))
    /\ IF IsChat(Last(input))
       THEN worker' = "drainRecord" /\ job' = Last(input)
       ELSE UNCHANGED <<worker, job>>
    /\ UNCHANGED <<stops, token, stopping, answer, accepted>>

\* handle_stop: prompts and messages in the queue are recorded, prompts are
\* then answered "cancelled"; compactions and debug requests are dropped.
DrainInput ==
    /\ worker = "drain" /\ input # <<>>
    /\ input' = Tail(input)
    /\ Remember(Head(input))
    /\ IF IsChat(Head(input))
       THEN worker' = "drainRecord" /\ job' = Head(input)
       ELSE UNCHANGED <<worker, job>>
    /\ UNCHANGED <<stops, token, stopping, answer, accepted>>

DrainRecordReturns ==
    /\ worker = "drainRecord"
    /\ worker' = "drain" /\ job' = NoJob
    /\ answer' = IF job.kind = "prompt"
                 THEN [answer EXCEPT ![job.msg[2]] = "cancelled"] ELSE answer
    /\ UNCHANGED <<input, stops, token, stopping, recorded, accepted>>

DrainDone ==
    /\ worker = "drain" /\ input = <<>>
    /\ worker' = "select"
    /\ UNCHANGED <<input, stops, token, job, stopping, answer, recorded, accepted>>

Outcomes == {"response", "error", "cancelled"}

WorkerStep ==
    \/ TakeInput \/ TakeStop \/ TakeCancel \/ StopJob
    \/ \E outcome \in Outcomes : PromptReturns(outcome)
    \/ CompactReturns \/ RecordReturns
    \/ DrainInput \/ DrainRecordReturns \/ DrainDone

-----------------------------------------------------------------------------

ChatMessage == {"user", "alert", "system", "assistant", "none"} \X Nat
Item == [kind : {"prompt", "record", "compact", "debug"}, msg : ChatMessage]

AgentTypeOK ==
    /\ input \in Seq(Item) /\ Len(input) <= QueueSize /\ stops \in 0..StopSize
    /\ job \in Item \cup {NoJob}
    /\ recorded \in Seq(ChatMessage) /\ accepted \in Seq(ChatMessage)
    /\ token \in BOOLEAN /\ stopping \in BOOLEAN
    /\ worker \in {"select", "prompt", "record", "compact", "drain",
                   "drainRecord", "gone"}
    /\ answer \in [Requests -> Outcomes \cup {"none", "gone"}]

\* Whatever the worker does with its queue, be it stopping, cancelling prompts or
\* dropping compactions, no message that the queue accepted is missing from the
\* assistant's history, none is there twice, and they are in the order of the
\* calls ("Record the message even though we're cancelling").
AcceptedIsRecorded ==
    IF worker = "gone" THEN IsPrefix(recorded, accepted)
                       ELSE recorded \o Chat(input) = accepted
=============================================================================
