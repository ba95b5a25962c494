-------------------------------- MODULE Gateway --------------------------------
(***************************************************************************)
(* Gateway::run, the one task that talks to signal-cli                     *)
(* (signal-gateway/src/gateway/mod.rs), together with the assistant's      *)
(* agent.  The loop connects, updates the trust of the admins, subscribes, *)
(* and then serves, one thing at a time, the alert queue and the messages  *)
(* of admins.  A failing call ends the connection and the loop starts over.*)
(*                                                                         *)
(* Left out: message targets and formatting, and the read receipt, whose   *)
(* failure is only logged.  What the loop does with a text is in           *)
(* CommandRouter; an assistant is configured.                              *)
(***************************************************************************)
EXTENDS AssistantAgent, CommandRouter

CONSTANTS
    Router,       \* the command router's table
    Incoming,     \* the messages that arrive, [admin, text]
    MaxMessages,  \* bound: admin messages
    MaxAlerts,    \* bound: alerts
    MaxArrivals   \* bound: both together

ASSUME GatewayAssumption ==
    /\ MaxMessages \in Nat /\ MaxAlerts \in Nat /\ MaxArrivals \in Nat
    /\ Requests = 1..MaxMessages
    /\ Router \in Table /\ Builds(Router)
    /\ Incoming \subseteq [admin : BOOLEAN, text : Text]

VARIABLES
    loop,       \* where Gateway::run is
    stream,     \* signal_rx: admin messages of this subscription
    current,    \* the message or alert the loop is handling
    source,     \* sent_by of the response to be sent
    arrived,    \* the number of admin messages so far
    alerts,     \* the queue signal_alert_mq
    posted,     \* the number of alerts so far
    delivered,  \* the alerts that were sent, in order
    lost        \* the alerts whose sending failed

loopVars  == <<loop, stream, current, source>>
alertVars == <<alerts, posted, delivered, lost>>
vars == <<agentVars, loopVars, arrived, alertVars>>

Nothing == [kind |-> "nothing", id |-> 0]

\* What the loop will do with a message.  One that has no data or is not from a
\* trusted admin (admin = FALSE) is ignored.
KindOf == [m \in Incoming |-> IF m.admin THEN Handled(Router, m.text) ELSE "ignored"]

Init ==
    /\ AgentInit
    /\ loop = "top" /\ stream = <<>> /\ current = Nothing /\ source = "system"
    /\ arrived = 0
    /\ alerts = <<>> /\ posted = 0 /\ delivered = <<>> /\ lost = {}

-----------------------------------------------------------------------------
(* The environment.                                                        *)

\* handle_alertmanager_post, or the log handler's alert: an unbounded channel.
PostAlert ==
    /\ posted < MaxAlerts /\ posted + arrived < MaxArrivals
    /\ posted' = posted + 1 /\ alerts' = Append(alerts, posted + 1)
    /\ UNCHANGED <<agentVars, loopVars, arrived, delivered, lost>>

\* A message of an admin, or of somebody else, reaches the subscription while the
\* loop does whatever it does.
Arrive(m) ==
    /\ arrived < MaxMessages /\ posted + arrived < MaxArrivals
    /\ loop \in {"select", "sendAlert", "await", "effect", "respond"}
    /\ arrived' = arrived + 1
    /\ stream' = Append(stream, [kind |-> KindOf[m], id |-> arrived + 1])
    /\ UNCHANGED <<agentVars, loop, current, source, alertVars>>

\* ctrl-c
Cancel ==
    /\ ~token /\ token' = TRUE
    /\ UNCHANGED <<input, stops, worker, job, stopping, answer, recorded, accepted,
                   loopVars, arrived, alertVars>>

-----------------------------------------------------------------------------
(* The loop.                                                               *)

Goto(place) == loop' = place /\ UNCHANGED <<stream, current, source>>

\* The connection and with it the subscription is dropped.  (After an error the loop
\* sleeps signal_cli_retry_delay first.)
Leave(place) ==
    /\ loop' = place
    /\ stream' = <<>> /\ current' = Nothing /\ source' = "system"

\* A mutant of Top: the token is only looked at while connected.
TopConnects ==
    /\ loop = "top"
    /\ Goto("connect")
    /\ UNCHANGED <<agentVars, arrived, alertVars>>

\* The head of the loop in run: return if cancelled, else connect.
Top ==
    /\ loop = "top"
    /\ Goto(IF token THEN "down" ELSE "connect")
    /\ UNCHANGED <<agentVars, arrived, alertVars>>

ConnectOk   == loop = "connect" /\ Goto("trust")
                   /\ UNCHANGED <<agentVars, arrived, alertVars>>
ConnectFail == loop = "connect" /\ Leave("top")
                   /\ UNCHANGED <<agentVars, arrived, alertVars>>

\* do_run retries update_trust every ten seconds until it succeeds.
TrustOk     == loop = "trust" /\ Goto("subscribe")
                   /\ UNCHANGED <<agentVars, arrived, alertVars>>
TrustFail   == loop = "trust" /\ Goto("trustSleep")
                   /\ UNCHANGED <<agentVars, arrived, alertVars>>
TrustSleep  == loop = "trustSleep" /\ Goto("trust")
                   /\ UNCHANGED <<agentVars, arrived, alertVars>>

SubscribeOk   == loop = "subscribe" /\ Goto("select")
                   /\ UNCHANGED <<agentVars, arrived, alertVars>>
SubscribeFail == loop = "subscribe" /\ Leave("top")
                   /\ UNCHANGED <<agentVars, arrived, alertVars>>

\* Select, first branch.
SelectCancel ==
    /\ loop = "select" /\ token /\ Leave("top")
    /\ UNCHANGED <<agentVars, arrived, alertVars>>

\* A mutant of TakeAlert: the alert stays in the queue until it has been sent.
TakeAlertPeeks ==
    /\ loop = "select" /\ alerts # <<>>
    /\ loop' = "sendAlert" /\ current' = [kind |-> "alert", id |-> Head(alerts)]
    /\ UNCHANGED <<agentVars, stream, source, arrived, alertVars>>

\* Select, second branch: the alert is off the queue before it is sent.
TakeAlert ==
    /\ loop = "select" /\ alerts # <<>>
    /\ alerts' = Tail(alerts)
    /\ loop' = "sendAlert" /\ current' = [kind |-> "alert", id |-> Head(alerts)]
    /\ UNCHANGED <<agentVars, stream, source, arrived, posted, delivered, lost>>

\* The alert is sent, and the assistant told of it.
SendAlertOk ==
    /\ loop = "sendAlert"
    /\ delivered' = Append(delivered, current.id)
    /\ TrySend(Record(<<"alert", current.id>>))
    /\ loop' = "select" /\ current' = Nothing
    /\ UNCHANGED <<stream, source, arrived, alerts, posted, lost>>

\* A mutant of SendAlertFail: without reconnecting, the alert goes back to the end
\* of the queue.
SendAlertFailRetries ==
    /\ loop = "sendAlert"
    /\ alerts' = Append(alerts, current.id)
    /\ loop' = "select" /\ current' = Nothing
    /\ UNCHANGED <<agentVars, stream, source, arrived, posted, delivered, lost>>

\* send(signal_cli).await? : the error ends the connection.
SendAlertFail ==
    /\ loop = "sendAlert"
    /\ lost' = lost \cup {current.id}
    /\ Leave("top")
    /\ UNCHANGED <<agentVars, arrived, alerts, posted, delivered>>

\* Select, third branch: the stream ends or fails.
StreamEnds == loop = "select" /\ Leave("top")
                  /\ UNCHANGED <<agentVars, arrived, alertVars>>
StreamFails == loop = "select" /\ Leave("top")
                  /\ UNCHANGED <<agentVars, arrived, alertVars>>

Receive(kinds) ==
    /\ loop = "select" /\ stream # <<>>
    /\ Head(stream).kind \in kinds
    /\ stream' = Tail(stream)

\* Neither a data message nor one of an admin, or one that no route matches.
ReceiveIgnored ==
    /\ Receive({"ignored"})
    /\ UNCHANGED <<agentVars, loop, current, source, arrived, alertVars>>

\* A command that does not parse is answered without being recorded.
ReceiveInvalid ==
    /\ Receive({"invalid"})
    /\ loop' = "respond" /\ current' = Head(stream) /\ source' = "system"
    /\ UNCHANGED <<agentVars, arrived, alertVars>>

\* A command is recorded before it runs.
ReceiveCommand ==
    /\ Receive({"stop", "compact", "debug", "command"})
    /\ TrySend(Record(<<"user", Head(stream).id>>))
    /\ loop' = "effect" /\ current' = Head(stream)
    /\ UNCHANGED <<source, arrived, alertVars>>

\* handle_gateway_command
Effect ==
    /\ loop = "effect"
    /\ CASE current.kind = "stop" -> RequestStop
         [] current.kind \in {"compact", "debug"} -> TrySend(Command(current.kind))
         [] OTHER -> UNCHANGED agentVars
    /\ loop' = "respond" /\ source' = "system"
    /\ UNCHANGED <<stream, current, arrived, alertVars>>

\* AssistantAgent::request: a queue that refuses the prompt is an error response;
\* otherwise the loop awaits the answer.
ReceivePrompt ==
    /\ Receive({"prompt"})
    /\ TrySend(Prompt(<<"user", Head(stream).id>>))
    /\ loop' = (IF Accepts THEN "await" ELSE "respond")
    /\ current' = Head(stream) /\ source' = "system"
    /\ UNCHANGED <<arrived, alertVars>>

Answer ==
    /\ loop = "await" /\ answer[current.id] # "none"
    /\ loop' = "respond"
    /\ source' = IF answer[current.id] = "response" THEN "assistant" ELSE "system"
    /\ UNCHANGED <<agentVars, stream, current, arrived, alertVars>>

\* The response is sent, and then recorded.
RespondOk ==
    /\ loop = "respond"
    /\ TrySend(Record(<<source, current.id>>))
    /\ loop' = "select" /\ current' = Nothing /\ source' = "system"
    /\ UNCHANGED <<stream, arrived, alertVars>>

RespondFail ==
    /\ loop = "respond" /\ Leave("top")
    /\ UNCHANGED <<agentVars, arrived, alertVars>>

Select ==
    \/ SelectCancel \/ TakeAlert \/ StreamEnds \/ StreamFails
    \/ ReceiveIgnored \/ ReceiveInvalid \/ ReceiveCommand \/ ReceivePrompt

Connecting == \/ Top \/ ConnectOk \/ ConnectFail \/ TrustOk \/ TrustFail
              \/ TrustSleep \/ SubscribeOk \/ SubscribeFail

Handling == SendAlertOk \/ SendAlertFail \/ Effect \/ Answer \/ RespondOk \/ RespondFail

Environment == PostAlert \/ (\E m \in Incoming : Arrive(m)) \/ Cancel

Worker == WorkerStep /\ UNCHANGED <<loopVars, arrived, alertVars>>

Next == Environment \/ Connecting \/ Select \/ Handling \/ Worker

Spec == Init /\ [][Next]_vars

\* The tasks are scheduled: a task that can go on does.  A worker in the middle of
\* a prompt waits for the assistant, or takes up a stop.
TaskFairness ==
    /\ WF_vars(Connecting) /\ WF_vars(Handling) /\ WF_vars(SelectCancel)
    /\ WF_vars(Worker /\ (worker # "prompt" \/ StopJob))

\* select picks among its ready branches at random, so that one that is ready again
\* and again is not passed over for ever.
FairAlerts   == SF_vars(TakeAlert)
FairMessages == SF_vars(ReceiveIgnored \/ ReceiveInvalid \/ ReceiveCommand \/ ReceivePrompt)

\* signal-cli comes back: of infinitely many attempts one succeeds.
SignalFairness == SF_vars(ConnectOk) /\ SF_vars(TrustOk) /\ SF_vars(SubscribeOk)

\* The assistant answers a prompt in the end, or at least when it is cancelled.
AssistantAnswers == WF_vars(Worker /\ worker = "prompt")
HeedsCancel      == WF_vars(Worker /\ worker = "prompt" /\ (stopping \/ token))

FairSpec ==
    Spec /\ TaskFairness /\ FairAlerts /\ SignalFairness /\ AssistantAnswers

\* The assistant may think about a prompt for as long as nobody cancels it.
PatientSpec ==
    Spec /\ TaskFairness /\ FairAlerts /\ FairMessages /\ SignalFairness /\ HeedsCancel

-----------------------------------------------------------------------------
(* Properties.                                                             *)

Kinds == {"ignored", "prompt", "command", "stop", "compact", "debug", "invalid"}
Received == [kind : Kinds, id : Nat]

TypeOK ==
    /\ AgentTypeOK
    /\ loop \in {"top", "connect", "trust", "trustSleep", "subscribe",
                 "select", "sendAlert", "effect", "await", "respond", "down"}
    /\ stream \in Seq(Received)
    /\ current \in [kind : Kinds \cup {"alert", "nothing"}, id : Nat]
    /\ source \in {"system", "assistant"}
    /\ arrived \in 0..MaxMessages /\ posted \in 0..MaxAlerts
    /\ alerts \in Seq(Nat) /\ delivered \in Seq(Nat) /\ lost \subseteq Nat

\* An alert leaves the queue once, in the order of the queue: at any time each
\* alert is in exactly one of four places (sent, its sending failed, being sent,
\* queued), and whatever was sent or is to be sent is in the order it was posted,
\* through every reconnect.
AlertsAccounted ==
    LET inHand == IF loop = "sendAlert" THEN <<current.id>> ELSE <<>>
        kept   == delivered \o inHand \o alerts
    IN  /\ lost \subseteq 1..posted /\ Range(kept) = 1..posted \ lost
        /\ \A i, k \in DOMAIN kept : i < k => kept[i] < kept[k]

\* A history's chat with the admins (the rest are alerts), and what its order is: by
\* the ids of the admins' messages, each message before its answer.
Talk(history) == {i \in 1..Len(history) : history[i][1] # "alert"}
InOrder(history) ==
    \A i, k \in Talk(history) : i < k =>
        \/ history[i][2] < history[k][2]
        \/ history[i][2] = history[k][2] /\ history[i][1] = "user"

\* "By design it linearizes all interaction": the assistant's history has what the
\* admins wrote and what was answered in the order of the exchange, each message
\* before its answer and the answer before the next message, though they reach the
\* history through a queue, past stops and cancellations.
ConversationInOrder == InOrder(recorded)

\* The first prefix in the router's table that matches decides, and the order of a
\* table that build accepts does not matter: what an admin writes goes to the
\* longest prefix of it that the table has, and if there is none nowhere.
LongestPrefixDecides ==
    [][\A m \in Incoming : Arrive(m) /\ m.admin =>
         LET matched == Matched(Router, m.text)
             longest == {i \in matched : \A k \in matched :
                             Len(Router[k].prefix) <= Len(Router[i].prefix)}
         IN  Last(stream').kind = IF matched = {} THEN "ignored"
                                  ELSE HandledBy(Router, CHOOSE i \in longest : TRUE, m.text)]_vars

\* A request for the assistant returns, whatever happens to the worker meanwhile:
\* a stop, a shutdown with the request still in the queue, or an answer.
RequestReturns == (loop = "await") ~> (loop # "await")

\* Every alert is eventually taken up for sending, however often the connection
\* fails and however many messages arrive, unless the service is stopped.
EveryAlertTried ==
    \A a \in 1..MaxAlerts :
        (posted >= a) ~> (loop = "down" \/ ~Contains(alerts, a))

\* After ctrl-c the loop ends, from whatever it is doing.  (That signal-cli comes
\* back is needed for it: the retries of update_trust do not look at the token.)
ShutdownCompletes == token ~> (loop = "down")

\* "/// Stop current Claude request": a stop that arrives while a request runs
\* ends the request.  It does not: the loop awaits the request before it reads the
\* next message.
StopEndsRequest ==
    (loop = "await" /\ \E i \in 1..Len(stream) : stream[i].kind = "stop")
        ~> (loop # "await")
=============================================================================
