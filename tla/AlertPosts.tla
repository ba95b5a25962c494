------------------------------ MODULE AlertPosts -----------------------------
(***************************************************************************)
(* The way of an alert of alertmanager: the HTTP listener of the binary    *)
(* (signal-gateway-bin/src/listen_http.rs), the gateway's                  *)
(* handle_alertmanager_post, which plots the alerts' expressions, the      *)
(* alert queue, and the loop that sends it; with the other makers of plots,*)
(* the /plot command and the assistant's tool, and the directory they all  *)
(* write to (signal-gateway/src/prometheus).                               *)
(*                                                                         *)
(* Prometheus is configured.  Of the loop there is what sends attachments  *)
(* or holds it up; Gateway has the rest, and the steps of a reconnect.     *)
(***************************************************************************)
EXTENDS Naturals, Sequences, FiniteSets, FiniteSetsExt

CONSTANTS
    Conns,       \* tasks that serve an HTTP connection
    Requests,    \* what is requested: [path, method, fault, alerts]
    Numbers,     \* the words that f64::from_str takes
    AgeLimit,    \* PlotConfig.age_limit
    MaxPosts,    \* bound: HTTP requests
    MaxCommands, \* bound: messages of admins
    MaxPlots,    \* bound: plots
    MaxClock     \* bound: the clock

ASSUME AlertPostsAssumption ==
    /\ AgeLimit \in Nat /\ MaxPosts \in Nat /\ MaxCommands \in Nat
    /\ MaxPlots \in Nat /\ MaxClock \in Nat
    /\ \A r \in Requests : /\ r.alerts \in Seq(Seq(STRING))
                           /\ r.fault \in {"none", "unreadable", "not utf-8", "not json"}
-----------------------------------------------------------------------------
\* The status that handle_http_request_impl gives to the head of a request, 0 if
\* it goes on to read the body.
Status(r) ==
    CASE r.path \in {"/", "/health", "/ready"} ->
            IF r.method \in {"GET", "HEAD"} THEN 200 ELSE 501
      [] r.path = "/alert" -> IF r.method # "POST" THEN 501 ELSE 0
      [] OTHER -> 404

\* parse_alert_expr.  The expression of an alert is a sequence of words; it is
\* empty if generator_url does not have one.  A "<" anywhere goes before a ">".
Plottable(expr) ==
    LET At(comparator) == {i \in 2 .. Len(expr) - 1 : expr[i] = comparator}
        used == IF At("<") # {} THEN At("<") ELSE At(">")
    IN  used # {} /\ expr[Min(used) + 1] \in Numbers
-----------------------------------------------------------------------------
VARIABLES
    clock,
    made,      \* when each plot was made, by number
    files,     \* the plots in the directory
    posts,     \* what each connection is at
    queue,     \* signal_alert_mq: [id, since, plots]
    serving,   \* what the gateway's loop is at: "away" from do_run's select!, "off"
               \* when run has returned
    current,   \* the alert or response in the loop's hands
    sent,      \* history: the posts whose alerts were sent
    lost,      \* history: those whose sending failed, or that the shutdown dropped
    answered,  \* history: [id, status] of answered POSTs to the gateway
    arrived,   \* the number of HTTP requests
    commands   \* the number of messages of admins

disk == <<made, files>>
loopVars == <<serving, current, sent, lost, commands>>
vars == <<clock, disk, posts, queue, loopVars, answered, arrived>>

Idle == [at |-> "idle", id |-> 0, since |-> 0, todo |-> <<>>, plots |-> <<>>, status |-> 0]
Nothing == [id |-> 0, since |-> 0, plots |-> <<>>]

Init ==
    /\ clock = 0 /\ made = <<>> /\ files = {}
    /\ posts = [c \in Conns |-> Idle]
    /\ queue = <<>> /\ serving = "away" /\ current = Nothing
    /\ sent = {} /\ lost = {} /\ answered = {} /\ arrived = 0 /\ commands = 0
-----------------------------------------------------------------------------
(* The directory.                                                          *)

\* A mutant of Purged: a plot goes when it reaches the limit.
PurgedAtLimit == {p \in files : clock - made[p] < AgeLimit}

\* What purge_old_plots leaves.
Purged == {p \in files : clock - made[p] <= AgeLimit}

NextPlot == Len(made) + 1

\* create_plot writes a file of a new name.
CreatePlot ==
    /\ NextPlot <= MaxPlots
    /\ made' = Append(made, clock)
    /\ files' = files \cup {NextPlot}

Tick == clock < MaxClock /\ clock' = clock + 1
        /\ UNCHANGED <<disk, posts, queue, loopVars, answered, arrived>>
-----------------------------------------------------------------------------
(* The HTTP tasks.                                                         *)

\* A request comes, and its head decides whether its body is read.
Ask(c, r) ==
    /\ posts[c].at = "idle" /\ arrived < MaxPosts
    /\ arrived' = arrived + 1
    /\ posts' = [posts EXCEPT ![c] =
           IF Status(r) = 0 THEN [Idle EXCEPT !.at = "body", !.id = arrived + 1]
                            ELSE [Idle EXCEPT !.at = "answer", !.status = Status(r)]]
    /\ UNCHANGED <<clock, disk, queue, loopVars, answered>>

\* The body has come, and handle_alertmanager_post purges old plots ...
Body(c, r) ==
    /\ posts[c].at = "body" /\ Status(r) = 0 /\ r.fault = "none"
    /\ files' = Purged
    /\ posts' = [posts EXCEPT ![c] =
           [Idle EXCEPT !.at = "plot", !.id = posts[c].id, !.since = clock, !.todo = r.alerts]]
    /\ UNCHANGED <<clock, made, queue, loopVars, answered, arrived>>

\* ... or it cannot be read.
BadBody(c, r) ==
    /\ posts[c].at = "body" /\ Status(r) = 0 /\ r.fault # "none"
    /\ posts' = [posts EXCEPT ![c] = [Idle EXCEPT !.at = "answer", !.id = posts[c].id,
                                                   !.status = 400]]
    /\ UNCHANGED <<clock, disk, queue, loopVars, answered, arrived>>

\* The task awaits the answer of Prometheus, for which it has no timeout.
AwaitsPrometheus(c) ==
    posts[c].at = "plot" /\ posts[c].todo # <<>> /\ Plottable(Head(posts[c].todo))

PlotOk(c) ==
    /\ AwaitsPrometheus(c)
    /\ CreatePlot
    /\ posts' = [posts EXCEPT ![c] = [@ EXCEPT !.todo = Tail(posts[c].todo),
                                               !.plots = Append(posts[c].plots, NextPlot)]]
    /\ UNCHANGED <<clock, queue, loopVars, answered, arrived>>

\* A mutant of PlotFail: an alert without a plot ends the post.
PlotFailEnds(c) ==
    /\ AwaitsPrometheus(c)
    /\ posts' = [posts EXCEPT ![c].at = "answer", ![c].status = 200]
    /\ UNCHANGED <<clock, disk, queue, loopVars, answered, arrived>>

\* The query or the drawing fails: the alert goes without its plot.
PlotFail(c) ==
    /\ AwaitsPrometheus(c)
    /\ posts' = [posts EXCEPT ![c].todo = Tail(@)]
    /\ UNCHANGED <<clock, disk, queue, loopVars, answered, arrived>>

\* create_alert_plot finds nothing to plot.
NoPlot(c) ==
    /\ posts[c].at = "plot" /\ posts[c].todo # <<>> /\ ~AwaitsPrometheus(c)
    /\ posts' = [posts EXCEPT ![c].todo = Tail(@)]
    /\ UNCHANGED <<clock, disk, queue, loopVars, answered, arrived>>

\* The alert goes into the queue, if there is still somebody to read it.
Enqueue(c) ==
    /\ posts[c].at = "plot" /\ posts[c].todo = <<>>
    /\ posts' = [posts EXCEPT ![c] = [@ EXCEPT !.at = "answer",
                                               !.status = IF serving = "off" THEN 500 ELSE 200]]
    /\ queue' = IF serving = "off" THEN queue
                ELSE Append(queue, [id |-> posts[c].id, since |-> posts[c].since,
                                    plots |-> posts[c].plots])
    /\ UNCHANGED <<clock, disk, loopVars, answered, arrived>>

Answer(c) ==
    /\ posts[c].at = "answer"
    /\ posts' = [posts EXCEPT ![c] = Idle]
    /\ answered' = IF posts[c].id = 0 THEN answered
                   ELSE answered \cup {[id |-> posts[c].id, status |-> posts[c].status]}
    /\ UNCHANGED <<clock, disk, queue, loopVars, arrived>>

\* The task awaits somebody who is given no time: its client or Prometheus.
Held(c) == posts[c].at = "body" \/ AwaitsPrometheus(c)

\* The client goes away: the handler is dropped where it waits.
Disconnect(c) ==
    /\ Held(c) \/ posts[c].at = "answer"
    /\ posts' = [posts EXCEPT ![c] = Idle]
    /\ UNCHANGED <<clock, disk, queue, loopVars, answered, arrived>>
-----------------------------------------------------------------------------
(* The gateway's loop.                                                     *)

\* A mutant of TakeAlert: an alert of which a plot is gone is not taken.
TakeAlertWithPlots ==
    /\ serving = "select" /\ queue # <<>>
    /\ \A i \in DOMAIN Head(queue).plots : Head(queue).plots[i] \in files
    /\ serving' = "alert" /\ current' = Head(queue) /\ queue' = Tail(queue)
    /\ UNCHANGED <<clock, disk, posts, sent, lost, commands, answered, arrived>>

TakeAlert ==
    /\ serving = "select" /\ queue # <<>>
    /\ serving' = "alert" /\ current' = Head(queue) /\ queue' = Tail(queue)
    /\ UNCHANGED <<clock, disk, posts, sent, lost, commands, answered, arrived>>

\* The loop lets go of what it has in its hands.
Release(place) == serving' = place /\ current' = Nothing

SendAlertOk ==
    /\ serving = "alert" /\ Release("select")
    /\ sent' = sent \cup {current.id}
    /\ UNCHANGED <<clock, disk, posts, queue, lost, commands, answered, arrived>>

\* The send fails: the alert is gone, and do_run ends.
SendAlertFail ==
    /\ serving = "alert" /\ Release("away")
    /\ lost' = lost \cup {current.id}
    /\ UNCHANGED <<clock, disk, posts, queue, sent, commands, answered, arrived>>

\* /plot: old plots are purged, and then one is made.
PlotCommand ==
    /\ serving = "select" /\ commands < MaxCommands
    /\ commands' = commands + 1
    /\ files' = Purged
    /\ serving' = "command"
    /\ UNCHANGED <<clock, made, posts, queue, current, sent, lost, answered, arrived>>

\* A prompt: the assistant's tool may make any number of plots.
Prompt ==
    /\ serving = "select" /\ commands < MaxCommands
    /\ commands' = commands + 1
    /\ serving' = "prompt"
    /\ UNCHANGED <<clock, disk, posts, queue, current, sent, lost, answered, arrived>>

OneoffPlot ==
    /\ serving \in {"command", "prompt"}
    /\ CreatePlot
    /\ serving' = IF serving = "command" THEN "respond" ELSE serving
    /\ current' = [current EXCEPT !.plots = Append(@, NextPlot)]
    /\ UNCHANGED <<clock, posts, queue, sent, lost, commands, answered, arrived>>

\* The plot failed, or the assistant has answered, with the plots it asked for.
Responds ==
    /\ serving \in {"command", "prompt"}
    /\ serving' = "respond"
    /\ UNCHANGED <<clock, disk, posts, queue, current, sent, lost, commands, answered, arrived>>

SendResponse ==
    /\ serving = "respond" /\ Release("select")
    /\ UNCHANGED <<clock, disk, posts, queue, sent, lost, commands, answered, arrived>>

SendResponseFail ==
    /\ serving = "respond" /\ Release("away")
    /\ UNCHANGED <<clock, disk, posts, queue, sent, lost, commands, answered, arrived>>

\* The stream of messages ends or has an error, which ends do_run.
Leave ==
    /\ serving = "select"
    /\ serving' = "away"
    /\ UNCHANGED <<clock, disk, posts, queue, current, sent, lost, commands, answered, arrived>>

\* The loop has waited signal_cli_retry_delay, connected, updated the trust, as often
\* as it took, and subscribed.  None of it looks at the queue.
Reconnect ==
    /\ serving = "away"
    /\ serving' = "select"
    /\ UNCHANGED <<clock, disk, posts, queue, current, sent, lost, commands, answered, arrived>>

\* run is cancelled, in the select! or before it connects.  It returns and drops the
\* receiver; what is in the queue is dropped with it.
Exit ==
    /\ serving \in {"select", "away"}
    /\ serving' = "off"
    /\ lost' = lost \cup {queue[i].id : i \in DOMAIN queue}
    /\ queue' = <<>>
    /\ UNCHANGED <<clock, disk, posts, current, sent, commands, answered, arrived>>

Conn(c) == NoPlot(c) \/ Enqueue(c) \/ Answer(c)
Sends == SendAlertOk \/ SendAlertFail \/ SendResponse \/ SendResponseFail

Next ==
    \/ Tick
    \/ \E c \in Conns : \/ \E r \in Requests : Ask(c, r) \/ Body(c, r) \/ BadBody(c, r)
                        \/ PlotOk(c) \/ PlotFail(c) \/ Disconnect(c) \/ Conn(c)
    \/ PlotCommand \/ Prompt \/ OneoffPlot \/ Responds
    \/ TakeAlert \/ Sends \/ Leave \/ Reconnect \/ Exit

Spec == Init /\ [][Next]_vars

\* The tasks go on where they do not wait for somebody outside.  A send is answered or
\* fails, as the JSON-RPC client gives every request a time; the select! polls its
\* branches in random order, so that of the queue is taken though others are ready.
FairSpec ==
    /\ Spec
    /\ SF_vars(TakeAlert) /\ WF_vars(Sends)
    /\ \A c \in Conns : WF_vars(Conn(c))
-----------------------------------------------------------------------------
(* Properties.                                                             *)

Statuses == {0, 200, 400, 404, 500, 501}
Alert == [id : Nat, since : Nat, plots : Seq(Nat)]

Post == [at : {"idle", "body", "plot", "answer"}, id : Nat, since : Nat, plots : Seq(Nat),
         todo : Seq(Seq(STRING)), status : Statuses]

TypeOK ==
    /\ clock \in Nat /\ arrived \in Nat /\ commands \in Nat
    /\ made \in Seq(Nat) /\ files \subseteq DOMAIN made
    /\ posts \in [Conns -> Post]
    /\ queue \in Seq(Alert) /\ current \in Alert
    /\ serving \in {"away", "select", "alert", "command", "prompt", "respond", "off"}
    /\ sent \subseteq Nat /\ lost \subseteq Nat
    /\ answered \subseteq [id : Nat, status : Statuses]

\* Where the alert of POST id is.
Places(id) ==
    {<<"queue", i>> : i \in {i \in DOMAIN queue : queue[i].id = id}}
    \cup {<<"hand">> : x \in {current.id} \cap {id}}
    \cup {<<"sent">> : x \in sent \cap {id}}
    \cup {<<"lost">> : x \in lost \cap {id}}

\* A POST that is answered with OK has put its alert in exactly one place, however
\* its plots, other posts and the loop went; one that is answered with an error, or
\* whose client went away while it was read or plotted, has put it nowhere; and no
\* alert is ever in two places.
PostsAccounted ==
    \A id \in 1 .. arrived :
        /\ Cardinality(Places(id)) <= 1
        /\ \A a \in answered : a.id = id =>
               Cardinality(Places(id)) = (IF a.status = 200 THEN 1 ELSE 0)
        /\ \A c \in Conns : posts[c].id = id /\ posts[c].at \in {"body", "plot"} => Places(id) = {}

\* Within the age limit of its POST, an alert that waits for the loop, or for
\* signal-cli to read what it attaches, has every plot that was made for it, though
\* other posts and commands purge the directory.
PlotsOutliveWait ==
    \A a \in {queue[i] : i \in DOMAIN queue} \cup {current} :
        a.id # 0 /\ clock - a.since <= AgeLimit =>
            \A i \in DOMAIN a.plots : a.plots[i] \in files

\* What makes it so: a plot that is gone is older than the limit, and the plots of a
\* post or an alert, each of which is one of those made, are not older than it.
HasPlots(a) ==
    /\ a.since <= clock
    /\ \A i \in DOMAIN a.plots : a.plots[i] \in DOMAIN made /\ a.since <= made[a.plots[i]]

GoneIsOld ==
    \A p \in DOMAIN made : /\ made[p] <= clock
                           /\ p \notin files => clock - made[p] > AgeLimit

PlotInv ==
    /\ GoneIsOld
    /\ \A c \in Conns : HasPlots(posts[c])
    /\ \A i \in DOMAIN queue : HasPlots(queue[i])
    /\ HasPlots(current)

\* What holds an alert up is outside the gateway: its client, which sends the body;
\* Prometheus, or the assistant; or signal-cli while the loop is away, which includes
\* the retries of update_trust.  Unless one of these lasts for ever, every post is
\* answered or given up by its client, and every alert that is queued is sent, fails
\* or is dropped by the shutdown, though the loop leaves and comes back again and again.
LoopHeld == serving \in {"command", "prompt", "away"}
OnlyOutsideBlocks ==
    ([]<>~LoopHeld /\ \A c \in Conns : []<>~Held(c))
        => []<>(queue = <<>> /\ \A c \in Conns : posts[c].at = "idle")
=============================================================================
