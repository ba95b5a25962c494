-------------------------- MODULE AlertPostsProofs --------------------------
(***************************************************************************)
(* That the plots of an alert are there as long as they may be, and that   *)
(* every alert is in one place: proofs for every value of the constants.   *)
(***************************************************************************)
EXTENDS AlertPosts, FiniteSetTheorems, TLAPS

\* Every variable starts with a value of its type.
THEOREM InitTypeOK == Init => TypeOK
  BY DEF Init, TypeOK, Idle, Nothing, Alert, Post, Statuses

\* A connection without a post.
LEMMA IdleType == Idle \in Post
  BY DEF Idle, Post, Statuses

\* A post whose body is still to come.
LEMMA AskedType ==
    ASSUME NEW id \in Nat
    PROVE  [Idle EXCEPT !.at = "body", !.id = id] \in Post
  BY IdleType DEF Post

\* A post that has just been read, its alerts still to be plotted.
LEMMA ReadType ==
    ASSUME NEW id \in Nat, NEW since \in Nat, NEW todo \in Seq(Seq(STRING))
    PROVE  [Idle EXCEPT !.at = "plot", !.id = id, !.since = since, !.todo = todo] \in Post
  BY IdleType DEF Post

\* A post that is refused before anything is done for it, for its head or its body.
LEMMA RefusedType ==
    ASSUME NEW s \in Statuses, NEW id \in Nat
    PROVE  /\ [Idle EXCEPT !.at = "answer", !.status = s] \in Post
           /\ [Idle EXCEPT !.at = "answer", !.id = id, !.status = s] \in Post
  BY IdleType DEF Post

\* A post goes on with its next alert.
LEMMA TodoType ==
    ASSUME NEW p \in Post, p.todo # <<>>
    PROVE  [p EXCEPT !.todo = Tail(@)] \in Post
  <1>1. Tail(p.todo) \in Seq(Seq(STRING))
    BY DEF Post
  <1> QED BY <1>1 DEF Post

\* A post gets a plot.
LEMMA PlotsType ==
    ASSUME NEW p \in Post, NEW n \in Nat
    PROVE  [p EXCEPT !.plots = Append(@, n)] \in Post
  <1>1. Append(p.plots, n) \in Seq(Nat)
    BY DEF Post
  <1> QED BY <1>1 DEF Post

\* Every step, of a connection, the loop or the clock, keeps the types.
THEOREM NextTypeOK == ASSUME TypeOK, [Next]_vars PROVE TypeOK'
  <1> USE DEF TypeOK
  <1>1. CASE UNCHANGED vars
    BY <1>1 DEF vars, disk, loopVars
  <1>2. CASE Tick
    BY <1>2 DEF Tick, disk, loopVars
  <1>3. ASSUME NEW c \in Conns, NEW r \in Requests, Ask(c, r) PROVE TypeOK'
    <2>1. Status(r) \in Statuses
      BY DEF Status, Statuses
    <2>2. arrived + 1 \in Nat
      OBVIOUS
    <2>3. [Idle EXCEPT !.at = "body", !.id = arrived + 1] \in Post
      BY ONLY <2>2, AskedType
    <2>4. [Idle EXCEPT !.at = "answer", !.status = Status(r)] \in Post
      BY <2>1, RefusedType
    <2>5. posts' \in [Conns -> Post]
      BY <1>3, <2>3, <2>4 DEF Ask
    <2> QED BY <1>3, <2>5 DEF Ask, disk, loopVars
  <1>21. ASSUME NEW c \in Conns, NEW r \in Requests, Body(c, r) PROVE TypeOK'
    <2> DEFINE p == [Idle EXCEPT !.at = "plot", !.id = posts[c].id, !.since = clock,
                                 !.todo = r.alerts]
    <2>1. r.alerts \in Seq(Seq(STRING))
      BY AlertPostsAssumption
    <2>2. posts[c].id \in Nat /\ clock \in Nat
      BY DEF Post
    <2>3. p \in Post
      BY ONLY <2>1, <2>2, ReadType
    <2>4. posts' = [posts EXCEPT ![c] = p]
      BY <1>21 DEF Body
    <2>5. posts' \in [Conns -> Post]
      BY <2>3, <2>4
    <2>6. files' \subseteq DOMAIN made
      BY <1>21 DEF Body, Purged
    <2> QED BY <1>21, <2>5, <2>6 DEF Body, loopVars
  <1>22. ASSUME NEW c \in Conns, NEW r \in Requests, BadBody(c, r) PROVE TypeOK'
    <2>1. posts[c].id \in Nat /\ 400 \in Statuses
      BY DEF Post, Statuses
    <2>2. [Idle EXCEPT !.at = "answer", !.id = posts[c].id, !.status = 400] \in Post
      BY ONLY <2>1, RefusedType
    <2>3. posts' \in [Conns -> Post]
      BY <1>22, <2>2 DEF BadBody
    <2> QED BY <1>22, <2>3 DEF BadBody, disk, loopVars
  <1>4. ASSUME NEW c \in Conns, PlotOk(c) PROVE TypeOK'
    <2>1. NextPlot \in Nat
      BY DEF NextPlot
    <2>2. made' \in Seq(Nat) /\ files' \subseteq DOMAIN made'
      BY <1>4 DEF PlotOk, CreatePlot, NextPlot
    <2>3. posts[c] \in Post /\ posts[c].todo # <<>>
      BY <1>4 DEF PlotOk, AwaitsPrometheus
    <2>4. posts' \in [Conns -> Post]
      <3> DEFINE p == [posts[c] EXCEPT !.todo = Tail(posts[c].todo),
                                       !.plots = Append(posts[c].plots, NextPlot)]
      <3>1. posts' = [posts EXCEPT ![c] = p]
        BY <1>4 DEF PlotOk
      <3>2. [posts[c] EXCEPT !.todo = Tail(@)] \in Post
        BY <2>3, TodoType
      <3>3. p \in Post
        BY <2>1, <2>3, <3>2, PlotsType
      <3> QED BY <3>1, <3>3
    <2> QED BY <1>4, <2>2, <2>4 DEF PlotOk, loopVars
  <1>5. ASSUME NEW c \in Conns, PlotFail(c) \/ NoPlot(c) PROVE TypeOK'
    <2>1. posts[c] \in Post /\ posts[c].todo # <<>>
      BY <1>5 DEF PlotFail, NoPlot, AwaitsPrometheus
    <2>2. posts' \in [Conns -> Post]
      <3>1. posts' = [posts EXCEPT ![c] = [posts[c] EXCEPT !.todo = Tail(@)]]
        BY <1>5 DEF PlotFail, NoPlot
      <3>2. [posts[c] EXCEPT !.todo = Tail(@)] \in Post
        BY <2>1, TodoType
      <3> QED BY <3>1, <3>2
    <2> QED BY <1>5, <2>2 DEF PlotFail, NoPlot, disk, loopVars
  <1>6. ASSUME NEW c \in Conns, Enqueue(c) PROVE TypeOK'
    <2>1. posts' \in [Conns -> Post]
      <3> DEFINE s == IF serving = "off" THEN 500 ELSE 200
      <3>1. [posts[c] EXCEPT !.at = "answer", !.status = s] \in Post
        <4>1. posts[c] \in Post
          OBVIOUS
        <4>2. s \in Statuses
          BY DEF Statuses
        <4> HIDE DEF s
        <4> QED BY <4>1, <4>2 DEF Post
      <3>2. posts' = [posts EXCEPT ![c] = [posts[c] EXCEPT !.at = "answer", !.status = s]]
        BY <1>6 DEF Enqueue
      <3> QED BY <3>1, <3>2
    <2>2. [id |-> posts[c].id, since |-> posts[c].since, plots |-> posts[c].plots] \in Alert
      BY DEF Post, Alert
    <2>3. queue' \in Seq(Alert)
      BY <1>6, <2>2 DEF Enqueue
    <2> QED BY <1>6, <2>1, <2>3 DEF Enqueue, disk, loopVars
  <1>7. ASSUME NEW c \in Conns, Answer(c) PROVE TypeOK'
    <2>1. posts' \in [Conns -> Post]
      BY <1>7, IdleType DEF Answer
    <2>2. answered' \subseteq [id : Nat, status : Statuses]
      BY <1>7 DEF Answer, Post
    <2> QED BY <1>7, <2>1, <2>2 DEF Answer, disk, loopVars
  <1>8. ASSUME NEW c \in Conns, Disconnect(c) PROVE TypeOK'
    <2>1. posts' \in [Conns -> Post]
      BY <1>8, IdleType DEF Disconnect
    <2> QED BY <1>8, <2>1 DEF Disconnect, disk, loopVars
  <1>9. Nothing \in Alert
    BY DEF Nothing, Alert
  <1>10. CASE TakeAlert
    BY <1>10 DEF TakeAlert, disk
  <1>11. CASE SendAlertOk
    BY <1>9, <1>11 DEF SendAlertOk, Release, Alert, disk
  <1>23. CASE Leave \/ Reconnect
    BY <1>23 DEF Leave, Reconnect, disk
  <1>12. CASE SendAlertFail
    BY <1>9, <1>12 DEF SendAlertFail, Release, Alert, disk
  <1>13. CASE PlotCommand
    BY <1>13 DEF PlotCommand, Purged
  <1>14. CASE Prompt
    BY <1>14 DEF Prompt, disk
  <1>15. CASE OneoffPlot
    <2>1. NextPlot \in Nat
      BY DEF NextPlot
    <2>2. made' \in Seq(Nat) /\ files' \subseteq DOMAIN made'
      BY <1>15 DEF OneoffPlot, CreatePlot, NextPlot
    <2>3. Append(current.plots, NextPlot) \in Seq(Nat)
      BY <2>1 DEF Alert
    <2>4. current' = [current EXCEPT !.plots = Append(current.plots, NextPlot)]
      BY <1>15 DEF OneoffPlot
    <2>5. current' \in Alert
      BY <2>3, <2>4 DEF Alert
    <2> QED BY <1>15, <2>2, <2>5 DEF OneoffPlot
  <1>16. CASE Responds
    BY <1>16 DEF Responds, disk
  <1>17. CASE SendResponse \/ SendResponseFail
    BY <1>9, <1>17 DEF SendResponse, SendResponseFail, Release, disk
  <1>18. CASE Exit
    <2>1. \A i \in DOMAIN queue : queue[i].id \in Nat
      <3> TAKE i \in DOMAIN queue
      <3>1. queue[i] \in Alert
        OBVIOUS
      <3> QED BY <3>1 DEF Alert
    <2>2. lost' \subseteq Nat
      BY <1>18, <2>1 DEF Exit
    <2> QED BY <1>18, <2>2 DEF Exit, disk
  <1> QED
    BY <1>1, <1>2, <1>3, <1>4, <1>5, <1>6, <1>7, <1>8, <1>10, <1>11, <1>12, <1>13,
       <1>14, <1>15, <1>16, <1>17, <1>18, <1>21, <1>22, <1>23 DEF Next, Conn, Sends

\* Every variable keeps its type.
THEOREM TypeCorrect == Spec => []TypeOK
  BY InitTypeOK, NextTypeOK, PTL DEF Spec
-----------------------------------------------------------------------------
(* Plots and their age.                                                    *)

\* At the start no plot is made and nothing relies on one.
THEOREM InitPlotInv == Init => PlotInv
  BY DEF Init, PlotInv, GoneIsOld, HasPlots, Idle, Nothing

\* The clock and the times at which plots were made are numbers.
LEMMA DirectoryType ==
    ASSUME TypeOK
    PROVE  /\ clock \in Nat /\ AgeLimit \in Nat
           /\ \A p \in DOMAIN made : made[p] \in Nat
           /\ DOMAIN made = 1 .. Len(made) /\ Len(made) \in Nat
  <1>1. AgeLimit \in Nat
    BY ONLY AlertPostsAssumption
  <1>2. clock \in Nat /\ made \in Seq(Nat)
    BY DEF TypeOK
  <1> QED BY ONLY <1>1, <1>2

\* The times of posts and alerts are numbers.
LEMMA SinceType ==
    ASSUME TypeOK
    PROVE  /\ \A c \in Conns : posts[c].since \in Nat
           /\ \A i \in DOMAIN queue : queue[i].since \in Nat
           /\ current.since \in Nat
  <1>1. \A c \in Conns : posts[c].since \in Nat
    BY DEF TypeOK, Post
  <1>2. \A i \in DOMAIN queue : queue[i].since \in Nat
    <2> TAKE i \in DOMAIN queue
    <2>1. queue[i] \in Alert
      BY DEF TypeOK
    <2> QED BY <2>1 DEF Alert
  <1>3. current.since \in Nat
    BY DEF TypeOK, Alert
  <1> QED BY <1>1, <1>2, <1>3

\* A purge, or a step that leaves the directory alone, takes only old plots.
LEMMA PurgeKeeps ==
    ASSUME TypeOK, GoneIsOld, clock' = clock, made' = made, files' \in {files, Purged}
    PROVE  GoneIsOld'
  <1> SUFFICES ASSUME NEW p \in DOMAIN made
               PROVE  made[p] <= clock /\ (p \notin files' => clock - made[p] > AgeLimit)
    BY DEF GoneIsOld
  <1>1. made[p] \in Nat /\ clock \in Nat /\ AgeLimit \in Nat
    BY DirectoryType
  <1>2. made[p] <= clock /\ (p \notin files => clock - made[p] > AgeLimit)
    BY DEF GoneIsOld
  <1>3. p \in files /\ p \notin files' => ~(clock - made[p] <= AgeLimit)
    BY DEF Purged
  <1> QED BY <1>1, <1>2, <1>3

\* Time makes plots older.
LEMMA TickKeeps ==
    ASSUME TypeOK, GoneIsOld, clock' = clock + 1, made' = made, files' = files
    PROVE  GoneIsOld'
  <1> SUFFICES ASSUME NEW p \in DOMAIN made
               PROVE  made'[p] <= clock' /\ (p \notin files' => clock' - made'[p] > AgeLimit)
    BY DEF GoneIsOld
  <1>1. made[p] \in Nat /\ clock \in Nat /\ AgeLimit \in Nat
    BY DirectoryType
  <1>2. made[p] <= clock /\ (p \notin files => clock - made[p] > AgeLimit)
    BY DEF GoneIsOld
  <1> QED BY <1>1, <1>2

\* A new plot is made now, and the others stay.
LEMMA CreateAppends ==
    ASSUME TypeOK, CreatePlot
    PROVE  /\ made' = Append(made, clock) /\ files' = files \cup {NextPlot}
           /\ DOMAIN made' = DOMAIN made \cup {NextPlot}
           /\ NextPlot \notin DOMAIN made
           /\ made'[NextPlot] = clock
           /\ \A p \in DOMAIN made : made'[p] = made[p]
  <1>1. made \in Seq(Nat) /\ clock \in Nat /\ made' = Append(made, clock)
        /\ files' = files \cup {NextPlot}
    BY DEF TypeOK, CreatePlot
  <1> QED BY <1>1 DEF NextPlot

\* Making a plot removes none.
LEMMA CreateKeeps ==
    ASSUME TypeOK, GoneIsOld, CreatePlot, clock' = clock
    PROVE  GoneIsOld'
  <1> SUFFICES ASSUME NEW p \in DOMAIN made'
               PROVE  made'[p] <= clock /\ (p \notin files' => clock - made'[p] > AgeLimit)
    BY DEF GoneIsOld
  <1>1. CASE p = NextPlot
    <2>1. made'[p] = clock /\ p \in files'
      BY <1>1, CreateAppends
    <2> QED BY <2>1, DirectoryType
  <1>2. CASE p # NextPlot
    <2>1. p \in DOMAIN made /\ made'[p] = made[p] /\ (p \notin files' => p \notin files)
      BY <1>2, CreateAppends
    <2> QED BY <2>1 DEF GoneIsOld
  <1> QED BY <1>1, <1>2

\* The plots of a post or an alert stay as new as they were for it.
LEMMA PlotsKept ==
    ASSUME TypeOK, NEW a, a.since \in Nat, HasPlots(a),
           \/ clock' \in {clock, clock + 1} /\ made' = made
           \/ clock' = clock /\ CreatePlot
    PROVE  HasPlots(a)'
  <1>1. clock \in Nat
    BY DirectoryType
  <1>2. a.since <= clock'
    BY <1>1 DEF HasPlots
  <1>3. \A p \in DOMAIN made : p \in DOMAIN made' /\ made'[p] = made[p]
    BY CreateAppends
  <1>4. \A i \in DOMAIN a.plots : a.plots[i] \in DOMAIN made /\ a.since <= made[a.plots[i]]
    BY DEF HasPlots
  <1>5. \A i \in DOMAIN a.plots : a.plots[i] \in DOMAIN made' /\ a.since <= made'[a.plots[i]]
    BY <1>3, <1>4
  <1> QED BY <1>2, <1>5 DEF HasPlots

\* Every step keeps the plots that are relied on.
LEMMA StepKeeps ==
    ASSUME TypeOK, GoneIsOld, [Next]_vars
    PROVE  /\ GoneIsOld'
           /\ \/ clock' \in {clock, clock + 1} /\ made' = made
              \/ clock' = clock /\ CreatePlot
  <1>1. CASE clock' = clock /\ made' = made /\ files' \in {files, Purged}
    BY <1>1, PurgeKeeps
  <1>2. CASE clock' = clock + 1 /\ made' = made /\ files' = files
    BY <1>2, TickKeeps
  <1>3. CASE clock' = clock /\ CreatePlot
    BY <1>3, CreateKeeps
  <1>4. CASE UNCHANGED vars
    BY <1>1, <1>4 DEF vars, disk
  <1>5. CASE Tick
    BY <1>2, <1>5 DEF Tick, disk
  <1>6. ASSUME NEW c \in Conns, NEW r \in Requests, Ask(c, r) \/ Body(c, r) \/ BadBody(c, r)
        PROVE  clock' = clock /\ made' = made /\ files' \in {files, Purged}
    BY <1>6 DEF Ask, Body, BadBody, disk
  <1>7. ASSUME NEW c \in Conns, PlotOk(c) PROVE clock' = clock /\ CreatePlot
    BY <1>7 DEF PlotOk
  <1>8. ASSUME NEW c \in Conns, PlotFail(c) \/ Disconnect(c) \/ Conn(c)
        PROVE  clock' = clock /\ made' = made /\ files' = files
    BY <1>8 DEF PlotFail, Disconnect, Conn, NoPlot, Enqueue, Answer, disk
  <1>9. CASE TakeAlert \/ Sends \/ Leave \/ Reconnect \/ PlotCommand \/ Prompt \/ Responds \/ Exit
    <2>1. clock' = clock /\ made' = made /\ files' \in {files, Purged}
      BY <1>9 DEF Sends, TakeAlert, SendAlertOk, SendAlertFail, SendResponse, SendResponseFail,
                  Leave, Reconnect, PlotCommand, Prompt, Responds, Exit, disk
    <2> QED BY <1>1, <2>1
  <1>10. CASE OneoffPlot
    BY <1>3, <1>10 DEF OneoffPlot
  <1> QED
    BY <1>1, <1>3, <1>4, <1>5, <1>6, <1>7, <1>8, <1>9, <1>10 DEF Next

\* Every step keeps the plots of posts and alerts as new as they were: a purge by
\* another post or by a command removes only what is older than the limit.
THEOREM NextPlotInv == ASSUME TypeOK, PlotInv, [Next]_vars PROVE PlotInv'
  <1>1. GoneIsOld'
    BY StepKeeps DEF PlotInv
  <1>2. ASSUME NEW a, a.since \in Nat, HasPlots(a) PROVE HasPlots(a)'
    BY <1>2, StepKeeps, PlotsKept DEF PlotInv
  <1>3. /\ \A c \in Conns : HasPlots(posts[c]) /\ posts[c].since \in Nat
        /\ \A i \in DOMAIN queue : HasPlots(queue[i]) /\ queue[i].since \in Nat
        /\ HasPlots(current) /\ current.since \in Nat
    BY SinceType DEF PlotInv
  \* What the step leaves alone.
  <1>4. ASSUME posts' = posts PROVE \A c \in Conns : HasPlots(posts[c])'
    BY <1>2, <1>3, <1>4 DEF HasPlots
  <1>5. ASSUME queue' = queue PROVE \A i \in DOMAIN queue' : HasPlots(queue[i])'
    BY <1>2, <1>3, <1>5 DEF HasPlots
  <1>6. ASSUME current' \in {current, Nothing} PROVE HasPlots(current)'
    <2>1. CASE current' = current
      BY <1>2, <1>3, <2>1 DEF HasPlots
    <2>2. CASE current' = Nothing
      <3>1. clock' \in Nat
        BY NextTypeOK DEF TypeOK
      <3> QED BY <2>2, <3>1 DEF HasPlots, Nothing
    <2> QED BY <1>6, <2>1, <2>2
  <1>7. ASSUME queue' = queue, current' \in {current, Nothing}, posts' = posts PROVE PlotInv'
    BY <1>1, <1>4, <1>5, <1>6, <1>7 DEF PlotInv
  \* A connection that takes another post, or none, or goes on.
  <1>8. ASSUME NEW c \in Conns, NEW p, posts' = [posts EXCEPT ![c] = p], HasPlots(p)'
        PROVE  \A d \in Conns : HasPlots(posts[d])'
    <2> TAKE d \in Conns
    <2>1. CASE d = c
      <3>1. posts'[d] = p
        BY <1>8, <2>1 DEF TypeOK
      <3> QED BY <1>8, <3>1 DEF HasPlots
    <2>2. CASE d # c
      <3>1. posts'[d] = posts[d]
        BY <1>8, <2>2 DEF TypeOK
      <3> QED BY <1>2, <1>3, <3>1 DEF HasPlots
    <2> QED BY <2>1, <2>2
  <1>9. ASSUME NEW p, p.since \in {0, clock}, p.plots = <<>>, clock' = clock
        PROVE  HasPlots(p)'
    BY <1>9, DirectoryType DEF HasPlots
  <1>10. Idle.since = 0 /\ Idle.plots = <<>>
    BY DEF Idle
  <1>11. CASE UNCHANGED vars \/ Tick
    BY <1>7, <1>11 DEF vars, Tick, loopVars
  <1>12. ASSUME NEW c \in Conns, NEW r \in Requests, Ask(c, r) \/ Body(c, r) \/ BadBody(c, r)
         PROVE  PlotInv'
    <2>1. PICK p : /\ posts' = [posts EXCEPT ![c] = p]
                   /\ p.since \in {0, clock} /\ p.plots = <<>>
      <3>1. CASE Ask(c, r)
        <4> DEFINE q == IF Status(r) = 0 THEN [Idle EXCEPT !.at = "body", !.id = arrived + 1]
                        ELSE [Idle EXCEPT !.at = "answer", !.status = Status(r)]
        <4>1. posts' = [posts EXCEPT ![c] = q]
          BY <3>1 DEF Ask
        <4>2. q.since = 0 /\ q.plots = <<>>
          BY DEF Idle
        <4> QED BY <4>1, <4>2
      <3>2. CASE Body(c, r)
        <4> DEFINE q == [Idle EXCEPT !.at = "plot", !.id = posts[c].id, !.since = clock,
                                     !.todo = r.alerts]
        <4>1. posts' = [posts EXCEPT ![c] = q]
          BY <3>2 DEF Body
        <4>2. q.since = clock /\ q.plots = <<>>
          BY DEF Idle
        <4> QED BY <4>1, <4>2
      <3>3. CASE BadBody(c, r)
        <4> DEFINE q == [Idle EXCEPT !.at = "answer", !.id = posts[c].id, !.status = 400]
        <4>1. posts' = [posts EXCEPT ![c] = q]
          BY <3>3 DEF BadBody
        <4>2. q.since = 0 /\ q.plots = <<>>
          BY DEF Idle
        <4> QED BY <4>1, <4>2
      <3> QED BY <1>12, <3>1, <3>2, <3>3
    <2>2. clock' = clock /\ queue' = queue /\ current' = current
      BY <1>12 DEF Ask, Body, BadBody, loopVars
    <2>3. HasPlots(p)'
      BY <1>9, <2>1, <2>2
    <2> QED BY <1>1, <1>5, <1>6, <1>8, <2>1, <2>2, <2>3 DEF PlotInv
  <1>13. ASSUME NEW c \in Conns, Answer(c) \/ Disconnect(c) PROVE PlotInv'
    <2>1. posts' = [posts EXCEPT ![c] = Idle] /\ clock' = clock
      BY <1>13 DEF Answer, Disconnect
    <2>2. HasPlots(Idle)'
      BY <1>9, <1>10, <2>1
    <2> QED BY <1>1, <1>5, <1>6, <1>8, <1>13, <2>1, <2>2 DEF Answer, Disconnect, loopVars, PlotInv
  <1>14. ASSUME NEW c \in Conns, PlotOk(c) PROVE PlotInv'
    <2>1. PICK p : p = [posts[c] EXCEPT !.todo = Tail(posts[c].todo),
                                        !.plots = Append(posts[c].plots, NextPlot)]
      OBVIOUS
    <2>2. posts' = [posts EXCEPT ![c] = p] /\ clock' = clock
      BY <1>14, <2>1 DEF PlotOk
    <2>3. p.since = posts[c].since /\ p.plots = Append(posts[c].plots, NextPlot)
      BY <2>1 DEF TypeOK, Post
    <2>4. HasPlots(p)'
      <3>1. posts[c].plots \in Seq(Nat) /\ posts[c].since <= clock
        BY <1>3 DEF TypeOK, Post, HasPlots
      <3>2. \A i \in DOMAIN posts[c].plots :
                posts[c].plots[i] \in DOMAIN made' /\ posts[c].since <= made'[posts[c].plots[i]]
        BY <1>2, <1>3 DEF HasPlots
      <3>3. NextPlot \in DOMAIN made' /\ made'[NextPlot] = clock
        BY <1>14, CreateAppends DEF PlotOk
      <3>4. ASSUME NEW i \in DOMAIN p.plots
            PROVE  p.plots[i] \in DOMAIN made' /\ p.since <= made'[p.plots[i]]
        <4>1. CASE i = Len(posts[c].plots) + 1
          BY <2>3, <3>1, <3>3, <4>1
        <4>2. CASE i # Len(posts[c].plots) + 1
          <5>1. i \in DOMAIN posts[c].plots /\ p.plots[i] = posts[c].plots[i]
            BY <2>3, <3>1, <3>4, <4>2
          <5> QED BY <2>3, <3>2, <5>1
        <4> QED BY <4>1, <4>2
      <3> QED BY <2>2, <2>3, <3>1, <3>4 DEF HasPlots
    <2> QED BY <1>1, <1>5, <1>6, <1>8, <1>14, <2>2, <2>4 DEF PlotOk, loopVars, PlotInv
  <1>15. ASSUME NEW c \in Conns, NEW p, posts' = [posts EXCEPT ![c] = p],
                p.since = posts[c].since, p.plots = posts[c].plots
         PROVE  \A d \in Conns : HasPlots(posts[d])'
    <2>1. HasPlots(p)'
      BY <1>2, <1>3, <1>15 DEF HasPlots
    <2> QED BY <1>8, <1>15, <2>1
  <1>16. ASSUME NEW c \in Conns, PlotFail(c) \/ NoPlot(c) PROVE PlotInv'
    <2>1. PICK p : /\ posts' = [posts EXCEPT ![c] = p]
                   /\ p.since = posts[c].since /\ p.plots = posts[c].plots
      BY <1>16 DEF PlotFail, NoPlot, TypeOK, Post
    <2> QED BY <1>1, <1>5, <1>6, <1>15, <1>16, <2>1 DEF PlotFail, NoPlot, loopVars, PlotInv
  <1>17. ASSUME NEW c \in Conns, Enqueue(c) PROVE PlotInv'
    <2>1. PICK p : /\ posts' = [posts EXCEPT ![c] = p]
                   /\ p.since = posts[c].since /\ p.plots = posts[c].plots
      <3> DEFINE q == [posts[c] EXCEPT !.at = "answer",
                                       !.status = IF serving = "off" THEN 500 ELSE 200]
      <3>1. posts' = [posts EXCEPT ![c] = q]
        BY <1>17 DEF Enqueue
      <3>2. q.since = posts[c].since /\ q.plots = posts[c].plots
        BY DEF TypeOK, Post
      <3> HIDE DEF q
      <3> QED BY <3>1, <3>2
    <2>2. PICK a : a = [id |-> posts[c].id, since |-> posts[c].since,
                        plots |-> posts[c].plots]
      OBVIOUS
    <2>3. a.since = posts[c].since /\ a.plots = posts[c].plots
      BY <2>2
    <2>4. HasPlots(a)'
      BY <1>2, <1>3, <2>3 DEF HasPlots
    <2>5. queue' \in {queue, Append(queue, a)} /\ queue \in Seq(Alert)
      BY <1>17, <2>2 DEF Enqueue, TypeOK
    <2>6. \A i \in DOMAIN queue' : HasPlots(queue[i])'
      <3> TAKE i \in DOMAIN queue'
      <3>1. queue'[i] = a \/ (i \in DOMAIN queue /\ queue'[i] = queue[i])
        BY <2>5
      <3>2. CASE queue'[i] = a
        BY <2>4, <3>2 DEF HasPlots
      <3>3. CASE i \in DOMAIN queue /\ queue'[i] = queue[i]
        BY <1>2, <1>3, <3>3 DEF HasPlots
      <3> QED BY <3>1, <3>2, <3>3
    <2> QED BY <1>1, <1>6, <1>15, <1>17, <2>1, <2>6 DEF Enqueue, loopVars, PlotInv
  <1>18. CASE TakeAlert
    <2>1. queue \in Seq(Alert) /\ queue # <<>> /\ queue' = Tail(queue) /\ current' = Head(queue)
      BY <1>18 DEF TakeAlert, TypeOK
    <2>2. \A i \in DOMAIN queue' : i + 1 \in DOMAIN queue /\ queue'[i] = queue[i + 1]
      BY <2>1
    <2>3. 1 \in DOMAIN queue /\ current' = queue[1]
      BY <2>1
    <2>4. \A i \in DOMAIN queue' : HasPlots(queue[i])'
      BY <1>2, <1>3, <2>2 DEF HasPlots
    <2>5. HasPlots(current)'
      BY <1>2, <1>3, <2>3 DEF HasPlots
    <2> QED BY <1>1, <1>4, <1>18, <2>4, <2>5 DEF TakeAlert, PlotInv
  <1>19. CASE Sends \/ Leave \/ Reconnect \/ PlotCommand \/ Prompt \/ Responds
    BY <1>7, <1>19
       DEF Sends, SendAlertOk, SendAlertFail, SendResponse, SendResponseFail, Leave, Reconnect,
           PlotCommand, Prompt, Responds, Release
  <1>20. CASE Exit
    <2>1. \A i \in DOMAIN queue' : HasPlots(queue[i])'
      BY <1>20 DEF Exit
    <2> QED BY <1>1, <1>4, <1>6, <1>20, <2>1 DEF Exit, PlotInv
  <1>21. CASE OneoffPlot
    <2>1. /\ current'.since = current.since
          /\ current'.plots = Append(current.plots, NextPlot)
          /\ UNCHANGED <<clock, posts, queue>> /\ CreatePlot
      BY <1>21 DEF OneoffPlot, TypeOK, Alert
    <2>2. current.plots \in Seq(Nat) /\ current.since <= clock
      BY <1>3 DEF TypeOK, Alert, HasPlots
    <2>3. \A i \in DOMAIN current.plots :
              current.plots[i] \in DOMAIN made' /\ current.since <= made'[current.plots[i]]
      BY <1>2, <1>3 DEF HasPlots
    <2>4. NextPlot \in DOMAIN made' /\ made'[NextPlot] = clock
      BY <2>1, CreateAppends
    <2>5. ASSUME NEW i \in DOMAIN current'.plots
          PROVE  current'.plots[i] \in DOMAIN made' /\ current'.since <= made'[current'.plots[i]]
      <3>1. CASE i = Len(current.plots) + 1
        BY <2>1, <2>2, <2>4, <3>1
      <3>2. CASE i # Len(current.plots) + 1
        BY <2>1, <2>2, <2>3, <3>2
      <3> QED BY <3>1, <3>2
    <2>6. HasPlots(current)'
      BY <2>1, <2>2, <2>5 DEF HasPlots
    <2> QED BY <1>1, <1>4, <1>5, <2>1, <2>6 DEF PlotInv
  <1> QED
    BY <1>11, <1>12, <1>13, <1>14, <1>16, <1>17, <1>18, <1>19, <1>20, <1>21
       DEF Next, Conn

\* The inductive invariant: a plot that is gone is older than the limit, and those
\* of posts and alerts are not older than what they were made for.
THEOREM PlotInvCorrect == Spec => []PlotInv
  <1>1. TypeOK /\ PlotInv /\ [Next]_vars => PlotInv'
    BY NextPlotInv
  <1> QED BY <1>1, InitPlotInv, TypeCorrect, PTL DEF Spec

\* An alert within the age limit of its POST has every plot that was made for it, for
\* any number of connections, posts, plots and purges.
THEOREM PlotsAlwaysOutliveWait == Spec => []PlotsOutliveWait
  <1>1. ASSUME TypeOK, PlotInv PROVE PlotsOutliveWait
    <2> SUFFICES ASSUME NEW a \in {queue[i] : i \in DOMAIN queue} \cup {current},
                        clock - a.since <= AgeLimit,
                        NEW i \in DOMAIN a.plots
                 PROVE  a.plots[i] \in files
      BY DEF PlotsOutliveWait
    <2>1. HasPlots(a) /\ a.since \in Nat
      BY <1>1, SinceType DEF PlotInv
    <2> DEFINE p == a.plots[i]
    <2>2. p \in DOMAIN made /\ a.since <= made[p]
      BY <2>1 DEF HasPlots
    <2>3. p \notin files => clock - made[p] > AgeLimit
      BY <1>1, <2>2 DEF PlotInv, GoneIsOld
    <2>4. clock \in Nat /\ AgeLimit \in Nat /\ made[p] \in Nat
      BY <1>1, <2>2, DirectoryType
    <2> HIDE DEF p
    <2>5. p \in files
      BY <2>1, <2>2, <2>3, <2>4
    <2> QED BY <2>5 DEF p
  <1> QED BY <1>1, TypeCorrect, PlotInvCorrect, PTL
-----------------------------------------------------------------------------
(* The one place of an alert.                                              *)

\* The posts whose alerts are in a queue, and that none is there twice.
Ids(s) == {s[i].id : i \in DOMAIN s}
DistinctIds(s) == \A i, j \in DOMAIN s : s[i].id = s[j].id => i = j

\* The posts that have put their alerts somewhere; 0 is no post.
Placed == (Ids(queue) \cup {current.id} \cup sent \cup lost) \ {0}

\* No alert is in two places, and the loop has one in its hands only while it sends it.
AlertsApart ==
    /\ DistinctIds(queue)
    /\ current.id \notin Ids(queue) \cup sent \cup lost
    /\ Ids(queue) \cap sent = {} /\ Ids(queue) \cap lost = {} /\ sent \cap lost = {}
    /\ 0 \notin Ids(queue) \cup sent \cup lost
    /\ current.id = 0 <=> serving # "alert"
    /\ Placed \subseteq 1 .. arrived

\* What the task of a post has done so far.
TaskInv(p) ==
    /\ p.id \in 0 .. arrived
    /\ p.at = "idle" => p.id = 0
    /\ p.at \in {"body", "plot"} => p.id # 0 /\ p.id \notin Placed
    /\ p.at = "answer" /\ p.id # 0 => (p.status = 200 <=> p.id \in Placed)

\* A post is at one task or answered, and its answer says whether its alert is placed.
PostsApart ==
    /\ \A c \in Conns : TaskInv(posts[c])
    /\ \A c, d \in Conns : posts[c].id = posts[d].id /\ posts[c].id # 0 => c = d
    /\ \A a \in answered : /\ a.id \in 1 .. arrived
                           /\ a.status = 200 <=> a.id \in Placed
                           /\ \A c \in Conns : posts[c].id # a.id

PlaceInv == AlertsApart /\ PostsApart

\* An alert that is put at the end of the queue.
LEMMA IdsOfAppend ==
    ASSUME NEW s \in Seq(Alert), NEW a \in Alert
    PROVE  /\ Ids(Append(s, a)) = Ids(s) \cup {a.id}
           /\ DistinctIds(s) /\ a.id \notin Ids(s) => DistinctIds(Append(s, a))
  <1> DEFINE t == Append(s, a)
  <1>1. /\ DOMAIN t = DOMAIN s \cup {Len(s) + 1} /\ Len(s) + 1 \notin DOMAIN s
        /\ t[Len(s) + 1] = a /\ \A i \in DOMAIN s : t[i] = s[i]
    OBVIOUS
  <1> HIDE DEF t
  <1>2. Ids(t) = Ids(s) \cup {a.id}
    BY <1>1 DEF Ids
  <1>3. ASSUME DistinctIds(s), a.id \notin Ids(s) PROVE DistinctIds(t)
    <2>1. \A i \in DOMAIN s : s[i].id # a.id
      BY <1>3 DEF Ids
    <2> QED BY <1>1, <1>3, <2>1 DEF DistinctIds
  <1> QED BY <1>2, <1>3 DEF t

\* An alert that is taken from the head of the queue.
LEMMA IdsOfTail ==
    ASSUME NEW s \in Seq(Alert), s # <<>>
    PROVE  /\ Head(s) \in Alert
           /\ Ids(s) = Ids(Tail(s)) \cup {Head(s).id}
           /\ DistinctIds(s) => DistinctIds(Tail(s)) /\ Head(s).id \notin Ids(Tail(s))
  <1> DEFINE t == Tail(s)
  <1>1. /\ 1 \in DOMAIN s /\ Head(s) = s[1] /\ Head(s) \in Alert
        /\ \A i \in DOMAIN t : i + 1 \in DOMAIN s /\ t[i] = s[i + 1] /\ i + 1 # 1 /\ i \in Nat
        /\ \A i \in DOMAIN s : i # 1 => i - 1 \in DOMAIN t /\ t[i - 1] = s[i]
    OBVIOUS
  <1> HIDE DEF t
  <1>2. Ids(s) = Ids(t) \cup {Head(s).id}
    <2>1. \A i \in DOMAIN s : s[i].id \in Ids(t) \cup {Head(s).id}
      BY <1>1 DEF Ids
    <2>2. \A i \in DOMAIN t : t[i].id \in Ids(s)
      BY <1>1 DEF Ids
    <2>3. Head(s).id \in Ids(s)
      BY <1>1 DEF Ids
    <2> QED BY <2>1, <2>2, <2>3 DEF Ids
  <1>3. ASSUME DistinctIds(s) PROVE DistinctIds(t) /\ Head(s).id \notin Ids(t)
    <2>1. ASSUME NEW i \in DOMAIN t, NEW j \in DOMAIN t, t[i].id = t[j].id PROVE i = j
      <3>1. i + 1 \in DOMAIN s /\ j + 1 \in DOMAIN s /\ s[i + 1].id = s[j + 1].id
        BY <1>1, <2>1
      <3>2. i + 1 = j + 1
        BY <1>3, <3>1 DEF DistinctIds
      <3> QED BY <1>1, <3>2
    <2>2. \A i \in DOMAIN t : t[i].id # Head(s).id
      BY <1>1, <1>3 DEF DistinctIds
    <2> QED BY <2>1, <2>2 DEF DistinctIds, Ids
  <1> QED BY <1>1, <1>2, <1>3 DEF t

\* Steps of the loop move alerts from one place to another; so do steps that do not
\* touch them.
LEMMA LoopKeepsPlaced ==
    ASSUME TypeOK, AlertsApart, arrived' \in {arrived, arrived + 1},
           \/ TakeAlert \/ Sends \/ Leave \/ Reconnect \/ PlotCommand
           \/ Prompt \/ OneoffPlot \/ Responds \/ Exit
           \/ UNCHANGED <<queue, serving, current, sent, lost>>
    PROVE  AlertsApart' /\ Placed' = Placed
  <1> USE DEF AlertsApart
  <1>1. Nothing.id = 0 /\ queue \in Seq(Alert) /\ arrived \in Nat
    BY DEF Nothing, TypeOK
  <1>2. Placed' = Placed => Placed' \subseteq 1 .. arrived'
    BY <1>1
  <1>3. CASE /\ UNCHANGED <<queue, sent, lost>> /\ current'.id = current.id
             /\ serving' = "alert" <=> serving = "alert"
    BY <1>2, <1>3 DEF Placed
  <1>4. CASE TakeAlert
    <2>1. /\ queue' = Tail(queue) /\ current' = Head(queue) /\ serving' = "alert"
          /\ UNCHANGED <<sent, lost>> /\ queue # <<>> /\ current.id = 0
      BY <1>4 DEF TakeAlert
    <2>2. /\ Ids(queue) = Ids(queue') \cup {current'.id}
          /\ DistinctIds(queue') /\ current'.id \notin Ids(queue')
      BY <1>1, <2>1, IdsOfTail
    <2>3. Placed' = Placed
      BY <2>1, <2>2 DEF Placed
    <2> QED BY <1>2, <2>1, <2>2, <2>3
  <1>5. CASE SendAlertOk \/ SendAlertFail
    <2>1. /\ queue' = queue /\ current'.id = 0 /\ current.id # 0 /\ serving' # "alert"
          /\ \/ sent' = sent \cup {current.id} /\ lost' = lost
             \/ sent' = sent /\ lost' = lost \cup {current.id}
      BY <1>1, <1>5 DEF SendAlertOk, SendAlertFail, Release
    <2>2. Placed' = Placed
      BY <2>1 DEF Placed
    <2> QED BY <1>2, <2>1, <2>2
  <1>6. CASE SendResponse \/ SendResponseFail
    <2>1. UNCHANGED <<queue, sent, lost>> /\ current'.id = 0 /\ current.id = 0 /\ serving' # "alert"
      BY <1>1, <1>6 DEF SendResponse, SendResponseFail, Release
    <2> QED BY <1>3, <2>1
  <1>7. CASE Leave \/ Reconnect \/ PlotCommand \/ Prompt \/ Responds
    <2>1. UNCHANGED <<queue, sent, lost, current>> /\ serving # "alert" /\ serving' # "alert"
      BY <1>7 DEF Leave, Reconnect, PlotCommand, Prompt, Responds
    <2> QED BY <1>3, <2>1
  <1>8. CASE OneoffPlot
    <2>1. UNCHANGED <<queue, sent, lost>> /\ serving # "alert" /\ serving' # "alert"
      BY <1>8 DEF OneoffPlot
    <2>2. current'.id = current.id
      BY <1>8 DEF OneoffPlot, TypeOK, Alert
    <2> QED BY <1>3, <2>1, <2>2
  <1>9. CASE Exit
    <2>1. /\ queue' = <<>> /\ lost' = lost \cup Ids(queue) /\ serving' = "off"
          /\ UNCHANGED <<sent, current>> /\ current.id = 0
      BY <1>9 DEF Exit, Ids
    <2>2. Ids(queue') = {} /\ DistinctIds(queue')
      BY <2>1 DEF Ids, DistinctIds
    <2>3. Placed' = Placed
      BY <2>1, <2>2 DEF Placed
    <2> QED BY <1>2, <2>1, <2>2, <2>3
  <1> QED BY <1>3, <1>4, <1>5, <1>6, <1>7, <1>8, <1>9 DEF Sends

\* A task changes what it is at without taking another post, and no alert is placed.
LEMMA TaskKeepsPostsApart ==
    ASSUME PostsApart, arrived \in Nat, arrived' = arrived, NEW c \in Conns,
           \A d \in Conns \ {c} : posts'[d] = posts[d],
           posts'[c].id \in {0, posts[c].id},
           \A d \in Conns : TaskInv(posts[d])',
           \A a \in answered' : a.id \in 1 .. arrived /\ (a.status = 200 <=> a.id \in Placed'),
           \A a \in answered' : a \in answered \/ (a.id = posts[c].id /\ posts'[c].id = 0)
    PROVE  PostsApart'
  <1>1. \A d \in Conns : posts'[d].id \in {0, posts[d].id}
    OBVIOUS
  <1>2. \A d, e \in Conns : posts'[d].id = posts'[e].id /\ posts'[d].id # 0 => d = e
    BY <1>1 DEF PostsApart
  <1>3. ASSUME NEW a \in answered', NEW d \in Conns PROVE posts'[d].id # a.id
    <2>1. a.id # 0
      OBVIOUS
    <2>2. CASE a \in answered
      BY <1>1, <2>1, <2>2 DEF PostsApart
    <2>3. CASE a.id = posts[c].id /\ posts'[c].id = 0
      BY <1>1, <2>1, <2>3 DEF PostsApart
    <2> QED BY <2>2, <2>3
  <1> QED BY <1>2, <1>3 DEF PostsApart

\* Every step keeps alerts and posts apart.
LEMMA NextPlaceInv == ASSUME TypeOK, PlaceInv, [Next]_vars PROVE PlaceInv'
  <1> USE DEF PlaceInv
  <1>1. arrived \in Nat
    BY DEF TypeOK
  \* What is true of a task stays true while no alert is placed.
  <1>2. ASSUME Placed' = Placed, arrived' \in {arrived, arrived + 1}
        PROVE  /\ \A p : TaskInv(p) => TaskInv(p)'
               /\ \A a \in answered : a.id \in 1 .. arrived' /\ (a.status = 200 <=> a.id \in Placed')
    BY <1>1, <1>2 DEF TaskInv, PostsApart
  <1>3. ASSUME UNCHANGED <<posts, answered, arrived>>, Placed' = Placed PROVE PostsApart'
    BY <1>3 DEF PostsApart, TaskInv
  <1>4. CASE \/ TakeAlert \/ Sends \/ Leave \/ Reconnect \/ PlotCommand \/ Prompt \/ OneoffPlot
             \/ Responds \/ Exit \/ Tick \/ UNCHANGED vars
    <2>1. UNCHANGED <<posts, answered, arrived>>
      BY <1>4 DEF Sends, TakeAlert, SendAlertOk, SendAlertFail, SendResponse, SendResponseFail,
                  Leave, Reconnect, PlotCommand, Prompt, OneoffPlot, Responds, Exit, Tick, vars
    <2>2. AlertsApart' /\ Placed' = Placed
      BY <1>4, <2>1, LoopKeepsPlaced DEF Tick, vars, loopVars
    <2> QED BY <1>3, <2>1, <2>2
  <1>5. ASSUME NEW c \in Conns, NEW r \in Requests, Ask(c, r) PROVE PlaceInv'
    <2>1. /\ UNCHANGED <<queue, loopVars, answered>> /\ arrived' = arrived + 1
          /\ posts[c].at = "idle"
      BY <1>5 DEF Ask
    <2>2. AlertsApart' /\ Placed' = Placed
      BY <2>1, LoopKeepsPlaced DEF loopVars
    <2>3. PICK p : /\ posts' = [posts EXCEPT ![c] = p]
                   /\ \/ p.at = "body" /\ p.id = arrived + 1
                      \/ p.at = "answer" /\ p.id = 0
      <3>1. CASE Status(r) = 0
        <4> DEFINE q == [Idle EXCEPT !.at = "body", !.id = arrived + 1]
        <4>1. posts' = [posts EXCEPT ![c] = q]
          BY <1>5, <3>1 DEF Ask
        <4>2. q.at = "body" /\ q.id = arrived + 1
          BY DEF Idle
        <4> QED BY <4>1, <4>2
      <3>2. CASE Status(r) # 0
        <4> DEFINE q == [Idle EXCEPT !.at = "answer", !.status = Status(r)]
        <4>1. posts' = [posts EXCEPT ![c] = q]
          BY <1>5, <3>2 DEF Ask
        <4>2. q.at = "answer" /\ q.id = 0
          BY DEF Idle
        <4> QED BY <4>1, <4>2
      <3> QED BY <3>1, <3>2
    <2>4. arrived + 1 \notin Placed /\ arrived + 1 # 0
      BY <1>1 DEF AlertsApart
    <2>5. TaskInv(p)'
      BY <1>1, <2>1, <2>2, <2>3, <2>4 DEF TaskInv
    <2>6. \A d \in Conns : posts'[d] = IF d = c THEN p ELSE posts[d]
      BY <2>3 DEF TypeOK
    <2>7. \A d \in Conns : TaskInv(posts[d])'
      <3> TAKE d \in Conns
      <3>1. TaskInv(posts[d]) /\ (d # c => posts'[d] = posts[d]) /\ (d = c => posts'[d] = p)
        BY <2>6 DEF PostsApart
      <3> QED BY <1>2, <2>1, <2>2, <2>5, <3>1 DEF TaskInv
    <2>8. \A d \in Conns : posts[d].id \in 0 .. arrived
      BY DEF PostsApart, TaskInv
    <2>9. \A d \in Conns : posts[d].id # arrived + 1
      BY <1>1, <2>8
    <2>10. \A d, e \in Conns : posts'[d].id = posts'[e].id /\ posts'[d].id # 0 => d = e
      BY <2>3, <2>6, <2>9 DEF PostsApart
    <2>11. \A a \in answered : a.id # arrived + 1 /\ a.id # 0
      BY <1>1 DEF PostsApart
    <2>12. \A a \in answered : \A d \in Conns : posts'[d].id # a.id
      BY <2>3, <2>6, <2>11 DEF PostsApart
    <2>13. PostsApart'
      BY <1>2, <2>1, <2>2, <2>7, <2>10, <2>12 DEF PostsApart
    <2> QED BY <2>2, <2>13
  <1>6. ASSUME NEW c \in Conns,
               \/ \E r \in Requests : Body(c, r) \/ BadBody(c, r)
               \/ PlotOk(c) \/ PlotFail(c) \/ NoPlot(c) \/ Answer(c) \/ Disconnect(c)
        PROVE  PlaceInv'
    <2>1. UNCHANGED <<queue, loopVars, arrived>>
      BY <1>6 DEF Body, BadBody, PlotOk, PlotFail, NoPlot, Answer, Disconnect
    <2>2. AlertsApart' /\ Placed' = Placed
      BY <2>1, LoopKeepsPlaced DEF loopVars
    <2>3. TaskInv(posts[c]) /\ posts[c] \in Post
      BY DEF PostsApart, TypeOK
    <2>4. PICK p : /\ posts' = [posts EXCEPT ![c] = p]
                   /\ \/ /\ p.id = posts[c].id /\ posts[c].at \in {"body", "plot"}
                         /\ p.at = "plot" \/ (p.at = "answer" /\ p.status = 400)
                      \/ p = Idle
      <3>1. CASE PlotOk(c)
        <4> DEFINE q == [posts[c] EXCEPT !.todo = Tail(posts[c].todo),
                                         !.plots = Append(posts[c].plots, NextPlot)]
        <4>1. posts' = [posts EXCEPT ![c] = q]
          BY <3>1 DEF PlotOk
        <4>2. q.at = "plot" /\ q.id = posts[c].id /\ posts[c].at = "plot"
          BY <2>3, <3>1 DEF Post, PlotOk, AwaitsPrometheus
        <4> QED BY <4>1, <4>2
      <3>2. CASE PlotFail(c) \/ NoPlot(c)
        <4> DEFINE q == [posts[c] EXCEPT !.todo = Tail(@)]
        <4>1. posts' = [posts EXCEPT ![c] = q]
          BY <3>2 DEF PlotFail, NoPlot
        <4>2. q.at = "plot" /\ q.id = posts[c].id /\ posts[c].at = "plot"
          BY <2>3, <3>2 DEF Post, PlotFail, NoPlot, AwaitsPrometheus
        <4> QED BY <4>1, <4>2
      <3>3. CASE Answer(c) \/ Disconnect(c)
        BY <3>3 DEF Answer, Disconnect
      <3>4. ASSUME NEW r \in Requests, Body(c, r)
            PROVE  \E p : /\ posts' = [posts EXCEPT ![c] = p] /\ p.at = "plot"
                          /\ p.id = posts[c].id /\ posts[c].at = "body"
        <4> DEFINE q == [Idle EXCEPT !.at = "plot", !.id = posts[c].id, !.since = clock,
                                     !.todo = r.alerts]
        <4>1. posts' = [posts EXCEPT ![c] = q] /\ posts[c].at = "body"
          BY <3>4 DEF Body
        <4>2. q.at = "plot" /\ q.id = posts[c].id
          BY DEF Idle
        <4> QED BY <4>1, <4>2
      <3>5. ASSUME NEW r \in Requests, BadBody(c, r)
            PROVE  \E p : /\ posts' = [posts EXCEPT ![c] = p] /\ p.at = "answer"
                          /\ p.status = 400 /\ p.id = posts[c].id /\ posts[c].at = "body"
        <4> DEFINE q == [Idle EXCEPT !.at = "answer", !.id = posts[c].id, !.status = 400]
        <4>1. posts' = [posts EXCEPT ![c] = q] /\ posts[c].at = "body"
          BY <3>5 DEF BadBody
        <4>2. q.at = "answer" /\ q.status = 400 /\ q.id = posts[c].id
          BY DEF Idle
        <4> QED BY <4>1, <4>2
      <3> QED BY <1>6, <3>1, <3>2, <3>3, <3>4, <3>5
    <2>5. /\ posts'[c] = p /\ p.id \in {0, posts[c].id}
          /\ \A d \in Conns \ {c} : posts'[d] = posts[d]
      BY <2>4 DEF TypeOK, Idle
    <2>6. \A d \in Conns : TaskInv(posts[d])'
      <3> TAKE d \in Conns
      <3>1. CASE d = c
        BY <1>1, <2>1, <2>2, <2>3, <2>4, <2>5, <3>1 DEF TaskInv, Idle
      <3>2. CASE d # c
        <4>1. posts'[d] = posts[d] /\ TaskInv(posts[d])
          BY <2>5, <3>2 DEF PostsApart
        <4> QED BY <2>1, <2>2, <4>1 DEF TaskInv
      <3> QED BY <3>1, <3>2
    <2>7. ASSUME NEW a \in answered'
          PROVE  /\ a.id \in 1 .. arrived
                 /\ a.status = 200 <=> a.id \in Placed'
                 /\ a \in answered \/ (a.id = posts[c].id /\ p.id = 0)
      <3>1. CASE a \in answered
        BY <1>2, <2>1, <2>2, <3>1
      <3>2. CASE a \notin answered
        <4>1. /\ a = [id |-> posts[c].id, status |-> posts[c].status]
              /\ posts[c].id # 0 /\ posts[c].at = "answer"
          BY <1>6, <2>7, <3>2 DEF Body, BadBody, PlotOk, PlotFail, NoPlot, Answer, Disconnect
        <4>2. a.id \in 1 .. arrived /\ (a.status = 200 <=> a.id \in Placed)
          BY <1>1, <2>3, <4>1 DEF TaskInv
        <4>3. p.id = 0
          BY <2>4, <4>1 DEF Idle
        <4> QED BY <2>1, <2>2, <4>1, <4>2, <4>3
      <3> QED BY <3>1, <3>2
    <2>8. PostsApart'
      BY <1>1, <2>1, <2>5, <2>6, <2>7, TaskKeepsPostsApart
    <2> QED BY <2>2, <2>8
  <1>7. ASSUME NEW c \in Conns, Enqueue(c) PROVE PlaceInv'
    <2>1. /\ UNCHANGED <<loopVars, answered, arrived>> /\ posts[c].at = "plot"
          /\ TaskInv(posts[c]) /\ posts[c] \in Post /\ queue \in Seq(Alert)
      BY <1>7 DEF Enqueue, PostsApart, TypeOK
    <2>2. PICK p : /\ posts' = [posts EXCEPT ![c] = p]
                   /\ p.id = posts[c].id /\ p.at = "answer"
                   /\ p.status = IF serving = "off" THEN 500 ELSE 200
      <3> DEFINE s == IF serving = "off" THEN 500 ELSE 200
                 q == [posts[c] EXCEPT !.at = "answer", !.status = s]
      <3>1. posts' = [posts EXCEPT ![c] = q]
        BY <1>7 DEF Enqueue
      <3> HIDE DEF s
      <3>2. q.id = posts[c].id /\ q.at = "answer" /\ q.status = s
        BY <2>1 DEF Post
      <3>3. s = IF serving = "off" THEN 500 ELSE 200
        BY DEF s
      <3> HIDE DEF q
      <3> QED BY ONLY <3>1, <3>2, <3>3
    <2>3. posts[c].id \in 1 .. arrived /\ posts[c].id \notin Placed
      BY <1>1, <2>1 DEF TaskInv
    <2>6. /\ posts'[c] = p /\ posts'[c].id \in {0, posts[c].id}
          /\ \A d \in Conns \ {c} : posts'[d] = posts[d]
      BY <2>2 DEF TypeOK
    \* Nobody reads the queue any more.
    <2>4. CASE serving = "off"
      <3>1. AlertsApart' /\ Placed' = Placed
        BY <1>7, <2>1, <2>4, LoopKeepsPlaced DEF Enqueue, loopVars
      <3>2. \A d \in Conns : TaskInv(posts[d])'
        <4> TAKE d \in Conns
        <4>1. CASE d = c
          BY <2>1, <2>2, <2>3, <2>4, <2>6, <3>1, <4>1 DEF TaskInv
        <4>2. CASE d # c
          <5>1. posts'[d] = posts[d] /\ TaskInv(posts[d])
            BY <2>6, <4>2 DEF PostsApart
          <5> QED BY <2>1, <3>1, <5>1 DEF TaskInv
        <4> QED BY <4>1, <4>2
      <3>3. \A a \in answered' : /\ a.id \in 1 .. arrived /\ (a.status = 200 <=> a.id \in Placed')
                                 /\ a \in answered
        BY <1>2, <2>1, <3>1
      <3>4. PostsApart'
        BY ONLY <1>1, <2>1, <2>6, <3>2, <3>3, PlaceInv, TaskKeepsPostsApart DEF PlaceInv
      <3> QED BY <3>1, <3>4
    <2>5. CASE serving # "off"
      <3> DEFINE a == [id |-> posts[c].id, since |-> posts[c].since, plots |-> posts[c].plots]
      <3>1. a \in Alert /\ a.id = posts[c].id
        BY <2>1 DEF Post, Alert
      <3>2. queue' = Append(queue, a)
        BY <1>7, <2>5 DEF Enqueue
      <3> HIDE DEF a
      <3>3. posts[c].id \notin Ids(queue) \cup {current.id} \cup sent \cup lost /\ posts[c].id # 0
        BY <1>1, <2>3 DEF Placed
      <3>4. /\ Ids(queue') = Ids(queue) \cup {posts[c].id} /\ DistinctIds(queue')
            /\ UNCHANGED <<serving, current, sent, lost, arrived>>
        BY <2>1, <3>1, <3>2, <3>3, IdsOfAppend DEF AlertsApart, loopVars
      <3>5. Placed' = Placed \cup {posts[c].id}
        BY <3>3, <3>4 DEF Placed
      <3>6. AlertsApart'
        BY <2>3, <3>3, <3>4, <3>5 DEF AlertsApart
      <3>7. \A d \in Conns : TaskInv(posts[d])'
        <4> TAKE d \in Conns
        <4>1. CASE d = c
          BY <2>1, <2>2, <2>3, <2>5, <2>6, <3>5, <4>1 DEF TaskInv
        <4>2. CASE d # c
          <5>1. posts'[d] = posts[d] /\ TaskInv(posts[d]) /\ posts[d].id # posts[c].id
            BY <2>6, <3>3, <4>2 DEF PostsApart
          <5> QED BY <2>1, <3>5, <5>1 DEF TaskInv
        <4> QED BY <4>1, <4>2
      <3>8. \A b \in answered' : /\ b.id \in 1 .. arrived /\ (b.status = 200 <=> b.id \in Placed')
                                 /\ b \in answered
        BY <2>1, <3>5 DEF PostsApart
      <3>9. PostsApart'
        BY ONLY <1>1, <2>1, <2>6, <3>7, <3>8, PlaceInv, TaskKeepsPostsApart DEF PlaceInv
      <3> QED BY <3>6, <3>9
    <2> QED BY <2>4, <2>5
  <1> QED BY <1>4, <1>5, <1>6, <1>7 DEF Next, Conn

\* An alert that is placed is in one place, for PostsAccounted counts places.
LEMMA OnePlace ==
    ASSUME AlertsApart, NEW id \in 1 .. arrived
    PROVE  /\ id \notin Placed => Places(id) = {}
           /\ id \in Placed => Cardinality(Places(id)) = 1
  <1>0. id # 0
    OBVIOUS
  <1>1. \A p \in Places(id) :
            \/ \E i \in DOMAIN queue : queue[i].id = id /\ p = <<"queue", i>>
            \/ current.id = id /\ p = <<"hand">>
            \/ id \in sent /\ p = <<"sent">>
            \/ id \in lost /\ p = <<"lost">>
    BY DEF Places
  <1>2. id \notin Placed => Places(id) = {}
    BY <1>0, <1>1 DEF Placed, Ids
  <1>3. ASSUME id \in Placed PROVE \E p : Places(id) = {p}
    <2>1. \E p : p \in Places(id)
      <3>1. CASE \E i \in DOMAIN queue : queue[i].id = id
        BY <3>1 DEF Places
      <3>2. CASE current.id = id
        BY <3>2 DEF Places
      <3>3. CASE id \in sent \cup lost
        BY <3>3 DEF Places
      <3> QED BY <1>3, <3>1, <3>2, <3>3 DEF Placed, Ids
    <2>2. ASSUME NEW p \in Places(id), NEW q \in Places(id) PROVE p = q
      BY <1>1 DEF AlertsApart, DistinctIds, Ids
    <2> QED BY <2>1, <2>2
  <1>4. \A p : Cardinality({p}) = 1
    BY FS_Singleton
  <1> QED BY <1>2, <1>3, <1>4

\* A POST that is answered with OK has put its alert in exactly one place, and one
\* that is answered with an error in none, for any number of connections, requests,
\* plots and commands, and wherever the loop is stopped.
THEOREM PostsAlwaysAccounted == Spec => []PostsAccounted
  <1>1. Init => PlaceInv
    BY DEF Init, PlaceInv, AlertsApart, PostsApart, TaskInv, Placed, Ids, DistinctIds,
           Idle, Nothing
  <1>2. TypeOK /\ PlaceInv /\ [Next]_vars => PlaceInv'
    BY NextPlaceInv
  <1>3. ASSUME PlaceInv PROVE PostsAccounted
    <2> SUFFICES ASSUME NEW id \in 1 .. arrived
                 PROVE  /\ Cardinality(Places(id)) <= 1
                        /\ \A a \in answered : a.id = id =>
                               Cardinality(Places(id)) = (IF a.status = 200 THEN 1 ELSE 0)
                        /\ \A c \in Conns : posts[c].id = id /\ posts[c].at \in {"body", "plot"}
                                           => Places(id) = {}
      BY DEF PostsAccounted
    <2>1. /\ id \notin Placed => Places(id) = {} /\ Cardinality(Places(id)) = 0
          /\ id \in Placed => Cardinality(Places(id)) = 1
      BY <1>3, OnePlace, FS_EmptySet DEF PlaceInv
    <2>2. /\ \A a \in answered : a.status = 200 <=> a.id \in Placed
          /\ \A c \in Conns : posts[c].at \in {"body", "plot"} => posts[c].id \notin Placed
      BY <1>3 DEF PlaceInv, PostsApart, TaskInv
    <2> QED BY <2>1, <2>2
  <1> QED BY <1>1, <1>2, <1>3, TypeCorrect, PTL DEF Spec
=============================================================================
