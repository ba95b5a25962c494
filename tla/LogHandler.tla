----------------------------- MODULE LogHandler -----------------------------
(***************************************************************************)
(* LogHandler (signal-gateway/src/gateway/log_handler.rs) with its per-    *)
(* origin LogBuffers (log_buffer.rs, circular_buffer.rs).  Every message   *)
(* is handled by a task of its own that runs handle_log_message: the task  *)
(* and the message are one here.                                           *)
(*                                                                         *)
(* The map of buffers is used atomically, as LazyMap's properties justify: *)
(* a buffer in use is not removed, and len is exact.  What                 *)
(* check_rate_limiters answers is left open.  Times are integers: the      *)
(* clock counts milliseconds, message timestamps count seconds.            *)
(***************************************************************************)
EXTENDS Integers, Sequences, FiniteSets, SequencesExt, Functions

CONSTANTS Messages, NoMessage,
          Origins,
          Destinations,   \* destination overrides, with the one for "none"
          Suppressed,     \* the verdict of a message that is not alerted on
          Capacity,       \* LogHandlerConfig.log_buffer_size
          MaxAge,         \* LogHandlerConfig.max_origin_age, in seconds
          CheckupPeriod,  \* LazyMapCleaner.min_checkup_period, in seconds
          MsPerSec,       \* milliseconds in a second, scaled down
          Start,          \* the clock at the start, in milliseconds
          Ticks,          \* by how much the clock may advance at once
          Lags,           \* how many seconds a message may be late
          MaxClock        \* bound of the clock

ASSUME HandlerAssumption ==
    /\ NoMessage \notin Messages
    /\ Suppressed \notin Destinations
    /\ Capacity \in Nat \ {0}
    /\ MaxAge \in Nat /\ CheckupPeriod \in Nat
    /\ MsPerSec \in Nat \ {0}
    /\ Start \in Nat /\ MaxClock \in Nat
    /\ Ticks \subseteq Nat
    /\ Lags \subseteq Nat /\ \A lag \in Lags : lag <= Start \div MsPerSec

VARIABLES
    clock,        \* the wall clock, in milliseconds
    origin,       \* the origin of each message
    stage,        \* how far handle_log_message has come
    verdict,      \* rate_limit_result
    stamp,        \* get_timestamp_or_fallback of the message, in seconds
    now,          \* handle_log_message's now, in milliseconds
    text,         \* the messages formatted into formatted_text, newest first
    present,      \* the origins that have a buffer
    buffer,       \* the buffers, oldest message first
    cleaner,      \* the message whose task holds the cleaner's mutex
    lastSize, lastCheckup,  \* CleanerState
    queue,        \* the alerts sent to the gateway's loop, in order
    log,          \* history: every message put into each origin's buffers
    lost          \* history: messages evicted or cleaned up before any alert

task == <<stage, verdict, stamp, now, text>>
buffers == <<present, buffer, log, lost>>
cleanup == <<cleaner, lastSize, lastCheckup>>
vars == <<clock, origin, stage, verdict, stamp, now, text, present, buffer,
          cleaner, lastSize, lastCheckup, queue, log, lost>>

Alert == [trigger : Messages, origin : Origins, destination : Destinations,
          text : Seq(Messages)]

TypeOK ==
    /\ clock \in Nat
    /\ origin \in [Messages -> Origins]
    /\ stage \in [Messages -> {"new", "push", "send", "clean", "retain", "done"}]
    /\ verdict \in [Messages -> Destinations \cup {Suppressed}]
    /\ stamp \in [Messages -> Nat]
    /\ now \in [Messages -> Nat]
    /\ text \in [Messages -> Seq(Messages)]
    /\ present \subseteq Origins
    /\ buffer \in [Origins -> Seq(Messages)]
    /\ \A o \in Origins : Len(buffer[o]) <= Capacity
    /\ cleaner \in Messages \cup {NoMessage}
    /\ lastSize \in Nat /\ lastCheckup \in Nat
    /\ queue \in Seq(Alert)
    /\ log \in [Origins -> Seq(Messages)]
    /\ lost \subseteq Messages

Init ==
    /\ clock = Start
    /\ origin \in [Messages -> Origins]
    /\ stage = [m \in Messages |-> "new"]
    /\ verdict = [m \in Messages |-> Suppressed]
    /\ stamp = [m \in Messages |-> 0]
    /\ now = [m \in Messages |-> 0]
    /\ text = [m \in Messages |-> <<>>]
    /\ present = {}
    /\ buffer = [o \in Origins |-> <<>>]
    /\ cleaner = NoMessage
    /\ lastSize = 0 /\ lastCheckup = 0
    /\ queue = <<>>
    /\ log = [o \in Origins |-> <<>>]
    /\ lost = {}

Goto(m, s) == stage' = [stage EXCEPT ![m] = s]

Tick(d) ==
    /\ clock + d <= MaxClock
    /\ clock' = clock + d
    /\ UNCHANGED <<origin, task, buffers, cleanup, queue>>
-----------------------------------------------------------------------------
(* The message is judged and the time is read.                             *)

Judge(m, v, lag) ==
    /\ stage[m] = "new"
    /\ verdict' = [verdict EXCEPT ![m] = v]
    /\ stamp' = [stamp EXCEPT ![m] = clock \div MsPerSec - lag]
    /\ now' = [now EXCEPT ![m] = clock]
    /\ Goto(m, "push")
    /\ UNCHANGED <<clock, origin, text, buffers, cleanup, queue>>
-----------------------------------------------------------------------------
(* log_buffers.get: the buffer is created if need be and changed under its *)
(* mutex.                                                                  *)

\* A mutant of PushBack: the newest message makes room.
PushBackDropsNewest(s, m) ==
    Append(IF Len(s) = Capacity THEN Front(s) ELSE s, m)

\* CircularBuffer.push_back: the oldest message makes room.
PushBack(s, m) ==
    Append(IF Len(s) = Capacity THEN Tail(s) ELSE s, m)

\* The message that push_back drops.
Evicted(s) == IF Len(s) = Capacity THEN {Head(s)} ELSE {}

\* What buffering m does whether or not the buffer is then drained.
Buffered(m) ==
    /\ present' = present \cup {origin[m]}
    /\ lost' = lost \cup Evicted(buffer[origin[m]])
    /\ log' = [log EXCEPT ![origin[m]] = Append(@, m)]

\* LogBuffer.push_back
Push(m) ==
    /\ stage[m] = "push"
    /\ verdict[m] = Suppressed
    /\ Buffered(m)
    /\ buffer' = [buffer EXCEPT ![origin[m]] = PushBack(@, m)]
    /\ Goto(m, "clean")
    /\ UNCHANGED <<clock, origin, verdict, stamp, now, text, cleanup, queue>>

\* A mutant of PushAndDrain: the buffer is not cleared.
PushAndDrainKeeps(m) ==
    /\ stage[m] = "push"
    /\ verdict[m] # Suppressed
    /\ Buffered(m)
    /\ text' = [text EXCEPT ![m] = Reverse(PushBack(buffer[origin[m]], m))]
    /\ buffer' = [buffer EXCEPT ![origin[m]] = PushBack(@, m)]
    /\ Goto(m, "send")
    /\ UNCHANGED <<clock, origin, verdict, stamp, now, cleanup, queue>>

\* LogBuffer.push_back_and_drain: formatted newest first, and cleared.
PushAndDrain(m) ==
    /\ stage[m] = "push"
    /\ verdict[m] # Suppressed
    /\ Buffered(m)
    /\ text' = [text EXCEPT ![m] = Reverse(PushBack(buffer[origin[m]], m))]
    /\ buffer' = [buffer EXCEPT ![origin[m]] = <<>>]
    /\ Goto(m, "send")
    /\ UNCHANGED <<clock, origin, verdict, stamp, now, cleanup, queue>>

\* A mutant of Send: the queue is bounded and an alert it has no room for is
\* dropped.
SendIfRoom(m) ==
    /\ stage[m] = "send"
    /\ queue' = IF queue # <<>> THEN queue
                ELSE <<[trigger |-> m, origin |-> origin[m],
                        destination |-> verdict[m], text |-> text[m]]>>
    /\ text' = [text EXCEPT ![m] = <<>>]
    /\ Goto(m, "clean")
    /\ UNCHANGED <<clock, origin, verdict, stamp, now, buffers, cleanup>>

\* The alert is sent after every lock was released.
Send(m) ==
    /\ stage[m] = "send"
    /\ queue' = Append(queue, [trigger |-> m, origin |-> origin[m],
                               destination |-> verdict[m], text |-> text[m]])
    /\ text' = [text EXCEPT ![m] = <<>>]
    /\ Goto(m, "clean")
    /\ UNCHANGED <<clock, origin, verdict, stamp, now, buffers, cleanup>>
-----------------------------------------------------------------------------
(* maybe_clean(now.timestamp_millis()), whose now and whose age, period    *)
(* and buffers' ts_secs are in different units.                            *)

\* LogBuffer.ts_secs: the timestamp of the newest message.
TsSecs(o) == IF buffer[o] = <<>> THEN 0 ELSE stamp[Last(buffer[o])]

\* The time a task passes to maybe_clean.
CleanTime(m) == now[m]

Due(m) == \/ Cardinality(present) >= 2 * (IF lastSize = 0 THEN 1 ELSE lastSize)
          \/ lastCheckup + CheckupPeriod < CleanTime(m)

\* try_lock fails, or there is nothing to do.
SkipClean(m) ==
    /\ stage[m] = "clean"
    /\ cleaner # NoMessage \/ ~Due(m)
    /\ Goto(m, "done")
    /\ UNCHANGED <<clock, origin, verdict, stamp, now, text, buffers, cleanup, queue>>

StartClean(m) ==
    /\ stage[m] = "clean"
    /\ cleaner = NoMessage
    /\ Due(m)
    /\ cleaner' = m
    /\ Goto(m, "retain")
    /\ UNCHANGED <<clock, origin, verdict, stamp, now, text, buffers, lastSize,
                   lastCheckup, queue>>

Kept(m) == {o \in present : TsSecs(o) >= CleanTime(m) - MaxAge}

\* retain runs under the map's write lock; then the cleaner's mutex is released.
Retain(m) ==
    /\ stage[m] = "retain"
    /\ present' = Kept(m)
    /\ buffer' = [o \in Origins |-> IF o \in Kept(m) THEN buffer[o] ELSE <<>>]
    /\ lost' = lost \cup UNION {Range(buffer[o]) : o \in present \ Kept(m)}
    /\ lastSize' = Cardinality(Kept(m))
    /\ lastCheckup' = CleanTime(m)
    /\ cleaner' = NoMessage
    /\ Goto(m, "done")
    /\ UNCHANGED <<clock, origin, verdict, stamp, now, text, log, queue>>
-----------------------------------------------------------------------------
Step(m) == \/ Push(m) \/ PushAndDrain(m) \/ Send(m)
           \/ SkipClean(m) \/ StartClean(m) \/ Retain(m)

Next ==
    \/ \E d \in Ticks : Tick(d)
    \/ \E m \in Messages :
        \/ \E v \in Destinations \cup {Suppressed}, lag \in Lags : Judge(m, v, lag)
        \/ Step(m)

Spec == Init /\ [][Next]_vars

\* A task that handles a message runs to its end: it awaits nothing.
FairSpec == Spec /\ \A m \in Messages : WF_vars(Step(m))
-----------------------------------------------------------------------------
(* Properties.                                                             *)

\* Every message is in one place: in a buffer, in one alert (being formatted or
\* sent), or lost to a newer message or a cleanup.  No interleaving of tasks
\* reports a message in two alerts, leaves one that was reported in
\* a buffer, or makes it vanish.
AccountedOnce ==
    \A m \in Messages : stage[m] \notin {"new", "push"} =>
        Cardinality({o \in Origins : m \in Range(buffer[o])})
          + Cardinality({n \in Messages : m \in Range(text[n])})
          + Cardinality({i \in DOMAIN queue : m \in Range(queue[i].text)})
          + (IF m \in lost THEN 1 ELSE 0)
        = 1

\* A text is a stretch of a log, newest first, and begins with a message.
Stretch(s, m, l) ==
    /\ s # <<>> /\ Head(s) = m
    /\ \E i, k \in DOMAIN l : Reverse(s) = SubSeq(l, i, k)

\* The text of an alert is a stretch of its origin's log, newest first, that
\* begins with the message the alert is about (which Summary::Prefix shows
\* alone): other origins' messages, gaps and reorderings never occur in it,
\* though other tasks push to and drain the same buffer.
AlertIsRecentLog ==
    /\ \A m \in Messages : stage[m] = "send" => Stretch(text[m], m, log[origin[m]])
    /\ \A i \in DOMAIN queue :
           LET m == queue[i].trigger
           IN  Stretch(queue[i].text, m, log[origin[m]]) /\ queue[i].destination = verdict[m]

\* What max_origin_age promises ("Max age of an origin, after this we remove
\* it"): a buffer whose newest message is younger than that, by the clock,
\* is not removed.
RecentOriginKept ==
    [][\A o \in Origins :
         o \in present /\ TsSecs(o) + MaxAge >= clock \div MsPerSec => o \in present']_vars

\* A message that passes the rate limiters is alerted on, exactly once, and its
\* task ends.
EveryPassingMessageAlerts ==
    \A m \in Messages :
        (stage[m] = "push" /\ verdict[m] # Suppressed) ~>
            /\ stage[m] = "done"
            /\ Cardinality({i \in DOMAIN queue : queue[i].trigger = m}) = 1
=============================================================================
