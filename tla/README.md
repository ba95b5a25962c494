# Verification of signal-gateway

TLA+ specifications of signal-gateway, a service that turns log messages and Prometheus
alerts into Signal messages for its administrators, and lets them send commands and talk to
an AI assistant. The specifications are translated from the Rust source under `src/`;
paths below are relative to `src/signal-gateway/src/` unless they start with another crate.

`PROJECT.json` holds the machine-readable side: the components, the runs, for every modelled
definition the source lines it stands for, for every checked property a mutant of the model
that breaks it, the hazards the properties are aimed at, and the theorems.

    tlc -config MCGateway.cfg MCGateway        # one run; the others are listed below
    tlapm MultiRateLimiterProofs.tla           # one set of proofs

## 1. The system

Log messages come in over syslog or JSON, UDP or TCP. Each is handled by a task of its own:
it is judged by routes and rate limiters, put into its origin's log buffer and, when it
passes, sent with the buffer's other messages to the *alert queue*. Alertmanager's webhook
feeds the same queue. A single task, the *gateway loop*, holds the connection to signal-cli:
it sends the alerts, reads the admins' messages, runs their commands and passes prompts to
the *assistant's worker*, a third kind of task with a bounded queue.

    syslog/json -> handle_log_message -> routes, limiter sets -> log buffers -\
                        (one task per message)                                  > alert queue -> gateway loop <-> signal-cli
    alertmanager webhook -----------------------------------------------------/                      |  ^
                                                                                      input, stops  v  |  answers
                                                                                   assistant worker -> Claude -> tools

| Component (source) | State | Operations | Hard behaviour | Correct when |
|---|---|---|---|---|
| Rate limiter (`rate_limiter.rs`) | ring of the N newest timestamps and its oldest slot behind a mutex; the newest in an atomic | `evaluate` | concurrent callers; timestamps out of order; in-place insertion in a ring in two loops; publication after the mutex is released | the ring is sorted, what falls out is the oldest, the verdict is about N + 1 events in the window, `latest` is the newest |
| Lazy map and cleaner (`concurrent_map.rs`, `lazy_map_cleaner.rs`) | HashMap behind an RwLock, cached length, cleaner state behind a mutex | `get`, `retain`, `maybe_clean` | check under the read lock, create under the write lock; `try_lock` cleaning by any caller; decisions from an old length | nothing created twice, the length exact, entries in use or recent survive, nobody blocks for ever |
| Limiter sequence and set (`limiter_sequence.rs`, `gateway/rate_limiter_set.rs`) | a lazy map from origin to limiters, global limiters; per limiter a ring, or a map of rings by source location | `evaluate` | every limiter counts, the first that blocks is reported; cleanup in between, also of the locations | limits count what reaches them whatever others say; forgetting old limiters changes no answer |
| Log handler and buffers (`gateway/log_handler.rs`, `log_buffer.rs`, `circular_buffer.rs`) | a lazy map from origin to a bounded buffer | `handle_log_message`, `format_logs` | push and drain by concurrent tasks, eviction, cleanup, send after the locks | each message in one place, alerts are a stretch of one log, every passing message alerts once |
| Routes (`gateway/route.rs`, `log_message.rs`, `gateway/log_handler.rs`) | limiter sets per route, overall limiters | `check_rate_limiters` | every route is evaluated, the overall limits only after one passed; other messages at the same time | overall limits count a message once and cap the alerts |
| Gateway loop (`gateway/mod.rs`) | alert queue, connection, subscription, token | `run`, webhook, commands | failing calls, reconnects, one thing at a time, cancellation | alerts in order, lost only by a failed send; the loop ends when cancelled |
| Command router (`gateway/command_router.rs`) | routes by prefix | `build`, `route` | the first match wins; `build` refuses a table with a route that cannot be reached | what is typed goes to the longest prefix of it |
| Assistant agent and worker (`assistant/`) | two bounded channels, the running call, one-shot answers | `request`, `record_message`, `request_stop`, ... | stop and shutdown racing a call, drains, full queues | every request is answered, every accepted message reaches the history in order |
| Claude assistant (`signal-gateway-assistant/claude`) | message buffer and its size, summary, time of the last compaction | `record_message`, `prompt`, `compact` | cancellation at every await, failing API, compaction between other steps | nothing forgotten but by compaction or rate-limited drop; a valid conversation; cancelled calls return where they look at their token |
| Trust set (`signal-cli-jsonrpc-client/trust_set.rs`) | configured admins; identities at signal-cli | `update_trust`, `is_trusted` | partial failure over several RPCs | only configured safety numbers are trusted after Ok |
| Code tool (`signal-gateway-code-tool`) | cached tarball and its version behind a mutex, line index per file | `ls`, `find`, `read`, `search`, refresh | the version is asked for before the lock; loading may fail or be dropped in the middle | answers come from a version deployed while the call ran; stale rather than nothing; lines and matches are the file's |
| Log ingestion (`signal-gateway-log-ingest`) | a framing state per connection | UDP and TCP readers, path prefixes | frames in pieces, two framings of syslog, three ends of a line, JSON over several lines | frames are the sender's messages; only a broken sender is cut off |
| HTTP listener, alert posts, plots (`signal-gateway-bin/src/listen_http.rs`, `gateway/mod.rs`, `prometheus/`) | posts in progress, the directory of plots, the alert queue | reading a body, `handle_alertmanager_post`, `create_plot`, `purge_old_plots` | concurrent posts, `/plot` and the assistant's tool share a directory that each of them purges; queries that fail or hang; clients that stall or go away | a post answered with OK has its alert in one place, with its plots while they are young; only the outside holds one up |
| Signal client, Prometheus client, formatting, start-up | none to speak of | I/O and conversion | - | not modelled |

The hazards of each component, with their lines and the properties that cover them, are the
list `hazards` of `PROJECT.json`.

## 2. Modules

    RateLimits          operators: the N newest timestamps, the verdict
      RateWindow        abstract limiter: atomic insertion into the N newest
      LogRoutes         check_rate_limiters: routes, limiter sets, sequences, cleanups
        LogRoutesProofs
    MultiRateLimiter    the ring, step by step     --implements-->  RateWindow
      MultiRateLimiterProofs
    LazyMap             the map, its locks and its cleaner
      LazyMapProofs
    LogHandler          handle_log_message over log buffers
      LogHandlerProofs
    CommandRouter       tables of routes, gateway commands
    AssistantAgent      channels and worker
      Gateway           the gateway loop, EXTENDS AssistantAgent and CommandRouter
        GatewayProofs   of the loop, the agent and the router
    AlertPosts          HTTP listener, alert posts, plots, and the loop as they see it
      AlertPostsProofs
    ClaudeAssistant     the assistant behind the worker
      ClaudeAssistantProofs   of the assistant and of CodeTool, whose calls it makes
    TrustSet            update_trust, the loop's trust phase in detail
      TrustSetProofs
    CachedFile          files of a tarball, ls, find, read and search
      CodeTool          the cache, its refresh and its callers
    PathPrefix          StripPathPrefixes
      LogIngest         listeners and framings of log ingestion

The modules `MC...` give the constants values.

**MultiRateLimiter.** One action per loop iteration of `insert_helper`: `Lock`, then `Shift`
in the loop over `idx+1..N` (`loop = "low"`), `WrapAround` between the loops, the loop over
`0..idx`, `InsertLast`; all of it under the mutex (`holder`), so the loop's locals are single
variables. `Publish` is the `fetch_max` after the mutex is released, `Evaluate` the
comparison. Times are integers; durations are in seconds as in the code.

**RateWindow** is what a limiter promises: `Take` atomically puts a timestamp into the
sequence of the N newest and returns the one that falls out. `MultiRateLimiter` implements it
(`ImplementsRateWindow`, with the fairness that every call returns), which is why LogRoutes may
use limiters atomically. The mapping undoes the insertion in progress: what was in slot `p`
(`Before`) is in the slot after it if the hole has passed below, and in `prevOldest` for the slot
that is overwritten; the window is the slots in the order of their ranks (`SlotOf`). A call is
"called" from its arrival to the write that settles its timestamp, "answered" until it has published.

**LazyMap.** Every lock operation of `get_or_insert_with`, `retain` and `maybe_clean` is an
action. A value is only its `ts_secs`. The ghosts `touched` and `horizon` say when each key was
last updated and up to when a cleanup has removed. Its properties justify that LogRoutes and
LogHandler use their maps atomically.

**LogRoutes.** A thread is at one limiter of one sequence of one limiter set of one route
(`EnterRoute`, `Evaluate`, `AfterOrigin`, `SkipClean`, `StartClean`, `Retain`, `RouteDone`), and then
at the overall limits (`Conclude`). Another thread may be at any other limiter between any two
of these steps, of the same sequence too. Limiters by source location are maps of rings that
are cleaned with the window as their age. The histories say which messages reached which limiter.

**LogHandler.** A message is its task. `Judge` (with the verdict of `check_rate_limiters`
left open), `Push` or `PushAndDrain`, `Send`, and the cleanup. The clock counts
milliseconds and message times seconds, as in the code, with a scaled-down `MsPerSec`.

**AssistantAgent.** `TrySend` and `RequestStop` are the agent's methods. The worker's place is
`worker`: `select` with its three branches (`TakeInput`, `TakeStop`, `TakeCancel`), a running
call (`prompt`, `compact`, `record`), `drain` and `drainRecord` for `handle_stop`, `gone`.
While a prompt or compaction runs, `StopJob` is the second branch of the inner `select!`.
A call to the assistant appends to `recorded` when it starts, as `ClaudeAssistant` does, and
ends when the environment says so. `accepted` is a history of what callers put in.

**Gateway** adds the loop: connecting, the trust phase with its retries, the subscription,
and the `select!` with its branches. `Leave` drops the connection and with it the messages of
the subscription that were not read. Messages arrive in `stream` while the loop does other
things. An admin's text is a sequence of words that CommandRouter routes and reads as it arrives,
so that `stream` has the kinds of messages that `handle_signal_admin_message` tells apart: prompts,
the stop, compact and debug commands, commands that only read, texts that do not parse, and
messages that are ignored. The read receipt, which is awaited with the handler and whose
failure is only logged, changes no state and is left out: it is assumed to return.

**CommandRouter** has no state: a table is a sequence of routes, `Builds` is what the builder
insists on, `MainTable` is the table of the binary, with an optional prefix of the admin HTTP
handler.

**AlertPosts.** A connection is at its request's body, which the client may send whenever it likes
(`Body`, `BadBody`), at its post's next alert (`NoPlot`, `PlotOk`, `PlotFail`), at the queue
(`Enqueue`) or at its answer. `files` is the plot directory and `made` says when each plot was made.
The loop takes alerts as in Gateway; `/plot` and a prompt, whose tool calls may make plots, hold it
up. A send that fails and a stream that ends take it "away" from the queue, and `Reconnect` is the
end of all it then does, the retries of `update_trust` included, which may never come. Disconnects
drop a handler where it awaits.

**ClaudeAssistant.** One action per stretch between two awaits. `summary` is the set of
messages that the summary was made from (the old summary is part of every compaction's
request). The API's and the tools' answers are free. A response begins (`ApiResponds`,
`CompactionResponds`) and its body comes later, fails or never comes (`ApiAnswers`, `ApiToolUse`;
`CompactionOk`, `CompactionFails`): only up to its beginning is it raced with the token.

**TrustSet.** One action per RPC of `update_trust` and outcome of it. The identities at
signal-cli are part of the state; a call that fails may have taken effect. `Meet` is a new
identity that signal-cli finds, and trusts or not. `Retry` is the loop in `do_run`, which
`Gateway` has as `TrustOk` and `TrustFail`. Trust levels are reduced to what
`TrustLevel::is_trusted` tells apart, and safety numbers are compared as the same string or
not.

**CachedFile, CodeTool.** Files, line index, `read`, `search` and the rest are operators on
sequences of characters. A regular expression is the set of words it matches and where these may
begin and end; `FindIter` is how the regex library goes through a text, so that empty matches are
found at every place the library finds them, after the last newline among them. `CodeTool` has the
call: `GetSha` or `GetShaFail`, `Lock`, `LoadOk` or `LoadFail`, `Use`, `ReturnAnswer`; and
`CancelCall` at every await, as the assistant drops a tool call. `Deploy` moves the deployed version
on.

**PathPrefix, LogIngest.** The path search is a set of operators, compared with the definition
of the longest prefix that matches. A connection's bytes are told apart as far as the framings
do; `Arrive` lets them come in any pieces, `Close` and `Reset` end the stream anywhere. `First`, `Count`,
`Octets`, `Line` are the syslog reader, `Quoted`, `Newline`, `Unquoted`, `Eof` the JSON reader. `Listen` and
`Datagram` are the listeners. What the parsers of syslog and JSON take is given by the script
of a behaviour; a script also says what is sent.

## 3. Runs

| Run | Configuration | What it shows |
|---|---|---|
| `rate_limiter` | 2 threads, N = 3, window 2, times {5,6,7,9}, each at most twice | `EvictedIsOldest`, `VerdictCountsEvents`, `ImplementsRateWindow` |
| `rate_threshold` | 2 threads, N = 2 | violated: `PassesAtRate` |
| `lazy_map` | 2 threads, 2 keys, times {1,3,6}, age 2, period 3; deadlock checked | `LenCacheExact`, `AccessProtected`, `NothingRecentForgotten`, `EveryCallReturns` |
| `log_routes` | 2 threads, 2 routes with limits of every kind, 2 overall limits, 3 of 12 messages; threads symmetric | `AnswersCountEverything`, `OverallCountsOnce`, `AlertsCapped` |
| `log_handler` | 3 messages, 2 origins, buffers of 2, a cleanup possible in between | `AccountedOnce`, `AlertIsRecentLog`, `EveryPassingMessageAlerts` |
| `origin_age` | 2 messages | violated: `RecentOriginKept` |
| `gateway` | 2 of 7 texts, 2 alerts, 3 arrivals in all, queue of 2, fairness | `AcceptedIsRecorded`, `AlertsAccounted`, `ConversationInOrder`, `LongestPrefixDecides`, `RequestReturns`, `EveryAlertTried`, `ShutdownCompletes` |
| `gateway_stop` | a prompt and a stop, fairness | violated: `StopEndsRequest` |
| `alert_posts` | 2 connections, 2 of 4 requests, a command, 3 plots, age limit 1, clock up to 2, any number of reconnects, fairness | `PostsAccounted`, `PlotsOutliveWait`, `OnlyOutsideBlocks` |
| `assistant` | ClaudeAssistant: 3 calls, up to 2 tools per answer, 2 iterations, messages of size 2 and tool messages of 1, trigger 3, interval 2 | `HistoryAccounted`, `CompactionsApart`, `ToolResultsFollow`, `CancelledReturns` |
| | or CodeTool: 2 callers and 3 versions, one of them broken; 187 texts, every read of them, 6 patterns with 4 contexts | `CurrentUnlessFailed`, `StaleRatherThanNone`, `EveryCallReturns`, `ReadGivesLines`, `SearchFindsLines` |
| `trust_set` | admins with two, one and no configured numbers, each with one identity more; two new identities; any calls fail; fairness | `RevokedStayOut`, `ConfiguredTrusted`, `TrustLostByRevocationOnly`, `UpdateSucceeds` |
| `log_ingest` | every pair of 15 syslog or 9 JSON items, some triples, two connections, datagrams; 17 patterns on 66 paths | `FramesDelivered`, `ClosedOnlyIfBroken`, `PathsStripped`, `FramesRead` |

The type invariants are proved where a module has proofs, but for those of ClaudeAssistant and
LogRoutes (section 5), and can be added to any run.

**Why the bounds are enough.** A ring of three has an interior slot besides the two ends, so
both loops run, stop early and run to their end, for each position of `idx`; two threads are
enough for a publication to overtake another. Two threads and two keys give every pair of
operations on a map: a creation racing a creation, a cleanup, and an update of another key. In
`log_routes` three messages fill a window of one limit, age out of it, or find their limiters
cleaned away; they match one route, both or none, and two of them may be in one sequence at a
time. Buffers of two evict with the third message. A worker's queue of two is full after a recorded command
and its effect, so refused sends happen; with two alerts, order shows, and two texts are a
prompt and what races it. In `alert_posts` a plot becomes too old within the clock while its alert waits,
and another post or a `/plot` purges it; a third plot may be the tool's. In `assistant`, two messages are over the trigger, so
compactions start, fail and are rate limited; three calls let a cancelled prompt be followed
by another. In `trust_set` an admin with two numbers is needed for a loop that stops half-way,
a second one for an admin that changes after its turn, and every initial trust is tried. The code
tool runs in `assistant` by itself, since to either of the two the other is its environment: every
text of up to four characters has empty files, files without a last newline and
empty lines; the longer ones have gaps between matches; the patterns match one character, two, none
anywhere, and none at the end of a line or of the text. In `log_ingest`, a frame that is read
wrongly eats into the next, which is why items come in pairs; a length of ten has two digits.

**Deadlock** is checked in `lazy_map`. The other runs end when their bounds (calls, messages,
alerts, the clock) are used up or the service is down, which is why they do not check it.

**Fairness.** Tasks that can go on do (weak fairness of each task's step): tokio schedules
every ready task. Acquiring a lock is strongly fair: the locks are `std::sync`'s, none of the critical
sections awaits or waits for another thread, and the operating system wakes every waiter
in the end. Branches
of `select!` are polled in random order, so one that is ready again and again is taken
(strong fairness of `TakeAlert`). For liveness of the gateway, signal-cli must come back: of
infinitely many attempts to connect, to trust and to subscribe one succeeds
(`SignalFairness`); without that the retries of `update_trust` hold even the shutdown up
(section 4). That the assistant answers is assumed for `RequestReturns` and
`EveryAlertTried`, as `request` has no timeout; `ClaudeAssistant`'s `CancelledReturns`
shows the part of it that the code itself provides, that a call returns that is cancelled where it
looks at its token. `StopEndsRequest` only assumes that a cancelled call ends
(`PatientSpec`). `CancelledReturns` in turn names the awaits that do not look at the token
(`Unraced`: an automatic compaction, and the body of any response that has begun) as its premise,
that the call comes out of them again and again: nothing else is assumed of the API or the tools.
`UpdateSucceeds` assumes that signal-cli's calls stop failing at some time.
`EveryCallReturns` of the code tool assumes that each of its awaits ends, by an answer, an error or
the caller's cancellation, since the download has no timeout. In `alert_posts`, a send is
answered or fails, because the JSON-RPC client gives each request a time; nothing is assumed of
clients, Prometheus, the assistant, or the way back to signal-cli. `OnlyOutsideBlocks` names these
as its premise (`Held`, `LoopHeld`): it is about the behaviours in which each of them lets go again
and again, for whichever reason it held, and says that nothing else holds an alert up.

## 4. Findings

- **Log buffers are removed after seconds** (`origin_age`, `gateway/log_handler.rs:234`). The cleaner
  gets milliseconds and compares them with seconds.
- **A threshold of N takes N + 1 events** (`rate_threshold`, `rate_limiter.rs:252`). `>= 2 / 10s` is documented
  (`rate_limiter.rs:20`, `src/README.md:205`) to alert at 2 events in 10 s, and `< 3 / 5m` to be silent from the third
  in 5 minutes on. The ring of N evicts an event, or its initial 0, for the N-th, so it takes one event more. The tests
  (`rate_limiter.rs:464`, `:501`) expect what the code does. `VerdictCountsEvents` and `AlertsCapped`
  speak of the code's count; apart from the one event they say what the documentation says.
- **`/claude-stop` cannot stop a request** (`gateway_stop`, `gateway/mod.rs:552`). The loop awaits
  the request before it reads the next message.

Seen while modelling and not stated as runs:

- Limiters: the window
  ends at the newest timestamp of all sources, so a late event may pass a `< N` limit
  although its own window is full, and `AlertsCapped` speaks of the window that ends at the newest.
  Two concurrent messages may block each other at two limiters of one sequence.
- Assistant: pushing a prompt can start a compaction that clears the prompt from the
  buffer (`claude/src/lib.rs:487`), so it never reaches the API as a message. A stop that is handled
  late cancels prompts sent after it. The token is not looked at while a response's body is read
  (`claude/src/lib.rs:282`, `:314`, `:394`, `:398`) nor in an automatic compaction, and the HTTP client has
  no timeout, so an API that stalls there keeps a cancelled call (the premise of `CancelledReturns`). A
  request cancelled between its tool calls leaves a call without its result in the buffer (`broken`).
- Gateway: while `update_trust` fails, the loop looks neither at its token, so that ctrl-c does not end
  the service, nor at the alert queue. `get_summary` cuts the text at byte 512 (`gateway/mod.rs:228`), which panics inside a
  character. `/query a > b` with blanks is refused, as the command takes one word.
- Trust: a listing of identities that fails is taken for an empty one, so that `update_trust`
  may return Ok with a revoked identity still trusted (the exception in `RevokedStayOut`).
- Alerts and plots: a plot older than the age limit is purged although a queued alert attaches
  it; signal-cli then refuses the message and the alert is lost. The purge takes every `.png` in the
  directory, by default `/tmp`. Plots of the assistant's tool go only with the next post or `/plot`.
  `parse_alert_expr` prefers a `<` to an earlier `>`. Neither the body of a post nor requests to
  Prometheus have a timeout, so a post of which one hangs is not queued.
- Code tool: `read` with `line_start` 0 numbers lines from 0, and with `line_end` 0 returns the first
  line; line numbers are cut to 32 bits, and `match_line + context` overflows for a context near
  2^32; `search` counts the matches of the file it stops in but does not print them. A match
  after the last newline, or in an empty file (`$`, `(?m)^\s*$`), counts as a line one past the last, which
  is printed empty without context (and for an empty file always) and not marked anywhere with it.
- Ingestion: a JSON line that does not parse, a lone `\r` among them, closes the connection, where
  syslog skips it. Datagrams are cut at 8192 bytes. A line cut by the end of the stream is delivered.
  Patterns with `**` cut components (`**/target` takes `/target` off `/targets/x`) and accept a left
  part that does not reach the needle; `PathsStripped` is about the other patterns.

## 5. Proofs

The proofs hold for every value of the constants that satisfies the modules' assumptions.

**MultiRateLimiterProofs** (`RateThresholdAssumption`: N positive, as the parser enforces;
`EnvironmentAssumption`; for `VerdictsCount` also `ClockAssumption`, that the windows which end at
today's seconds since 1970 begin after 0, the ring's first entries). `TypeCorrect` gives that no
index leaves the ring. `RingSorted` speaks of the ring between insertions, so it is not inductive: during an insertion the ring has a hole, the
slot whose value has been shifted down. `RingInv` adds that: *Sorted* when nobody holds the
mutex, *SortedButHole* during the loops (leaving out the hole, the ring read from `idx` is in
order, the values below the hole are less than the new one), *CursorOK* (where the loop variable
may be) and *MutexOK* (a thread is inserting exactly when it holds the mutex). Each action
keeps it: lemmas for the shift of one slot, for the wraparound and for the last slot, and one for
settling the new value in the hole. `RingAlwaysSorted` and `EvictedAlwaysOldest` follow.

`ImplementsWindow` is the refinement of RateWindow, but for its fairness. `Fits` says that a
timestamp belongs at the hole's rank of the ring without its oldest; `PlacedInHole` says what
`Placed`, `Head`, `Tail` and `Last` make of such a window, for every N. `SettleTakes` uses both, with
*SortedButHole* for the entries below and above the hole, to map the write that ends an insertion to
`Take`. A shift moves the hole down one rank, so that `Before` is the same for every slot
(`ShiftKeepsKept`), also where slot N - 1 is `idx` and its copy in slot 0 is about to be
overwritten. All other steps leave the window alone.

`VerdictsCount` says what a verdict means. The window has only the N newest timestamps and the
property counts all events, so the invariant (`CountInv`) relates the two: entry `i` of the window is
not before a time `v` exactly if more than N - i of the events inserted are not (`Tallies`). Inserting
a timestamp keeps that (`PlacedTallies`), and by the refinement every insertion is one that does
(`StepsCount`). The first entry then says whether N events were in the window before the new one
came, and the last entry is the newest event (`NewestIsLast`).

**LazyMapProofs** (`LazyMapAssumption`). `LocksCorrect`: a writer excludes everybody, and one
thread cleans. With it `LenInv`, which says by how much the cache is behind between a creation
or a retain and the store of the new length, gives `LenCacheAlwaysExact`. `AccessAlwaysProtected`
follows from the locks: a thread that uses an entry holds the lock. `NothingRecentEverForgotten`
is inductive once access is known to be protected.

**ClaudeAssistantProofs** (`ClaudeAssumption`). `ClockInv` strengthens `CompactionsApart`: the
last start of an automatic compaction is the one that `lastAuto` remembers, and it is not in
the future, so that the next one, which comes an interval after `lastAuto`, is an interval
after all of them. `HistoryInv` adds to `HistoryAccounted` that the buffer is a sequence of
messages and not longer than what was pushed; that messages are dropped only when there is a
minimum interval needs `ClockInv`, because a drop happens when the rate limit refuses a
compaction. From these follow `CompactionsAlwaysApart` and `HistoryAlwaysAccounted`.
`ToolResultsFollow` speaks of the moment a request goes out; between two tool calls the results of
those to come are missing, and `ToolInv` says exactly how many (`Answered(Open)`): a message opens
as many places as it has tool calls, a result closes one, and a compaction, which takes the whole
buffer, leaves none open. `ToolResultsAlwaysFollow` follows.

The same module has the code tool's proofs (`ToolAssumption`). `GuardInv` says who has the guard, what
a call that has not failed was told by the version lookup, and what the cache holds once it uses it;
that versions only advance is part of it. `CurrentVersion` and the action property `NeverNone` follow,
for any number of callers and versions, failures and cancellations.

**LogRoutesProofs** (`RoutesAssumption`: limits as the configuration's parser makes them, and times of
messages that are later than the maximal age, as seconds since 1970 are). The properties compare a limiter
with all the checks that were ever for it, while its ring holds N timestamps and a cleanup may
have thrown it away. `RoutesInv` bridges that: for each ring and each time that no cleanup has
reached (`Remembered`), the ring tallies, in the sense above, the checks that are over (`Past`) and
those of threads that have counted here and are not done (`Present`).

- A step of a thread changes the tally of the limiter it is at, by its own message, and of no other
  (`EvaluateCounted`, `QuietCounted`); a check that ends moves from `Present` to `Past` (`CountedOver`).
- A cleanup removes rings whose newest entry is before its horizon, so that a new ring tallies the same
  for the times that are left (`OldTallies`, `FreshTallies`).
- `AnswersCounted`: `RingOf`, the ring that the specification builds from all checks, tallies just these
  (`RingOfTallies`). A limiter's ring therefore agrees with it since every time that the cleanups
  have left (`RestRings`), and that is all that an answer to a message that is not older
  depends on (`SameAnswer`).
- `OverallCounted`: of overall limits every time is left, and rings that tally the same since every time
  are the same (`TalliesUnique`).
- `AlertsAlwaysCapped`: the alerts in the window of an overall limit and the messages that
  it has let pass and may become alerts (`Alerts`, `Coming`) are together no more than N (`Capped`): a
  message passes only if the entry that falls out is before the window, so that, by the tally, fewer than
  N + 1 messages in the window were counted (`EvaluateCapped`), and what a later message does is
  to move the window on (`CappedShrinks`).

**TrustSetProofs** (`TrustAssumption`). `TrustInv` says that every admin the loop is through
with is handled (the configured numbers are trusted, and others only if they turned up later
or could not be listed), that a removal has a reason, and that an admin without a removal lacks
only the numbers still pending. The types alone are not enough for any of the properties;
with `TrustInv` follow `RevokedAlwaysStayOut`, `ConfiguredAlwaysTrusted` and the action
property `TrustOnlyLostByRevocation`.

**GatewayProofs** (`GatewayAssumption`, `QueueAssumption`) is about the loop, the
agent and the router together.

- *The router* has no state to be invariant: `PrefixesNest`, of two prefixes of a text the shorter is
  a prefix of the longer, gives `FirstIsLongest`: in every table that `build` accepts, the first match
  is the longest. `BuildsIffAccessible` says that `build` refuses exactly the tables with a route that
  no text reaches. `RoutedByLongest` carries this to what the loop does with a message.
- *Types*: `TypeCorrect`, one lemma per method of the agent and branch of the worker.
- *The history*: `HistoryComplete` is inductive with the types, once one knows what a queue does to
  the chat messages in it. `Chat` gives the chat messages of a sequence of inputs. It is defined by
  position (`ChatAt`, `Nth`: the n-th place that has one) and not by a recursive filter, since
  nothing could be proved of the latter; `NthEnumerates` and `EnumerationUnique` say that `Nth`
  enumerates every finite set of numbers in their order (counting up to an element is an injection
  into `1 .. n`, hence onto it), and `ChatAppended`
  and `ChatTaken` that an input at the end or the head of a queue is one at the end or the head of
  the chat.
- *The alerts*: `AlertsComplete` says that those delivered, in the loop's hands and queued (`Kept`)
  are in the order of posting and, with those whose sending failed, all of them (`Accounted`). It
  is inductive with the types; the work is in what moves between the three sequences.
- *The order of the conversation*: `ConversationInOrder` speaks of the history, `TalkInv` of what
  comes before: messages of a subscription come in the order of their ids (`StreamInOrder`), all
  talk that the queue has accepted is older than the message the loop is at, but for this message
  itself, and older than all still to come (`TalkIsOld`), and what was accepted is in order. As the
  history is a prefix of what was accepted (`HistoryComplete`), `Linearized` follows.

**LogHandlerProofs** (`HandlerAssumption`). `TypeCorrect` includes that the clock does not run
back. `AccountedOnce` counts places and is not inductive, since it does not say that a text is empty
before its message is drained nor that a buffer has no message twice. `PlaceInv` does: `OnePlace`,
the set of places of a message is empty before it is buffered and a singleton ever after, and
`BufferInv`. Pushing, evicting, draining, sending and cleaning up each move the messages of one
sequence to another place (`PlacesBuffered`, `SendPlaces`, `RetainPlaces`); `MessagesAccounted`
follows. `TextsAreRecentLog` needs that every buffer is the end of its origin's log (`LogInv`), which
a cleanup keeps as it empties the buffer, and that a log only grows (`StretchRemains`).

**AlertPostsProofs** (`AlertPostsAssumption`). `PlotsOutliveWait` is not inductive, as it says
nothing of posts that are still plotting, nor of what a later purge may take. `PlotInv` adds that a plot
that is gone is older than the limit (`GoneIsOld`) and that a plot is never older than the post or
alert that has it (`HasPlots`). Every step is a purge or leaves the directory, makes a plot, or lets
time pass (`StepKeeps`); `PlotsAlwaysOutliveWait` follows for any number of connections.
`PostsAccounted` needs `PlaceInv`: no alert is in two of the queue, the loop's hands, `sent` and `lost`
(`AlertsApart`); no post is at two connections or at one and answered, a post whose body is read or that plots has no alert
anywhere yet, and a post that is about to be answered has one exactly if its status says OK
(`PostsApart`). From it follows `PostsAlwaysAccounted`.

**Checked by TLC only.** Out of the provers' reach are liveness under fairness (and with it the
fairness part of `ImplementsRateWindow`), and induction over data. The latter is what these
would need: the type of ClaudeAssistant's `totalChars`, whose decrement is a sum over the messages
dropped; `FramesDelivered`, `ClosedOnlyIfBroken` and `PathsStripped` of log ingestion, which compare a
reader with the bytes that a list of items concatenates to, and a search with a recursive
match; `ReadGivesLines` and `SearchFindsLines` of CachedFile, about recursive operators. The type
invariant of LogRoutes is not a theorem of its own: what its proofs need of it is in `RoutesInv`.

## 6. What is not modelled, and the limits of what is

- `format_logs` and most tools only read. Formatting, the queries to Prometheus and their texts,
  drawing, the JSON-RPC transport, configuration and the binary's start-up are I/O and conversion.
- LogHandler leaves the verdict of `check_rate_limiters` open: every verdict that LogRoutes can
  give is among those it takes.
- `AnswersCountEverything` is about messages that are not older than a cleanup and limits whose
  windows are not longer than the maximal age; a source whose clock is ahead breaks the first (a
  hazard).
- Log ingestion takes the allocation of an announced length to succeed; utf-8 and the parsers are
  libraries.
- Capacities and times are scaled down; each bound is a named constant.
- The gateway is modelled with an assistant configured; without one every `record_message` is
  skipped and a prompt is answered with an error.

## 7. Plan

1. **Done**: every component of the table but the last row, with the proofs above.
2. **Next**: the composition of LogRoutes with LogHandler, so that an alert's destination is the
   route's; the assistant's trait as an abstract specification that ClaudeAssistant implements;
   a FIFO of alerts that Gateway implements up to loss.
3. **Proofs next**: the order in which a worker that stops drains its queue, as an action property of
   AssistantAgent.
