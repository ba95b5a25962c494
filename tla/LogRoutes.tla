------------------------------- MODULE LogRoutes -----------------------------
(***************************************************************************)
(* LogHandler.check_rate_limiters (signal-gateway/src/gateway/             *)
(* log_handler.rs) with the routes (route.rs), their limiter sets          *)
(* (rate_limiter_set.rs), the sequences of limiters in them                *)
(* (limiter_sequence.rs) and the limiters (rate_limiter.rs).               *)
(*                                                                         *)
(* A limiter is used atomically, as RateWindow promises, and so are the    *)
(* maps of limiters, as the properties of LazyMap justify: an entry in use *)
(* is not removed, and len is exact.  Two messages may be anywhere in      *)
(* their checks at the same time, also at two limiters of one sequence.    *)
(***************************************************************************)
EXTENDS RateLimits, Bags

CONSTANTS Threads, NoThread,
          Everywhere,     \* in place of an origin: limits for all of them
          Routes,         \* LogHandlerConfig.routes
          OverallLimits,  \* LogHandlerConfig.overall_limits
          MaxAge,         \* LogHandlerConfig.max_origin_age
          CheckupPeriod,  \* LazyMapCleaner.min_checkup_period
          Messages,       \* [level, origin, msg, module, file, line, ts]
          MaxCalls        \* bound: messages checked in a behaviour

Origins == {m.origin : m \in Messages}
Timestamps == {m.ts : m \in Messages}

IsLimit(limit) ==
    /\ limit.times \in Nat \ {0} /\ limit.window \in Nat
    /\ limit.ge \in BOOLEAN /\ limit.by_source_location \in BOOLEAN

IsList(list) == Len(list) \in Nat /\ DOMAIN list = 1 .. Len(list)
AreLimits(limits) == IsList(limits) /\ \A i \in DOMAIN limits : IsLimit(limits[i])

\* Windows count back from a time long after 0, where the rings begin.
ASSUME RoutesAssumption ==
    /\ NoThread \notin Threads /\ Messages # {} /\ Everywhere \notin Origins
    /\ IsList(Routes)
    /\ AreLimits(OverallLimits)
    /\ \A r \in DOMAIN Routes : AreLimits(Routes[r].limits) /\ AreLimits(Routes[r].global_limits)
    /\ MaxAge \in Nat /\ CheckupPeriod \in Nat /\ MaxCalls \in Nat
    /\ \A x \in Timestamps : x \in Nat /\ x > MaxAge
-----------------------------------------------------------------------------
(* What messages match.                                                    *)

\* A filter names the texts that its three conditions on msg let through, and
\* a module, a file and a line; "" stands for a field that is not set.
Matches(filter, m) ==
    /\ m.msg \in filter.msg
    /\ filter.module_equals \in {"", m.module}
    /\ filter.file_equals \in {"", m.file}
    /\ filter.line_equals \in {"", m.line}

\* Levels are numbers: a higher one is less severe.
Accepts(route, m) == m.level <= route.alert_level /\ Matches(route.filter, m)

\* The key under which a message counts for a limit.
Location(limit, m) ==
    IF ~limit.by_source_location THEN <<>>
    ELSE <<IF m.file = "" THEN "?" ELSE m.file, IF m.line = "" THEN "?" ELSE m.line>>

Limits(s) == IF s[1] = 0 THEN OverallLimits
             ELSE IF s[2] = Everywhere THEN Routes[s[1]].global_limits
             ELSE Routes[s[1]].limits

\* The sequences of limiters: of a route and an origin, of a route, overall.
LimiterSequences == ((DOMAIN Routes) \X (Origins \cup {Everywhere})) \cup {<<0, Everywhere>>}

\* The limiters of a sequence that m is for; they are evaluated in order.
Matching(s, m) == {i \in DOMAIN Limits(s) : Matches(Limits(s)[i].filter, m)}
-----------------------------------------------------------------------------
VARIABLES
    origins,   \* the keys of each route's map of limiters
    limiters,  \* the limiters of each sequence
    cleaner,   \* of each route: the thread that holds the mutex, CleanerState
    task,      \* where each thread is in the check of its message
    outcomes,  \* history: the messages checked and what became of them, a bag
    horizon,   \* history: the newest time of a cleanup
    calls      \* how many messages have been taken up

vars == <<origins, limiters, cleaner, task, outcomes, horizon, calls>>

\* MultiRateLimiters by location: their rings, ts_secs and the CleanerState.
\* A location whose newest timestamp is 0 is not in the map.
MakeLimiter(limit) ==
    [rings |-> [l \in {Location(limit, m) : m \in Messages} |-> Fresh(limit.times)],
     latest |-> 0, size |-> 0, checkup |-> 0]
MakeLimiters(s) == [i \in DOMAIN Limits(s) |-> MakeLimiter(Limits(s)[i])]

Idle == [at |-> "idle", msg |-> CHOOSE m \in Messages : TRUE, route |-> 0,
         todo |-> {}, first |-> 0, passed |-> 0, failures |-> <<>>]

TypeOK ==
    /\ origins \in [DOMAIN Routes -> SUBSET Origins]
    /\ DOMAIN limiters = LimiterSequences
    /\ \A s \in LimiterSequences : \A i \in DOMAIN Limits(s) :
           \A l \in DOMAIN limiters[s][i].rings :
               Len(limiters[s][i].rings[l]) = Limits(s)[i].times
    /\ \A r \in DOMAIN Routes : cleaner[r].holder \in Threads \cup {NoThread}
    /\ \A t \in Threads : /\ task[t].msg \in Messages
                          /\ task[t].route \in 0 .. Len(Routes)
                          /\ task[t].passed \in 0 .. Len(Routes)
                          /\ task[t].at \in {"idle", "routes", "origin", "retain",
                                             "global", "overall"}
    /\ BagCardinality(outcomes) <= calls
    /\ calls \in 0 .. MaxCalls /\ horizon \in Timestamps \cup {0}

Init ==
    /\ origins = [r \in DOMAIN Routes |-> {}]
    /\ limiters = [s \in LimiterSequences |-> MakeLimiters(s)]
    /\ cleaner = [r \in DOMAIN Routes |-> [holder |-> NoThread, size |-> 0, checkup |-> 0]]
    /\ task = [t \in Threads |-> Idle]
    /\ outcomes = EmptyBag
    /\ horizon = 0
    /\ calls = 0
-----------------------------------------------------------------------------
Later(a, b) == IF a >= b THEN a ELSE b

\* maybe_clean looks at the map.
IsDue(count, state, now) == \/ count >= 2 * Later(state.size, 1)
                            \/ state.checkup + CheckupPeriod < now

\* A thread begins to evaluate a sequence, in the part "at" of the check.
Begin(c, at, s) == [c EXCEPT !.at = at, !.todo = Matching(s, c.msg), !.first = 0]

\* The sequence that is being evaluated.
Current(c) == <<IF c.at = "overall" THEN 0 ELSE c.route,
                IF c.at = "origin" THEN c.msg.origin ELSE Everywhere>>

Update(t, c) == task' = [task EXCEPT ![t] = c]

\* check_rate_limiters returns.
Result(t, result) ==
    /\ outcomes' = outcomes (+) SetToBag({[msg |-> task[t].msg, result |-> result]})
    /\ Update(t, Idle)

Arrive(t, m) ==
    /\ task[t].at = "idle"
    /\ calls < MaxCalls
    /\ calls' = calls + 1
    /\ Update(t, [Idle EXCEPT !.at = "routes", !.msg = m])
    /\ UNCHANGED <<origins, limiters, cleaner, outcomes, horizon>>

\* A mutant of RoutesLeft: the first route that passes ends the search.
RoutesLeftUntilPassed(c) ==
    {r \in DOMAIN Routes : c.passed = 0 /\ r > c.route /\ Accepts(Routes[r], c.msg)}

\* The routes still to be tried: none is skipped for an earlier one.
RoutesLeft(c) == {r \in DOMAIN Routes : r > c.route /\ Accepts(Routes[r], c.msg)}

\* limiters.get: the limiters of the message's origin are created if need be.
EnterRoute(t) ==
    LET c == task[t]
        r == Min(RoutesLeft(c))
    IN  /\ c.at = "routes"
        /\ RoutesLeft(c) # {}
        /\ origins' = [origins EXCEPT ![r] = @ \cup {c.msg.origin}]
        /\ Update(t, Begin([c EXCEPT !.route = r], "origin", <<r, c.msg.origin>>))
        /\ UNCHANGED <<limiters, cleaner, outcomes, horizon, calls>>

NoRoutePassed(t) ==
    /\ task[t].at = "routes"
    /\ RoutesLeft(task[t]) = {}
    /\ task[t].passed = 0
    /\ Result(t, IF task[t].failures = <<>> THEN <<"NoRoutes">>
                 ELSE <<"Routes", task[t].failures>>)
    /\ UNCHANGED <<origins, limiters, cleaner, horizon, calls>>

SomeRoutePassed(t) ==
    /\ task[t].at = "routes"
    /\ RoutesLeft(task[t]) = {}
    /\ task[t].passed # 0
    /\ Update(t, Begin(task[t], "overall", <<0, Everywhere>>))
    /\ UNCHANGED <<origins, limiters, cleaner, outcomes, horizon, calls>>
-----------------------------------------------------------------------------
(* Limiter.evaluate.                                                       *)

\* What maybe_clean leaves of the limiter of a source location.
Cleaned(limit, limiter, now) ==
    LET Kept(l) == limiter.rings[l][limit.times] >= now - limit.window
    IN  [limiter EXCEPT
            !.rings = [l \in DOMAIN @ |-> IF Kept(l) THEN @[l] ELSE Fresh(limit.times)],
            !.size = Cardinality({l \in DOMAIN limiter.rings : Kept(l)}),
            !.checkup = now]

\* Another thread may hold the mutex of the cleaner.
Contended(t) == \E u \in Threads \ {t} :
                    /\ task[u].at \in {"origin", "global", "overall"}
                    /\ Current(task[u]) = Current(task[t])

\* A mutant of FirstBlocked: the last limiter decides.
LastDecides(c, passes) == IF passes THEN 0 ELSE Min(c.todo)

\* A limiter that blocks makes the sequence block; the first one is reported.
FirstBlocked(c, passes) == IF passes \/ c.first # 0 THEN c.first ELSE Min(c.todo)

\* A mutant of Remaining: the first limiter that blocks ends the sequence.
RemainingIfPassed(c, passes) == IF passes THEN c.todo \ {Min(c.todo)} ELSE {}

\* Every limiter that matches is evaluated, whatever this one says.
Remaining(c, passes) == c.todo \ {Min(c.todo)}

Evaluate(t) ==
    LET c == task[t]
        s == Current(c)
        limit == Limits(s)[Min(c.todo)]
        old == limiters[s][Min(c.todo)]
        all == Placed(old.rings[Location(limit, c.msg)], c.msg.ts)
        new == [old EXCEPT !.rings[Location(limit, c.msg)] = Tail(all),
                           !.latest = Later(@, c.msg.ts)]
        known == {l \in DOMAIN new.rings : new.rings[l][limit.times] # 0}
        passes == Passes(limit, Head(all), Last(all))
        due == limit.by_source_location /\ IsDue(Cardinality(known), new, c.msg.ts)
    IN  /\ c.at \in {"origin", "global", "overall"}
        /\ c.todo # {}
        /\ \E cleans \in BOOLEAN :
               /\ cleans => due
               /\ due /\ ~cleans => Contended(t)
               /\ limiters' = [limiters EXCEPT ![s][Min(c.todo)] =
                      IF cleans THEN Cleaned(limit, new, c.msg.ts) ELSE new]
               /\ horizon' = IF cleans THEN Later(horizon, c.msg.ts) ELSE horizon
        /\ Update(t, [c EXCEPT !.todo = Remaining(c, passes),
                               !.first = FirstBlocked(c, passes)])
        /\ UNCHANGED <<origins, cleaner, outcomes, calls>>
-----------------------------------------------------------------------------
(* LimiterSet.evaluate, after the limiters of the origin: maybe_clean.     *)

\* A mutant of TsSecs: the oldest of the limiters decides.
TsSecsOldest(s) ==
    IF Limits(s) = <<>> THEN 0 ELSE Min({limiters[s][i].latest : i \in DOMAIN Limits(s)})

\* The newest timestamp that any limiter of a sequence has counted.
TsSecs(s) ==
    Max({limiters[s][i].latest : i \in DOMAIN Limits(s)} \cup {0})

\* The read lock is held while the limiters of an origin are evaluated.
Reading(t, r) == /\ task[t].at = "origin" /\ task[t].route = r
                 /\ task[t].todo # {}

MayClean(t) ==
    /\ task[t].at = "origin" /\ task[t].todo = {}
    /\ cleaner[task[t].route].holder = NoThread
    /\ LET r == task[t].route
       IN  IsDue(Cardinality(origins[r]), cleaner[r], task[t].msg.ts)

\* A blocked message is a failure of the route; any other goes on to the
\* global limits.
AfterOrigin(t) ==
    LET c == task[t]
    IN  Update(t, IF c.first = 0 THEN Begin(c, "global", <<c.route, Everywhere>>)
                  ELSE [c EXCEPT !.at = "routes", !.failures =
                            Append(@, <<c.route, "Limiter", c.first>>)])

SkipClean(t) ==
    /\ task[t].at = "origin" /\ task[t].todo = {}
    /\ ~MayClean(t)
    /\ AfterOrigin(t)
    /\ UNCHANGED <<origins, limiters, cleaner, outcomes, horizon, calls>>

StartClean(t) ==
    /\ MayClean(t)
    /\ cleaner' = [cleaner EXCEPT ![task[t].route].holder = t]
    /\ Update(t, [task[t] EXCEPT !.at = "retain"])
    /\ UNCHANGED <<origins, limiters, outcomes, horizon, calls>>

\* Limiters that are removed are new when they are needed again.
Retain(t) ==
    LET r == task[t].route
        now == task[t].msg.ts
        kept == {o \in origins[r] : TsSecs(<<r, o>>) >= now - MaxAge}
    IN  /\ task[t].at = "retain"
        /\ ~ \E u \in Threads : Reading(u, r)
        /\ origins' = [origins EXCEPT ![r] = kept]
        /\ limiters' = [s \in LimiterSequences |->
               IF s[1] = r /\ s[2] \in origins[r] \ kept THEN MakeLimiters(s)
               ELSE limiters[s]]
        /\ cleaner' = [cleaner EXCEPT ![r] =
               [holder |-> NoThread, size |-> Cardinality(kept), checkup |-> now]]
        /\ horizon' = Later(horizon, now)
        /\ AfterOrigin(t)
        /\ UNCHANGED <<outcomes, calls>>
-----------------------------------------------------------------------------
\* The first route that passes decides where the alert goes.
RouteDone(t) ==
    LET c == task[t]
    IN  /\ c.at = "global"
        /\ c.todo = {}
        /\ Update(t, IF c.first # 0
                     THEN [c EXCEPT !.at = "routes", !.failures =
                              Append(@, <<c.route, "GlobalLimiter", c.first>>)]
                     ELSE [c EXCEPT !.at = "routes", !.passed = IF @ = 0 THEN c.route ELSE @])
        /\ UNCHANGED <<origins, limiters, cleaner, outcomes, horizon, calls>>

Conclude(t) ==
    LET c == task[t]
    IN  /\ c.at = "overall"
        /\ c.todo = {}
        /\ Result(t, IF c.first # 0 THEN <<"OverallLimiter", c.first>>
                     ELSE <<"Passed", Routes[c.passed].destination>>)
        /\ UNCHANGED <<origins, limiters, cleaner, horizon, calls>>

Step(t) == \/ EnterRoute(t) \/ NoRoutePassed(t) \/ SomeRoutePassed(t)
           \/ Evaluate(t)
           \/ SkipClean(t) \/ StartClean(t) \/ Retain(t)
           \/ RouteDone(t) \/ Conclude(t)

Next == \E t \in Threads : Step(t) \/ \E m \in Messages : Arrive(t, m)

Spec == Init /\ [][Next]_vars
-----------------------------------------------------------------------------
AtRest == \A t \in Threads : task[t].at = "idle"

\* The checks that are over, each one time.
Checks == UNION {{<<o, n>> : n \in 1 .. outcomes[o]} : o \in BagToSet(outcomes)}

\* How many of these checks are of messages that are not older than x.
Since(checks, x) == Cardinality({e \in checks : e[1].msg.ts >= x})

\* The ring that counts exactly these checks: the newest of their timestamps.
RingOf(limit, checks) ==
    [k \in 1 .. limit.times |->
        Max({0} \cup {x \in {e[1].msg.ts : e \in checks} :
                         Since(checks, x) > limit.times - k})]

Answer(limit, ring, x) ==
    LET all == Placed(ring, x) IN Passes(limit, Head(all), Last(all))

\* Every message that a route accepts counts for the limits of its origin that
\* match it, whatever other limiters and routes said, and clearing limiters
\* away is invisible: a message that is not older than the cleanups so far gets
\* the answer it would get had every check been counted and nothing forgotten,
\* if no window is longer than the maximal age.
AnswersCountEverything ==
    AtRest => \A r \in DOMAIN Routes, o \in Origins :
        \A i \in DOMAIN Routes[r].limits :
            LET limit == Routes[r].limits[i]
                limiter == limiters[<<r, o>>][i]
            IN  limit.window <= MaxAge =>
                \A l \in DOMAIN limiter.rings, x \in Timestamps :
                    LET Counts(m) == /\ m.origin = o /\ Accepts(Routes[r], m)
                                     /\ Matches(limit.filter, m)
                                     /\ Location(limit, m) = l
                    IN  x >= horizon =>
                        Answer(limit, limiter.rings[l], x) =
                            Answer(limit, RingOf(limit, {e \in Checks : Counts(e[1].msg)}), x)

\* A message counts once for the overall limits if some route passes it,
\* however many do, and not at all if none does.
OverallCountsOnce ==
    AtRest => \A i \in DOMAIN OverallLimits :
        LET limit == OverallLimits[i]
            counted == {e \in Checks : /\ e[1].result[1] \in {"Passed", "OverallLimiter"}
                                       /\ Matches(limit.filter, e[1].msg)}
        IN  ~limit.by_source_location =>
            limiters[<<0, Everywhere>>][i].rings[<<>>] = RingOf(limit, counted)

\* An overall limit of fewer than N + 1 caps the alerts: whatever the routes
\* and the other limits let through, and in whatever order the threads come,
\* at most N alerts are in the window that ends at the newest message counted.
\* (It is configured as "< N"; that N come through and not N - 1 is what
\* PassesAtRate of MultiRateLimiter is about.)
AlertsCapped ==
    \A i \in DOMAIN OverallLimits :
        LET limit == OverallLimits[i]
            newest == limiters[<<0, Everywhere>>][i].latest
        IN  ~limit.ge /\ ~limit.by_source_location =>
            Cardinality({e \in Checks : /\ e[1].result[1] = "Passed"
                                        /\ Matches(limit.filter, e[1].msg)
                                        /\ e[1].msg.ts + limit.window >= newest})
                <= limit.times
=============================================================================
