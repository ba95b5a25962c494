-------------------------- MODULE MultiRateLimiter --------------------------
(***************************************************************************)
(* MultiRateLimiter of signal-gateway/src/rate_limiter.rs: a ring of the   *)
(* N most recent timestamps behind a mutex, and an atomic that publishes   *)
(* the newest.  The tasks that handle log messages call evaluate           *)
(* concurrently.                                                           *)
(*                                                                         *)
(* insert_helper is modelled one loop iteration at a time.  It runs under  *)
(* the mutex, so its locals (the loop variable j, prev_oldest) are single  *)
(* variables here: they belong to the thread that holds the mutex.         *)
(***************************************************************************)
EXTENDS Integers, FiniteSets

CONSTANTS Threads,         \* tasks that call evaluate
          NoThread,        \* the mutex is free
          N,               \* RateThreshold.times
          Window,          \* RateThreshold.duration, in seconds
          ComparatorIsGe,  \* RateThreshold.comparator_is_ge
          Timestamps,      \* the timestamps callers pass, in seconds
          MaxEvents        \* bound: calls of evaluate with the same timestamp

\* A threshold of zero events is refused when it is parsed.
ASSUME RateThresholdAssumption ==
    /\ N \in Nat \ {0}
    /\ Window \in Nat
    /\ ComparatorIsGe \in BOOLEAN
ASSUME EnvironmentAssumption ==
    /\ Timestamps \subseteq Int
    /\ NoThread \notin Threads
    /\ MaxEvents \in Nat
\* Timestamps are seconds since 1970: the windows that end at them begin long after 0,
\* where the ring begins.
ASSUME ClockAssumption == \A x \in Timestamps : x > Window

VARIABLES
    timestamps,  \* MultiRateLimiterInner.timestamps
    idx,         \* MultiRateLimiterInner.idx: the slot of the oldest
    latest,      \* MultiRateLimiter.latest, an AtomicI64
    holder,      \* the thread that holds the mutex
    loop,        \* which of insert_helper's two loops it is in
    j,           \* the next slot that loop looks at
    prevOldest,  \* insert_helper's prev_oldest
    pc,          \* where each thread is in evaluate
    new,         \* new_timestamp of each thread
    evicted,     \* what insert_and_pop returned to each thread ...
    newest,      \* ... and its second component
    seen         \* history: how often each timestamp was inserted

ring == <<timestamps, idx>>
cursor == <<holder, loop, j, prevOldest>>
vars == <<timestamps, idx, latest, holder, loop, j, prevOldest,
          pc, new, evicted, newest, seen>>

Slots == 0 .. N - 1

TypeOK ==
    /\ timestamps \in [Slots -> Int]
    /\ idx \in Slots
    /\ latest \in Int
    /\ holder \in Threads \cup {NoThread}
    /\ loop \in {"low", "high"}
    /\ j \in -1 .. N - 2
    /\ prevOldest \in Int
    /\ pc \in [Threads -> {"idle", "lock", "insert", "publish"}]
    /\ new \in [Threads -> Int]
    /\ evicted \in [Threads -> Int]
    /\ newest \in [Threads -> Int]
    /\ seen \in [Timestamps -> Nat]

Init ==
    /\ timestamps = [i \in Slots |-> 0]
    /\ idx = 0
    /\ latest = 0
    /\ holder = NoThread
    /\ loop = "low"
    /\ j = -1
    /\ prevOldest = 0
    /\ pc = [t \in Threads |-> "idle"]
    /\ new = [t \in Threads |-> 0]
    /\ evicted = [t \in Threads |-> 0]
    /\ newest = [t \in Threads |-> 0]
    /\ seen = [x \in Timestamps |-> 0]
-----------------------------------------------------------------------------
(* evaluate: take the lock, insert_and_pop, release it, publish newest.    *)

Call(t, x) ==
    /\ pc[t] = "idle"
    /\ seen[x] < MaxEvents
    /\ pc' = [pc EXCEPT ![t] = "lock"]
    /\ new' = [new EXCEPT ![t] = x]
    /\ UNCHANGED <<ring, latest, cursor, evicted, newest, seen>>

\* The mutex is acquired and insert_helper starts at the slot below idx.
Lock(t) ==
    /\ pc[t] = "lock"
    /\ holder = NoThread
    /\ pc' = [pc EXCEPT ![t] = "insert"]
    /\ holder' = t
    /\ loop' = "low"
    /\ j' = idx - 1
    /\ prevOldest' = timestamps[idx]
    /\ UNCHANGED <<ring, latest, new, evicted, newest, seen>>

\* The slot after i, with wraparound.
Inc(i) == IF i + 1 >= N THEN 0 ELSE i + 1

\* timestamps[slot] := value, insert_helper returns dropped, and
\* insert_and_pop reads the newest entry at idx, advances idx and unlocks.
Settle(t, slot, value, dropped) ==
    /\ timestamps' = [timestamps EXCEPT ![slot] = value]
    /\ idx' = Inc(idx)
    /\ evicted' = [evicted EXCEPT ![t] = dropped]
    /\ newest' = [newest EXCEPT ![t] = timestamps'[idx]]
    /\ holder' = NoThread
    /\ pc' = [pc EXCEPT ![t] = "publish"]
    /\ seen' = [seen EXCEPT ![new[t]] = @ + 1]
    /\ UNCHANGED <<latest, loop, j, prevOldest, new>>

Shift(from, to) ==
    /\ timestamps' = [timestamps EXCEPT ![to] = timestamps[from]]
    /\ UNCHANGED <<idx, latest, holder, prevOldest, pc, new, evicted, newest, seen>>

\* The slot a loop looks at after slot i.
Below(i) == i - 1

\* One iteration of "for j in (0..idx).rev()" or "(idx + 1..n - 1).rev()".
Iterate(t) ==
    /\ pc[t] = "insert"
    /\ IF loop = "low" THEN j >= 0 ELSE j >= idx + 1
    /\ \/ /\ timestamps[j] <= new[t]
          /\ Settle(t, j + 1, new[t], prevOldest)
       \/ /\ timestamps[j] > new[t]
          /\ Shift(j, j + 1)
          /\ j' = Below(j)
          /\ UNCHANGED loop

\* A mutant of WrapAround: slot 0 is not filled before the second loop.
WrapAroundSkipped(t) ==
    /\ pc[t] = "insert"
    /\ loop = "low" /\ j = -1
    /\ \/ /\ N > 1
          /\ timestamps[N - 1] <= new[t]
          /\ Settle(t, 0, new[t], prevOldest)
       \/ /\ N > 1 => timestamps[N - 1] > new[t]
          /\ loop' = "high" /\ j' = N - 2
          /\ UNCHANGED <<ring, latest, holder, prevOldest, pc, new, evicted, newest, seen>>

\* The wraparound point between the two loops: slot n - 1 is looked at and
\* slot 0 is filled, but only if they differ.
WrapAround(t) ==
    /\ pc[t] = "insert"
    /\ loop = "low" /\ j = -1
    /\ \/ /\ N > 1
          /\ timestamps[N - 1] <= new[t]
          /\ Settle(t, 0, new[t], prevOldest)
       \/ /\ N > 1
          /\ timestamps[N - 1] > new[t]
          /\ Shift(N - 1, 0)
          /\ loop' = "high" /\ j' = N - 2
       \/ /\ N = 1
          /\ loop' = "high" /\ j' = N - 2
          /\ UNCHANGED <<ring, latest, holder, prevOldest, pc, new, evicted, newest, seen>>

\* A mutant of InsertLast: a timestamp older than all of the ring is kept.
InsertLastKeepsNew(t) ==
    /\ pc[t] = "insert"
    /\ loop = "high" /\ j < idx + 1
    /\ Settle(t, Inc(idx), new[t], prevOldest)

\* Every slot but idx has been looked at: the new timestamp is the oldest
\* or it is older than the previous oldest.
InsertLast(t) ==
    /\ pc[t] = "insert"
    /\ loop = "high" /\ j < idx + 1
    /\ \/ /\ prevOldest < new[t]
          /\ Settle(t, Inc(idx), new[t], prevOldest)
       \/ /\ prevOldest >= new[t]
          /\ Settle(t, Inc(idx), prevOldest, new[t])

\* latest.fetch_max(newest), and the call returns.
Publish(t) ==
    /\ pc[t] = "publish"
    /\ latest' = IF newest[t] > latest THEN newest[t] ELSE latest
    /\ pc' = [pc EXCEPT ![t] = "idle"]
    /\ UNCHANGED <<ring, cursor, new, evicted, newest, seen>>

\* A mutant of ThresholdMet: an event at the edge of the window is outside.
ThresholdMetStrict(earliest, newestSeen) == earliest + Window > newestSeen

ThresholdMet(earliest, newestSeen) == earliest + Window >= newestSeen

\* What evaluate returns, given what insert_and_pop returned: "rate >=" passes
\* when the threshold is met, "rate <" when it is not.
Evaluate(earliest, newestSeen) ==
    ThresholdMet(earliest, newestSeen) = ComparatorIsGe

Step(t) ==
    \/ Lock(t)
    \/ Iterate(t)
    \/ WrapAround(t)
    \/ InsertLast(t)
    \/ Publish(t)

Next == \E t \in Threads : (\E x \in Timestamps : Call(t, x)) \/ Step(t)

Spec == Init /\ [][Next]_vars

\* A thread in evaluate keeps running, and one that waits for the mutex gets
\* it: the critical section is short and no thread sleeps in it.
FairSpec ==
    /\ Spec
    /\ \A t \in Threads : /\ SF_vars(Lock(t))
                          /\ WF_vars(Step(t))
-----------------------------------------------------------------------------
(* Properties.                                                             *)

\* Between two insertions the ring, read from idx on, is in increasing order:
\* the invariant MultiRateLimiterInner documents and its tests assert.
RingSorted ==
    holder = NoThread =>
        \A i \in Slots : Inc(i) # idx => timestamps[i] <= timestamps[Inc(i)]

\* A timestamp that insert_and_pop dropped is no newer than any that is kept,
\* whatever other threads insert before the caller looks at it: the verdict
\* is about the oldest of the N + 1 timestamps.
EvictedIsOldest ==
    \A t \in Threads : pc[t] = "publish" =>
        \A i \in Slots : evicted[t] <= timestamps[i]

\* The events inserted so far, and those of them in the window that ends at x.
Inserted == UNION {{<<y, n>> : n \in 1 .. seen[y]} : y \in Timestamps}
EventsInWindow(x) == Cardinality({e \in Inserted : e[1] + Window >= x /\ e[1] <= x})
Newest == CHOOSE x \in Timestamps :
              seen[x] > 0 /\ \A y \in Timestamps : seen[y] > 0 => y <= x

\* The step that inserts t's event.
Inserts(t) == pc[t] = "insert" /\ pc'[t] = "publish"

\* A verdict counts the events as the tests have it: a ">= N" limiter passes an event
\* exactly when the event is in the window that ends at the newest one and more than
\* N events are, and a "< N" limiter in the other cases, in whatever order and by
\* whatever thread the events are inserted.  That is one event more than is
\* documented: see PassesAtRate.
VerdictCountsEvents ==
    [][\A t \in Threads : Inserts(t) =>
         (Evaluate(evicted'[t], newest'[t]) = ComparatorIsGe) =
            (new[t] + Window >= Newest' /\ EventsInWindow(Newest)' > N)]_vars

\* "`>= 2 / 10s` - burst detection: alert when rate >= 2 per 10s": an event, none newer
\* than it, passes a ">= N" limiter when it makes N events in its window, and a "< N"
\* limiter when it does not.  (Violated: the N-th event still evicts the ring's 0.)
PassesAtRate ==
    [][\A t \in Threads : Inserts(t) /\ new[t] = Newest' =>
         (Evaluate(evicted'[t], newest'[t]) = ComparatorIsGe) = (EventsInWindow(Newest)' >= N)]_vars

-----------------------------------------------------------------------------
(* The ring's order at every point of an insertion: the strengthening that *)
(* makes the invariants above inductive.                                   *)

\* The rank of slot i when slot first is the lowest.
Rank(i, first) == IF i >= first THEN i - first ELSE i - first + N

Sorted(first) ==
    \A a, b \in Slots :
        Rank(a, first) <= Rank(b, first) => timestamps[a] <= timestamps[b]

\* The slot the next write of insert_helper goes to.
Hole == IF loop = "low" THEN j + 1 ELSE IF idx = N - 1 THEN 0 ELSE j + 1

\* During an insertion idx is the highest slot.  The other slots but the hole
\* are in order, those above the hole are newer than the new timestamp, and
\* none is older than the previous oldest.
SortedButHole(x) ==
    /\ \A a, b \in Slots \ {Hole} :
           Rank(a, Inc(idx)) <= Rank(b, Inc(idx)) => timestamps[a] <= timestamps[b]
    /\ \A a \in Slots \ {Hole} :
           Rank(a, Inc(idx)) > Rank(Hole, Inc(idx)) => timestamps[a] > x
    /\ \A a \in Slots \ {Hole} : prevOldest <= timestamps[a]

CursorOK ==
    /\ loop = "low" => j \in -1 .. idx - 1
    /\ loop = "high" => j = N - 2 \/ (idx < N - 1 /\ j \in idx .. N - 2)

MutexOK == \A t \in Threads : pc[t] = "insert" <=> holder = t

RingInv ==
    /\ MutexOK
    /\ holder = NoThread => Sorted(idx)
    /\ holder # NoThread => CursorOK /\ SortedButHole(new[holder])
    /\ \A t \in Threads : pc[t] = "publish" =>
           /\ \A i \in Slots : evicted[t] <= timestamps[i]
           /\ holder # NoThread => evicted[t] <= prevOldest
-----------------------------------------------------------------------------
(* The window that the ring implements.                                    *)

\* What was in slot p before the insertion in progress: the slots from the hole up
\* have moved.
Before(p) ==
    IF holder = NoThread THEN timestamps[p]
    ELSE IF p = idx THEN prevOldest
    ELSE IF Rank(p, Inc(idx)) >= Rank(Hole, Inc(idx)) THEN timestamps[Inc(p)]
    ELSE timestamps[p]

\* The slot of rank r when slot first is the lowest.
SlotOf(r, first) == IF first + r < N THEN first + r ELSE first + r - N

\* How far a call is, seen from outside.
Stage(at) == IF at \in {"lock", "insert"} THEN "called"
             ELSE IF at = "publish" THEN "answered" ELSE at

RW == INSTANCE RateWindow WITH
        kept <- [i \in 1 .. N |-> Before(SlotOf(i - 1, idx))],
        stage <- [t \in Threads |-> Stage(pc[t])],
        arg <- new,
        answer <- [t \in Threads |-> <<evicted[t], newest[t]>>]
=============================================================================
