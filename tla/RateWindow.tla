----------------------------- MODULE RateWindow -----------------------------
(***************************************************************************)
(* What a MultiRateLimiter promises (signal-gateway/src/rate_limiter.rs).  *)
(*                                                                         *)
(* It keeps the N most recent timestamps it has been given.  evaluate(x)   *)
(* adds x, drops the oldest of the N + 1 timestamps it then has and        *)
(* compares the dropped one with the newest one.  Threads that evaluate    *)
(* at the same time take effect one after the other.                       *)
(***************************************************************************)
EXTENDS RateLimits

CONSTANTS Threads,         \* tasks that call evaluate
          N,               \* RateThreshold.times: the number kept
          Timestamps       \* the timestamps callers pass, in seconds

VARIABLES kept,            \* the N newest timestamps, oldest first
          latest,          \* the published newest timestamp
          stage,           \* "idle", "called" or "answered", per thread
          arg,             \* the timestamp each thread passed
          answer           \* <<dropped, newest>>, per thread

vars == <<kept, latest, stage, arg, answer>>

Init == /\ kept = [i \in 1 .. N |-> 0]
        /\ latest = 0
        /\ stage = [t \in Threads |-> "idle"]
        /\ arg = [t \in Threads |-> 0]
        /\ answer = [t \in Threads |-> <<0, 0>>]

Call(t, x) ==
    /\ stage[t] = "idle"
    /\ stage' = [stage EXCEPT ![t] = "called"]
    /\ arg' = [arg EXCEPT ![t] = x]
    /\ UNCHANGED <<kept, latest, answer>>

\* The step at which the call takes effect.
Take(t) ==
    /\ stage[t] = "called"
    /\ LET all == Placed(kept, arg[t])
       IN  /\ kept' = Tail(all)
           /\ answer' = [answer EXCEPT ![t] = <<Head(all), Last(all)>>]
    /\ stage' = [stage EXCEPT ![t] = "answered"]
    /\ UNCHANGED <<latest, arg>>

\* The answer becomes visible to readers of latest, and the call returns.
Publish(t) ==
    /\ stage[t] = "answered"
    /\ latest' = IF answer[t][2] > latest THEN answer[t][2] ELSE latest
    /\ stage' = [stage EXCEPT ![t] = "idle"]
    /\ UNCHANGED <<kept, arg, answer>>

Next == \E t \in Threads :
            \/ \E x \in Timestamps : Call(t, x)
            \/ Take(t)
            \/ Publish(t)

Spec == Init /\ [][Next]_vars

\* A call that has begun returns.
FairSpec == Spec /\ \A t \in Threads : WF_vars(Take(t) \/ Publish(t))

=============================================================================
