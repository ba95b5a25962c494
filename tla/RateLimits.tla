----------------------------- MODULE RateLimits -----------------------------
(***************************************************************************)
(* What a rate limit computes from the timestamps of its events            *)
(* (signal-gateway/src/rate_limiter.rs), as operators.                     *)
(***************************************************************************)
EXTENDS Integers, Sequences, FiniteSets, SequencesExt

\* The N timestamps a limiter starts with.
Fresh(n) == [i \in 1 .. n |-> 0]

\* s, a sequence in increasing order, with x put in its place.
Placed(s, x) ==
    [i \in 1 .. Len(s) + 1 |->
        IF i <= Len(s) /\ s[i] <= x THEN s[i]
        ELSE IF i = 1 \/ s[i - 1] <= x THEN x ELSE s[i - 1]]

\* Whether "limit" lets an event through that evicts "dropped" when the newest
\* event is "newest": a limit is a RateThreshold.
Passes(limit, dropped, newest) ==
    (dropped + limit.window >= newest) = limit.ge

=============================================================================
