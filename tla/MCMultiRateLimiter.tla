------------------------- MODULE MCMultiRateLimiter -------------------------
(***************************************************************************)
(* Model checking of MultiRateLimiter: what its verdicts mean, and that it *)
(* implements RateWindow with its fairness.                                *)
(***************************************************************************)
EXTENDS MultiRateLimiter, Sequences

\* The ring under its mutex behaves as the atomic window of the N newest
\* timestamps: none is lost or duplicated by the shifting, what is published never
\* goes back, and every call of evaluate takes effect and returns.
ImplementsRateWindow == RW!FairSpec

=============================================================================
