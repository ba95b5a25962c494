----------------------------- MODULE MCTrustSet -----------------------------
(***************************************************************************)
(* An admin with two configured numbers, one with one, and one without     *)
(* any; each has an identity more than is configured.                      *)
(***************************************************************************)
EXTENDS TrustSet, TLC

CONSTANTS a1, a2, a3, n1, n2, n3

MCNumbers == (a1 :> {n1, n2, n3}) @@ (a2 :> {n1, n2}) @@ (a3 :> {n1})
MCConfig  == (a1 :> {n1, n2}) @@ (a2 :> {n1}) @@ (a3 :> {})
=============================================================================
