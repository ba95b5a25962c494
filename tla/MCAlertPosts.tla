---------------------------- MODULE MCAlertPosts -----------------------------
(***************************************************************************)
(* Requests for model checking AlertPosts: posts with an alert that can be *)
(* plotted and one that cannot, a health check with the wrong method, and  *)
(* a post that is not JSON.                                                *)
(***************************************************************************)
EXTENDS AlertPosts, TLC

Request(path, method, fault, alerts) ==
    [path |-> path, method |-> method, fault |-> fault, alerts |-> alerts]

MCRequests ==
    {Request("/alert", "POST", "none", <<<<"up", "<", "1">>>>),
     Request("/alert", "POST", "none", <<<<"absent">>, <<"a", ">", "2", "or", "b", "<", "1">>>>),
     Request("/alert", "POST", "not json", <<>>),
     Request("/health", "POST", "none", <<>>)}

\* Connections are interchangeable, for the safety properties.
ConnSymmetry == Permutations(Conns)
=============================================================================
