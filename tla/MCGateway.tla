----------------------------- MODULE MCGateway -----------------------------
(***************************************************************************)
(* The binary's routing table, with an admin HTTP handler, and messages of *)
(* every kind, for model checking Gateway.                                 *)
(***************************************************************************)
EXTENDS Gateway

MCRouter == MainTable(<< <<"#">> >>)

Message(text) == [admin |-> TRUE, text |-> text]
MCIncoming ==
    {Message(<<"why?">>), Message(<<"/", "claude_stop">>),
     Message(<<"/", "/", "claude_compact">>), Message(<<"/", "claude_debug">>),
     Message(<<"#", "restart">>), Message(<<"/", "query", "up", ">", "0">>),
     [admin |-> FALSE, text |-> <<"hello">>]}
MCStopIncoming == {Message(<<"why?">>), Message(<<"/", "claude_stop">>)}
=============================================================================
