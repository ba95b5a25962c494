---------------------------- MODULE CommandRouter ---------------------------
(***************************************************************************)
(* The routing of admin messages: CommandRouter                            *)
(* (signal-gateway/src/gateway/command_router.rs), the table that the      *)
(* binary builds, and how a gateway command is read                        *)
(* (signal-gateway/src/gateway/mod.rs).                                    *)
(*                                                                         *)
(* A text is a sequence of symbols: a marker such as "/" or "#", or a word.*)
(* A route is a record [prefix, handling].                                 *)
(***************************************************************************)
EXTENDS Naturals, Sequences, SequencesExt

\* Texts, and the tables that may be given to the builder.
Text == Seq(STRING)
Table == Seq([prefix : Text, handling : STRING])

\* build panics unless this holds.
Builds(table) ==
    \A i, j \in DOMAIN table :
        i < j => ~IsPrefix(table[i].prefix, table[j].prefix)

Matched(table, text) == {i \in DOMAIN table : IsPrefix(table[i].prefix, text)}

\* A mutant of RouteOf: the last prefix that matches.
LastRouteOf(table, text) ==
    IF Matched(table, text) = {} THEN 0
    ELSE CHOOSE i \in Matched(table, text) : \A k \in Matched(table, text) : k <= i

\* The first route whose prefix matches, 0 if there is none.
RouteOf(table, text) ==
    IF Matched(table, text) = {} THEN 0
    ELSE CHOOSE i \in Matched(table, text) : \A k \in Matched(table, text) : i <= k

\* strip_prefix
Stripped(prefix, text) == SubSeq(text, Len(prefix) + 1, Len(text))

\* The binary's table, with an admin HTTP handler under "custom", if there is one,
\* and an assistant.
MainTable(custom) ==
    LET Route(prefix, handling) == <<[prefix |-> prefix, handling |-> handling]>>
    IN  Route(<<"--help">>, "Help") \o Route(<<"-h">>, "Help")
        \o (IF custom = <<>> THEN <<>> ELSE Route(custom[1], "Custom"))
        \o Route(<<"/">>, "GatewayCommand") \o Route(<<>>, "Claude")
-----------------------------------------------------------------------------
(* Gateway commands.                                                       *)

\* The number of arguments that the commands take; 9 stands for any number.
Arguments == [log |-> 0..1, query |-> {1}, plot |-> {1}, series |-> 0..9,
              labels |-> 0..9, alerts |-> {0}, claude_stop |-> {0},
              claude_compact |-> {0}, claude_debug |-> {0}]

\* parse_gateway_command, of a text without the prefix: another "/" is dropped,
\* and the rest is read like a command line.
GatewayCommand(text) ==
    LET words == IF text # <<>> /\ text[1] = "/" THEN Tail(text) ELSE text
    IN  IF /\ words # <<>>
           /\ words[1] \in DOMAIN Arguments
           /\ Len(words) - 1 \in Arguments[words[1]]
        THEN words[1] ELSE "invalid"

\* What handle_signal_admin_message does with a text that takes a route of the
\* table: a gateway command is named by what it does to the assistant; Help and
\* Custom, which record and answer, are like a command that only reads.
HandledBy(table, route, text) ==
    LET cmd == GatewayCommand(Stripped(table[route].prefix, text))
    IN  CASE table[route].handling \in {"Help", "Custom"} -> "command"
          [] table[route].handling = "Claude" -> "prompt"
          [] OTHER -> CASE cmd = "claude_stop" -> "stop"
                        [] cmd = "claude_compact" -> "compact"
                        [] cmd = "claude_debug" -> "debug"
                        [] cmd = "invalid" -> "invalid"
                        [] OTHER -> "command"

Handled(table, text) ==
    IF RouteOf(table, text) = 0 THEN "ignored"
    ELSE HandledBy(table, RouteOf(table, text), text)
=============================================================================
