----------------------------- MODULE MCLogIngest -----------------------------
(***************************************************************************)
(* Scripts for model checking LogIngest: one connection that sends up to   *)
(* two items in every combination, and three in some; two connections and  *)
(* datagrams; and a datagram with a path for every pattern.                *)
(***************************************************************************)
EXTENDS LogIngest, TLC

CONSTANTS c1, c2

OctetItem(text) == [is |-> "octets", text |-> text]
LineItem(text, end) == [is |-> "line", text |-> text, end |-> <<end>>]
SpaceItem(text) == [is |-> "space", text |-> text]
BrokenItem(text) == [is |-> "broken", text |-> text]

Parsed(level, timestamp, file) == [level |-> level, timestamp |-> timestamp, file |-> file]
None == <<>>

\* Syslog.  A message of ten bytes, with what ends a line or begins a frame inside,
\* one whose part parses, and one that does not parse.
A == <<"<", "x">>
Crlf == <<"<", "cr">>
Long == <<"<", "x", "lf", "nul", "1", " ", "cr", "x", "x", "x">>
SyslogParser == A :> Parsed("SEV_EMERG", <<7>>, None) @@ Crlf :> Parsed("SEV_DEBUG", None, None)
                @@ Long :> Parsed("SEV_ERR", None, None)
SyslogItems(cr) ==
    { OctetItem(A), OctetItem(Crlf), OctetItem(Long), OctetItem(<<"x">>), LineItem(A, "nul"),
      LineItem(<<"<", "1">>, "nul"), LineItem(<<"<", "x", "x">>, IF cr THEN "cr" ELSE "lf"),
      IF cr THEN LineItem(<<"<", "lf", "x">>, "cr") ELSE LineItem(Crlf, "lf"),
      SpaceItem(<<"cr", "lf">>), SpaceItem(<<" ", "tab">>),
      BrokenItem(<<"x">>), BrokenItem(<<"0">>), BrokenItem(<<"nul">>), BrokenItem(<<"1", "x">>),
      BrokenItem(<<"1", "3">>) }

\* JSON.  Objects with a newline, a quote and braces inside.
Object == <<"{", "lf", "}">>
String == <<"{", "quote", "backslash", "quote", "}", "lf", "quote", "[", "x", "]", "}">>
JsonParser == Object :> Parsed("WARN", <<7>>, None) @@ String :> Parsed("strange", <<8>>, None)
              @@ Append(Object, "cr") :> Parsed("missing", None, None)
JsonItems ==
    { LineItem(Object, "lf"), LineItem(String, "lf"), LineItem(Append(Object, "cr"), "lf"),
      LineItem(<<"x">>, "lf"), LineItem(<<"cr">>, "lf"), LineItem(<<"[", "{", "]", "}">>, "lf"),
      SpaceItem(<<"lf">>), BrokenItem(<<"[", "}">>), BrokenItem(<<"]">>) }

Script(protocol, cr, parser, one, two, udp) ==
    [protocol |-> protocol, crIsDelimiter |-> cr, parser |-> parser,
     items |-> c1 :> one @@ c2 :> two, datagrams |-> udp, prefixes |-> <<>>]

UpTo2(S) == UNION {[1..n -> S] : n \in 1..2}

\* Paths, and the patterns to strip.
Files == UNION {[1..n -> {"/", "a"}] : n \in 0..5}
         \cup {<<"/", "a", "/", "b", "/", "a">>, <<"a", "b", "/", "a">>, <<"a", "b", "a">>}
Patterns == { <<>>, <<"a">>, <<"/", "a">>, <<"a", "/">>, <<"*">>, <<"*", "/">>, <<"/", "*">>,
              <<"a", "*", "/", "a">>, <<"*", "a", "*">>, <<"/", "*", "/", "*", "/">>,
              <<"/", "a", "/", "*", "/", "a">>,
              <<"**">>, <<"**", "/", "a">>, <<"**", "/", "a", "/">>,
              <<"/", "**", "/", "a", "/">>, <<"*", "a", "/", "**", "/", "a", "*">>,
              <<"/", "*", "/", "a", "/", "**", "/", "a">> }
PathScripts ==
    { [Script("json", FALSE, <<"{">> :> Parsed("FATAL", None, file), <<>>, <<>>, <<<<"{">>>>)
       EXCEPT !.prefixes = patterns] :
           file \in Files, patterns \in [1..1 -> Patterns] \cup {<<<<"a">>, <<"/", "*">>>>} }

MCScripts ==
    UNION { {Script("syslog", cr, SyslogParser, one, <<>>, <<>>) : one \in UpTo2(SyslogItems(cr))} :
                cr \in BOOLEAN }
    \cup {Script("json", FALSE, JsonParser, one, <<>>, <<>>) : one \in UpTo2(JsonItems)}
    \cup {Script("syslog", FALSE, SyslogParser, <<first, OctetItem(Crlf), LineItem(A, "lf")>>, <<>>, <<>>) :
             first \in SyslogItems(FALSE)}
    \cup {Script("syslog", FALSE, SyslogParser, <<one, OctetItem(A)>>, <<LineItem(A, "nul")>>,
             <<A \o <<"x">>, <<"<", "x">>, <<"x">>>>) :
             one \in {OctetItem(A), BrokenItem(<<"x">>)}}
    \cup {Script("json", FALSE, JsonParser, <<LineItem(Object, "lf")>>, <<LineItem(<<"x">>, "lf")>>,
             <<Object, String>>)}
    \cup PathScripts
=============================================================================
