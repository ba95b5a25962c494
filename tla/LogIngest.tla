------------------------------ MODULE LogIngest ------------------------------
(***************************************************************************)
(* The listeners of signal-gateway-log-ingest: syslog (src/syslog.rs) or   *)
(* JSON (src/json/), each over TCP, with a task per connection that takes  *)
(* its bytes apart into messages, and over UDP.  What a message parses to  *)
(* reaches Gateway::handle_log_message.                                    *)
(*                                                                         *)
(* Bytes are told apart as far as the framing does.  The parsers, utf-8's  *)
(* among them, are libraries: a script says what they accept.  A frame is  *)
(* taken to fit into memory.                                               *)
(***************************************************************************)
EXTENDS PathPrefix

CONSTANTS
    Connections,
    MaxLen,         \* usize::MAX, scaled down
    MaxSecs,        \* the largest timestamp chrono has
    Buffer,         \* the 8192 bytes of a datagram that are received
    Scripts         \* the protocol, its parser, and what is sent

ASSUME IngestAssumption ==
    /\ MaxLen \in Nat /\ MaxSecs \in Nat /\ Buffer \in Nat
    /\ \A s \in Scripts : s.protocol \in {"syslog", "json"} /\ s.crIsDelimiter \in BOOLEAN

VARIABLES
    script,     \* this behaviour's script
    arrived,    \* how many bytes of each connection have arrived
    closed,     \* whether the sender has closed it
    task,       \* the task of a connection, "backlog" before it is accepted
    read,       \* how many bytes it has read
    frame,      \* the frame it is in the middle of
    datagrams,  \* the datagrams still under way
    log         \* history: what handle_log_message passed on, and whose it was

vars == <<script, arrived, closed, task, read, frame, datagrams, log>>

Digits == <<"1", "2", "3", "4", "5", "6", "7", "8", "9">>   \* and "0"
DigitValue(b) == IF b = "0" THEN 0 ELSE CHOOSE d \in 1..9 : Digits[d] = b
IsDigit(b) == b \in Range(Digits) \cup {"0"}

Start == [at |-> "start", text |-> <<>>, len |-> 0, braces |-> 0, brackets |-> 0]
-----------------------------------------------------------------------------
(* What is sent: a script's items, of which a connection sends one after   *)
(* the other.  (Senders that frame a message one way or another, not code  *)
(* of the gateway.)                                                        *)

Item(c, i) == script.items[c][i]

RECURSIVE Decimal(_)
Decimal(n) == IF n = 0 THEN <<>>
              ELSE Append(Decimal(n \div 10), IF n % 10 = 0 THEN "0" ELSE Digits[n % 10])

Bytes(item) ==
    CASE item.is = "octets" -> Decimal(Len(item.text)) \o <<" ">> \o item.text
      [] item.is = "line"   -> item.text \o item.end
      [] OTHER              -> item.text

Stream == [c \in Connections |->
              FlattenSeq([i \in DOMAIN script.items[c] |-> Bytes(Item(c, i))])]
-----------------------------------------------------------------------------
(* From a parsed message to the log.                                       *)

SeverityToLevel ==
    [SEV_EMERG |-> "EMERGENCY", SEV_ALERT |-> "ALERT", SEV_CRIT |-> "CRITICAL",
     SEV_ERR |-> "ERROR", SEV_WARNING |-> "WARNING", SEV_NOTICE |-> "NOTICE",
     SEV_INFO |-> "INFO", SEV_DEBUG |-> "DEBUG"]

\* Level::parse of a name in capitals; the empty sequence is None.
ParseLevel(name) ==
    LET names == << {"EMERGENCY", "EMERG"}, {"ALERT"}, {"CRITICAL", "CRIT", "FATAL"},
                    {"ERROR", "ERR"}, {"WARNING", "WARN"}, {"NOTICE", "NOTE"},
                    {"INFO", "INFORMATION"}, {"DEBUG"}, {"TRACE"} >>
        levels == <<"EMERGENCY", "ALERT", "CRITICAL", "ERROR", "WARNING", "NOTICE",
                    "INFO", "DEBUG", "TRACE">>
    IN  SelectSeq(levels, LAMBDA l : \E k \in DOMAIN names : levels[k] = l /\ name \in names[k])

SyslogToLogMessage(parsed) == [parsed EXCEPT !.level = SeverityToLevel[@]]

\* deserialize_timestamp of a number: out of range, it is None.
Timestamp(secs) == SelectSeq(secs, LAMBDA s : s \in -MaxSecs..MaxSecs)

\* into_log_message: a level that is missing or unknown is an error.
IntoLogMessage(parsed) ==
    LET level == ParseLevel(parsed.level)
    IN  [parsed EXCEPT !.level = IF level = <<>> THEN "ERROR" ELSE level[1],
                       !.timestamp = Timestamp(@)]

\* Gateway::handle_log_message, as far as the log handler.
Normalized(message) ==
    LET stripped == StripPathPrefix(script.prefixes, message.file)
    IN  IF Len(stripped) < Len(message.file) THEN [message EXCEPT !.file = stripped]
        ELSE message

Parses(text) == text \in DOMAIN script.parser
MessageOf(text) ==
    LET parsed == script.parser[text]
    IN  Normalized(IF script.protocol = "syslog" THEN SyslogToLogMessage(parsed)
                   ELSE IntoLogMessage(parsed))

\* (A connection that is to send nothing is one that has ended.)
Init ==
    /\ script \in Scripts
    /\ arrived = [c \in Connections |-> 0]
    /\ closed = [c \in Connections |-> Stream[c] = <<>>]
    /\ task = [c \in Connections |-> IF Stream[c] = <<>> THEN "ended" ELSE "backlog"]
    /\ read = [c \in Connections |-> 0]
    /\ frame = [c \in Connections |-> Start]
    /\ datagrams = DOMAIN script.datagrams
    /\ log = <<>>
-----------------------------------------------------------------------------
(* The senders, and the loops that accept and receive.                     *)

Arrive(c) ==
    /\ ~closed[c] /\ arrived[c] < Len(Stream[c])
    /\ arrived' = [arrived EXCEPT ![c] = @ + 1]
    /\ UNCHANGED <<script, closed, task, read, frame, datagrams, log>>

\* At any byte.
Close(c) ==
    /\ ~closed[c]
    /\ closed' = [closed EXCEPT ![c] = TRUE]
    /\ UNCHANGED <<script, arrived, task, read, frame, datagrams, log>>

\* A mutant of Accept: one connection after the other.
AcceptOne(c) ==
    /\ task[c] = "backlog" /\ \A d \in Connections : task[d] # "reading"
    /\ task' = [task EXCEPT ![c] = "reading"]
    /\ UNCHANGED <<script, arrived, closed, read, frame, datagrams, log>>

\* Each connection has a task of its own.
Accept(c) ==
    /\ task[c] = "backlog"
    /\ task' = [task EXCEPT ![c] = "reading"]
    /\ UNCHANGED <<script, arrived, closed, read, frame, datagrams, log>>

\* Reading fails, whatever has arrived.
Reset(c) ==
    /\ task[c] = "reading"
    /\ task' = [task EXCEPT ![c] = "reset"]
    /\ UNCHANGED <<script, arrived, closed, read, frame, datagrams, log>>

\* Datagrams arrive in any order, or not at all; what does not parse is skipped.
Datagram(d) ==
    /\ d \in datagrams /\ datagrams' = datagrams \ {d}
    /\ LET text == Take(script.datagrams[d], Min({Buffer, Len(script.datagrams[d])}))
       IN  log' = IF Parses(text) THEN Append(log, <<"udp", MessageOf(text)>>) ELSE log
    /\ UNCHANGED <<script, arrived, closed, task, read, frame>>
-----------------------------------------------------------------------------
(* A connection's task, byte by byte.                                      *)

Reads(c) == task[c] = "reading" /\ read[c] < arrived[c]
Byte(c) == Stream[c][read[c] + 1]

\* The frame goes on as f.
GoOn(c, f) ==
    /\ frame' = [frame EXCEPT ![c] = f]
    /\ read' = [read EXCEPT ![c] = @ + 1]
    /\ UNCHANGED <<script, arrived, closed, task, datagrams, log>>

\* Byte joins the text.
Push(c, f) == GoOn(c, [f EXCEPT !.text = Append(@, Byte(c))])

Fail(c, n) ==
    /\ task' = [task EXCEPT ![c] = "failed"]
    /\ read' = [read EXCEPT ![c] = @ + n]
    /\ UNCHANGED <<script, arrived, closed, frame, datagrams, log>>

\* A mutant of Complete: of JSON, too, what does not parse is skipped.
CompleteSkips(c, text, n) ==
    /\ log' = IF Parses(text) THEN Append(log, <<c, MessageOf(text)>>) ELSE log
    /\ read' = [read EXCEPT ![c] = @ + n]
    /\ frame' = [frame EXCEPT ![c] = Start]
    /\ UNCHANGED <<script, arrived, closed, task, datagrams>>

\* handle_tcp_connection with a frame of that text, which n more bytes end.  What is
\* not valid is skipped by the syslog listener, the JSON one closes the connection.
Complete(c, text, n) ==
    IF Parses(text) \/ script.protocol = "syslog"
    THEN /\ log' = IF Parses(text) THEN Append(log, <<c, MessageOf(text)>>) ELSE log
         /\ read' = [read EXCEPT ![c] = @ + n]
         /\ frame' = [frame EXCEPT ![c] = Start]
         /\ UNCHANGED <<script, arrived, closed, task, datagrams>>
    ELSE Fail(c, n)

\* What read_framed_syslog_bytes skips between frames.
Whitespace == {" ", "tab", "lf", "cr"}

\* read_framed_syslog_bytes: the first byte of a frame.
First(c) ==
    /\ frame[c].at = "start"
    /\ LET b == Byte(c)
       IN  CASE b \in Whitespace -> GoOn(c, Start)
             [] b \in Range(Digits) -> GoOn(c, [Start EXCEPT !.at = "count", !.len = DigitValue(b)])
             [] b = "<" -> Push(c, [Start EXCEPT !.at = "line"])
             [] OTHER -> Fail(c, 1)

\* read_octet_counted_message: the length ...
Count(c) ==
    /\ frame[c].at = "count"
    /\ LET b == Byte(c)
           len == frame[c].len * 10 + DigitValue(b)
       IN  CASE IsDigit(b) /\ len <= MaxLen -> GoOn(c, [frame[c] EXCEPT !.len = len])
             [] b = " " -> GoOn(c, [frame[c] EXCEPT !.at = "octets"])
             [] OTHER -> Fail(c, 1)

\* A mutant of Octets: the message is complete when one more byte comes.
OctetsLate(c) ==
    /\ frame[c].at = "octets"
    /\ IF Len(frame[c].text) < frame[c].len
       THEN Push(c, frame[c])
       ELSE Complete(c, frame[c].text, 0)

\* ... and that many bytes.
Octets(c) ==
    /\ frame[c].at = "octets"
    /\ LET text == Append(frame[c].text, Byte(c))
       IN  IF Len(text) < frame[c].len THEN Push(c, frame[c]) ELSE Complete(c, text, 1)

\* read_non_transparent_message
Line(c) ==
    /\ frame[c].at = "line"
    /\ IF Byte(c) \in {"nul", IF script.crIsDelimiter THEN "cr" ELSE "lf"}
       THEN Complete(c, frame[c].text, 1)
       ELSE Push(c, frame[c])

\* read_json_lines_value: within quotes ...
Quoted(c) ==
    /\ frame[c].at \in {"quoted", "escaped"}
    /\ Push(c, [frame[c] EXCEPT !.at = IF @ = "quoted" /\ Byte(c) = "backslash" THEN "escaped"
                                       ELSE IF @ = "quoted" /\ Byte(c) = "quote" THEN "start"
                                       ELSE "quoted"])

\* A newline ends a value that is not empty, outside of braces and brackets.
Newline(c) ==
    /\ Byte(c) = "lf"
    /\ IF frame[c].braces > 0 \/ frame[c].brackets > 0 THEN Push(c, frame[c])
       ELSE IF frame[c].text = <<>> THEN GoOn(c, frame[c])
       ELSE Complete(c, frame[c].text, 1)

\* ... and outside.
Unquoted(c) ==
    /\ frame[c].at = "start"
    /\ LET b == Byte(c)
           f == frame[c]
       IN  CASE b = "lf" -> Newline(c)
             [] b = "quote" -> Push(c, [f EXCEPT !.at = "quoted"])
             [] b = "{" -> Push(c, [f EXCEPT !.braces = @ + 1])
             [] b = "[" -> Push(c, [f EXCEPT !.brackets = @ + 1])
             [] b = "}" /\ f.braces > 0 -> Push(c, [f EXCEPT !.braces = @ - 1])
             [] b = "]" /\ f.brackets > 0 -> Push(c, [f EXCEPT !.brackets = @ - 1])
             [] b \in {"}", "]"} -> Fail(c, 1)
             [] OTHER -> Push(c, f)

\* The end of the stream.  A partial line, or JSON value, counts as one; what follows
\* a length is missed.
Eof(c) ==
    /\ task[c] = "reading" /\ closed[c] /\ read[c] = arrived[c]
    /\ IF frame[c].text = <<>> /\ frame[c].at = "start"
       THEN /\ task' = [task EXCEPT ![c] = "ended"]
            /\ UNCHANGED <<script, arrived, closed, read, frame, datagrams, log>>
       ELSE IF frame[c].at \in {"count", "octets"} THEN Fail(c, 0)
       ELSE Complete(c, frame[c].text, 0)

Reading(c) == Reads(c) /\ (IF script.protocol = "syslog"
                           THEN First(c) \/ Count(c) \/ Octets(c) \/ Line(c)
                           ELSE Quoted(c) \/ Unquoted(c))

Listen(c) == Accept(c) \/ Reading(c) \/ Eof(c)

\* The two listeners.
SyslogListens == /\ script.protocol = "syslog"
                 /\ \/ \E c \in Connections : Listen(c)
                    \/ \E d \in datagrams : Datagram(d)

JsonListens == /\ script.protocol = "json"
               /\ \/ \E c \in Connections : Listen(c)
                  \/ \E d \in datagrams : Datagram(d)

Next == \/ \E c \in Connections : Arrive(c) \/ Close(c) \/ Reset(c)
        \/ SyslogListens \/ JsonListens

\* The tasks are scheduled; what is sent need not arrive, and no sender need close.
Spec == Init /\ [][Next]_vars /\ \A c \in Connections : WF_vars(Listen(c))
-----------------------------------------------------------------------------
(* Properties.                                                             *)

End(c, i) == Len(FlattenSeq([k \in 1..i |-> Bytes(Item(c, k))]))
Items(c) == DOMAIN script.items[c]

\* An item that no reader can take for a frame, or that the JSON parser refuses.
Broken(item) == \/ item.is = "broken"
                \/ script.protocol = "json" /\ item.is = "line" /\ ~Parses(item.text)

\* What is read of the item the stream ends in.
CutItem(c) == {i \in Items(c) : End(c, i - 1) < read[c] /\ read[c] < End(c, i)}
CutText(c, i) == Take(Bytes(Item(c, i)), read[c] - End(c, i - 1))

\* Whatever the pieces in which they arrive, however octet counting and delimiters
\* (of two kinds) are mixed, and whatever is inside a message (a delimiter, a
\* digit, a newline in a JSON object, an escaped quote): the log has, of each
\* connection, the messages of the items that were read, in order, each once and
\* whole.  Only of a line at whose middle the stream ended it may have a part,
\* the last; of a counted message never.
FramesDelivered ==
    \A c \in Connections :
        LET got == SelectSeq(log, LAMBDA entry : entry[1] = c)
            whole == SelectSeq([i \in Items(c) |-> i],
                               LAMBDA i : /\ End(c, i) <= read[c]
                                          /\ Item(c, i).is \in {"octets", "line"}
                                          /\ Parses(Item(c, i).text))
            cut == {i \in CutItem(c) : /\ Item(c, i).is = "line" /\ Parses(CutText(c, i))
                                       /\ closed[c] /\ frame[c] = Start}
        IN  [k \in DOMAIN got |-> got[k][2]]
                = [k \in DOMAIN whole |-> MessageOf(Item(c, whole[k]).text)]
                  \o (IF cut = {} THEN <<>> ELSE <<MessageOf(CutText(c, CHOOSE i \in cut : TRUE))>>)

\* The gateway closes a connection for an error if and only if it has come to what
\* is not a frame: senders that frame well may end lines as they like, put blank
\* lines between them (of JSON: empty ones), and, of syslog only, send messages
\* that do not parse.
ClosedOnlyIfBroken ==
    \A c \in Connections :
        LET broken == \E i \in Items(c) : Broken(Item(c, i)) /\ End(c, i) <= read[c]
            cut == \E i \in CutItem(c) :
                      \/ Item(c, i).is \in {"octets", "broken"}
                      \/ script.protocol = "json" /\ ~Parses(CutText(c, i))
        IN  /\ task[c] = "failed" => broken \/ (closed[c] /\ cut)
            /\ broken => task[c] = "failed"

\* A frame that has arrived is read to its end without waiting for what follows it,
\* while other connections are silent, or fail.
FramesRead ==
    \A c \in Connections :
        []<>(\A i \in Items(c) : arrived[c] >= End(c, i) =>
                read[c] >= End(c, i) \/ task[c] \in {"failed", "reset"})

\* A path that a pattern without "**" matches loses the longest prefix that the
\* pattern, as a glob, matches, and that ends with a component; each pattern sees what the
\* one before left.
PathsStripped ==
    LET simple == \A k \in DOMAIN script.prefixes : "**" \notin Range(script.prefixes[k])
        Stripped(file) == FoldLeft(LAMBDA path, pattern : Drop(path, GlobPrefix(pattern, path)),
                                   file, script.prefixes)
    IN  simple => \A k \in DOMAIN log :
                     \E text \in DOMAIN script.parser :
                         log[k][2].file = Stripped(script.parser[text].file)
=============================================================================
