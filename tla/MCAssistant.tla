----------------------------- MODULE MCAssistant -----------------------------
(***************************************************************************)
(* Model checking of ClaudeAssistant and of CodeTool, one of the tools it  *)
(* calls, each by itself: to the assistant a tool is anything that answers *)
(* in the end or is dropped, and to the tool the assistant is one of its   *)
(* callers.  Which of the two runs is chosen with the plan.                *)
(*                                                                         *)
(* For CodeTool either two callers list the files of three versions while  *)
(* those are deployed, one of which cannot be extracted, from GitHub or a  *)
(* file; or one caller reads or searches two files, of which one is any of *)
(* a set of texts, in every way.                                           *)
(***************************************************************************)
EXTENDS ClaudeAssistant, CodeTool

CONSTANTS c1, c2, v1, v2, v3

Dir == <<"top", "src">>
One == <<"top", "src", "a">>
Two == <<"top", "src", "b">>
MCGlob == {Tail(One), Tail(Two)}

Entry(path, is, text) == [path |-> path, is |-> is, text |-> text]

\* An archive with its directory, with one file twice, and with files left out.
Archive(text) ==
    << Entry(Dir, "dir", <<>>), Entry(One, "file", <<"y">>), Entry(One, "file", text),
       Entry(<<"top", "README">>, "file", <<"x">>), Entry(<<"x">>, "file", <<"x">>),
       Entry(Two, "lossy", <<Odd>>), Entry(Two, "file", <<"x", Newline, "x">>) >>

Broken == << Entry(One, "file", <<"x">>), Entry(One, "broken", <<>>) >>

\* Every text of up to four characters, and some of six lines.
Texts == UNION {[1..n -> {"x", "y", Newline}] : n \in 0..4}
         \cup { [i \in 1..11 |-> IF i % 2 = 0 THEN Newline
                                 ELSE IF i \in hits THEN "x" ELSE "y"] :
                    hits \in SUBSET {1, 3, 5, 7, 9, 11} }
         \cup {<<Odd, "x">>, <<"x", "y", Odd>>}

None == [op |-> "none"]
List == [op |-> "ls", path |-> <<"src">>]
Reads == [op : {"read"}, path : {Tail(One), <<"src", "c">>},
          start : {All, 0, 1, 2, 3, U32 + 1}, end : {All, 0, 1, 2, U32 - 1}]
\* x, [x\n], x?, \n{1,2}, $ and (?m)^\n{0,2}$.
Word(words) == [words |-> words, from |-> "any", to |-> "any"]
Patterns == { Word({<<"x">>}), Word({<<"x">>, <<Newline>>}), Word({<<>>, <<"x">>}),
              Word({<<Newline>>, <<Newline, Newline>>}),
              [words |-> {<<>>}, from |-> "any", to |-> "text"],
              [words |-> {<<>>, <<Newline>>, <<Newline, Newline>>}, from |-> "line", to |-> "line"] }
Searches == [op : {"search"}, pattern : Patterns, context : {0, 1, U32 - 2}, within : {MCGlob}]
        \cup [op : {"search"}, pattern : {Word({<<"x">>})}, context : {2}, within : {{Tail(One)}}]
Finds == [op : {"find"}, glob : {{Tail(Two)}}]
Others == [op : {"summary", "refused"}]

\* Nobody calls the tool: the assistant runs.
Quiet == [fromFile |-> FALSE, tarball |-> v1 :> <<>>, request |-> c1 :> None @@ c2 :> None]

MCPlans ==
    { [fromFile |-> file, tarball |-> v1 :> Archive(<<"x">>) @@ v2 :> Archive(<<"y">>) @@ v3 :> Broken,
       request |-> c1 :> List @@ c2 :> List] : file \in BOOLEAN }
    \cup { [fromFile |-> FALSE, tarball |-> v1 :> Archive(text),
            request |-> c1 :> request @@ c2 :> None] :
                text \in Texts, request \in Reads \cup Searches \cup Finds }
    \cup { [fromFile |-> FALSE, tarball |-> v1 :> Archive(<<"x">>),
            request |-> c1 :> request @@ c2 :> List] : request \in Others }
    \cup { Quiet }

MCInit == Init /\ ToolInit

MCNext == \/ plan = Quiet /\ Next /\ UNCHANGED toolVars
          \/ ToolNext /\ UNCHANGED vars

MCSpec == MCInit /\ [][MCNext]_<<vars, toolVars>> /\ WF_vars(Own) /\ ToolFairness
=============================================================================
