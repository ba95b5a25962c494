------------------------------ MODULE CodeTool ------------------------------
(***************************************************************************)
(* CodeTool (signal-gateway-code-tool/src/lib.rs): calls that ask for the  *)
(* deployed version, take the cache's lock, load that version's tarball    *)
(* if need be, and answer from the cache while they hold the lock.  A call *)
(* is a future that may be dropped wherever it awaits, as the assistant    *)
(* drops it when it is cancelled.                                          *)
(*                                                                         *)
(* The gateway's one assistant makes one call at a time; the methods take  *)
(* &self, and several calls at once are what the lock is for.  The         *)
(* repository is one of several that CodeToolTools dispatches to by name.  *)
(***************************************************************************)
EXTENDS CachedFile

CONSTANTS
    Calls, NoCall,    \* callers, each of which makes its call again and again
    Versions,         \* what may be deployed
    NoVersion,
    Glob,             \* the paths that the configured globs match
    IncludeNonUtf8,   \* CodeToolConfig.include_non_utf8
    Plans             \* the source, its tarballs, and what each caller asks

ASSUME ToolAssumption ==
    /\ NoCall \notin Calls /\ NoVersion \notin Versions
    /\ IncludeNonUtf8 \in BOOLEAN
    /\ \A plan \in Plans : /\ plan.fromFile \in BOOLEAN
                           /\ DOMAIN plan.tarball \subseteq Versions
                           /\ DOMAIN plan.request = Calls

VARIABLES
    plan,       \* this behaviour's source (GitHub or a file), tarballs and requests
    deployed,   \* the deployed version; of a file, the one that is on disk
    stage,      \* how far each call has come
    sha,        \* current_sha of each call, NoVersion if the callback failed
    waiting,    \* the calls that wait for the mutex, which is fair
    holder,     \* the call that holds the guard
    cache,      \* the sha of the cached tarball and the version it holds
    answer,     \* what a call answers, empty but while it is "answered"
    during,     \* history: the versions deployed since the call began
    failed      \* history: whether the call's callback or load failed

toolVars == <<plan, deployed, stage, sha, waiting, holder, cache, answer, during, failed>>

Nothing == [sha |-> NoVersion, holds |-> NoVersion]
Unavailable == <<"source code not available">>

ToolInit ==
    /\ plan \in Plans
    /\ deployed \in DOMAIN plan.tarball
    /\ stage = [c \in Calls |-> "idle"]
    /\ sha = [c \in Calls |-> NoVersion]
    /\ waiting = <<>> /\ holder = NoCall
    /\ cache = Nothing
    /\ answer = [c \in Calls |-> <<>>]
    /\ during = [c \in Calls |-> {}]
    /\ failed = [c \in Calls |-> FALSE]

Goto(c, s) == stage' = [stage EXCEPT ![c] = s]

\* Another version is deployed, perhaps an older one again.
Deploy(v) ==
    /\ v \in DOMAIN plan.tarball \ {deployed}
    /\ deployed' = v
    /\ during' = [c \in Calls |-> IF stage[c] = "idle" THEN {} ELSE during[c] \cup {v}]
    /\ UNCHANGED <<plan, stage, sha, waiting, holder, cache, answer, failed>>

\* What is answered at once: a summary, or a request that is refused (an unknown tool
\* or repository, arguments or a pattern that do not parse).
AtOnce == {"summary", "refused"}

CallAtOnce(c) ==
    /\ stage[c] = "idle" /\ plan.request[c].op \in AtOnce
    /\ Goto(c, "answered")
    /\ answer' = [answer EXCEPT ![c] = <<plan.request[c].op>>]
    /\ during' = [during EXCEPT ![c] = {deployed}]
    /\ UNCHANGED <<plan, deployed, sha, waiting, holder, cache, failed>>

Call(c) ==
    /\ stage[c] = "idle" /\ plan.request[c].op \notin {"none"} \cup AtOnce
    /\ Goto(c, "sha")
    /\ during' = [during EXCEPT ![c] = {deployed}]
    /\ failed' = [failed EXCEPT ![c] = FALSE]
    /\ UNCHANGED <<plan, deployed, sha, waiting, holder, cache, answer>>

\* get_sha answers, and the call asks for the lock ...
GetSha(c) ==
    /\ stage[c] = "sha"
    /\ sha' = [sha EXCEPT ![c] = deployed]
    /\ waiting' = Append(waiting, c)
    /\ Goto(c, "lock")
    /\ UNCHANGED <<plan, deployed, holder, cache, answer, during, failed>>

\* ... also when get_sha fails.
GetShaFail(c) ==
    /\ stage[c] = "sha"
    /\ sha' = [sha EXCEPT ![c] = NoVersion]
    /\ failed' = [failed EXCEPT ![c] = TRUE]
    /\ waiting' = Append(waiting, c)
    /\ Goto(c, "lock")
    /\ UNCHANGED <<plan, deployed, holder, cache, answer, during>>

\* A mutant of NeedsRefresh: what is cached is never loaded again.
NeedsRefreshOnce(s) == cache = Nothing

\* needs_refresh, for a call that was told s.
NeedsRefresh(s) == \/ cache = Nothing
                   \/ ~plan.fromFile /\ cache.sha # s

Lock(c) ==
    /\ holder = NoCall
    /\ stage[c] = "lock" /\ Head(waiting) = c
    /\ waiting' = Tail(waiting) /\ holder' = c
    /\ Goto(c, IF sha[c] # NoVersion /\ NeedsRefresh(sha[c]) THEN "load" ELSE "use")
    /\ UNCHANGED <<plan, deployed, sha, cache, answer, during, failed>>

\* load_tarball and extract succeed.  GitHub gives the version asked for, a file is
\* read as it is by now.
LoadOk(c) ==
    LET holds == IF plan.fromFile THEN deployed ELSE sha[c]
    IN  /\ stage[c] = "load"
        /\ Extracts(plan.tarball[holds])
        /\ cache' = [sha |-> sha[c], holds |-> holds]
        /\ Goto(c, "use")
        /\ UNCHANGED <<plan, deployed, sha, waiting, holder, answer, during, failed>>

\* A mutant of LoadFail: the stale tarball goes.
LoadFailClears(c) ==
    /\ stage[c] = "load"
    /\ cache' = Nothing
    /\ failed' = [failed EXCEPT ![c] = TRUE]
    /\ Goto(c, "use")
    /\ UNCHANGED <<plan, deployed, sha, waiting, holder, answer, during>>

\* Either fails: what was cached stays.
LoadFail(c) ==
    /\ stage[c] = "load"
    /\ failed' = [failed EXCEPT ![c] = TRUE]
    /\ Goto(c, "use")
    /\ UNCHANGED <<plan, deployed, sha, waiting, holder, cache, answer, during>>

\* The answer to request r.
Answer(files, r) ==
    LET named == {i \in DOMAIN files : files[i][1] = r.path}
    IN  CASE r.op = "ls"   -> <<"ls", Ls(files, r.path)>>
          [] r.op = "find" -> <<"find", Find(files, r.glob)>>
          [] r.op = "read" ->
                IF named = {} THEN <<"file not found">>
                ELSE Read(files[CHOOSE i \in named : TRUE][2], r.start, r.end)
          [] r.op = "search" ->
                <<"search", Search(files, r.pattern, r.context, r.within)>>

Files(version) == Extracted(plan.tarball[version], Glob, IncludeNonUtf8)

\* The query runs without an await, and drops the guard at its end.
Use(c) ==
    /\ stage[c] = "use"
    /\ answer' = [answer EXCEPT ![c] =
           IF cache = Nothing THEN Unavailable
           ELSE Answer(Files(cache.holds), plan.request[c])]
    /\ holder' = NoCall
    /\ Goto(c, "answered")
    /\ UNCHANGED <<plan, deployed, sha, waiting, cache, during, failed>>

ReturnAnswer(c) ==
    /\ stage[c] = "answered"
    /\ Goto(c, "idle")
    /\ answer' = [answer EXCEPT ![c] = <<>>]
    /\ sha' = [sha EXCEPT ![c] = NoVersion]
    /\ during' = [during EXCEPT ![c] = {}]
    /\ failed' = [failed EXCEPT ![c] = FALSE]
    /\ UNCHANGED <<plan, deployed, waiting, holder, cache>>

\* A mutant of CancelCall: the lock is taken without a guard.
CancelLeaksLock(c) ==
    /\ stage[c] \in {"sha", "lock", "load"}
    /\ Goto(c, "idle")
    /\ waiting' = SelectSeq(waiting, LAMBDA d : d # c)
    /\ sha' = [sha EXCEPT ![c] = NoVersion]
    /\ during' = [during EXCEPT ![c] = {}]
    /\ failed' = [failed EXCEPT ![c] = FALSE]
    /\ UNCHANGED <<plan, deployed, holder, cache, answer>>

\* The future is dropped at an await, and with it its place in the queue of the
\* mutex, or its guard.
CancelCall(c) ==
    /\ stage[c] \in {"sha", "lock", "load"}
    /\ Goto(c, "idle")
    /\ waiting' = SelectSeq(waiting, LAMBDA d : d # c)
    /\ holder' = IF holder = c THEN NoCall ELSE holder
    /\ sha' = [sha EXCEPT ![c] = NoVersion]
    /\ during' = [during EXCEPT ![c] = {}]
    /\ failed' = [failed EXCEPT ![c] = FALSE]
    /\ UNCHANGED <<plan, deployed, cache, answer>>

\* An answer from outside: the requests have no timeout.
Outside(c) == GetSha(c) \/ GetShaFail(c) \/ LoadOk(c) \/ LoadFail(c)

Inside(c) == Lock(c) \/ Use(c) \/ ReturnAnswer(c)

ToolNext ==
    \/ \E v \in Versions : Deploy(v)
    \/ \E c \in Calls : CallAtOnce(c) \/ Call(c) \/ Outside(c) \/ Inside(c) \/ CancelCall(c)

ToolSpec == ToolInit /\ [][ToolNext]_toolVars

\* What a step of Use does to the stage, which no other step does.
Uses(c) == stage[c] = "use" /\ Goto(c, "answered")

\* A request that is never answered is cancelled in the end.
ToolFairness ==
    \A c \in Calls : /\ WF_toolVars(Lock(c)) /\ WF_stage(Uses(c)) /\ WF_toolVars(ReturnAnswer(c))
                     /\ WF_toolVars(Outside(c) \/ (stage[c] # "lock" /\ CancelCall(c)))

FairToolSpec == ToolSpec /\ ToolFairness
-----------------------------------------------------------------------------
(* Properties.                                                             *)

ToolTypeOK ==
    /\ plan \in Plans
    /\ deployed \in DOMAIN plan.tarball
    /\ stage \in [Calls -> {"idle", "sha", "lock", "load", "use", "answered"}]
    /\ sha \in [Calls -> Versions \cup {NoVersion}]
    /\ \A c \in Calls : stage[c] = "load" => sha[c] \in Versions
    /\ holder \in Calls \cup {NoCall}
    /\ cache \in [sha : Versions, holds : Versions] \cup {Nothing}
    /\ during \in [Calls -> SUBSET Versions]
    /\ failed \in [Calls -> BOOLEAN]

\* A call that could ask for the version and load it answers from a version that was
\* deployed while it ran, whatever other calls cached meanwhile, and however
\* often what is deployed changes.  (A file is loaded once.)
CurrentUnlessFailed ==
    \A c \in Calls :
        stage[c] = "use" /\ ~failed[c] /\ ~plan.fromFile => cache.holds \in during[c]

\* "Stale code is better than no code": once something is cached, neither a failure
\* nor a cancellation makes a call answer that there is nothing.  Only the call that
\* loads changes the cache, so none changes while another call reads it; and a
\* file is loaded once.
StaleRatherThanNone ==
    [][/\ cache # Nothing => cache' # Nothing
       /\ cache # Nothing /\ plan.fromFile => cache' = cache
       /\ \A c \in Calls : stage[c] = "use" => cache' = cache]_toolVars

\* Every call returns: one that hangs in a request blocks the others on the lock no
\* longer than until it is cancelled.
EveryCallReturns == \A c \in Calls : (stage[c] # "idle") ~> (stage[c] = "idle")
-----------------------------------------------------------------------------

\* Joined by newlines the lines are the text, up to a last newline.
LinesOf(lines, text) ==
    LET joined[i \in 0..Len(lines)] ==
            IF i = 0 THEN <<>>
            ELSE IF i = 1 THEN lines[1] ELSE joined[i - 1] \o <<Newline>> \o lines[i]
        all == joined[Len(lines)]
    IN  /\ \A i \in DOMAIN lines : Newline \notin Range(lines[i])
        /\ text = IF text # <<>> /\ Last(text) = Newline THEN all \o <<Newline>> ELSE all

\* c answers request r from the files it has in use.
Answers(c, op) == /\ stage[c] = "use" /\ stage'[c] = "answered"
                  /\ plan.request[c].op = op /\ cache # Nothing

\* A read of lines start to end (counted from 1) gives those lines of the text, each
\* under its number, as they are in a read of the whole file; and the lines of the
\* whole file are the file.
ReadGivesLines ==
    [][\A c \in Calls : Answers(c, "read") =>
         LET r == plan.request[c]
             files == Files(cache.holds)
         IN  \A i \in DOMAIN files :
                 LET text  == files[i][2]
                     whole == Read(text, All, All)
                     lines == [k \in DOMAIN whole[2] |-> whole[2][k][2]]
                     first == IF r.start = All THEN 1 ELSE r.start
                     last  == IF r.end = All THEN Len(lines) ELSE Least(r.end, Len(lines))
                 IN  files[i][1] = r.path /\ text # <<>>
                         /\ first \in 1..U32 - 1 /\ r.end \in (1..U32 - 1) \cup {All}
                     => /\ LinesOf(lines, text)
                        /\ answer'[c] = IF first > Len(lines)
                                        THEN <<"past end", Len(lines)>>
                                        ELSE <<"lines", SubSeq(whole[2], first, last)>>]_toolVars

\* A search counts the lines that matches start in, up to MaxMatches, and prints, for
\* the files before the one it stops in: the lines near a match, each once and in
\* order, a gap wherever lines are left out, and no line marked that no match starts in.
\* A match after the last newline, or in an empty file, counts as a line more than
\* the file has; that line is printed where no context is asked for, and of an
\* empty file always.
SearchFindsLines ==
    [][\A c \in Calls : Answers(c, "search") =>
         LET r == plan.request[c]
             files == SelectSeq(Files(cache.holds), LAMBDA file :
                                    file[1] \in r.within /\ ~LooksBinary(file[2]))
             LineOf(text, p) == Cardinality({q \in 1..p : text[q] = Newline}) + 1
             Matches(i) == {LineOf(files[i][2], p) : p \in Range(FindIter(files[i][2], r.pattern))}
             Printable(text) == IF r.context = 0 \/ text = <<>> THEN LineCount(text) + 1
                                ELSE LineCount(text)
             Near(i) == SelectSeq([n \in 1..Printable(files[i][2]) |-> n],
                           LAMBDA n : \E m \in Matches(i) : n - m \in -r.context..r.context)
             total[i \in 0..Len(files)] ==
                 IF i = 0 THEN 0 ELSE total[i - 1] + Cardinality(Matches(i))
             whole == {i \in DOMAIN files : total[i] < MaxMatches}
             near == [i \in 1..Cardinality(whole) |-> Near(i)]
             due == FlattenSeq([i \in DOMAIN near |->
                                   [k \in DOMAIN near[i] |-> <<files[i][1], near[i][k]>>]])
             got == answer'[c][2]
             lines == SelectSeq(got.lines, LAMBDA line : line # Gap)
             Adjacent(a, b) == a[1] = b[1] /\ b[2] = a[2] + 1
         IN  (\A i \in DOMAIN files : LineCount(files[i][2]) + r.context < U32)
             => /\ got.count = Least(total[Len(files)], MaxMatches)
                /\ [k \in DOMAIN lines |-> <<lines[k][1], lines[k][2]>>] = due
                /\ \A i \in whole : \A k \in DOMAIN lines :
                      lines[k][1] = files[i][1] /\ lines[k][3] # " " => lines[k][2] \in Matches(i)
                /\ r.context > 0 => \A k \in 1..Len(got.lines) - 1 :
                      LET a == got.lines[k]
                          b == got.lines[k + 1]
                      IN  IF a = Gap THEN b # Gap /\ ~Adjacent(got.lines[k - 1], b)
                          ELSE b = Gap \/ Adjacent(a, b) \/ a[1] # b[1]]_toolVars
=============================================================================
