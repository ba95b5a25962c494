----------------------------- MODULE CachedFile -----------------------------
(***************************************************************************)
(* What CodeTool answers from a cached tarball                             *)
(* (signal-gateway-code-tool/src/cached.rs and lib.rs): the files of an    *)
(* archive, and ls, find, read and search over them.                       *)
(*                                                                         *)
(* A text is a sequence of characters of one byte, so that a byte index    *)
(* is a character index.  A path is a sequence of components, a glob or a  *)
(* directory the set of paths it matches.  A regular expression is the set *)
(* of words it matches, the empty one perhaps among them, and where these  *)
(* may begin and end.  A file is <<path, text>>, and files are in the      *)
(* order of the BTreeMap, which their archive is taken to have.            *)
(***************************************************************************)
EXTENDS Integers, Sequences, SequencesExt, FiniteSets

CONSTANTS Newline, Odd,    \* two characters: '\n', and one that does not print
          SampleSize,      \* looks_binary looks at so many characters ...
          OddShare,        \* ... and allows one in so many to be odd
          MaxMatches,      \* search stops at so many
          U32,             \* 2^32, scaled down
          All              \* "no limit given", of a read

ASSUME FileAssumption ==
    /\ Newline # Odd
    /\ SampleSize \in Nat /\ OddShare \in Nat \ {0}
    /\ MaxMatches \in Nat \ {0} /\ U32 \in Nat \ {0}
    /\ All \notin Nat

Saturated(n) == IF n < 0 THEN 0 ELSE n
Least(a, b) == IF a <= b THEN a ELSE b
-----------------------------------------------------------------------------
(* CachedFile.  Indices and line indices count from 0, line numbers from 1.*)

\* CachedFile::new: the indices of the newlines.
NewlineIndices(text) ==
    SelectSeq([i \in 1..Len(text) |-> i - 1], LAMBDA i : text[i + 1] = Newline)

LooksBinary(text) ==
    LET sample == SubSeq(text, 1, Least(SampleSize, Len(text)))
    IN  Cardinality({i \in DOMAIN sample : sample[i] = Odd}) > Len(sample) \div OddShare

LineCount(text) ==
    IF text = <<>> THEN 0
    ELSE Len(NewlineIndices(text)) + (IF Last(text) = Newline THEN 0 ELSE 1)

\* A mutant of LineAt: the newline of the previous line is part of the line.
LineAtPrevious(text, line) ==
    LET newlines == NewlineIndices(text)
        start == IF line = 0 THEN 0 ELSE newlines[line]
        end   == IF line < Len(newlines) THEN newlines[line + 1] ELSE Len(text)
    IN  SubSeq(text, start + 1, end)

\* LineRangeIter::next at a line that it has not run out of.
LineAt(text, line) ==
    LET newlines == NewlineIndices(text)
        start == IF line = 0 THEN 0 ELSE newlines[line] + 1
        end   == IF line < Len(newlines) THEN newlines[line + 1] ELSE Len(text)
    IN  SubSeq(text, start + 1, end)

\* line_range with both ends given; no line follows the last newline's.
LineRange(text, start, end) ==
    LET first == Saturated(start - 1)
        last  == Least(Saturated(Least(end, LineCount(text)) - 1),
                       Len(NewlineIndices(text)))
    IN  [i \in 1..Saturated(last - first + 1) |-> LineAt(text, first + i - 1)]

\* A binary search among the newlines.
IdxToLine(text, idx) ==
    LET newlines == NewlineIndices(text)
    IN  Cardinality({i \in DOMAIN newlines : newlines[i] < idx}) + 1
-----------------------------------------------------------------------------
(* extract_files.  An entry of an archive is a record                      *)
(*   [path |-> ..., text |-> ..., is |-> "dir", "file", "unreadable",      *)
(*    "lossy" (not utf-8; text is the lossy conversion) or "broken"]       *)

\* The first component, which GitHub adds, is stripped; an entry without any
\* other is skipped, and a later entry replaces an earlier one of its path.
Extracted(entries, glob, includeNonUtf8) ==
    LET Kept(e) == /\ e.is = "file" \/ (e.is = "lossy" /\ includeNonUtf8)
                   /\ Len(e.path) > 1
                   /\ Tail(e.path) \in glob
        kept == SelectSeq(entries, Kept)
        Replaced(i) == \E j \in DOMAIN kept : j > i /\ kept[j].path = kept[i].path
        last == SelectSeq([i \in DOMAIN kept |-> i], LAMBDA i : ~Replaced(i))
    IN  [i \in DOMAIN last |-> <<Tail(kept[last[i]].path), kept[last[i]].text>>]

\* An entry that cannot be read as one fails the extraction as a whole.
Extracts(entries) == \A i \in DOMAIN entries : entries[i].is # "broken"
-----------------------------------------------------------------------------
(* The four queries.                                                       *)

\* The first component after the prefix of every file under it, and whether it
\* is a directory.  The prefix matches whole components.
Ls(files, prefix) ==
    {LET rest == SubSeq(files[i][1], Len(prefix) + 1, Len(files[i][1]))
     IN  <<rest[1], Len(rest) > 1>> :
        i \in {k \in DOMAIN files : /\ IsPrefix(prefix, files[k][1])
                                    /\ Len(files[k][1]) > Len(prefix)}}

Find(files, glob) ==
    LET found == SelectSeq(files, LAMBDA file : file[1] \in glob)
    IN  [i \in DOMAIN found |-> found[i][1]]

\* The numbered lines, or what is said of a line past the end.  usize to u32
\* drops the upper half of the number.
Read(text, start, end) ==
    LET from == (IF start = All THEN 1 ELSE start) % U32
        to   == IF end = All THEN LineCount(text) ELSE end % U32
        lines == LineRange(text, from, to)
    IN  IF from > LineCount(text) THEN <<"past end", LineCount(text)>>
        ELSE <<"lines", [i \in DOMAIN lines |-> <<from + i - 1, lines[i]>>]>>

\* Whether index i is where an anchor says: anywhere, at an end of a line (^ and $
\* with the flag m) or at an end of the text.
AtStart(text, i, anchor) ==
    anchor = "any" \/ i = 0 \/ (anchor = "line" /\ text[i] = Newline)
AtEnd(text, i, anchor) ==
    anchor = "any" \/ i = Len(text) \/ (anchor = "line" /\ text[i + 1] = Newline)

\* Regex::find_iter: where the matches start, from the left, each at or after the end
\* of the one before, and an empty one not at that end.  Of several words that
\* match at one place the longest does (repetitions are greedy).
FindIter(text, pattern) ==
    LET Ends(i) == {i + Len(word) : word \in
            {w \in pattern.words : /\ i + Len(w) <= Len(text)
                                   /\ SubSeq(text, i + 1, i + Len(w)) = w
                                   /\ AtStart(text, i, pattern.from)
                                   /\ AtEnd(text, i + Len(w), pattern.to)}}
        from[i \in 0..Len(text) + 1, touches \in BOOLEAN] ==
            LET ends == Ends(i) \ (IF touches THEN {i} ELSE {})
                end  == Max(ends)
            IN  IF i > Len(text) THEN <<>>
                ELSE IF ends = {} THEN from[i + 1, FALSE]
                ELSE <<i>> \o (IF end = i THEN from[i + 1, FALSE] ELSE from[end, TRUE])
    IN  from[0, FALSE]

\* The lines that matches start in, each once.  A match after the last newline, or in
\* an empty text, which have no line, is given the number of the line after the last.
FileMatches(text, pattern) ==
    LET hits  == FindIter(text, pattern)
        lines == [i \in DOMAIN hits |-> IdxToLine(text, hits[i])]
        New(i) == i = 1 \/ lines[i] # lines[i - 1]
        news  == SelectSeq([i \in DOMAIN lines |-> i], New)
    IN  [i \in DOMAIN news |-> lines[news[i]]]

\* What separates lines that do not follow each other.
Gap == <<"---">>

\* A mutant of Shown: a line is printed for every match it is near to.
ShownAgain(file, matches, context) ==
    LET text == file[2]
        Line(n, mark) == <<file[1], n, mark, LineAt(text, n - 1)>>
        Around(m) ==
            LET start == IF m > context THEN m - context ELSE 1
                end == Least((m + context) % U32, LineCount(text))
            IN  [i \in 1..Saturated(end - start + 1) |->
                    Line(start + i - 1, IF start + i - 1 = m THEN ">" ELSE " ")]
    IN  FlattenSeq([i \in DOMAIN matches |-> Around(matches[i])])

\* What is printed of a file with matches: lines with their marks, and a gap
\* before lines that do not follow the last one printed.  The line after the last
\* is printed, empty, if no context is asked for; of an empty text always.
Shown(file, matches, context) ==
    LET text == file[2]
        Line(n, mark) == <<file[1], n, mark, LineAt(text, n - 1)>>
        Start(m) == IF m > context THEN m - context ELSE 1
        End(m) == Saturated(Least((m + context) % U32, LineCount(text)) - 1) + 1
        \* The lines printed for the first k matches; printed, and so [k], only grows.
        printed[k \in 0..Len(matches)] ==
            IF k = 0 THEN {} ELSE printed[k - 1] \cup Start(matches[k])..End(matches[k])
        Around(k) ==
            LET m == matches[k]
                before == printed[k - 1]
                new == SelectSeq([i \in 1..End(m) |-> i],
                                 LAMBDA n : n \in printed[k] \ before)
                gap == before # {} /\ \A n \in before : Start(m) > n + 1
            IN  (IF gap THEN <<Gap>> ELSE <<>>)
                    \o [i \in DOMAIN new |-> Line(new[i], IF new[i] = m THEN ">" ELSE " ")]
    IN  IF context = 0 THEN [i \in DOMAIN matches |-> Line(matches[i], ":")]
        ELSE FlattenSeq([k \in DOMAIN matches |-> Around(k)])

\* Binary files and those outside the prefix are skipped.  The match that brings
\* the count to MaxMatches ends the search before its file is printed.
Search(files, pattern, context, within) ==
    LET looked == SelectSeq(files, LAMBDA file : file[1] \in within /\ ~LooksBinary(file[2]))
        matches == [i \in DOMAIN looked |-> FileMatches(looked[i][2], pattern)]
        count[i \in 0..Len(looked)] ==
            IF i = 0 THEN 0 ELSE Least(MaxMatches, count[i - 1] + Len(matches[i]))
        done == {i \in DOMAIN looked : count[i] < MaxMatches}
    IN  [count |-> count[Len(looked)],
         files |-> Cardinality({i \in done : matches[i] # <<>>}),
         lines |-> FlattenSeq([i \in 1..Cardinality(done) |->
                                  Shown(looked[i], matches[i], context)])]
=============================================================================
