----------------------------- MODULE PathPrefix -----------------------------
(***************************************************************************)
(* StripPathPrefixes (signal-gateway-log-ingest/src/path_prefix.rs): the   *)
(* part of a source path that a glob matches is removed.                   *)
(*                                                                         *)
(* A path is a sequence of characters; in a pattern the string "**" is one *)
(* character, and "*" stands for the metacharacters of a segment.  The     *)
(* structures that FinderInner::new builds are taken apart as they are     *)
(* searched: Find(pattern, target) is Finder::new(pattern) with            *)
(* find_path_prefix(target).  An index is the length of what is stripped.  *)
(***************************************************************************)
EXTENDS Integers, Sequences, SequencesExt, FiniteSets, FiniteSetsExt

Slash == "/"
Meta  == {"*", "**"}
NotFound == -1

Drop(s, n) == SubSeq(s, n + 1, Len(s))
Take(s, n) == SubSeq(s, 1, n)

\* The number of characters before the first in S.
Before(s, S) ==
    LET found == {i \in DOMAIN s : s[i] \in S}
    IN  IF found = {} THEN Len(s) ELSE Min(found) - 1

\* The lengths before each occurrence of needle.
Occurrences(needle, target) ==
    {i \in 0..Len(target) - Len(needle) : IsPrefix(needle, Drop(target, i))}

\* Occurrences from the right, those that overlap one taken before left out.
RECURSIVE FromRight(_, _)
FromRight(at, size) ==
    IF at = {} THEN <<>>
    ELSE <<Max(at)>> \o FromRight({i \in at : i + size <= Max(at)}, size)

\* And from the left.
RECURSIVE FromLeft(_, _)
FromLeft(at, size) ==
    IF at = {} THEN <<>>
    ELSE <<Min(at)>> \o FromLeft({i \in at : i >= Min(at) + size}, size)

\* A segment of a glob matches a component of a path.
RECURSIVE SegmentMatches(_, _)
SegmentMatches(segment, component) ==
    IF segment = <<>> THEN component = <<>>
    ELSE IF segment[1] = "*"
         THEN \E n \in 0..Len(component) : SegmentMatches(Tail(segment), Drop(component, n))
         ELSE /\ component # <<>> /\ component[1] = segment[1]
              /\ SegmentMatches(Tail(segment), Tail(component))

\* A mutant of FindLast: a literal may end within a component.
FindLastPartial(last, target) == IF IsPrefix(last, target) THEN Len(last) ELSE NotFound

\* The last literal of a pattern, which must not end within a component.
FindLast(last, target) ==
    LET rest == Drop(target, Len(last))
    IN  IF /\ IsPrefix(last, target)
           /\ \/ last = <<>> \/ rest = <<>>
              \/ rest[1] = Slash \/ Last(last) = Slash
        THEN Len(last) ELSE NotFound

\* NoDoubleStar: segment by segment, each up to the next slash.
RECURSIVE FindSimple(_, _)
FindSimple(pattern, target) ==
    IF Before(pattern, Meta) = Len(pattern) THEN FindLast(pattern, target)
    ELSE LET literal == Max({0} \cup {i \in 1..Before(pattern, Meta) : pattern[i] = Slash})
             segment == Take(Drop(pattern, literal), Before(Drop(pattern, literal), {Slash}))
             component == Take(Drop(target, literal), Before(Drop(target, literal), {Slash}))
             rest == FindSimple(Drop(pattern, literal + Len(segment)),
                                Drop(target, literal + Len(component)))
         IN  IF /\ IsPrefix(Take(pattern, literal), target)
                /\ SegmentMatches(segment, component)
                /\ rest # NotFound
             THEN literal + Len(component) + rest ELSE NotFound

\* LeadingDoubleStar: the last occurrence of the literal that follows from which the
\* rest is found.  MidDoubleStar: the first occurrence of the literal before it
\* to the left of which the left part is found (not: up to it).
RECURSIVE Find(_, _)
Find(pattern, target) ==
    LET stars == Before(pattern, {"**"})
    IN  IF stars = Len(pattern) THEN FindSimple(pattern, target)
        ELSE IF pattern = <<"**">> THEN Len(target)
        ELSE IF stars = 0
        THEN LET after == Tail(pattern)
                 needle == Take(after, Before(after, Meta))
                 child == Drop(after, Len(needle))
                 at == FromRight(Occurrences(needle, target), Len(needle))
                 Rest(i) == Find(child, Drop(target, at[i] + Len(needle)))
                 good == {i \in DOMAIN at : Rest(i) # NotFound}
             IN  IF good = {} THEN NotFound
                 ELSE at[Min(good)] + Len(needle) + Rest(Min(good))
        ELSE LET before == Take(pattern, stars)
                 left == Max({0} \cup {i \in 1..stars : before[i] \in Meta})
                 needle == Drop(before, left)
                 at == FromLeft(Occurrences(needle, target), Len(needle))
                 good == {i \in DOMAIN at :
                             Find(Take(before, left), Take(target, at[i])) # NotFound}
                 right == at[Min(good)] + Len(needle)
                 rest == Find(Drop(pattern, stars), Drop(target, right))
             IN  IF good = {} \/ rest = NotFound THEN NotFound ELSE right + rest

StripPrefix(pattern, target) ==
    Drop(target, IF Find(pattern, target) = NotFound THEN 0 ELSE Find(pattern, target))

\* strip_path_prefix: each pattern in turn.
StripPathPrefix(patterns, target) ==
    FoldLeft(LAMBDA path, pattern : StripPrefix(pattern, path), target, patterns)
-----------------------------------------------------------------------------
(* What is promised: "the largest index such that target[..idx] matches to *)
(* glob", where what is left begins with a component (or a slash).         *)

RECURSIVE GlobMatches(_, _)
GlobMatches(pattern, text) ==
    IF pattern = <<>> THEN text = <<>>
    ELSE IF pattern[1] \in Meta
         THEN \E n \in 0..Len(text) :
                 /\ pattern[1] = "**" \/ \A i \in 1..n : text[i] # Slash
                 /\ GlobMatches(Tail(pattern), Drop(text, n))
         ELSE /\ text # <<>> /\ text[1] = pattern[1]
              /\ GlobMatches(Tail(pattern), Tail(text))

GlobPrefix(pattern, target) ==
    LET Whole(n) == \/ n = Len(target) \/ target[n + 1] = Slash
                    \/ pattern = <<>> \/ Last(pattern) = Slash
        good == {n \in 0..Len(target) : Whole(n) /\ GlobMatches(pattern, Take(target, n))}
    IN  IF good = {} THEN 0 ELSE Max(good)
=============================================================================
