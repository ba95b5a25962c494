----------------------------- MODULE GatewayProofs -----------------------------
(***************************************************************************)
(* Proofs about Gateway with the assistant's agent and the command router, *)
(* for every capacity of the queues, any table of routes and any number of *)
(* messages and alerts.                                                    *)
(*                                                                         *)
(* Order of the argument: the router's table; the chat messages of a       *)
(* sequence of inputs; types; the assistant's history against what the     *)
(* queue accepted; the order of the conversation; the alerts.              *)
(***************************************************************************)
EXTENDS Gateway, FiniteSetTheorems, SequenceTheorems, WellFoundedInduction, TLAPS

(***************************************************************************)
(* The command router.                                                     *)
(***************************************************************************)

\* A sequence has a prefix element by element.
LEMMA PrefixPointwise ==
    ASSUME NEW S, NEW s \in Seq(S), NEW t \in Seq(S)
    PROVE  IsPrefix(s, t) <=> Len(s) <= Len(t) /\ \A k \in 1 .. Len(s) : s[k] = t[k]
  <1>1. ASSUME Len(s) <= Len(t)
        PROVE  SubSeq(s, 1, Len(s)) = SubSeq(t, 1, Len(s))
                   <=> \A k \in 1 .. Len(s) : s[k] = t[k]
    <2> DEFINE u == SubSeq(s, 1, Len(s))
               v == SubSeq(t, 1, Len(s))
    <2>1. /\ u \in Seq(S) /\ Len(u) = Len(s)
          /\ \A k \in 1 .. Len(s) : u[k] = s[k]
      OBVIOUS
    <2>2. /\ v \in Seq(S) /\ Len(v) = Len(s)
          /\ \A k \in 1 .. Len(s) : v[k] = t[k]
      BY <1>1
    <2>3. u = v <=> \A k \in 1 .. Len(s) : u[k] = v[k]
      <3> HIDE DEF u, v
      <3> QED  BY <2>1, <2>2
    <2> QED  BY <2>1, <2>2, <2>3
  <1> QED  BY <1>1 DEF IsPrefix

\* Of two prefixes of one text the one that is not longer is a prefix of the other.
LEMMA PrefixesNest ==
    ASSUME NEW s \in Seq(STRING), NEW t \in Seq(STRING), NEW text \in Seq(STRING),
           IsPrefix(s, text), IsPrefix(t, text), Len(s) <= Len(t)
    PROVE  IsPrefix(s, t)
  <1>1. \A k \in 1 .. Len(s) : s[k] = text[k]
    BY PrefixPointwise
  <1>2. \A k \in 1 .. Len(t) : t[k] = text[k]
    BY PrefixPointwise
  <1>3. \A k \in 1 .. Len(s) : s[k] = t[k]
    BY <1>1, <1>2
  <1> QED  BY <1>3, PrefixPointwise

\* A set of routes that is not empty has a first one.
LEMMA FirstExists ==
    ASSUME NEW S \in SUBSET Nat, S # {}
    PROVE  \E i \in S : \A k \in S : i <= k
  <1> DEFINE R == OpToRel(<, Nat)
  <1>1. \A j, k \in Nat : k < j => <<k, j>> \in R
    BY DEF OpToRel
  <1>2. IsWellFoundedOn(R, Nat)
    BY NatLessThanWellFounded
  <1> HIDE DEF R
  <1>3. PICK i \in S : \A k \in S : ~ (<<k, i>> \in R)
    BY <1>2, WFMin
  <1>4. ASSUME NEW k \in S PROVE i <= k
    <2>1. i \in Nat /\ k \in Nat
      OBVIOUS
    <2>2. ~ (k < i)
      BY <1>1, <1>3, <2>1, Zenon
    <2> QED  BY <2>1, <2>2
  <1> QED  BY <1>4

\* The routes of a table.
LEMMA TableRoutes ==
    ASSUME NEW table \in Table
    PROVE  \A i \in DOMAIN table : table[i].prefix \in Text /\ i \in Nat \ {0}
  <1> DEFINE Route == [prefix : Text, handling : STRING]
  <1>1. table \in Seq(Route)
    BY DEF Table
  <1>2. \A route \in Route : route.prefix \in Text
    OBVIOUS
  <1> HIDE DEF Route
  <1>3. \A i \in DOMAIN table : table[i] \in Route /\ i \in Nat \ {0}
    BY <1>1
  <1> QED  BY <1>2, <1>3

\* What first-match routing computes.
LEMMA RouteOfFirst ==
    ASSUME NEW table \in Table, NEW text \in Text
    PROVE  /\ Matched(table, text) = {} => RouteOf(table, text) = 0
           /\ Matched(table, text) # {} =>
                  /\ RouteOf(table, text) \in Matched(table, text)
                  /\ \A k \in Matched(table, text) : RouteOf(table, text) <= k
  <1>1. Matched(table, text) \in SUBSET Nat
    BY DEF Matched, Table
  <1>2. CASE Matched(table, text) = {}
    BY <1>2 DEF RouteOf
  <1>3. CASE Matched(table, text) # {}
    <2>1. \E i \in Matched(table, text) : \A k \in Matched(table, text) : i <= k
      BY <1>1, <1>3, FirstExists
    <2> QED  BY <1>3, <2>1 DEF RouteOf
  <1> QED  BY <1>2, <1>3

\* "Panics if any route is completely inaccessible because an earlier prefix is a
\* prefix of it" (CommandRouterBuilder::build): a table is accepted exactly if each
\* route is taken by some text, namely its own prefix.
THEOREM BuildsIffAccessible ==
    ASSUME NEW table \in Table
    PROVE  Builds(table) <=>
               \A i \in DOMAIN table : RouteOf(table, table[i].prefix) = i
  <1>1. \A i \in DOMAIN table : table[i].prefix \in Text /\ i \in Nat \ {0}
    BY TableRoutes
  <1>2. \A i \in DOMAIN table : i \in Matched(table, table[i].prefix)
    BY <1>1, PrefixPointwise DEF Matched, Text
  <1>3. ASSUME Builds(table), NEW i \in DOMAIN table
        PROVE  RouteOf(table, table[i].prefix) = i
    <2> DEFINE r == RouteOf(table, table[i].prefix)
    <2>1. r \in Matched(table, table[i].prefix) /\ r <= i
      BY <1>1, <1>2, RouteOfFirst
    <2>2. r \in DOMAIN table /\ IsPrefix(table[r].prefix, table[i].prefix)
      BY <2>1 DEF Matched
    <2>3. ~ (r < i)
      BY <1>3, <2>2 DEF Builds
    <2> HIDE DEF r
    <2>4. r = i
      BY <1>1, <2>1, <2>2, <2>3
    <2> QED  BY <2>4 DEF r
  <1>4. ASSUME \A i \in DOMAIN table : RouteOf(table, table[i].prefix) = i
        PROVE  Builds(table)
    <2> SUFFICES ASSUME NEW i \in DOMAIN table, NEW j \in DOMAIN table, i < j,
                        IsPrefix(table[i].prefix, table[j].prefix)
                 PROVE  FALSE
      BY DEF Builds
    <2>1. i \in Matched(table, table[j].prefix)
      BY DEF Matched
    <2>2. RouteOf(table, table[j].prefix) <= i
      BY <1>1, <2>1, RouteOfFirst
    <2>3. RouteOf(table, table[j].prefix) = j
      BY <1>4
    <2> QED  BY <1>1, <2>2, <2>3
  <1> QED  BY <1>3, <1>4

\* In a table that is accepted the first prefix that matches a text is the longest
\* (CommandRouter::route), so that the order of the routes does not matter.
THEOREM FirstIsLongest ==
    ASSUME NEW table \in Table, NEW text \in Text, Builds(table),
           NEW i \in Matched(table, text), i # RouteOf(table, text)
    PROVE  Len(table[i].prefix) < Len(table[RouteOf(table, text)].prefix)
  <1> DEFINE r == RouteOf(table, text)
  <1>1. r \in Matched(table, text) /\ r <= i
    BY RouteOfFirst
  <1>2. /\ i \in DOMAIN table /\ IsPrefix(table[i].prefix, text)
        /\ r \in DOMAIN table /\ IsPrefix(table[r].prefix, text)
    BY <1>1 DEF Matched
  <1>3. /\ table[i].prefix \in Seq(STRING) /\ table[r].prefix \in Seq(STRING)
        /\ i \in Nat /\ r \in Nat
    <2> HIDE DEF r
    <2> QED  BY <1>2, TableRoutes DEF Text
  <1>4. ~ IsPrefix(table[r].prefix, table[i].prefix)
    <2> HIDE DEF r
    <2>1. r < i
      BY <1>1, <1>3 DEF r
    <2> QED  BY <1>2, <2>1 DEF Builds
  <1>5. ~ (Len(table[r].prefix) <= Len(table[i].prefix))
    BY <1>2, <1>3, <1>4, PrefixesNest DEF Text
  <1> HIDE DEF r
  <1>6. Len(table[i].prefix) < Len(table[r].prefix)
    BY <1>3, <1>5
  <1> QED  BY <1>6 DEF r

-----------------------------------------------------------------------------
(***************************************************************************)
(* The chat messages of a sequence of inputs.                              *)
(***************************************************************************)

\* The elements up to one of a finite set of numbers are counted from 1 on, and an
\* element that is greater has more of them.
LEMMA CountUpTo ==
    ASSUME NEW S \in SUBSET Nat, IsFiniteSet(S), NEW i \in S
    PROVE  /\ Cardinality({j \in S : j <= i}) \in 1 .. Cardinality(S)
           /\ \A k \in S : i < k =>
                  Cardinality({j \in S : j <= i}) < Cardinality({j \in S : j <= k})
  <1> DEFINE UpTo(k) == {j \in S : j <= k}
  <1>1. \A k \in S : IsFiniteSet(UpTo(k)) /\ Cardinality(UpTo(k)) \in Nat
                     /\ Cardinality(UpTo(k)) <= Cardinality(S)
    BY FS_Subset, FS_CardinalityType
  <1>2. Cardinality(S) \in Nat
    BY FS_CardinalityType
  <1>3. Cardinality(UpTo(i)) # 0
    <2>1. i \in UpTo(i)
      OBVIOUS
    <2> HIDE DEF UpTo
    <2> QED  BY <1>1, <2>1, FS_EmptySet
  <1>4. ASSUME NEW k \in S, i < k PROVE Cardinality(UpTo(i)) < Cardinality(UpTo(k))
    <2>1. /\ \A j \in UpTo(i) : j \in UpTo(k)
          /\ k \in UpTo(k) /\ k \notin UpTo(i)
      BY <1>4
    <2> HIDE DEF UpTo
    <2> QED  BY <1>1, <1>4, <2>1, FS_Subset
  <1> HIDE DEF UpTo
  <1>5. Cardinality(UpTo(i)) \in 1 .. Cardinality(S)
    BY <1>1, <1>2, <1>3
  <1> QED  BY <1>4, <1>5 DEF UpTo

\* f enumerates S from the least element to the greatest, the n-th.
Enumerates(f, n, S) ==
    /\ n \in Nat /\ f \in [1 .. n -> S]
    /\ \A i \in S : \E k \in 1 .. n : f[k] = i
    /\ \A k, m \in 1 .. n : k < m => f[k] < f[m]

\* Nth enumerates every finite set.
LEMMA NthEnumerates ==
    ASSUME NEW S \in SUBSET Nat, IsFiniteSet(S)
    PROVE  Enumerates([k \in 1 .. Cardinality(S) |-> Nth(S, k)], Cardinality(S), S)
  <1> DEFINE n == Cardinality(S)
             Count == [i \in S |-> Cardinality({j \in S : j <= i})]
  <1>1. n \in Nat /\ IsFiniteSet(1 .. n) /\ Cardinality(1 .. n) = n
    BY FS_CardinalityType, FS_Interval
  <1>2. Count \in [S -> 1 .. n]
    BY CountUpTo
  <1>3. \A i, k \in S : i < k => Count[i] < Count[k]
    BY CountUpTo
  <1> HIDE DEF Count
  <1>4. \A i, k \in S : Count[i] = Count[k] => i = k
    <2> SUFFICES ASSUME NEW i \in S, NEW k \in S, Count[i] = Count[k] PROVE i = k
      OBVIOUS
    <2>1. ~ (i < k) /\ ~ (k < i)
      BY <1>1, <1>2, <1>3
    <2> QED  BY <2>1
  <1>5. Count \in Surjection(S, 1 .. n)
    <2>1. Count \in Injection(S, 1 .. n)
      BY <1>2, <1>4 DEF Injection, IsInjective
    <2> QED  BY <1>1, <2>1, FS_Injection
  <1>6. \A k \in 1 .. n : \E i \in S : Count[i] = k
    BY <1>5 DEF Surjection
  <1>7. \A k \in 1 .. n : Nth(S, k) \in S /\ Count[Nth(S, k)] = k
    BY <1>6 DEF Nth, Count
  <1>8. \A i \in S : Nth(S, Count[i]) = i
    BY <1>2, <1>4, <1>7
  <1>9. ASSUME NEW k \in 1 .. n, NEW m \in 1 .. n, k < m PROVE Nth(S, k) < Nth(S, m)
    <2>1. /\ Nth(S, k) \in S /\ Nth(S, m) \in S
          /\ Count[Nth(S, k)] = k /\ Count[Nth(S, m)] = m
      BY <1>7
    <2>2. Nth(S, k) \in Nat /\ Nth(S, m) \in Nat
      BY <2>1
    <2>3. Nth(S, k) # Nth(S, m) /\ ~ (Nth(S, m) < Nth(S, k))
      <3>1. ~ (m < k) /\ k # m
        BY <1>1, <1>9
      <3> QED  BY <1>3, <2>1, <3>1
    <2> QED  BY <2>2, <2>3
  <1> QED  BY <1>1, <1>2, <1>7, <1>8, <1>9 DEF Enumerates

\* An enumeration is a bijection.
LEMMA EnumerationUnique ==
    ASSUME NEW S \in SUBSET Nat, IsFiniteSet(S), NEW n, NEW f, Enumerates(f, n, S)
    PROVE  Cardinality(S) = n /\ \A k \in 1 .. n : Nth(S, k) = f[k]
  <1> USE DEF Enumerates
  <1>1. \A k, m \in 1 .. n : f[k] <= f[m] <=> k <= m
    <2> SUFFICES ASSUME NEW k \in 1 .. n, NEW m \in 1 .. n PROVE f[k] <= f[m] <=> k <= m
      OBVIOUS
    <2>1. f[k] \in Nat /\ f[m] \in Nat /\ (k < m => f[k] < f[m]) /\ (m < k => f[m] < f[k])
      OBVIOUS
    <2> QED  BY <2>1
  <1>2. \A k, m \in 1 .. n : f[k] = f[m] => k = m
    <2> SUFFICES ASSUME NEW k \in 1 .. n, NEW m \in 1 .. n, f[k] = f[m] PROVE k = m
      OBVIOUS
    <2>1. f[k] \in Nat /\ f[m] \in Nat
      OBVIOUS
    <2> QED  BY <1>1, <2>1
  <1>3. ASSUME NEW k \in 1 .. n
        PROVE  Cardinality({j \in S : j <= f[k]}) = k
    <2> DEFINE T == {j \in S : j <= f[k]}
               g == [m \in 1 .. k |-> f[m]]
    <2>1. g \in [1 .. k -> T]
      BY <1>1
    <2>2. \A x, y \in 1 .. k : g[x] = g[y] => x = y
      BY <1>2
    <2>3. \A j \in T : \E m \in 1 .. k : g[m] = j
      BY <1>1
    <2>4. g \in Bijection(1 .. k, T)
      BY <2>1, <2>2, <2>3 DEF Bijection, Injection, IsInjective, Surjection
    <2>5. ExistsBijection(1 .. k, T)
      BY <2>4 DEF ExistsBijection
    <2> HIDE DEF T
    <2>6. Cardinality(T) = k
      BY <2>5, FS_CountingElements
    <2> QED  BY <2>6 DEF T
  <1>4. Cardinality(S) = n
    <2>1. f \in Bijection(1 .. n, S)
      BY <1>2 DEF Bijection, Injection, IsInjective, Surjection
    <2> QED  BY <2>1, FS_CountingElements DEF ExistsBijection
  <1>5. ASSUME NEW k \in 1 .. n PROVE Nth(S, k) = f[k]
    <2>1. f[k] \in S /\ Cardinality({j \in S : j <= f[k]}) = k
      BY <1>3
    <2>2. ASSUME NEW i \in S, Cardinality({j \in S : j <= i}) = k PROVE i = f[k]
      <3>1. PICK m \in 1 .. n : f[m] = i
        OBVIOUS
      <3> QED  BY <1>3, <2>2, <3>1
    <2> QED  BY <2>1, <2>2 DEF Nth
  <1> QED  BY <1>4, <1>5

\* The places of chat messages in a sequence of inputs.
LEMMA ChatPlaces ==
    ASSUME NEW s, NEW n \in Nat, Len(s) = n
    PROVE  ChatAt(s) \in SUBSET Nat /\ ChatAt(s) \in SUBSET (1 .. n) /\ IsFiniteSet(ChatAt(s))
  <1>1. ChatAt(s) \in SUBSET (1 .. n)
    BY DEF ChatAt
  <1>2. IsFiniteSet(1 .. n)
    BY FS_Interval
  <1> QED  BY <1>1, <1>2, FS_Subset

\* What Chat is, if the places of chat messages are enumerated.
LEMMA ChatEnumerated ==
    ASSUME NEW s, Len(s) \in Nat, NEW n, NEW f, Enumerates(f, n, ChatAt(s))
    PROVE  Chat(s) = [k \in 1 .. n |-> s[f[k]].msg]
  <1>1. Cardinality(ChatAt(s)) = n /\ \A k \in 1 .. n : Nth(ChatAt(s), k) = f[k]
    BY ChatPlaces, EnumerationUnique
  <1> QED  BY <1>1 DEF Chat

\* How the places of chat messages are enumerated.
LEMMA ChatEnumerable ==
    ASSUME NEW s, Len(s) \in Nat
    PROVE  \E n, f : /\ Enumerates(f, n, ChatAt(s))
                     /\ Chat(s) = [k \in 1 .. n |-> s[f[k]].msg]
  <1> DEFINE n == Cardinality(ChatAt(s))
             f == [k \in 1 .. n |-> Nth(ChatAt(s), k)]
  <1>1. Enumerates(f, n, ChatAt(s))
    BY ChatPlaces, NthEnumerates
  <1>2. Chat(s) = [k \in 1 .. n |-> s[f[k]].msg]
    BY DEF Chat
  <1> HIDE DEF n, f
  <1> QED  BY <1>1, <1>2

\* The chat messages of inputs are a sequence of chat messages.
LEMMA ChatType == ASSUME NEW s \in Seq(Item) PROVE Chat(s) \in Seq(ChatMessage)
  <1>1. PICK n, f : Enumerates(f, n, ChatAt(s)) /\ Chat(s) = [k \in 1 .. n |-> s[f[k]].msg]
    BY ChatEnumerable
  <1>2. ASSUME NEW i \in ChatAt(s) PROVE s[i].msg \in ChatMessage
    <2>1. s[i] \in Item
      BY DEF ChatAt
    <2> QED  BY <2>1 DEF Item
  <1>3. n \in Nat /\ \A k \in 1 .. n : s[f[k]].msg \in ChatMessage
    BY <1>1, <1>2 DEF Enumerates
  <1> QED  BY <1>1, <1>3

\* No input, no chat message.
LEMMA ChatOfNone == Chat(<<>>) = <<>>
  <1>1. ChatAt(<<>>) = {}
    BY DEF ChatAt
  <1>2. Cardinality(ChatAt(<<>>)) = 0
    BY <1>1, FS_EmptySet
  <1> QED  BY <1>2 DEF Chat

\* A single input.
LEMMA ChatOfOne ==
    ASSUME NEW x \in Item
    PROVE  Chat(<<x>>) = IF IsChat(x) THEN <<x.msg>> ELSE <<>>
  <1>1. CASE IsChat(x)
    <2> DEFINE f == [k \in 1 .. 1 |-> 1]
    <2>1. ChatAt(<<x>>) = {1}
      BY <1>1 DEF ChatAt
    <2>2. Chat(<<x>>) = [k \in 1 .. 1 |-> <<x>>[f[k]].msg]
      <3>1. Enumerates(f, 1, ChatAt(<<x>>))
        BY <2>1 DEF Enumerates
      <3> HIDE DEF f
      <3> QED  BY <3>1, ChatEnumerated
    <2> QED  BY <1>1, <2>2
  <1>2. CASE ~IsChat(x)
    <2>1. ChatAt(<<x>>) = {}
      BY <1>2 DEF ChatAt
    <2>2. Cardinality(ChatAt(<<x>>)) = 0
      BY <2>1, FS_EmptySet
    <2> QED  BY <1>2, <2>2 DEF Chat
  <1> QED  BY <1>1, <1>2

\* An input that is put into the queue comes last.
LEMMA ChatAppended ==
    ASSUME NEW s \in Seq(Item), NEW x \in Item
    PROVE  Chat(Append(s, x)) = Chat(s) \o Chat(<<x>>)
  <1> DEFINE t == Append(s, x)
  <1>0. PICK n, f : Enumerates(f, n, ChatAt(s)) /\ Chat(s) = [k \in 1 .. n |-> s[f[k]].msg]
    BY ChatEnumerable
  <1>1. /\ n \in Nat /\ f \in [1 .. n -> ChatAt(s)]
        /\ \A i \in ChatAt(s) : \E k \in 1 .. n : f[k] = i
        /\ \A k, m \in 1 .. n : k < m => f[k] < f[m]
        /\ Chat(s) = [k \in 1 .. n |-> s[f[k]].msg]
    BY <1>0 DEF Enumerates
  <1>2. /\ t \in Seq(Item) /\ Len(t) = Len(s) + 1 /\ t[Len(s) + 1] = x
        /\ \A i \in 1 .. Len(s) : t[i] = s[i]
    OBVIOUS
  <1> HIDE DEF t
  <1>3. \A i \in ChatAt(s) : i \in 1 .. Len(s)
    BY DEF ChatAt
  <1>4. CASE IsChat(x)
    <2>1. ChatAt(t) = ChatAt(s) \cup {Len(s) + 1}
      BY <1>2, <1>4 DEF ChatAt
    <2> DEFINE g == [k \in 1 .. n + 1 |-> IF k <= n THEN f[k] ELSE Len(s) + 1]
    <2>2. g \in [1 .. n + 1 -> ChatAt(t)]
      BY <1>1, <2>1
    <2>3. \A i \in ChatAt(t) : \E k \in 1 .. n + 1 : g[k] = i
      <3> SUFFICES ASSUME NEW i \in ChatAt(t) PROVE \E k \in 1 .. n + 1 : g[k] = i
        OBVIOUS
      <3>1. CASE i \in ChatAt(s)
        BY <1>1, <3>1
      <3>2. CASE i = Len(s) + 1
        <4>1. n + 1 \in 1 .. n + 1 /\ g[n + 1] = i
          BY <1>1, <3>2
        <4> QED  BY <4>1
      <3> QED  BY <2>1, <3>1, <3>2
    <2>4. \A k, m \in 1 .. n + 1 : k < m => g[k] < g[m]
      BY <1>1, <1>3
    <2> HIDE DEF g
    <2>5. Chat(t) = [k \in 1 .. n + 1 |-> t[g[k]].msg]
      <3>1. Enumerates(g, n + 1, ChatAt(t))
        BY <1>1, <2>2, <2>3, <2>4 DEF Enumerates
      <3>2. Len(t) \in Nat
        BY <1>2
      <3> QED  BY <3>1, <3>2, ChatEnumerated
    <2>6. \A k \in 1 .. n : t[g[k]].msg = s[f[k]].msg
      BY <1>1, <1>2, <1>3 DEF g
    <2>7. t[g[n + 1]].msg = x.msg
      BY <1>1, <1>2 DEF g
    <2>8. Chat(t) = [k \in 1 .. n |-> s[f[k]].msg] \o <<x.msg>>
      BY <1>1, <2>5, <2>6, <2>7
    <2> QED  BY <1>1, <1>4, <2>8, ChatOfOne DEF t
  <1>5. CASE ~IsChat(x)
    <2>1. ChatAt(t) = ChatAt(s)
      BY <1>2, <1>5 DEF ChatAt
    <2>2. Chat(t) = [k \in 1 .. n |-> t[f[k]].msg]
      BY <1>0, <1>2, <2>1, ChatEnumerated
    <2>3. Chat(t) = Chat(s)
      BY <1>1, <1>2, <1>3, <2>2
    <2>4. Chat(s) \o <<>> = Chat(s)
      BY ChatType
    <2> QED  BY <1>5, <2>3, <2>4, ChatOfOne DEF t
  <1> QED  BY <1>4, <1>5

\* An input that is taken from the queue comes first.
LEMMA ChatTaken ==
    ASSUME NEW s \in Seq(Item), s # <<>>
    PROVE  Chat(s) = Chat(<<Head(s)>>) \o Chat(Tail(s))
  <1> DEFINE t == Tail(s)
             x == Head(s)
  <1>2. /\ t \in Seq(Item) /\ Len(s) = Len(t) + 1 /\ s[1] = x /\ x \in Item
        /\ \A i \in 1 .. Len(t) : s[i + 1] = t[i]
        /\ \A i \in 1 .. Len(s) : i # 1 => s[i] = t[i - 1] /\ i - 1 \in 1 .. Len(t)
    OBVIOUS
  <1> HIDE DEF t, x
  <1>0. PICK n, f : Enumerates(f, n, ChatAt(t)) /\ Chat(t) = [k \in 1 .. n |-> t[f[k]].msg]
    BY <1>2, ChatEnumerable
  <1>1. /\ n \in Nat /\ f \in [1 .. n -> ChatAt(t)]
        /\ \A i \in ChatAt(t) : \E k \in 1 .. n : f[k] = i
        /\ \A k, m \in 1 .. n : k < m => f[k] < f[m]
        /\ Chat(t) = [k \in 1 .. n |-> t[f[k]].msg]
    BY <1>0 DEF Enumerates
  <1>3. \A i \in ChatAt(t) : i \in 1 .. Len(t)
    BY DEF ChatAt
  <1>4. CASE IsChat(x)
    <2>1. /\ 1 \in ChatAt(s) /\ \A i \in ChatAt(t) : i + 1 \in ChatAt(s)
          /\ \A i \in ChatAt(s) : i = 1 \/ i - 1 \in ChatAt(t)
      BY <1>2, <1>4 DEF ChatAt
    <2> DEFINE g == [k \in 1 .. n + 1 |-> IF k = 1 THEN 1 ELSE f[k - 1] + 1]
    <2>2. g \in [1 .. n + 1 -> ChatAt(s)]
      BY <1>1, <2>1
    <2>3. \A i \in ChatAt(s) : \E k \in 1 .. n + 1 : g[k] = i
      <3> SUFFICES ASSUME NEW i \in ChatAt(s) PROVE \E k \in 1 .. n + 1 : g[k] = i
        OBVIOUS
      <3>1. CASE i = 1
        <4>1. 1 \in 1 .. n + 1 /\ g[1] = i
          BY <1>1, <3>1
        <4> QED  BY <4>1
      <3>2. CASE i - 1 \in ChatAt(t)
        <4>1. PICK k \in 1 .. n : f[k] = i - 1
          BY <1>1, <3>2
        <4>2. i \in Nat
          BY DEF ChatAt
        <4>3. k + 1 \in 1 .. n + 1 /\ g[k + 1] = i
          BY <1>1, <4>1, <4>2
        <4> QED  BY <4>3
      <3> QED  BY <2>1, <3>1, <3>2
    <2>4. ASSUME NEW k \in 1 .. n + 1, NEW m \in 1 .. n + 1, k < m PROVE g[k] < g[m]
      <3>1. m - 1 \in 1 .. n /\ g[m] = f[m - 1] + 1 /\ f[m - 1] \in Nat \ {0}
        BY <1>1, <1>3, <2>4
      <3>2. CASE k = 1
        BY <3>1, <3>2
      <3>3. CASE k # 1
        <4>1. k - 1 \in 1 .. n /\ g[k] = f[k - 1] + 1 /\ f[k - 1] \in Nat /\ k - 1 < m - 1
          BY <1>1, <1>3, <2>4, <3>3
        <4> QED  BY <1>1, <3>1, <4>1
      <3> QED  BY <3>2, <3>3
    <2> HIDE DEF g
    <2>5. Chat(s) = [k \in 1 .. n + 1 |-> s[g[k]].msg]
      <3>1. Enumerates(g, n + 1, ChatAt(s))
        BY <1>1, <2>2, <2>3, <2>4 DEF Enumerates
      <3>2. Len(s) \in Nat
        BY <1>2
      <3> QED  BY <3>1, <3>2, ChatEnumerated
    <2>6. ASSUME NEW k \in 1 .. n + 1, k # 1 PROVE s[g[k]].msg = t[f[k - 1]].msg
      <3>1. k - 1 \in 1 .. n /\ g[k] = f[k - 1] + 1 /\ f[k - 1] \in 1 .. Len(t)
        BY <1>1, <1>3, <2>6 DEF g
      <3> QED  BY <1>2, <3>1
    <2>7. s[g[1]].msg = x.msg
      BY <1>1, <1>2 DEF g
    <2>8. Chat(s) = <<x.msg>> \o [k \in 1 .. n |-> t[f[k]].msg]
      BY <1>1, <2>5, <2>6, <2>7
    <2> QED  BY <1>1, <1>2, <1>4, <2>8, ChatOfOne DEF t, x
  <1>5. CASE ~IsChat(x)
    <2>1. /\ \A i \in ChatAt(t) : i + 1 \in ChatAt(s)
          /\ \A i \in ChatAt(s) : i - 1 \in ChatAt(t)
      BY <1>2, <1>5 DEF ChatAt
    <2> DEFINE g == [k \in 1 .. n |-> f[k] + 1]
    <2>2. g \in [1 .. n -> ChatAt(s)]
      BY <1>1, <2>1
    <2>3. ASSUME NEW i \in ChatAt(s) PROVE \E k \in 1 .. n : g[k] = i
      <3>1. PICK k \in 1 .. n : f[k] = i - 1
        BY <1>1, <2>1
      <3>2. i \in Nat
        BY DEF ChatAt
      <3> QED  BY <3>1, <3>2
    <2>4. \A k, m \in 1 .. n : k < m => g[k] < g[m]
      BY <1>1, <1>3
    <2> HIDE DEF g
    <2>5. Chat(s) = [k \in 1 .. n |-> s[g[k]].msg]
      <3>1. Enumerates(g, n, ChatAt(s))
        BY <1>1, <2>2, <2>3, <2>4 DEF Enumerates
      <3>2. Len(s) \in Nat
        BY <1>2
      <3> QED  BY <3>1, <3>2, ChatEnumerated
    <2>6. \A k \in 1 .. n : s[g[k]].msg = t[f[k]].msg
      BY <1>1, <1>2, <1>3 DEF g
    <2>7. Chat(s) = Chat(t)
      BY <1>1, <2>5, <2>6
    <2>8. <<>> \o Chat(t) = Chat(t)
      BY <1>2, ChatType
    <2> QED  BY <1>2, <1>5, <2>7, <2>8, ChatOfOne DEF t, x
  <1> QED  BY <1>4, <1>5

-----------------------------------------------------------------------------
(***************************************************************************)
(* Types.                                                                  *)
(***************************************************************************)

\* What the gateway puts into the queue.
LEMMA ItemTypes ==
    /\ \A m \in ChatMessage : Prompt(m) \in Item /\ Record(m) \in Item
    /\ Command("compact") \in Item /\ Command("debug") \in Item
    /\ \A x \in Item : /\ x.kind \in {"prompt", "record", "compact", "debug"}
                       /\ x.msg \in ChatMessage
    /\ \A n \in Nat : /\ <<"user", n>> \in ChatMessage /\ <<"alert", n>> \in ChatMessage
                      /\ <<"system", n>> \in ChatMessage
                      /\ <<"assistant", n>> \in ChatMessage
  BY DEF Prompt, Record, Command, Item, ChatMessage

\* The chat messages of one input.
LEMMA ChatOfItem == ASSUME NEW x \in Item PROVE Chat(<<x>>) \in Seq(ChatMessage)
  <1>1. <<x>> \in Seq(Item)
    OBVIOUS
  <1> QED  BY <1>1, ChatType

\* A method of the agent keeps the types.
LEMMA TrySendType ==
    ASSUME AgentTypeOK, NEW x \in Item, TrySend(x)
    PROVE  AgentTypeOK'
  <1>1. input \in Seq(Item) /\ Len(input) <= QueueSize /\ QueueSize \in Nat
    BY QueueAssumption DEF AgentTypeOK
  <1>2. input' \in Seq(Item) /\ Len(input') <= QueueSize
    BY <1>1 DEF TrySend, Accepts
  <1>3. Chat(<<x>>) \in Seq(ChatMessage)
    BY ChatOfItem
  <1>4. accepted' \in Seq(ChatMessage)
    BY <1>3 DEF TrySend, AgentTypeOK
  <1> QED  BY <1>2, <1>4 DEF TrySend, AgentTypeOK

\* A signal to stop is put into its channel, if there is room.
LEMMA RequestStopType == AgentTypeOK /\ RequestStop => AgentTypeOK'
  BY QueueAssumption DEF AgentTypeOK, RequestStop

\* The end of the worker's task.
LEMMA ExitType ==
    ASSUME AgentTypeOK,
           NEW answers \in [Requests -> Outcomes \cup {"none", "gone"}], Exit(answers),
           UNCHANGED <<token, recorded, accepted>>, stopping' \in BOOLEAN,
           job' \in Item \cup {NoJob}
    PROVE  AgentTypeOK'
  BY QueueAssumption DEF AgentTypeOK, Exit

\* The worker's handling of an input ends.
LEMMA FinishJobType ==
    ASSUME AgentTypeOK,
           NEW answers \in [Requests -> Outcomes \cup {"none", "gone"}], FinishJob(answers)
    PROVE  AgentTypeOK'
  <1>1. CASE stopping /\ token
    BY <1>1, ExitType DEF FinishJob
  <1>2. CASE ~(stopping /\ token)
    <2>1. stops' \in 0 .. StopSize
      BY <1>2, QueueAssumption DEF AgentTypeOK, FinishJob
    <2> QED  BY <1>2, <2>1 DEF AgentTypeOK, FinishJob
  <1> QED  BY <1>1, <1>2

\* Taking an input, of which the messages are recorded, keeps the types.
LEMMA TakenType ==
    ASSUME AgentTypeOK, input # <<>>
    PROVE  /\ Head(input) \in Item
           /\ Tail(input) \in Seq(Item) /\ Len(Tail(input)) <= QueueSize
           /\ recorded \o Chat(<<Head(input)>>) \in Seq(ChatMessage)
  <1>1. input \in Seq(Item) /\ Len(input) <= QueueSize /\ QueueSize \in Nat
    BY QueueAssumption DEF AgentTypeOK
  <1>2. Head(input) \in Item /\ Tail(input) \in Seq(Item) /\ Len(Tail(input)) <= QueueSize
    BY <1>1
  <1>3. Chat(<<Head(input)>>) \in Seq(ChatMessage)
    BY <1>2, ChatOfItem
  <1> QED  BY <1>2, <1>3 DEF AgentTypeOK

\* Every step of the worker keeps the types.
LEMMA WorkerType == AgentTypeOK /\ WorkerStep => AgentTypeOK'
  <1> SUFFICES ASSUME AgentTypeOK, WorkerStep PROVE AgentTypeOK'
    OBVIOUS
  <1>1. CASE TakeInput
    BY <1>1, TakenType, ItemTypes DEF AgentTypeOK, TakeInput, Remember
  <1>2. CASE TakeStop
    BY <1>2, QueueAssumption DEF AgentTypeOK, TakeStop
  <1>3. CASE TakeCancel
    BY <1>3, ExitType DEF AgentTypeOK, TakeCancel
  <1>4. CASE StopJob
    BY <1>4, QueueAssumption DEF AgentTypeOK, StopJob
  <1>5. ASSUME NEW outcome \in Outcomes, PromptReturns(outcome) PROVE AgentTypeOK'
    BY <1>5, FinishJobType DEF AgentTypeOK, PromptReturns
  <1>6. CASE CompactReturns
    BY <1>6, FinishJobType DEF AgentTypeOK, CompactReturns
  <1>7. CASE RecordReturns
    BY <1>7 DEF AgentTypeOK, RecordReturns
  <1>8. CASE DrainInput
    BY <1>8, TakenType DEF AgentTypeOK, DrainInput, Remember
  <1>9. CASE DrainRecordReturns
    BY <1>9 DEF AgentTypeOK, DrainRecordReturns, Outcomes
  <1>10. CASE DrainDone
    BY <1>10 DEF AgentTypeOK, DrainDone
  <1> QED  BY <1>1, <1>2, <1>3, <1>4, <1>5, <1>6, <1>7, <1>8, <1>9, <1>10 DEF WorkerStep

\* What the router makes of a message.
LEMMA KindOfType == ASSUME NEW m \in Incoming PROVE KindOf[m] \in Kinds
  <1>1. \A i : HandledBy(Router, i, m.text) \in Kinds
    BY DEF HandledBy, Kinds
  <1>2. Handled(Router, m.text) \in Kinds
    BY <1>1 DEF Handled, Kinds
  <1> QED  BY <1>2 DEF KindOf, Kinds

\* A step that the agent has no part in.
LEMMA AgentIdle == AgentTypeOK /\ UNCHANGED agentVars => AgentTypeOK'
  BY DEF AgentTypeOK, agentVars

\* What the loop forgets when it drops a connection.
LEMMA LeaveType ==
    ASSUME NEW place, Leave(place)
    PROVE  /\ loop' = place /\ stream' \in Seq(Received) /\ source' \in {"system", "assistant"}
           /\ current' \in [kind : Kinds \cup {"alert", "nothing"}, id : Nat]
  BY DEF Leave, Nothing

\* Every step keeps the types.
LEMMA NextTypeOK ==
    ASSUME TypeOK, [Next]_vars
    PROVE  TypeOK'
  <1> USE DEF TypeOK
  <1>0. MaxMessages \in Nat /\ MaxAlerts \in Nat /\ arrived \in Nat /\ posted \in Nat
    BY GatewayAssumption
  <1>1. CASE UNCHANGED vars
    BY <1>1, AgentIdle DEF vars, loopVars, alertVars
  <1>2. CASE PostAlert
    BY <1>0, <1>2, AgentIdle DEF PostAlert, loopVars
  <1>3. ASSUME NEW m \in Incoming, Arrive(m) PROVE TypeOK'
    <2>1. [kind |-> KindOf[m], id |-> arrived + 1] \in Received
      BY <1>0, KindOfType DEF Received
    <2>2. stream' \in Seq(Received)
      BY <1>3, <2>1 DEF Arrive
    <2> QED  BY <1>0, <1>3, <2>2, AgentIdle DEF Arrive, alertVars
  <1>4. CASE Cancel
    BY <1>4 DEF Cancel, loopVars, alertVars, AgentTypeOK
  <1>5. CASE Connecting
    BY <1>5, AgentIdle, LeaveType
       DEF Connecting, Top, ConnectOk, ConnectFail, TrustOk, TrustFail, TrustSleep,
           SubscribeOk, SubscribeFail, Goto, alertVars
  <1>6. CASE SelectCancel \/ StreamEnds \/ StreamFails
    BY <1>6, AgentIdle, LeaveType DEF SelectCancel, StreamEnds, StreamFails, alertVars
  <1>7. CASE TakeAlert
    <2>1. Head(alerts) \in Nat /\ Tail(alerts) \in Seq(Nat)
      BY <1>7 DEF TakeAlert
    <2> QED  BY <1>7, <2>1, AgentIdle DEF TakeAlert
  <1>8. ASSUME stream # <<>>
        PROVE  /\ Head(stream) \in Received /\ Tail(stream) \in Seq(Received)
               /\ Head(stream) \in [kind : Kinds \cup {"alert", "nothing"}, id : Nat]
               /\ Head(stream).id \in Nat
    <2>1. Head(stream) \in Received /\ Tail(stream) \in Seq(Received)
      BY <1>8
    <2> QED  BY <2>1 DEF Received
  <1>9. CASE ReceiveIgnored \/ ReceiveInvalid
    BY <1>8, <1>9, AgentIdle DEF ReceiveIgnored, ReceiveInvalid, Receive, alertVars
  <1>10. CASE ReceiveCommand
    <2>1. Record(<<"user", Head(stream).id>>) \in Item
      BY <1>8, <1>10, ItemTypes DEF ReceiveCommand, Receive
    <2>2. AgentTypeOK'
      BY <1>10, <2>1, TrySendType DEF ReceiveCommand
    <2> QED  BY <1>8, <1>10, <2>2 DEF ReceiveCommand, Receive, alertVars
  <1>11. CASE ReceivePrompt
    <2>1. Prompt(<<"user", Head(stream).id>>) \in Item
      BY <1>8, <1>11, ItemTypes DEF ReceivePrompt, Receive
    <2>2. AgentTypeOK'
      BY <1>11, <2>1, TrySendType DEF ReceivePrompt
    <2> QED  BY <1>8, <1>11, <2>2 DEF ReceivePrompt, Receive, alertVars
  <1>12. CASE SendAlertOk
    <2>1. AgentTypeOK'
      BY <1>12, ItemTypes, TrySendType DEF SendAlertOk
    <2> QED  BY <1>12, <2>1 DEF SendAlertOk, Nothing
  <1>13. CASE SendAlertFail
    BY <1>13, AgentIdle, LeaveType DEF SendAlertFail
  <1>14. CASE Effect
    <2>1. AgentTypeOK'
      <3>1. CASE current.kind = "stop"
        BY <1>14, <3>1, RequestStopType DEF Effect
      <3>2. CASE current.kind \in {"compact", "debug"}
        BY <1>14, <3>2, ItemTypes, TrySendType DEF Effect
      <3>3. CASE current.kind \notin {"stop", "compact", "debug"}
        BY <1>14, <3>3, AgentIdle DEF Effect
      <3> QED  BY <3>1, <3>2, <3>3
    <2> QED  BY <1>14, <2>1 DEF Effect, alertVars
  <1>15. CASE Answer
    BY <1>15, AgentIdle DEF Answer, alertVars
  <1>16. CASE RespondOk
    <2>1. AgentTypeOK'
      BY <1>16, ItemTypes, TrySendType DEF RespondOk
    <2> QED  BY <1>16, <2>1 DEF RespondOk, Nothing, alertVars
  <1>17. CASE RespondFail
    BY <1>17, AgentIdle, LeaveType DEF RespondFail, alertVars
  <1>18. CASE Worker
    BY <1>18, WorkerType DEF Worker, loopVars, alertVars
  <1> QED
    BY <1>1, <1>2, <1>3, <1>4, <1>5, <1>6, <1>7, <1>9, <1>10, <1>11, <1>12, <1>13, <1>14,
       <1>15, <1>16, <1>17, <1>18 DEF Next, Environment, Select, Handling

\* At the start they are right.
LEMMA InitTypeOK == Init => TypeOK
  <1> SUFFICES ASSUME Init PROVE TypeOK
    OBVIOUS
  <1>1. NoJob \in Item \cup {NoJob} /\ 0 \in 0 .. StopSize
    BY QueueAssumption
  <1>2. AgentTypeOK
    <2>1. answer \in [Requests -> Outcomes \cup {"none", "gone"}]
      BY DEF Init, AgentInit
    <2>2. input \in Seq(Item) /\ Len(input) <= QueueSize
      BY QueueAssumption DEF Init, AgentInit
    <2>3. /\ stops \in 0 .. StopSize /\ job \in Item \cup {NoJob}
          /\ recorded \in Seq(ChatMessage) /\ accepted \in Seq(ChatMessage)
      BY <1>1 DEF Init, AgentInit
    <2>4. /\ token \in BOOLEAN /\ stopping \in BOOLEAN /\ worker = "select"
      BY DEF Init, AgentInit
    <2> QED  BY <2>1, <2>2, <2>3, <2>4 DEF AgentTypeOK
  <1>3. /\ current \in [kind : Kinds \cup {"alert", "nothing"}, id : Nat]
        /\ 0 \in 0 .. MaxMessages /\ 0 \in 0 .. MaxAlerts
    BY GatewayAssumption DEF Init, Nothing
  <1> QED  BY <1>2, <1>3 DEF Init, TypeOK

\* Type correctness of the gateway's loop, the agent's queues and its worker.
THEOREM TypeCorrect == Spec => []TypeOK
  <1>1. TypeOK /\ [Next]_vars => TypeOK'
    BY NextTypeOK
  <1> QED  BY <1>1, InitTypeOK, PTL DEF Spec

-----------------------------------------------------------------------------
(***************************************************************************)
(* The assistant's history and what the queue accepted.                    *)
(***************************************************************************)

\* A sequence is a prefix of its concatenations.
LEMMA PrefixOfConcat ==
    ASSUME NEW s \in Seq(ChatMessage), NEW t \in Seq(ChatMessage)
    PROVE  IsPrefix(s, s \o t)
  <1>1. /\ s \o t \in Seq(ChatMessage) /\ Len(s) <= Len(s \o t)
        /\ \A k \in 1 .. Len(s) : s[k] = (s \o t)[k]
    OBVIOUS
  <1> QED  BY <1>1, PrefixPointwise

\* What a step of the gateway can be for the agent.
LEMMA AgentSteps ==
    ASSUME TypeOK, [Next]_vars
    PROVE  \/ \E x \in Item : TrySend(x)
           \/ WorkerStep
           \/ UNCHANGED <<input, worker, recorded, accepted>>
  <1>0. ASSUME stream # <<>> PROVE Head(stream).id \in Nat
    <2>1. Head(stream) \in Received
      BY <1>0 DEF TypeOK
    <2> QED  BY <2>1 DEF Received
  <1>1. current.id \in Nat /\ source \in {"system", "assistant"}
    BY DEF TypeOK
  <1>2. CASE UNCHANGED vars
    BY <1>2 DEF vars, agentVars
  <1>3. CASE Environment
    BY <1>3 DEF Environment, PostAlert, Arrive, Cancel, agentVars
  <1>4. CASE Connecting
    BY <1>4 DEF Connecting, Top, ConnectOk, ConnectFail, TrustOk, TrustFail, TrustSleep,
                SubscribeOk, SubscribeFail, agentVars
  <1>5. CASE Select
    <2>1. CASE ReceiveCommand
      BY <1>0, <2>1, ItemTypes DEF ReceiveCommand, Receive
    <2>2. CASE ReceivePrompt
      BY <1>0, <2>2, ItemTypes DEF ReceivePrompt, Receive
    <2> QED
      BY <1>5, <2>1, <2>2
         DEF Select, SelectCancel, TakeAlert, StreamEnds, StreamFails, ReceiveIgnored,
             ReceiveInvalid, agentVars
  <1>6. CASE Handling
    <2>1. CASE SendAlertOk \/ RespondOk
      BY <1>1, <2>1, ItemTypes DEF SendAlertOk, RespondOk
    <2>2. CASE Effect
      BY <2>2, ItemTypes DEF Effect, RequestStop, agentVars
    <2> QED
      BY <1>6, <2>1, <2>2 DEF Handling, SendAlertFail, Answer, RespondFail, agentVars
  <1>7. CASE Worker
    BY <1>7 DEF Worker
  <1> QED  BY <1>2, <1>3, <1>4, <1>5, <1>6, <1>7 DEF Next

\* What the queue accepts is put at the end of it.
LEMMA TrySendRecords ==
    ASSUME AgentTypeOK, AcceptedIsRecorded, NEW x \in Item, TrySend(x)
    PROVE  AcceptedIsRecorded'
  <1>1. CASE Accepts
    <2>1. /\ input \in Seq(Item) /\ recorded \in Seq(ChatMessage)
          /\ Chat(input) \in Seq(ChatMessage) /\ Chat(<<x>>) \in Seq(ChatMessage)
      BY ChatType, ChatOfItem DEF AgentTypeOK
    <2>2. Chat(Append(input, x)) = Chat(input) \o Chat(<<x>>)
      BY <2>1, ChatAppended
    <2>3. recorded \o Chat(Append(input, x)) = (recorded \o Chat(input)) \o Chat(<<x>>)
      BY <2>1, <2>2, ConcatAssociative
    <2>4. recorded \o Chat(input) = accepted /\ worker # "gone"
      BY <1>1 DEF AcceptedIsRecorded, Accepts
    <2> QED  BY <1>1, <2>3, <2>4 DEF AcceptedIsRecorded, TrySend
  <1>2. CASE ~Accepts
    BY <1>2 DEF AcceptedIsRecorded, TrySend
  <1> QED  BY <1>1, <1>2

\* What the worker takes from the queue is recorded.
LEMMA TakenRecords ==
    ASSUME AgentTypeOK, AcceptedIsRecorded, worker # "gone", input # <<>>,
           input' = Tail(input), Remember(Head(input)), worker' # "gone",
           UNCHANGED accepted
    PROVE  AcceptedIsRecorded'
  <1>1. /\ input \in Seq(Item) /\ recorded \in Seq(ChatMessage)
        /\ Head(input) \in Item /\ Tail(input) \in Seq(Item)
    BY TakenType DEF AgentTypeOK
  <1>2. Chat(<<Head(input)>>) \in Seq(ChatMessage) /\ Chat(Tail(input)) \in Seq(ChatMessage)
    BY <1>1, ChatType, ChatOfItem
  <1>3. Chat(input) = Chat(<<Head(input)>>) \o Chat(Tail(input))
    BY <1>1, ChatTaken
  <1>4. (recorded \o Chat(<<Head(input)>>)) \o Chat(Tail(input)) = recorded \o Chat(input)
    BY <1>1, <1>2, <1>3, ConcatAssociative
  <1> QED  BY <1>4 DEF AcceptedIsRecorded, Remember

\* When the worker's task ends, the history is what it had recorded so far.
LEMMA ExitRecords ==
    ASSUME AgentTypeOK, AcceptedIsRecorded, worker # "gone", worker' = "gone",
           UNCHANGED <<recorded, accepted>>
    PROVE  AcceptedIsRecorded'
  <1>1. recorded \in Seq(ChatMessage) /\ Chat(input) \in Seq(ChatMessage)
    BY ChatType DEF AgentTypeOK
  <1>2. IsPrefix(recorded, recorded \o Chat(input))
    BY <1>1, PrefixOfConcat
  <1>3. recorded \o Chat(input) = accepted
    BY DEF AcceptedIsRecorded
  <1> QED  BY <1>2, <1>3 DEF AcceptedIsRecorded

\* Every step of the worker keeps the history complete.
LEMMA WorkerRecords ==
    ASSUME AgentTypeOK, AcceptedIsRecorded, WorkerStep
    PROVE  AcceptedIsRecorded'
  <1>1. worker # "gone"
    BY DEF WorkerStep, TakeInput, TakeStop, TakeCancel, StopJob, PromptReturns,
           CompactReturns, RecordReturns, DrainInput, DrainRecordReturns, DrainDone
  <1>2. CASE TakeInput \/ DrainInput
    <2>1. /\ input # <<>> /\ input' = Tail(input) /\ Remember(Head(input))
          /\ UNCHANGED accepted
      BY <1>2 DEF TakeInput, DrainInput
    <2>2. Head(input).kind # "gone" /\ worker' # "gone"
      BY <1>1, <1>2, <2>1, TakenType, ItemTypes DEF TakeInput, DrainInput
    <2> QED  BY <1>1, <2>1, <2>2, TakenRecords
  <1>3. CASE ~(TakeInput \/ DrainInput)
    <2>1. \/ worker' = "gone" /\ UNCHANGED <<recorded, accepted>>
          \/ worker' # "gone" /\ UNCHANGED <<input, recorded, accepted>>
      BY <1>1, <1>3
         DEF WorkerStep, TakeStop, TakeCancel, StopJob, PromptReturns, CompactReturns,
             FinishJob, Exit, RecordReturns, DrainRecordReturns, DrainDone
    <2>2. CASE worker' = "gone"
      BY <1>1, <2>1, <2>2, ExitRecords
    <2>3. CASE worker' # "gone"
      BY <1>1, <2>1, <2>3 DEF AcceptedIsRecorded
    <2> QED  BY <2>2, <2>3
  <1> QED  BY <1>2, <1>3

\* No message that the queue accepted is missing from the history, none is there
\* twice, and they are in the order of the calls, for queues of every capacity and
\* any number of stops.
THEOREM HistoryComplete == Spec => []AcceptedIsRecorded
  <1>1. Init => AcceptedIsRecorded
    BY ChatOfNone DEF Init, AgentInit, AcceptedIsRecorded
  <1>2. TypeOK /\ AcceptedIsRecorded /\ [Next]_vars => AcceptedIsRecorded'
    <2> SUFFICES ASSUME TypeOK, AcceptedIsRecorded, [Next]_vars PROVE AcceptedIsRecorded'
      OBVIOUS
    <2>1. AgentTypeOK
      BY DEF TypeOK
    <2>2. CASE \E x \in Item : TrySend(x)
      BY <2>1, <2>2, TrySendRecords
    <2>3. CASE WorkerStep
      BY <2>1, <2>3, WorkerRecords
    <2>4. CASE UNCHANGED <<input, worker, recorded, accepted>>
      BY <2>4 DEF AcceptedIsRecorded
    <2> QED  BY <2>2, <2>3, <2>4, AgentSteps
  <1> QED  BY <1>1, <1>2, TypeCorrect, PTL DEF Spec
-----------------------------------------------------------------------------
(***************************************************************************)
(* The alerts.                                                             *)
(***************************************************************************)

\* AlertsAccounted says of `Kept`, the alerts that were sent, that is being sent and
\* that are queued, that they are `Accounted`.
InHand == IF loop = "sendAlert" THEN <<current.id>> ELSE <<>>
Kept == delivered \o InHand \o alerts
Accounted(kept, total, failed) ==
    /\ failed \subseteq 1..total /\ Range(kept) = 1..total \ failed
    /\ \A i, k \in DOMAIN kept : i < k => kept[i] < kept[k]

\* An alert gets into the queue.
LEMMA KeptPosted ==
    ASSUME NEW a \in Seq(Nat), NEW h \in Seq(Nat), NEW b \in Seq(Nat), NEW x \in Nat
    PROVE  a \o h \o Append(b, x) = Append(a \o h \o b, x)
  <1>1. a \o h \in Seq(Nat) /\ (a \o h) \o b \in Seq(Nat) /\ <<x>> \in Seq(Nat)
    OBVIOUS
  <1> QED  BY <1>1, ConcatAssociative, AppendIsConcat

\* The head of the queue comes into the loop's hands.
LEMMA KeptTaken ==
    ASSUME NEW a \in Seq(Nat), NEW b \in Seq(Nat), b # <<>>
    PROVE  a \o <<Head(b)>> \o Tail(b) = a \o <<>> \o b
  <1>1. /\ Head(b) \in Nat /\ Tail(b) \in Seq(Nat) /\ <<Head(b)>> \in Seq(Nat)
        /\ <<Head(b)>> \o Tail(b) = b
    OBVIOUS
  <1>2. (a \o <<Head(b)>>) \o Tail(b) = a \o (<<Head(b)>> \o Tail(b))
    BY <1>1, ConcatAssociative
  <1>3. a \o <<>> = a
    BY ConcatEmptySeq
  <1> QED  BY <1>1, <1>2, <1>3

\* What is in the loop's hands is sent.
LEMMA KeptSent ==
    ASSUME NEW a \in Seq(Nat), NEW b \in Seq(Nat), NEW x \in Nat
    PROVE  Append(a, x) \o <<>> \o b = a \o <<x>> \o b
  <1>1. a \o <<x>> \in Seq(Nat)
    OBVIOUS
  <1> QED  BY <1>1, ConcatEmptySeq, AppendIsConcat

\* A new alert comes last.
LEMMA AccountedAppend ==
    ASSUME NEW s \in Seq(Nat), NEW p \in Nat, NEW l, Accounted(s, p, l)
    PROVE  Accounted(Append(s, p + 1), p + 1, l)
  <1> DEFINE t == Append(s, p + 1)
  <1>1. /\ l \subseteq 1 .. p /\ \A i \in 1 .. Len(s) : s[i] \in 1 .. p /\ s[i] \notin l
        /\ \A a \in 1 .. p : a \notin l => \E i \in 1 .. Len(s) : s[i] = a
        /\ \A i, k \in 1 .. Len(s) : i < k => s[i] < s[k]
    BY DEF Accounted, Range
  <1>2. /\ Len(s) \in Nat /\ DOMAIN t = 1 .. Len(s) + 1 /\ t[Len(s) + 1] = p + 1
        /\ \A i \in 1 .. Len(s) : t[i] = s[i]
    OBVIOUS
  <1> HIDE DEF t
  <1>3. Len(s) + 1 \in DOMAIN t
    BY <1>2
  <1>4. ASSUME NEW i \in DOMAIN t PROVE t[i] \in (1 .. p + 1) \ l
    BY <1>1, <1>2
  <1>5. ASSUME NEW a \in (1 .. p + 1) \ l PROVE \E i \in DOMAIN t : t[i] = a
    <2>1. CASE a = p + 1
      BY <1>2, <1>3, <2>1
    <2>2. CASE a # p + 1
      <3>1. PICK i \in 1 .. Len(s) : s[i] = a
        BY <1>1, <2>2
      <3> QED  BY <1>2, <3>1
    <2> QED  BY <2>1, <2>2
  <1>6. ASSUME NEW i \in DOMAIN t, NEW k \in DOMAIN t, i < k PROVE t[i] < t[k]
    <2>1. i \in Nat /\ k \in Nat /\ i \in 1 .. Len(s) /\ t[i] = s[i]
      BY <1>2, <1>6
    <2>2. CASE k = Len(s) + 1
      <3>1. t[k] = p + 1 /\ s[i] \in 1 .. p
        BY <1>1, <1>2, <2>1, <2>2
      <3> QED  BY <2>1, <3>1
    <2>3. CASE k # Len(s) + 1
      BY <1>1, <1>2, <1>6, <2>1, <2>3
    <2> QED  BY <2>2, <2>3
  <1>7. Range(t) = (1 .. p + 1) \ l
    BY <1>4, <1>5 DEF Range
  <1>8. l \subseteq 1 .. p + 1
    BY <1>1
  <1> QED  BY <1>6, <1>7, <1>8 DEF Accounted, t

\* An alert that fails is not kept.
LEMMA AccountedFailed ==
    ASSUME NEW a \in Seq(Nat), NEW c \in Nat, NEW b \in Seq(Nat), NEW p \in Nat, NEW l,
           Accounted(a \o <<c>> \o b, p, l)
    PROVE  Accounted(a \o <<>> \o b, p, l \cup {c})
  <1> DEFINE s == a \o <<c>> \o b
             t == a \o <<>> \o b
             n == Len(a)
  <1>1. /\ n \in Nat /\ Len(b) \in Nat
        /\ DOMAIN s = 1 .. n + 1 + Len(b) /\ s[n + 1] = c
        /\ DOMAIN t = 1 .. n + Len(b)
        /\ \A i \in 1 .. n : t[i] = s[i]
        /\ \A i \in n + 1 .. n + Len(b) : t[i] = s[i + 1]
        /\ \A i \in DOMAIN s : s[i] \in Nat
    <2> DEFINE u == a \o <<c>>
    <2>1. u \in Seq(Nat) /\ Len(u) = n + 1 /\ u[n + 1] = c /\ \A i \in 1 .. n : u[i] = a[i]
      OBVIOUS
    <2>2. /\ s = u \o b /\ t = a \o b /\ n \in Nat /\ Len(b) \in Nat
          /\ \A i \in DOMAIN b : b[i] \in Nat
      OBVIOUS
    <2> HIDE DEF s, t, u, n
    <2>3. /\ s \in Seq(Nat) /\ Len(s) = n + 1 + Len(b)
          /\ \A i \in 1 .. n + 1 : s[i] = u[i]
          /\ \A i \in n + 2 .. n + 1 + Len(b) : s[i] = b[i - (n + 1)]
      <3>1. b \in Seq(Nat)
        OBVIOUS
      <3>2. /\ Len(u \o b) = Len(u) + Len(b) /\ u \o b \in Seq(Nat)
            /\ \A i \in 1 .. Len(u) + Len(b) :
                   (u \o b)[i] = IF i <= Len(u) THEN u[i] ELSE b[i - Len(u)]
        BY <2>1, <3>1, ConcatProperties
      <3>3. \A i \in 1 .. (n + 1) + Len(b) : s[i] = IF i <= n + 1 THEN u[i] ELSE b[i - (n + 1)]
        BY <2>1, <2>2, <3>2
      <3>4. s \in Seq(Nat) /\ Len(s) = n + 1 + Len(b)
        BY <2>1, <2>2, <3>2
      <3> QED  BY <2>2, <3>3, <3>4
    <2>4. /\ t \in Seq(Nat) /\ Len(t) = n + Len(b)
          /\ \A i \in 1 .. n : t[i] = a[i]
          /\ \A i \in n + 1 .. n + Len(b) : t[i] = b[i - n]
      BY <2>2 DEF n
    <2>5. ASSUME NEW i \in n + 1 .. n + Len(b) PROVE t[i] = s[i + 1]
      <3>1. i + 1 \in n + 2 .. n + 1 + Len(b) /\ (i + 1) - (n + 1) = i - n
        BY <2>2
      <3> QED  BY <2>3, <2>4, <3>1
    <2>6. \A i \in 1 .. n : t[i] = s[i]
      BY <2>1, <2>2, <2>3, <2>4
    <2>7. s[n + 1] = c
      BY <2>1, <2>2, <2>3
    <2>8. \A i \in 1 .. Len(s) : s[i] \in Nat
      BY <2>3
    <2>9. DOMAIN s = 1 .. n + 1 + Len(b) /\ DOMAIN t = 1 .. n + Len(b)
      BY <2>3, <2>4
    <2> QED  BY <2>2, <2>3, <2>5, <2>6, <2>7, <2>8, <2>9
  <1> HIDE DEF s, t, n
  <1>2. /\ l \subseteq 1 .. p /\ \A i \in DOMAIN s : s[i] \in 1 .. p /\ s[i] \notin l
        /\ \A x \in 1 .. p : x \notin l => \E i \in DOMAIN s : s[i] = x
        /\ \A i, k \in DOMAIN s : i < k => s[i] < s[k]
    BY DEF Accounted, Range, s
  <1>3. n + 1 \in DOMAIN s
    BY <1>1
  <1>4. \A i \in DOMAIN s : i # n + 1 => s[i] # c
    <2> SUFFICES ASSUME NEW i \in DOMAIN s, i # n + 1 PROVE s[i] # c
      OBVIOUS
    <2>1. i < n + 1 \/ n + 1 < i
      BY <1>1
    <2>2. s[i] < s[n + 1] \/ s[n + 1] < s[i]
      BY <1>2, <1>3, <2>1
    <2>3. s[i] \in Nat /\ s[n + 1] = c
      BY <1>1
    <2> QED  BY <2>2, <2>3
  <1>5. ASSUME NEW i \in DOMAIN t
        PROVE  \E k \in DOMAIN s : k # n + 1 /\ t[i] = s[k] /\ (i <= n => k = i)
                                   /\ (~(i <= n) => k = i + 1)
    <2>1. CASE i <= n
      BY <1>1, <2>1
    <2>2. CASE ~(i <= n)
      <3>1. i + 1 \in DOMAIN s /\ i + 1 # n + 1 /\ t[i] = s[i + 1]
        BY <1>1, <2>2
      <3> QED  BY <2>2, <3>1
    <2> QED  BY <2>1, <2>2
  <1>6. ASSUME NEW k \in DOMAIN s, k # n + 1 PROVE \E i \in DOMAIN t : t[i] = s[k]
    <2>1. CASE k <= n
      BY <1>1, <2>1
    <2>2. CASE ~(k <= n)
      <3>1. k - 1 \in DOMAIN t /\ t[k - 1] = s[k]
        BY <1>1, <1>6, <2>2
      <3> QED  BY <3>1
    <2> QED  BY <2>1, <2>2
  <1>7. c \in 1 .. p
    BY <1>1, <1>2, <1>3
  <1>8. Range(t) = (1 .. p) \ (l \cup {c})
    <2>1. ASSUME NEW i \in DOMAIN t PROVE t[i] \in (1 .. p) \ (l \cup {c})
      BY <1>2, <1>4, <1>5
    <2>2. ASSUME NEW x \in (1 .. p) \ (l \cup {c}) PROVE \E i \in DOMAIN t : t[i] = x
      BY <1>1, <1>2, <1>6
    <2> QED  BY <2>1, <2>2 DEF Range
  <1>9. ASSUME NEW i \in DOMAIN t, NEW k \in DOMAIN t, i < k PROVE t[i] < t[k]
    <2>1. PICK j \in DOMAIN s : t[i] = s[j] /\ (i <= n => j = i) /\ (~(i <= n) => j = i + 1)
      BY <1>5
    <2>2. PICK m \in DOMAIN s : t[k] = s[m] /\ (k <= n => m = k) /\ (~(k <= n) => m = k + 1)
      BY <1>5
    <2>3. j < m
      <3>1. i \in Nat /\ k \in Nat /\ n \in Nat
        BY <1>1
      <3> QED  BY <1>9, <2>1, <2>2, <3>1
    <2> QED  BY <1>2, <2>1, <2>2, <2>3
  <1>10. l \cup {c} \subseteq 1 .. p
    BY <1>2, <1>7
  <1> QED  BY <1>8, <1>9, <1>10 DEF Accounted, t

\* What a step of the gateway can be for the alerts.
LEMMA AlertSteps ==
    ASSUME TypeOK, [Next]_vars
    PROVE  \/ PostAlert
           \/ TakeAlert
           \/ SendAlertOk
           \/ SendAlertFail
           \/ UNCHANGED alertVars /\ InHand' = InHand
  <1>1. CASE UNCHANGED vars
    BY <1>1 DEF vars, loopVars, alertVars, InHand
  <1>2. CASE Environment
    BY <1>2 DEF Environment, Arrive, Cancel, loopVars, alertVars, InHand
  <1>3. CASE Connecting
    BY <1>3 DEF Connecting, Top, ConnectOk, ConnectFail, TrustOk, TrustFail, TrustSleep,
                SubscribeOk, SubscribeFail, Goto, Leave, alertVars, InHand
  <1>4. CASE Select
    BY <1>4 DEF Select, SelectCancel, StreamEnds, StreamFails, ReceiveIgnored,
                ReceiveInvalid, ReceiveCommand, ReceivePrompt, Receive, Leave, alertVars,
                InHand
  <1>5. CASE Handling
    BY <1>5 DEF Handling, Effect, Answer, RespondOk, RespondFail, Leave, alertVars, InHand
  <1>6. CASE Worker
    BY <1>6 DEF Worker, loopVars, alertVars, InHand
  <1> QED  BY <1>1, <1>2, <1>3, <1>4, <1>5, <1>6 DEF Next

\* Each alert is in exactly one place, and in the order in which it was posted, for
\* any number of alerts, through every reconnect.
THEOREM AlertsComplete == Spec => []AlertsAccounted
  <1>1. Init => AlertsAccounted
    BY DEF Init, AlertsAccounted, Range
  <1>2. AlertsAccounted <=> Accounted(Kept, posted, lost)
    BY DEF AlertsAccounted, Accounted, Kept, InHand
  <1>3. AlertsAccounted' <=> Accounted(Kept', posted', lost')
    BY DEF AlertsAccounted, Accounted, Kept, InHand
  <1>4. TypeOK /\ AlertsAccounted /\ [Next]_vars => AlertsAccounted'
    <2> SUFFICES ASSUME TypeOK, Accounted(Kept, posted, lost), [Next]_vars
                 PROVE  Accounted(Kept', posted', lost')
      BY <1>2, <1>3
    <2>1. /\ delivered \in Seq(Nat) /\ alerts \in Seq(Nat) /\ current.id \in Nat
          /\ InHand \in Seq(Nat) /\ posted \in Nat
      BY DEF TypeOK, InHand
    <2>2. CASE PostAlert
      <3>1. Kept' = Append(Kept, posted + 1)
        <4> DEFINE x == posted + 1
        <4>1. /\ alerts' = Append(alerts, x) /\ delivered' = delivered
              /\ InHand' = InHand /\ x \in Nat
          BY <2>1, <2>2 DEF PostAlert, InHand, loopVars
        <4> HIDE DEF x
        <4>2. delivered \o InHand \o Append(alerts, x)
                  = Append(delivered \o InHand \o alerts, x)
          BY ONLY <2>1, <4>1, KeptPosted
        <4>3. Kept' = Append(Kept, x)
          BY <4>1, <4>2 DEF Kept
        <4> QED  BY <4>3 DEF x
      <3>2. Kept \in Seq(Nat)
        BY <2>1 DEF Kept
      <3> QED  BY <2>1, <2>2, <3>1, <3>2, AccountedAppend DEF PostAlert
    <2>3. CASE TakeAlert
      <3>1. /\ delivered' = delivered /\ InHand = <<>> /\ InHand' = <<Head(alerts)>>
            /\ alerts' = Tail(alerts) /\ alerts # <<>> /\ posted' = posted /\ lost' = lost
        BY <2>3 DEF TakeAlert, InHand
      <3>2. delivered \o <<Head(alerts)>> \o Tail(alerts) = delivered \o <<>> \o alerts
        BY ONLY <2>1, <3>1, KeptTaken
      <3> QED  BY <3>1, <3>2 DEF Kept
    <2>4. CASE SendAlertOk
      <3>1. /\ delivered' = Append(delivered, current.id) /\ InHand = <<current.id>>
            /\ InHand' = <<>> /\ alerts' = alerts /\ posted' = posted /\ lost' = lost
        BY <2>4 DEF SendAlertOk, InHand
      <3>2. Append(delivered, current.id) \o <<>> \o alerts
                = delivered \o <<current.id>> \o alerts
        BY ONLY <2>1, KeptSent
      <3> QED  BY <3>1, <3>2 DEF Kept
    <2>5. CASE SendAlertFail
      <3>1. /\ delivered' = delivered /\ InHand = <<current.id>> /\ InHand' = <<>>
            /\ alerts' = alerts /\ posted' = posted /\ lost' = lost \cup {current.id}
        BY <2>5 DEF SendAlertFail, Leave, InHand
      <3> QED  BY <2>1, <3>1, AccountedFailed DEF Kept
    <2>6. CASE UNCHANGED alertVars /\ InHand' = InHand
      BY <2>6 DEF Kept, alertVars
    <2> QED  BY <2>2, <2>3, <2>4, <2>5, <2>6, AlertSteps
  <1> QED  BY <1>1, <1>4, TypeCorrect, PTL DEF Spec
-----------------------------------------------------------------------------
(***************************************************************************)
(* The order of the conversation.                                          *)
(***************************************************************************)

Conversing == loop \in {"effect", "await", "respond"}

\* The messages of a subscription come in the order of their ids, and after the one
\* that the loop is handling.
StreamInOrder ==
    /\ \A i \in DOMAIN stream :
           /\ stream[i].id <= arrived
           /\ \A k \in DOMAIN stream : i < k => stream[i].id < stream[k].id
           /\ Conversing => current.id < stream[i].id
    /\ Conversing => current.id <= arrived

\* Of all talk that the queue has accepted only the admin's own message can be as new
\* as the one that the loop is handling, and nothing as new as those still to come.
TalkIsOld ==
    \A i \in Talk(accepted) :
        /\ accepted[i][2] <= arrived
        /\ \A k \in DOMAIN stream : accepted[i][2] < stream[k].id
        /\ Conversing => accepted[i][2] < current.id \/ accepted[i] = <<"user", current.id>>

TalkInv == StreamInOrder /\ TalkIsOld /\ InOrder(accepted)

\* The messages of the queue are chat messages and have numbers.
LEMMA TalkNumbers ==
    ASSUME TypeOK
    PROVE  /\ \A i \in Talk(accepted) : accepted[i] \in ChatMessage /\ accepted[i][2] \in Nat
           /\ \A i \in DOMAIN stream : stream[i] \in Received /\ stream[i].id \in Nat
           /\ current.id \in Nat /\ arrived \in Nat /\ accepted \in Seq(ChatMessage)
           /\ stream \in Seq(Received)
  <1>1. /\ accepted \in Seq(ChatMessage) /\ stream \in Seq(Received)
        /\ current.id \in Nat /\ arrived \in Nat
    BY GatewayAssumption DEF TypeOK, AgentTypeOK
  <1>2. /\ \A i \in Talk(accepted) : accepted[i] \in ChatMessage
        /\ \A i \in DOMAIN stream : stream[i] \in Received
    BY <1>1 DEF Talk
  <1>3. /\ \A m \in ChatMessage : m[2] \in Nat
        /\ \A m \in Received : m.id \in Nat
    BY DEF ChatMessage, Received
  <1> QED  BY <1>1, <1>2, <1>3

\* What a method call adds to the talk.
LEMMA TrySendAdds ==
    ASSUME NEW x \in Item, TrySend(x), accepted \in Seq(ChatMessage)
    PROVE  \/ accepted' = accepted
           \/ IsChat(x) /\ x.msg \in ChatMessage /\ accepted' = Append(accepted, x.msg)
  <1>1. x.msg \in ChatMessage
    BY ItemTypes
  <1>2. accepted \o <<>> = accepted /\ accepted \o <<x.msg>> = Append(accepted, x.msg)
    BY <1>1, AppendIsConcat, ConcatEmptySeq
  <1> QED  BY <1>1, <1>2, ChatOfOne DEF TrySend

\* A message that is put at the end of a history leaves the order if it is an alert or
\* follows what is there.
LEMMA TalkAppended ==
    ASSUME NEW h \in Seq(ChatMessage), NEW m \in ChatMessage
    PROVE  /\ \A i \in Talk(Append(h, m)) :
                  \/ i \in Talk(h) /\ Append(h, m)[i] = h[i]
                  \/ i = Len(h) + 1 /\ Append(h, m)[i] = m /\ m[1] # "alert"
           /\ /\ InOrder(h)
              /\ \/ m[1] = "alert"
                 \/ \A i \in Talk(h) : h[i][2] < m[2] \/ h[i] = <<"user", m[2]>>
              => InOrder(Append(h, m))
  <1> DEFINE t == Append(h, m)
  <1>1. /\ Len(h) \in Nat /\ t \in Seq(ChatMessage) /\ Len(t) = Len(h) + 1
        /\ t[Len(h) + 1] = m /\ \A i \in 1 .. Len(h) : t[i] = h[i]
    OBVIOUS
  <1> HIDE DEF t
  <1>2. ASSUME NEW i \in Talk(t)
        PROVE  \/ i \in Talk(h) /\ t[i] = h[i]
               \/ i = Len(h) + 1 /\ t[i] = m /\ m[1] # "alert"
    BY <1>1 DEF Talk
  <1>3. ASSUME \/ m[1] = "alert"
               \/ \A i \in Talk(h) : h[i][2] < m[2] \/ h[i] = <<"user", m[2]>>,
               InOrder(h)
        PROVE  InOrder(t)
    <2> SUFFICES ASSUME NEW i \in Talk(t), NEW k \in Talk(t), i < k
                 PROVE  t[i][2] < t[k][2] \/ (t[i][2] = t[k][2] /\ t[i][1] = "user")
      BY DEF InOrder
    <2>1. i \in 1 .. Len(h) + 1 /\ k \in 1 .. Len(h) + 1
      BY <1>1 DEF Talk
    <2>2. i # Len(h) + 1 /\ i \in Talk(h) /\ t[i] = h[i]
      BY <1>1, <1>2, <2>1
    <2>3. CASE k \in Talk(h) /\ t[k] = h[k]
      BY <1>3, <2>2, <2>3 DEF InOrder
    <2>4. CASE t[k] = m /\ m[1] # "alert"
      <3>1. h[i][2] < m[2] \/ h[i] = <<"user", m[2]>>
        BY <1>3, <2>2, <2>4
      <3> QED  BY <2>2, <2>4, <3>1
    <2> QED  BY <1>2, <2>3, <2>4
  <1> QED  BY <1>2, <1>3 DEF t

\* A step that neither talks nor takes a message from the stream.
LEMMA TalkIdle ==
    ASSUME TypeOK, TalkInv, accepted' = accepted, arrived' = arrived,
           stream' = stream \/ stream' = <<>>,
           Conversing' => Conversing /\ current' = current
    PROVE  TalkInv'
  <1>1. StreamInOrder'
    BY DEF TalkInv, StreamInOrder
  <1>2. TalkIsOld'
    BY DEF TalkInv, TalkIsOld, Talk
  <1>3. InOrder(accepted')
    BY DEF TalkInv
  <1> QED  BY <1>1, <1>2, <1>3 DEF TalkInv

\* A message arrives.
LEMMA TalkArrives ==
    ASSUME TypeOK, TalkInv, NEW m \in Incoming, Arrive(m)
    PROVE  TalkInv'
  <1> DEFINE x == [kind |-> KindOf[m], id |-> arrived + 1]
  <1>1. x.id = arrived + 1
    OBVIOUS
  <1>2. /\ stream' = Append(stream, x) /\ arrived' = arrived + 1 /\ accepted' = accepted
        /\ current' = current /\ Conversing' = Conversing
    BY DEF Arrive, agentVars, Conversing
  <1> HIDE DEF x
  <1>3. /\ DOMAIN stream' = 1 .. Len(stream) + 1 /\ DOMAIN stream = 1 .. Len(stream)
        /\ Len(stream) \in Nat /\ stream'[Len(stream) + 1] = x
        /\ \A i \in DOMAIN stream : stream'[i] = stream[i]
    BY <1>2, TalkNumbers
  <1>4. /\ \A i \in DOMAIN stream : stream[i].id \in Nat
        /\ arrived \in Nat /\ current.id \in Nat
        /\ \A i \in Talk(accepted) : accepted[i][2] \in Nat
    BY TalkNumbers
  <1>5. \A i \in DOMAIN stream' : \/ i \in DOMAIN stream /\ stream'[i] = stream[i]
                                  \/ i = Len(stream) + 1 /\ stream'[i] = x
    BY <1>3
  <1>6. StreamInOrder'
    <2>1. ASSUME NEW i \in DOMAIN stream', NEW k \in DOMAIN stream', i < k
          PROVE  stream'[i].id < stream'[k].id
      <3>1. i \in DOMAIN stream /\ stream'[i] = stream[i]
        BY <1>3, <1>5, <2>1
      <3>2. CASE k \in DOMAIN stream
        BY <1>3, <2>1, <3>1, <3>2 DEF TalkInv, StreamInOrder
      <3>3. CASE stream'[k] = x
        <4>1. stream[i].id <= arrived /\ stream[i].id \in Nat
          BY <1>4, <3>1 DEF TalkInv, StreamInOrder
        <4> QED  BY <1>1, <1>4, <3>1, <3>3, <4>1
      <3> QED  BY <1>5, <3>2, <3>3
    <2>2. ASSUME NEW i \in DOMAIN stream'
          PROVE  /\ stream'[i].id <= arrived'
                 /\ Conversing' => current'.id < stream'[i].id
      BY <1>1, <1>2, <1>4, <1>5 DEF TalkInv, StreamInOrder
    <2>3. Conversing' => current'.id <= arrived'
      BY <1>2, <1>4 DEF TalkInv, StreamInOrder
    <2> QED  BY <2>1, <2>2, <2>3 DEF StreamInOrder
  <1>7. TalkIsOld'
    <2> SUFFICES ASSUME NEW i \in Talk(accepted)
                 PROVE  /\ accepted[i][2] <= arrived'
                        /\ \A k \in DOMAIN stream' : accepted[i][2] < stream'[k].id
                        /\ Conversing => \/ accepted[i][2] < current.id
                                         \/ accepted[i] = <<"user", current.id>>
      BY <1>2 DEF TalkIsOld
    <2>1. accepted[i][2] <= arrived /\ accepted[i][2] \in Nat
      BY <1>4 DEF TalkInv, TalkIsOld
    <2>2. ASSUME NEW k \in DOMAIN stream' PROVE accepted[i][2] < stream'[k].id
      BY <1>1, <1>4, <1>5, <2>1 DEF TalkInv, TalkIsOld
    <2>3. accepted[i][2] <= arrived'
      BY <1>2, <1>4, <2>1
    <2> QED  BY <2>2, <2>3 DEF TalkInv, TalkIsOld
  <1> QED  BY <1>2, <1>6, <1>7 DEF TalkInv

\* The loop takes a message from the stream and hands the admin's part of the talk to
\* the queue, if anything.
LEMMA TalkReceived ==
    ASSUME TypeOK, TalkInv, stream # <<>>, stream' = Tail(stream), arrived' = arrived,
           \/ ~Conversing'
           \/ current' = Head(stream),
           \/ accepted' = accepted
           \/ /\ accepted' = Append(accepted, <<"user", Head(stream).id>>)
              /\ Conversing'
    PROVE  TalkInv'
  <1>1. /\ stream \in Seq(Received) /\ Len(stream) \in Nat \ {0} /\ Head(stream) = stream[1]
        /\ DOMAIN stream = 1 .. Len(stream) /\ DOMAIN stream' = 1 .. Len(stream) - 1
        /\ \A i \in DOMAIN stream' : stream'[i] = stream[i + 1] /\ i + 1 \in DOMAIN stream
                                     /\ 1 < i + 1 /\ i \in Nat
        /\ 1 \in DOMAIN stream
    BY TalkNumbers
  <1>2. /\ \A i \in DOMAIN stream : stream[i].id \in Nat
        /\ arrived \in Nat /\ accepted \in Seq(ChatMessage)
        /\ \A i \in Talk(accepted) : accepted[i][2] \in Nat
    BY TalkNumbers
  <1>3. StreamInOrder'
    <2>1. ASSUME NEW i \in DOMAIN stream', NEW k \in DOMAIN stream', i < k
          PROVE  stream'[i].id < stream'[k].id
      <3>1. i + 1 < k + 1
        BY <1>1, <2>1
      <3> QED  BY <1>1, <3>1 DEF TalkInv, StreamInOrder
    <2>2. ASSUME NEW i \in DOMAIN stream'
          PROVE  /\ stream'[i].id <= arrived'
                 /\ Conversing' => current'.id < stream'[i].id
      BY <1>1 DEF TalkInv, StreamInOrder
    <2>3. Conversing' => current'.id <= arrived'
      BY <1>1 DEF TalkInv, StreamInOrder
    <2> QED  BY <2>1, <2>2, <2>3 DEF StreamInOrder
  <1>4. /\ stream[1].id <= arrived /\ stream[1].id \in Nat
        /\ \A k \in DOMAIN stream' : stream[1].id < stream'[k].id
        /\ \A i \in Talk(accepted) : /\ accepted[i][2] < stream[1].id
                                     /\ accepted[i][2] <= arrived
                                     /\ \A k \in DOMAIN stream' : accepted[i][2] < stream'[k].id
    BY <1>1, <1>2 DEF TalkInv, StreamInOrder, TalkIsOld
  <1>5. CASE accepted' = accepted
    <2>1. TalkIsOld'
      BY <1>1, <1>4, <1>5 DEF TalkIsOld
    <2> QED  BY <1>3, <1>5, <2>1 DEF TalkInv
  <1>6. CASE accepted' = Append(accepted, <<"user", stream[1].id>>) /\ Conversing'
    <2> DEFINE m == <<"user", stream[1].id>>
    <2>1. m \in ChatMessage /\ m[2] = stream[1].id
      BY <1>4 DEF ChatMessage
    <2>2. current' = stream[1]
      BY <1>1, <1>6
    <2> HIDE DEF m
    <2>3. ASSUME NEW i \in Talk(accepted')
          PROVE  (i \in Talk(accepted) /\ accepted'[i] = accepted[i]) \/ accepted'[i] = m
      BY <1>2, <1>6, <2>1, TalkAppended DEF m
    <2>4. InOrder(accepted')
      BY <1>2, <1>4, <1>6, <2>1, TalkAppended DEF TalkInv, m
    <2>5. TalkIsOld'
      <3> SUFFICES ASSUME NEW i \in Talk(accepted')
                   PROVE  /\ accepted'[i][2] <= arrived'
                          /\ \A k \in DOMAIN stream' : accepted'[i][2] < stream'[k].id
                          /\ \/ accepted'[i][2] < current'.id
                             \/ accepted'[i] = <<"user", current'.id>>
        BY DEF TalkIsOld
      <3>1. CASE i \in Talk(accepted) /\ accepted'[i] = accepted[i]
        BY <1>4, <2>2, <3>1
      <3>2. CASE accepted'[i] = m
        BY <1>4, <2>1, <2>2, <3>2 DEF m
      <3> QED  BY <2>3, <3>1, <3>2
    <2> QED  BY <1>3, <2>4, <2>5 DEF TalkInv
  <1> QED  BY <1>1, <1>5, <1>6

\* The loop tells the assistant of an alert, or of its answer, and is ready for the
\* next message.
LEMMA TalkTold ==
    ASSUME TypeOK, TalkInv, UNCHANGED <<stream, arrived>>, ~Conversing',
           NEW m \in ChatMessage,
           m[1] = "alert" \/ (Conversing /\ m[2] = current.id),
           accepted' = accepted \/ accepted' = Append(accepted, m)
    PROVE  TalkInv'
  <1>1. StreamInOrder'
    BY DEF TalkInv, StreamInOrder
  <1>2. CASE accepted' = accepted
    <2>1. TalkIsOld'
      BY <1>2 DEF TalkInv, TalkIsOld
    <2> QED  BY <1>1, <1>2, <2>1 DEF TalkInv
  <1>3. CASE accepted' = Append(accepted, m)
    <2>1. accepted \in Seq(ChatMessage)
      BY TalkNumbers
    <2>2. \A i \in Talk(accepted') : \/ i \in Talk(accepted) /\ accepted'[i] = accepted[i]
                                     \/ accepted'[i] = m /\ m[1] # "alert"
      BY <1>3, <2>1, TalkAppended
    <2>3. \/ m[1] = "alert"
          \/ \A i \in Talk(accepted) : accepted[i][2] < m[2] \/ accepted[i] = <<"user", m[2]>>
      BY DEF TalkInv, TalkIsOld
    <2>4. InOrder(accepted')
      BY <1>3, <2>1, <2>3, TalkAppended DEF TalkInv
    <2>5. TalkIsOld'
      <3> SUFFICES ASSUME NEW i \in Talk(accepted')
                   PROVE  /\ accepted'[i][2] <= arrived
                          /\ \A k \in DOMAIN stream : accepted'[i][2] < stream[k].id
        BY DEF TalkIsOld
      <3>1. CASE i \in Talk(accepted) /\ accepted'[i] = accepted[i]
        BY <3>1 DEF TalkInv, TalkIsOld
      <3>2. CASE accepted'[i] = m /\ m[1] # "alert"
        BY <3>2 DEF TalkInv, StreamInOrder
      <3> QED  BY <2>2, <3>1, <3>2
    <2> QED  BY <1>1, <2>4, <2>5 DEF TalkInv
  <1> QED  BY <1>2, <1>3

\* Every step keeps the talk in order on its way to the queue.
LEMMA TalkStep ==
    ASSUME TypeOK, TalkInv, [Next]_vars
    PROVE  TalkInv'
  <1>0. /\ accepted \in Seq(ChatMessage) /\ current.id \in Nat
        /\ stream # <<>> => Head(stream).id \in Nat
    BY TalkNumbers
  <1>1. CASE UNCHANGED vars
    BY <1>1, TalkIdle DEF vars, agentVars, loopVars, Conversing
  <1>2. CASE PostAlert \/ Cancel
    BY <1>2, TalkIdle DEF PostAlert, Cancel, agentVars, loopVars, Conversing
  <1>3. ASSUME NEW m \in Incoming, Arrive(m) PROVE TalkInv'
    BY <1>3, TalkArrives
  <1>4. CASE Connecting
    BY <1>4, TalkIdle
       DEF Connecting, Top, ConnectOk, ConnectFail, TrustOk, TrustFail, TrustSleep,
           SubscribeOk, SubscribeFail, Goto, Leave, agentVars, Conversing
  <1>5. CASE SelectCancel \/ TakeAlert \/ StreamEnds \/ StreamFails
    BY <1>5, TalkIdle
       DEF SelectCancel, TakeAlert, StreamEnds, StreamFails, Leave, agentVars, Conversing
  <1>6. CASE ReceiveIgnored \/ ReceiveInvalid
    BY <1>6, TalkReceived DEF ReceiveIgnored, ReceiveInvalid, Receive, agentVars, Conversing
  <1>7. CASE ReceiveCommand \/ ReceivePrompt
    <2> DEFINE m == <<"user", Head(stream).id>>
    <2>1. /\ stream # <<>> /\ stream' = Tail(stream) /\ arrived' = arrived
          /\ current' = Head(stream) /\ Conversing'
          /\ (TrySend(Record(m)) \/ TrySend(Prompt(m)))
      BY <1>7 DEF ReceiveCommand, ReceivePrompt, Receive, Conversing
    <2>2. Record(m) \in Item /\ Record(m).msg = m /\ Prompt(m) \in Item /\ Prompt(m).msg = m
      BY <1>0, <2>1, ItemTypes DEF Record, Prompt
    <2>3. accepted' = accepted \/ accepted' = Append(accepted, m)
      BY <1>0, <2>1, <2>2, TrySendAdds
    <2> QED  BY <2>1, <2>3, TalkReceived
  <1>8. CASE SendAlertOk
    <2> DEFINE m == <<"alert", current.id>>
    <2>1. m \in ChatMessage /\ Record(m) \in Item /\ Record(m).msg = m
      BY <1>0, ItemTypes DEF Record
    <2>2. accepted' = accepted \/ accepted' = Append(accepted, m)
      BY <1>0, <1>8, <2>1, TrySendAdds DEF SendAlertOk
    <2>3. UNCHANGED <<stream, arrived>> /\ ~Conversing'
      BY <1>8 DEF SendAlertOk, Conversing
    <2> QED  BY <2>1, <2>2, <2>3, TalkTold
  <1>9. CASE RespondOk
    <2> DEFINE m == <<source, current.id>>
    <2>1. m \in ChatMessage /\ Record(m) \in Item /\ Record(m).msg = m
      BY <1>0, ItemTypes DEF Record, TypeOK
    <2>2. accepted' = accepted \/ accepted' = Append(accepted, m)
      BY <1>0, <1>9, <2>1, TrySendAdds DEF RespondOk
    <2>3. UNCHANGED <<stream, arrived>> /\ ~Conversing' /\ Conversing
      BY <1>9 DEF RespondOk, Conversing
    <2> QED  BY <2>1, <2>2, <2>3, TalkTold
  <1>10. CASE Effect
    <2>1. accepted' = accepted
      <3>1. \A k \in {"compact", "debug"} : Command(k) \in Item /\ ~IsChat(Command(k))
        BY ItemTypes DEF Command, IsChat
      <3>2. CASE current.kind \in {"compact", "debug"}
        BY <1>0, <1>10, <3>1, <3>2, TrySendAdds DEF Effect
      <3>3. CASE current.kind \notin {"compact", "debug"}
        BY <1>10, <3>3 DEF Effect, RequestStop, agentVars
      <3> QED  BY <3>2, <3>3
    <2> QED  BY <1>10, <2>1, TalkIdle DEF Effect, Conversing
  <1>11. CASE SendAlertFail \/ Answer \/ RespondFail
    BY <1>11, TalkIdle DEF SendAlertFail, Answer, RespondFail, Leave, agentVars, Conversing
  <1>12. CASE Worker
    <2>1. accepted' = accepted
      BY <1>12 DEF Worker, WorkerStep, TakeInput, TakeStop, TakeCancel, StopJob,
                   PromptReturns, CompactReturns, FinishJob, RecordReturns, DrainInput,
                   DrainRecordReturns, DrainDone
    <2> QED  BY <1>12, <2>1, TalkIdle DEF Worker, loopVars, Conversing
  <1> QED
    BY <1>1, <1>2, <1>3, <1>4, <1>5, <1>6, <1>7, <1>8, <1>9, <1>10, <1>11, <1>12
       DEF Next, Environment, Select, Handling

\* The order of the talk that the queue accepted is that of the history.
LEMMA RecordedInOrder == TypeOK /\ TalkInv /\ AcceptedIsRecorded => ConversationInOrder
  <1> SUFFICES ASSUME TypeOK, TalkInv, AcceptedIsRecorded PROVE InOrder(recorded)
    BY DEF ConversationInOrder
  <1>1. /\ recorded \in Seq(ChatMessage) /\ accepted \in Seq(ChatMessage)
        /\ Chat(input) \in Seq(ChatMessage)
    BY ChatType DEF TypeOK, AgentTypeOK
  <1>2. IsPrefix(recorded, accepted)
    BY <1>1, PrefixOfConcat DEF AcceptedIsRecorded
  <1>3. Len(recorded) <= Len(accepted) /\ \A k \in 1 .. Len(recorded) : recorded[k] = accepted[k]
    BY <1>1, <1>2, PrefixPointwise
  <1>4. \A i \in Talk(recorded) : i \in Talk(accepted) /\ recorded[i] = accepted[i]
    BY <1>1, <1>3 DEF Talk
  <1>5. InOrder(accepted)
    BY DEF TalkInv
  <1>6. ASSUME NEW i \in Talk(recorded), NEW k \in Talk(recorded), i < k
        PROVE  \/ recorded[i][2] < recorded[k][2]
               \/ recorded[i][2] = recorded[k][2] /\ recorded[i][1] = "user"
    <2>1. \/ accepted[i][2] < accepted[k][2]
          \/ accepted[i][2] = accepted[k][2] /\ accepted[i][1] = "user"
      BY <1>4, <1>5, <1>6 DEF InOrder
    <2> QED  BY <1>4, <2>1, Zenon
  <1> QED  BY <1>6 DEF InOrder

\* The assistant's history has the conversation in order, for every capacity of its
\* queue and any number of messages, stops, cancellations and reconnects.
THEOREM Linearized == Spec => []ConversationInOrder
  <1>1. Init => TalkInv
    BY DEF Init, AgentInit, TalkInv, StreamInOrder, TalkIsOld, InOrder, Talk, Conversing
  <1>2. TypeOK /\ TalkInv /\ [Next]_vars => TalkInv'
    BY TalkStep
  <1>3. Spec => []TalkInv
    BY <1>1, <1>2, TypeCorrect, PTL DEF Spec
  <1> QED  BY <1>3, TypeCorrect, HistoryComplete, RecordedInOrder, PTL
-----------------------------------------------------------------------------
(***************************************************************************)
(* Routing, in the gateway.                                                *)
(***************************************************************************)

\* The longest of the prefixes that match is unique: it is the route's.
LEMMA LongestIsRoute ==
    ASSUME NEW table \in Table, NEW text \in Text, Builds(table), Matched(table, text) # {}
    PROVE  {i \in Matched(table, text) : \A k \in Matched(table, text) :
                Len(table[k].prefix) <= Len(table[i].prefix)} = {RouteOf(table, text)}
  <1> DEFINE r == RouteOf(table, text)
             M == Matched(table, text)
  <1>1. r \in M
    BY RouteOfFirst
  <1>2. \A i \in M : i # r => Len(table[i].prefix) < Len(table[r].prefix)
    BY FirstIsLongest
  <1>3. \A i \in M : Len(table[i].prefix) \in Nat
    <2> SUFFICES ASSUME NEW i \in M PROVE Len(table[i].prefix) \in Nat
      OBVIOUS
    <2>1. table[i].prefix \in Seq(STRING)
      BY TableRoutes DEF Matched, Text
    <2> QED  BY <2>1
  <1> HIDE DEF r, M
  <1>4. ASSUME NEW k \in M PROVE Len(table[k].prefix) <= Len(table[r].prefix)
    <2>1. CASE k = r
      BY <1>3, <2>1
    <2>2. CASE k # r
      <3>1. Len(table[k].prefix) < Len(table[r].prefix)
        BY <1>2, <2>2
      <3>2. Len(table[k].prefix) \in Nat /\ Len(table[r].prefix) \in Nat
        BY <1>1, <1>3
      <3> QED  BY <3>1, <3>2
    <2> QED  BY <2>1, <2>2
  <1>5. ASSUME NEW i \in M, Len(table[r].prefix) <= Len(table[i].prefix) PROVE i = r
    <2>1. Len(table[i].prefix) \in Nat /\ Len(table[r].prefix) \in Nat
      BY <1>1, <1>3
    <2>2. ~ (Len(table[i].prefix) < Len(table[r].prefix))
      BY <1>5, <2>1
    <2> QED  BY <1>2, <2>2
  <1>6. {i \in M : \A k \in M : Len(table[k].prefix) <= Len(table[i].prefix)} = {r}
    BY <1>1, <1>4, <1>5
  <1> QED  BY <1>6 DEF r, M

\* What an admin writes goes to the longest prefix that matches, in a gateway with any
\* table of routes that the builder accepts.
THEOREM RoutedByLongest == Spec => LongestPrefixDecides
  <1>1. ASSUME TypeOK, NEW m \in Incoming, Arrive(m), m.admin
        PROVE  LET matched == Matched(Router, m.text)
                   longest == {i \in matched : \A k \in matched :
                                   Len(Router[k].prefix) <= Len(Router[i].prefix)}
               IN  Last(stream').kind =
                       IF matched = {} THEN "ignored"
                       ELSE HandledBy(Router, CHOOSE i \in longest : TRUE, m.text)
    <2> DEFINE x == [kind |-> KindOf[m], id |-> arrived + 1]
    <2>1. stream \in Seq(Received) /\ x \in Received /\ x.kind = KindOf[m]
      <3>0. TypeOK
        BY <1>1
      <3>1. arrived + 1 \in Nat /\ stream \in Seq(Received)
        BY <3>0, TalkNumbers
      <3> QED  BY <3>1, KindOfType DEF Received
    <2>2. stream' = Append(stream, x)
      BY <1>1 DEF Arrive
    <2>3. Last(stream') = x
      <3> HIDE DEF x
      <3> QED  BY <2>1, <2>2 DEF Last
    <2>4. Last(stream').kind = Handled(Router, m.text)
      BY <1>1, <2>1, <2>3 DEF KindOf
    <2>5. Router \in Table /\ Builds(Router) /\ m.text \in Text
      BY GatewayAssumption
    <2>6. CASE Matched(Router, m.text) = {}
      BY <2>4, <2>5, <2>6, RouteOfFirst DEF Handled
    <2>7. CASE Matched(Router, m.text) # {}
      <3>1. RouteOf(Router, m.text) # 0
        BY <2>5, <2>7, RouteOfFirst, TableRoutes DEF Matched
      <3>2. Handled(Router, m.text) = HandledBy(Router, RouteOf(Router, m.text), m.text)
        BY <3>1 DEF Handled
      <3>3. (CHOOSE i \in {RouteOf(Router, m.text)} : TRUE) = RouteOf(Router, m.text)
        OBVIOUS
      <3>4. {i \in Matched(Router, m.text) : \A k \in Matched(Router, m.text) :
                Len(Router[k].prefix) <= Len(Router[i].prefix)} = {RouteOf(Router, m.text)}
        BY <2>5, <2>7, LongestIsRoute
      <3> QED  BY <2>4, <2>7, <3>2, <3>3, <3>4
    <2> QED  BY <2>6, <2>7
  <1>2. TypeOK /\ [Next]_vars =>
            [\A m \in Incoming : Arrive(m) /\ m.admin =>
                LET matched == Matched(Router, m.text)
                    longest == {i \in matched : \A k \in matched :
                                    Len(Router[k].prefix) <= Len(Router[i].prefix)}
                IN  Last(stream').kind =
                        IF matched = {} THEN "ignored"
                        ELSE HandledBy(Router, CHOOSE i \in longest : TRUE, m.text)]_vars
    BY <1>1
  <1> QED  BY <1>2, TypeCorrect, PTL DEF Spec, LongestPrefixDecides
=============================================================================
