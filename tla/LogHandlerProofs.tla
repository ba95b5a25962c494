--------------------------- MODULE LogHandlerProofs ---------------------------
(***************************************************************************)
(* Proofs about LogHandler, for any number of messages and origins, every  *)
(* capacity of the buffers and every interleaving of the tasks.            *)
(*                                                                         *)
(* Order of the argument: buffers and texts as sequences; types; the one   *)
(* place of each message; an alert's text against the origin's log.        *)
(***************************************************************************)
EXTENDS LogHandler, FiniteSetTheorems, SequenceTheorems, TLAPS

(***************************************************************************)
(* Buffers and texts.                                                      *)
(***************************************************************************)

\* No message is twice in a sequence.
Distinct(s) == \A i, k \in DOMAIN s : s[i] = s[k] => i = k

\* A sequence is the end of another.
Ends(s, l) ==
    /\ Len(s) <= Len(l)
    /\ \A i \in 1 .. Len(s) : s[i] = l[Len(l) - Len(s) + i]

\* A sequence from its end to its start.
LEMMA Reversed ==
    ASSUME NEW s \in Seq(Messages)
    PROVE  /\ Reverse(s) \in Seq(Messages) /\ Len(Reverse(s)) = Len(s)
           /\ \A i \in 1 .. Len(s) : Reverse(s)[i] = s[Len(s) - i + 1]
           /\ Reverse(Reverse(s)) = s
           /\ Range(Reverse(s)) = Range(s)
           /\ s # <<>> => Reverse(s) # <<>> /\ Head(Reverse(s)) = s[Len(s)]
  <1> DEFINE r == Reverse(s)
  <1>1. /\ Len(s) \in Nat /\ r \in Seq(Messages) /\ Len(r) = Len(s)
        /\ \A i \in 1 .. Len(s) : r[i] = s[Len(s) - i + 1]
    <2>1. \A i \in 1 .. Len(s) : s[Len(s) - i + 1] \in Messages
      OBVIOUS
    <2> QED  BY <2>1 DEF Reverse
  <1>2. \A i \in 1 .. Len(s) : /\ Len(s) - i + 1 \in 1 .. Len(s)
                               /\ Len(s) - (Len(s) - i + 1) + 1 = i
    BY <1>1
  <1>3. Reverse(r) = s
    <2>1. \A i \in 1 .. Len(s) : r[Len(s) - i + 1] = s[i]
      BY <1>1, <1>2
    <2>2. Reverse(r) = [i \in 1 .. Len(s) |-> s[i]]
      BY <1>1, <2>1 DEF Reverse
    <2> QED  BY <2>2
  <1>4. Range(r) = Range(s)
    <2>1. ASSUME NEW i \in 1 .. Len(s) PROVE s[i] = r[Len(s) - i + 1]
      BY <1>1, <1>2
    <2> HIDE DEF r
    <2>2. ASSUME NEW i \in DOMAIN r PROVE r[i] \in Range(s)
      <3>1. i \in 1 .. Len(s)
        BY <1>1
      <3>2. Len(s) - i + 1 \in DOMAIN s /\ r[i] = s[Len(s) - i + 1]
        BY <1>1, <1>2, <3>1
      <3> QED  BY <3>2 DEF Range
    <2>3. \A i \in DOMAIN s : s[i] \in Range(r)
      BY <1>1, <1>2, <2>1 DEF Range
    <2> QED  BY <2>2, <2>3 DEF Range
  <1>5. s # <<>> => r # <<>> /\ Head(r) = s[Len(s)]
    <2> HIDE DEF r
    <2> QED  BY <1>1
  <1> HIDE DEF r
  <1> QED  BY <1>1, <1>3, <1>4, <1>5 DEF r

\* The buffer that push_back leaves.
LEMMA PushedBack ==
    ASSUME NEW s \in Seq(Messages), Len(s) <= Capacity, NEW m \in Messages
    PROVE  /\ PushBack(s, m) \in Seq(Messages) /\ Len(PushBack(s, m)) <= Capacity
           /\ PushBack(s, m) # <<>> /\ PushBack(s, m)[Len(PushBack(s, m))] = m
           /\ Evicted(s) \subseteq Range(s)
           /\ Distinct(s) /\ m \notin Range(s) => Distinct(PushBack(s, m))
           /\ Distinct(s) => Range(PushBack(s, m)) = (Range(s) \ Evicted(s)) \cup {m}
           /\ \A l \in Seq(Messages) : Ends(s, l) => Ends(PushBack(s, m), Append(l, m))
  <1>0. Capacity \in Nat \ {0} /\ Len(s) \in Nat
    BY HandlerAssumption
  <1> DEFINE k == IF Len(s) = Capacity THEN 1 ELSE 0
             b == IF Len(s) = Capacity THEN Tail(s) ELSE s
             t == Append(b, m)
  <1>1. /\ b \in Seq(Messages) /\ Len(b) = Len(s) - k /\ k \in {0, 1} /\ k <= Len(s)
        /\ \A i \in 1 .. Len(s) - k : b[i] = s[i + k]
    BY <1>0
  <1>2. /\ t = PushBack(s, m) /\ (k = 0 => Len(s) < Capacity)
        /\ Evicted(s) = IF k = 1 THEN {s[1]} ELSE {}
    BY <1>0 DEF PushBack, Evicted
  <1> HIDE DEF b, k
  <1>3. /\ t \in Seq(Messages) /\ Len(t) = Len(s) - k + 1
        /\ \A i \in 1 .. Len(s) - k : t[i] = s[i + k]
        /\ t[Len(s) - k + 1] = m
    BY <1>1
  <1> HIDE DEF t
  <1>4. t # <<>> /\ Len(t) <= Capacity /\ t[Len(t)] = m
    BY <1>0, <1>1, <1>2, <1>3
  <1>5. Evicted(s) \subseteq Range(s)
    BY <1>0, <1>1, <1>2 DEF Range
  <1>6. ASSUME Distinct(s), m \notin Range(s) PROVE Distinct(t)
    <2>1. ASSUME NEW i \in 1 .. Len(s) - k PROVE i + k \in 1 .. Len(s) /\ s[i + k] # m
      <3>1. i + k \in DOMAIN s
        BY <1>0, <1>1
      <3> QED  BY <1>6, <3>1 DEF Range
    <2> SUFFICES ASSUME NEW i \in 1 .. Len(t), NEW j \in 1 .. Len(t), t[i] = t[j]
                 PROVE  i = j
      BY <1>3 DEF Distinct
    <2>2. CASE i \in 1 .. Len(s) - k /\ j \in 1 .. Len(s) - k
      <3>1. i + k = j + k
        BY <1>3, <1>6, <2>1, <2>2 DEF Distinct
      <3> QED  BY <1>1, <3>1
    <2>3. CASE ~(i \in 1 .. Len(s) - k /\ j \in 1 .. Len(s) - k)
      <3>1. \A n \in 1 .. Len(t) : n # Len(s) - k + 1 => n \in 1 .. Len(s) - k
        BY <1>0, <1>1, <1>3
      <3>2. i = Len(s) - k + 1 \/ j = Len(s) - k + 1
        BY <2>3, <3>1
      <3>3. \A n \in 1 .. Len(s) - k : t[n] # m
        BY <1>3, <2>1
      <3> QED  BY <1>3, <3>1, <3>2, <3>3
    <2> QED  BY <2>2, <2>3
  <1>7. ASSUME Distinct(s) PROVE Range(t) = (Range(s) \ Evicted(s)) \cup {m}
    <2>1. ASSUME NEW i \in 1 .. Len(t) PROVE t[i] \in (Range(s) \ Evicted(s)) \cup {m}
      <3>1. CASE i \in 1 .. Len(s) - k
        <4>1. i + k \in DOMAIN s /\ t[i] = s[i + k] /\ (k = 1 => i + k # 1)
          BY <1>0, <1>1, <1>3, <3>1
        <4>2. k = 1 => 1 \in DOMAIN s
          BY <1>0, <1>1
        <4> QED  BY <1>2, <1>7, <4>1, <4>2 DEF Distinct, Range
      <3>2. CASE i \notin 1 .. Len(s) - k
        BY <1>0, <1>1, <1>3, <3>2
      <3> QED  BY <3>1, <3>2
    <2>2. ASSUME NEW x \in (Range(s) \ Evicted(s)) \cup {m}
          PROVE  \E i \in 1 .. Len(t) : t[i] = x
      <3>1. CASE x = m
        <4>1. Len(t) \in 1 .. Len(t)
          BY <1>0, <1>1, <1>3
        <4> QED  BY <1>4, <3>1, <4>1
      <3>2. CASE x # m
        <4>1. PICK j \in 1 .. Len(s) : s[j] = x
          BY <3>2 DEF Range
        <4>2. ~(k = 1 /\ j = 1)
          BY <1>2, <3>2, <4>1
        <4>3. j - k \in 1 .. Len(s) - k /\ (j - k) + k = j
          BY <1>0, <1>1, <4>2
        <4>4. j - k \in 1 .. Len(t) /\ t[j - k] = x
          BY <1>0, <1>1, <1>3, <4>1, <4>3
        <4> QED  BY <4>4
      <3> QED  BY <3>1, <3>2
    <2> QED  BY <1>3, <2>1, <2>2 DEF Range
  <1>8. ASSUME NEW l \in Seq(Messages), Ends(s, l) PROVE Ends(t, Append(l, m))
    <2> DEFINE u == Append(l, m)
    <2>1. /\ Len(u) = Len(l) + 1 /\ u[Len(l) + 1] = m /\ Len(l) \in Nat
          /\ \A i \in 1 .. Len(l) : u[i] = l[i]
      OBVIOUS
    <2> HIDE DEF u
    <2>2. /\ Len(s) <= Len(l)
          /\ \A i \in 1 .. Len(s) : s[i] = l[Len(l) - Len(s) + i]
      BY <1>8 DEF Ends
    <2>3. ASSUME NEW i \in 1 .. Len(t) PROVE t[i] = u[Len(u) - Len(t) + i]
      <3>1. CASE i \in 1 .. Len(s) - k
        <4>1. i + k \in 1 .. Len(s)
          BY <1>0, <1>1, <3>1
        <4>2. t[i] = s[i + k] /\ s[i + k] = l[Len(l) - Len(s) + (i + k)]
          BY <1>3, <2>2, <3>1, <4>1
        <4>3. /\ Len(l) - Len(s) + (i + k) \in 1 .. Len(l)
              /\ Len(u) - Len(t) + i = Len(l) - Len(s) + (i + k)
          BY <1>0, <1>1, <1>3, <2>1, <2>2, <3>1
        <4> QED  BY <2>1, <4>2, <4>3
      <3>2. CASE i \notin 1 .. Len(s) - k
        <4>0. k \in Nat /\ Len(t) \in Nat
          BY <1>1, <1>3
        <4>1. i = Len(s) - k + 1
          BY <1>0, <1>1, <1>3, <3>2
        <4>2. Len(u) - Len(t) + i = Len(l) + 1
          BY <1>0, <1>3, <2>1, <4>0, <4>1
        <4> QED  BY <1>3, <2>1, <4>1, <4>2
      <3> QED  BY <3>1, <3>2
    <2>4. Len(t) <= Len(u)
      BY <1>0, <1>1, <1>3, <2>1, <2>2
    <2> QED  BY <2>3, <2>4 DEF Ends, u
  <1> QED  BY <1>2, <1>3, <1>4, <1>5, <1>6, <1>7, <1>8
-----------------------------------------------------------------------------
(***************************************************************************)
(* Types.                                                                  *)
(***************************************************************************)

\* No message is so late that its timestamp is negative.
LEMMA StampType ==
    ASSUME NEW lag \in Lags, clock \in Nat, Start <= clock
    PROVE  clock \div MsPerSec - lag \in Nat
  <1>1. MsPerSec \in Nat \ {0} /\ Start \in Nat /\ lag \in Nat /\ lag <= Start \div MsPerSec
    BY HandlerAssumption
  <1>2. Start \div MsPerSec <= clock \div MsPerSec
    BY <1>1
  <1>3. clock \div MsPerSec \in Nat /\ Start \div MsPerSec \in Nat
    BY <1>1
  <1> QED  BY <1>1, <1>2, <1>3

\* The types and what they rest on: the clock does not run backwards, finitely many
\* origins have a buffer, and what is sent has a destination.
TypeInv ==
    /\ TypeOK
    /\ Start <= clock
    /\ IsFiniteSet(present)
    /\ \A m \in Messages : stage[m] = "send" => verdict[m] # Suppressed

\* Every step keeps the types.
LEMMA NextTypeInv ==
    ASSUME TypeInv, [Next]_vars
    PROVE  TypeInv'
  <1> USE HandlerAssumption DEF TypeInv
  <1>1. CASE UNCHANGED vars
    BY <1>1 DEF vars, TypeOK
  <1>2. ASSUME NEW d \in Ticks, Tick(d) PROVE TypeInv'
    <2>1. clock' \in Nat /\ Start <= clock'
      BY <1>2 DEF Tick, TypeOK
    <2> QED  BY <1>2, <2>1 DEF Tick, TypeOK, task, buffers, cleanup
  <1>3. ASSUME NEW m \in Messages, NEW v \in Destinations \cup {Suppressed}, NEW lag \in Lags,
               Judge(m, v, lag)
        PROVE  TypeInv'
    <2>1. clock \div MsPerSec - lag \in Nat
      BY StampType DEF TypeOK
    <2> QED  BY <1>3, <2>1 DEF Judge, Goto, TypeOK, buffers, cleanup
  <1>4. ASSUME NEW m \in Messages, Push(m) \/ PushAndDrain(m) PROVE TypeInv'
    <2> DEFINE s == buffer[origin[m]]
    <2>1. origin[m] \in Origins /\ s \in Seq(Messages) /\ Len(s) <= Capacity
      BY DEF TypeOK
    <2> HIDE DEF s
    <2>2. /\ PushBack(s, m) \in Seq(Messages) /\ Len(PushBack(s, m)) <= Capacity
          /\ Reverse(PushBack(s, m)) \in Seq(Messages) /\ Evicted(s) \subseteq Messages
      <3>1. \A x \in Range(s) : x \in Messages
        BY <2>1 DEF Range
      <3> QED  BY <2>1, <3>1, PushedBack, Reversed
    <2>3. /\ present' \subseteq Origins /\ lost' \subseteq Messages
          /\ log' \in [Origins -> Seq(Messages)] /\ IsFiniteSet(present')
      <3>1. Buffered(m)
        BY <1>4 DEF Push, PushAndDrain
      <3>2. log' \in [Origins -> Seq(Messages)]
        BY <2>1, <3>1 DEF Buffered, TypeOK
      <3>3. IsFiniteSet(present')
        BY <3>1, FS_AddElement DEF Buffered
      <3> QED  BY <2>1, <2>2, <3>1, <3>2, <3>3 DEF Buffered, TypeOK, s
    <2>4. CASE Push(m)
      <3>1. /\ buffer' \in [Origins -> Seq(Messages)]
            /\ \A o \in Origins : Len(buffer'[o]) <= Capacity
        BY <2>1, <2>2, <2>4 DEF Push, TypeOK, s
      <3> QED  BY <2>3, <2>4, <3>1 DEF Push, Goto, TypeOK, cleanup
    <2>5. CASE PushAndDrain(m)
      <3>1. /\ buffer' \in [Origins -> Seq(Messages)]
            /\ \A o \in Origins : Len(buffer'[o]) <= Capacity
        BY <2>1, <2>5 DEF PushAndDrain, TypeOK
      <3>2. text' \in [Messages -> Seq(Messages)]
        BY <2>2, <2>5 DEF PushAndDrain, TypeOK, s
      <3> QED  BY <2>3, <2>5, <3>1, <3>2 DEF PushAndDrain, Goto, TypeOK, cleanup
    <2> QED  BY <1>4, <2>4, <2>5
  <1>5. ASSUME NEW m \in Messages, Send(m) PROVE TypeInv'
    <2> DEFINE a == [trigger |-> m, origin |-> origin[m], destination |-> verdict[m],
                     text |-> text[m]]
    <2>1. a \in Alert
      BY <1>5 DEF Alert, Send, TypeOK
    <2>2. queue' = Append(queue, a)
      BY <1>5 DEF Send
    <2> HIDE DEF a
    <2>3. queue' \in Seq(Alert)
      BY <2>1, <2>2 DEF TypeOK
    <2>4. text' \in [Messages -> Seq(Messages)]
      BY <1>5 DEF Send, TypeOK
    <2> QED  BY <1>5, <2>3, <2>4 DEF Send, Goto, TypeOK, buffers, cleanup
  <1>6. ASSUME NEW m \in Messages, SkipClean(m) PROVE TypeInv'
    BY <1>6 DEF SkipClean, Goto, TypeOK, buffers, cleanup
  <1>7. ASSUME NEW m \in Messages, StartClean(m) PROVE TypeInv'
    BY <1>7 DEF StartClean, Goto, TypeOK, buffers
  <1>8. ASSUME NEW m \in Messages, Retain(m) PROVE TypeInv'
    <2>1. Kept(m) \subseteq Origins /\ IsFiniteSet(Kept(m)) /\ Cardinality(Kept(m)) \in Nat
      <3>1. Kept(m) \subseteq present
        BY DEF Kept
      <3> QED  BY <3>1, FS_Subset, FS_CardinalityType DEF TypeOK
    <2>2. /\ buffer' \in [Origins -> Seq(Messages)]
          /\ \A o \in Origins : Len(buffer'[o]) <= Capacity
      BY <1>8 DEF Retain, TypeOK
    <2>3. lost' \subseteq Messages
      <3>1. \A o \in Origins : \A x \in Range(buffer[o]) : x \in Messages
        BY DEF Range, TypeOK
      <3> QED  BY <1>8, <3>1 DEF Retain, TypeOK
    <2> QED  BY <1>8, <2>1, <2>2, <2>3 DEF Retain, Goto, TypeOK, CleanTime
  <1> QED
    BY <1>1, <1>2, <1>3, <1>4, <1>5, <1>6, <1>7, <1>8 DEF Next, Step

\* Type correctness of the handler's tasks, buffers and alerts.
THEOREM TypeCorrect == Spec => []TypeInv
  <1>1. Init => TypeInv
    <2> SUFFICES ASSUME Init PROVE TypeInv
      OBVIOUS
    <2>1. IsFiniteSet({})
      BY FS_EmptySet
    <2> QED  BY <2>1, HandlerAssumption DEF Init, TypeInv, TypeOK
  <1>2. TypeInv /\ [Next]_vars => TypeInv'
    BY NextTypeInv
  <1> QED  BY <1>1, <1>2, PTL DEF Spec
-----------------------------------------------------------------------------
(***************************************************************************)
(* The one place of a message.                                             *)
(***************************************************************************)

\* Where a message is; AccountedOnce counts these places.
PlacesIn(m, buf, txt, que, gone) ==
    {<<"buffer", o>> : o \in {o \in Origins : m \in Range(buf[o])}}
    \cup {<<"text", n>> : n \in {n \in Messages : m \in Range(txt[n])}}
    \cup {<<"queue", i>> : i \in {i \in DOMAIN que : m \in Range(que[i].text)}}
    \cup (IF m \in gone THEN {<<"lost", 0>>} ELSE {})
Places(m) == PlacesIn(m, buffer, text, queue, lost)

\* A message is nowhere before it is put into a buffer, and in one place ever after.
OnePlace ==
    \A m \in Messages :
        IF stage[m] \in {"new", "push"} THEN Places(m) = {}
        ELSE \E p \in Places(m) : Places(m) = {p}

\* No buffer has a message twice, only an origin with a buffer has messages in it, and
\* a task has a text only while it sends it.
BufferInv ==
    /\ \A o \in Origins : Distinct(buffer[o]) /\ (o \notin present => buffer[o] = <<>>)
    /\ \A m \in Messages : stage[m] # "send" => text[m] = <<>>

PlaceInv == OnePlace /\ BufferInv

\* A message that is nowhere.
LEMMA NoPlace ==
    ASSUME NEW m, NEW buf, NEW txt, NEW que, NEW gone
    PROVE  PlacesIn(m, buf, txt, que, gone) = {} <=>
               /\ \A o \in Origins : m \notin Range(buf[o])
               /\ \A n \in Messages : m \notin Range(txt[n])
               /\ \A i \in DOMAIN que : m \notin Range(que[i].text)
               /\ m \notin gone
  BY DEF PlacesIn

\* The places one by one.
LEMMA PlaceKinds ==
    ASSUME NEW m, NEW buf, NEW txt, NEW que, NEW gone
    PROVE  LET P == PlacesIn(m, buf, txt, que, gone)
           IN  /\ \A o \in Origins : <<"buffer", o>> \in P <=> m \in Range(buf[o])
               /\ \A n \in Messages : <<"text", n>> \in P <=> m \in Range(txt[n])
               /\ \A i \in DOMAIN que : <<"queue", i>> \in P <=> m \in Range(que[i].text)
               /\ <<"lost", 0>> \in P <=> m \in gone
               /\ \A p \in P : \/ \E o \in Origins : p = <<"buffer", o>>
                               \/ \E n \in Messages : p = <<"text", n>>
                               \/ \E i \in DOMAIN que : p = <<"queue", i>>
                               \/ p = <<"lost", 0>>
  BY DEF PlacesIn

\* A message that is in a buffer and nowhere else.
LEMMA OnlyBuffer ==
    ASSUME NEW m, NEW buf, NEW txt, NEW que, NEW gone, NEW b \in Origins
    PROVE  PlacesIn(m, buf, txt, que, gone) = {<<"buffer", b>>} <=>
               /\ \A o \in Origins : m \in Range(buf[o]) <=> o = b
               /\ \A n \in Messages : m \notin Range(txt[n])
               /\ \A i \in DOMAIN que : m \notin Range(que[i].text)
               /\ m \notin gone
  <1> DEFINE P == PlacesIn(m, buf, txt, que, gone)
  <1>1. /\ \A o \in Origins : <<"buffer", o>> \in P <=> m \in Range(buf[o])
        /\ \A n \in Messages : <<"text", n>> \in P <=> m \in Range(txt[n])
        /\ \A i \in DOMAIN que : <<"queue", i>> \in P <=> m \in Range(que[i].text)
        /\ <<"lost", 0>> \in P <=> m \in gone
        /\ \A p \in P : \/ \E o \in Origins : p = <<"buffer", o>>
                        \/ \E n \in Messages : p = <<"text", n>>
                        \/ \E i \in DOMAIN que : p = <<"queue", i>>
                        \/ p = <<"lost", 0>>
    BY PlaceKinds
  <1> HIDE DEF P
  <1>2. P = {<<"buffer", b>>} <=> <<"buffer", b>> \in P /\ \A p \in P : p = <<"buffer", b>>
    OBVIOUS
  <1> QED  BY <1>1, <1>2 DEF P

\* A message that is in a text and nowhere else.
LEMMA OnlyText ==
    ASSUME NEW m, NEW buf, NEW txt, NEW que, NEW gone, NEW t \in Messages
    PROVE  PlacesIn(m, buf, txt, que, gone) = {<<"text", t>>} <=>
               /\ \A o \in Origins : m \notin Range(buf[o])
               /\ \A n \in Messages : m \in Range(txt[n]) <=> n = t
               /\ \A i \in DOMAIN que : m \notin Range(que[i].text)
               /\ m \notin gone
  <1> DEFINE P == PlacesIn(m, buf, txt, que, gone)
  <1>1. /\ \A o \in Origins : <<"buffer", o>> \in P <=> m \in Range(buf[o])
        /\ \A n \in Messages : <<"text", n>> \in P <=> m \in Range(txt[n])
        /\ \A i \in DOMAIN que : <<"queue", i>> \in P <=> m \in Range(que[i].text)
        /\ <<"lost", 0>> \in P <=> m \in gone
        /\ \A p \in P : \/ \E o \in Origins : p = <<"buffer", o>>
                        \/ \E n \in Messages : p = <<"text", n>>
                        \/ \E i \in DOMAIN que : p = <<"queue", i>>
                        \/ p = <<"lost", 0>>
    BY PlaceKinds
  <1> HIDE DEF P
  <1>2. P = {<<"text", t>>} <=> <<"text", t>> \in P /\ \A p \in P : p = <<"text", t>>
    OBVIOUS
  <1> QED  BY <1>1, <1>2 DEF P

\* A message that is in an alert and nowhere else.
LEMMA OnlyQueue ==
    ASSUME NEW m, NEW buf, NEW txt, NEW que, NEW gone, NEW q \in DOMAIN que
    PROVE  PlacesIn(m, buf, txt, que, gone) = {<<"queue", q>>} <=>
               /\ \A o \in Origins : m \notin Range(buf[o])
               /\ \A n \in Messages : m \notin Range(txt[n])
               /\ \A i \in DOMAIN que : m \in Range(que[i].text) <=> i = q
               /\ m \notin gone
  <1> DEFINE P == PlacesIn(m, buf, txt, que, gone)
  <1>1. /\ \A o \in Origins : <<"buffer", o>> \in P <=> m \in Range(buf[o])
        /\ \A n \in Messages : <<"text", n>> \in P <=> m \in Range(txt[n])
        /\ \A i \in DOMAIN que : <<"queue", i>> \in P <=> m \in Range(que[i].text)
        /\ <<"lost", 0>> \in P <=> m \in gone
        /\ \A p \in P : \/ \E o \in Origins : p = <<"buffer", o>>
                        \/ \E n \in Messages : p = <<"text", n>>
                        \/ \E i \in DOMAIN que : p = <<"queue", i>>
                        \/ p = <<"lost", 0>>
    BY PlaceKinds
  <1> HIDE DEF P
  <1>2. P = {<<"queue", q>>} <=> <<"queue", q>> \in P /\ \A p \in P : p = <<"queue", q>>
    OBVIOUS
  <1> QED  BY <1>1, <1>2 DEF P

\* A message that is lost.
LEMMA OnlyLost ==
    ASSUME NEW m, NEW buf, NEW txt, NEW que, NEW gone
    PROVE  PlacesIn(m, buf, txt, que, gone) = {<<"lost", 0>>} <=>
               /\ \A o \in Origins : m \notin Range(buf[o])
               /\ \A n \in Messages : m \notin Range(txt[n])
               /\ \A i \in DOMAIN que : m \notin Range(que[i].text)
               /\ m \in gone
  <1> DEFINE P == PlacesIn(m, buf, txt, que, gone)
  <1>1. /\ \A o \in Origins : <<"buffer", o>> \in P <=> m \in Range(buf[o])
        /\ \A n \in Messages : <<"text", n>> \in P <=> m \in Range(txt[n])
        /\ \A i \in DOMAIN que : <<"queue", i>> \in P <=> m \in Range(que[i].text)
        /\ <<"lost", 0>> \in P <=> m \in gone
        /\ \A p \in P : \/ \E o \in Origins : p = <<"buffer", o>>
                        \/ \E n \in Messages : p = <<"text", n>>
                        \/ \E i \in DOMAIN que : p = <<"queue", i>>
                        \/ p = <<"lost", 0>>
    BY PlaceKinds
  <1> HIDE DEF P
  <1>2. P = {<<"lost", 0>>} <=> <<"lost", 0>> \in P /\ \A p \in P : p = <<"lost", 0>>
    OBVIOUS
  <1> QED  BY <1>1, <1>2 DEF P

\* Messages whose places do not change.
LEMMA SamePlaces ==
    ASSUME NEW m, NEW buf, NEW txt, NEW que, NEW gone,
           NEW buf2, NEW txt2, NEW que2, NEW gone2,
           \A o \in Origins : m \in Range(buf2[o]) <=> m \in Range(buf[o]),
           \A n \in Messages : m \in Range(txt2[n]) <=> m \in Range(txt[n]),
           DOMAIN que2 = DOMAIN que,
           \A i \in DOMAIN que : m \in Range(que2[i].text) <=> m \in Range(que[i].text),
           m \in gone2 <=> m \in gone
    PROVE  PlacesIn(m, buf2, txt2, que2, gone2) = PlacesIn(m, buf, txt, que, gone)
  BY DEF PlacesIn

\* A place that a message is known to be in is the only one.
LEMMA OnlyPlace ==
    ASSUME OnePlace, NEW m \in Messages, NEW p \in Places(m)
    PROVE  stage[m] \notin {"new", "push"} /\ Places(m) = {p}
  BY DEF OnePlace

\* Neither the tasks' other steps nor the clock move a message.
LEMMA PlacesKept ==
    ASSUME PlaceInv, UNCHANGED <<text, buffers, queue>>,
           \A m \in Messages :
               /\ stage'[m] \in {"new", "push"} <=> stage[m] \in {"new", "push"}
               /\ stage[m] = "send" => stage'[m] = "send"
    PROVE  PlaceInv'
  <1>1. \A m \in Messages : Places(m)' = Places(m)
    BY DEF Places, buffers
  <1>2. OnePlace'
    BY <1>1 DEF PlaceInv, OnePlace
  <1>3. BufferInv'
    BY DEF PlaceInv, BufferInv, buffers
  <1> QED  BY <1>2, <1>3 DEF PlaceInv

\* The effect of buffering a message on the places, whether it goes on into a text
\* with what the buffer had, or not.
LEMMA PlacesBuffered ==
    ASSUME TypeInv, PlaceInv, NEW m \in Messages, stage[m] = "push",
           lost' = lost \cup Evicted(buffer[origin[m]]), queue' = queue,
           NEW here, here \notin {"new", "push"}, stage' = [stage EXCEPT ![m] = here],
           \A x : \A o \in Origins : o # origin[m] =>
                    (x \in Range(buffer'[o]) <=> x \in Range(buffer[o])),
           \A x : \A n \in Messages : n # m =>
                    (x \in Range(text'[n]) <=> x \in Range(text[n])),
           NEW b, b = Range(PushBack(buffer[origin[m]], m)),
           \/ Range(buffer'[origin[m]]) = b /\ Range(text'[m]) = {}
           \/ Range(buffer'[origin[m]]) = {} /\ Range(text'[m]) = b
    PROVE  OnePlace'
  <1> DEFINE o == origin[m]
             s == buffer[o]
             E == Evicted(s)
  <1>1. o \in Origins /\ s \in Seq(Messages) /\ Len(s) <= Capacity /\ Distinct(s)
    BY DEF TypeInv, TypeOK, PlaceInv, BufferInv
  <1>2. b = (Range(s) \ E) \cup {m} /\ E \subseteq Range(s)
    BY <1>1, PushedBack
  <1>3. text[m] = <<>> /\ Places(m) = {} /\ OnePlace /\ DOMAIN stage = Messages
    BY DEF PlaceInv, BufferInv, OnePlace, TypeInv, TypeOK
  <1>4. Range(text[m]) = {}
    BY <1>3 DEF Range
  <1> HIDE DEF o, s, E
  <1>5. /\ \A q \in Origins : m \notin Range(buffer[q])
        /\ \A n \in Messages : m \notin Range(text[n])
        /\ \A i \in DOMAIN queue : m \notin Range(queue[i].text)
        /\ m \notin lost
    BY <1>3, NoPlace DEF Places
  <1>6. \E p : Places(m)' = {p}
    <2>1. m \notin E
      BY <1>1, <1>2, <1>5 DEF s
    <2>2. CASE Range(buffer'[o]) = b /\ Range(text'[m]) = {}
      <3>1. /\ \A q \in Origins : m \in Range(buffer'[q]) <=> q = o
            /\ \A n \in Messages : m \notin Range(text'[n])
            /\ m \notin lost'
        BY <1>1, <1>2, <1>5, <2>1, <2>2 DEF o, s, E
      <3>2. Places(m)' = {<<"buffer", o>>}
        BY <1>1, <1>5, <3>1, OnlyBuffer DEF Places
      <3> QED  BY <3>2
    <2>3. CASE Range(buffer'[o]) = {} /\ Range(text'[m]) = b
      <3>1. /\ \A q \in Origins : m \notin Range(buffer'[q])
            /\ \A n \in Messages : m \in Range(text'[n]) <=> n = m
            /\ m \notin lost'
        BY <1>1, <1>2, <1>5, <2>1, <2>3 DEF o, s, E
      <3>2. Places(m)' = {<<"text", m>>}
        BY <1>1, <1>5, <3>1, OnlyText DEF Places
      <3> QED  BY <3>2
    <2> QED  BY <2>2, <2>3 DEF o
  <1>7. ASSUME NEW x \in Messages, x # m, x \in Range(s)
        PROVE  stage[x] \notin {"new", "push"} /\ \E p : Places(x)' = {p}
    <2>1. <<"buffer", o>> \in Places(x)
      BY <1>1, <1>7, PlaceKinds DEF Places, s
    <2>2. stage[x] \notin {"new", "push"} /\ Places(x) = {<<"buffer", o>>}
      BY <1>3, <2>1, OnlyPlace
    <2>3. /\ \A q \in Origins : q # o => x \notin Range(buffer[q])
          /\ \A n \in Messages : x \notin Range(text[n])
          /\ \A i \in DOMAIN queue : x \notin Range(queue[i].text)
          /\ x \notin lost
      BY <1>1, <2>2, OnlyBuffer DEF Places
    <2>4. CASE x \in E
      <3>1. Places(x)' = {<<"lost", 0>>}
        BY <1>1, <1>2, <1>7, <2>3, <2>4, OnlyLost DEF Places, o, s, E
      <3> QED  BY <2>2, <3>1
    <2>5. CASE x \notin E /\ Range(buffer'[o]) = b /\ Range(text'[m]) = {}
      <3>1. /\ \A q \in Origins : x \in Range(buffer'[q]) <=> q = o
            /\ \A n \in Messages : x \notin Range(text'[n])
            /\ x \notin lost'
        BY <1>1, <1>2, <1>7, <2>3, <2>5 DEF o, s, E
      <3>2. Places(x)' = {<<"buffer", o>>}
        BY <1>1, <2>3, <3>1, OnlyBuffer DEF Places
      <3> QED  BY <2>2, <3>2
    <2>6. CASE x \notin E /\ Range(buffer'[o]) = {} /\ Range(text'[m]) = b
      <3>1. /\ \A q \in Origins : x \notin Range(buffer'[q])
            /\ \A n \in Messages : x \in Range(text'[n]) <=> n = m
            /\ x \notin lost'
        BY <1>1, <1>2, <1>7, <2>3, <2>6 DEF o, s, E
      <3>2. Places(x)' = {<<"text", m>>}
        BY <1>1, <2>3, <3>1, OnlyText DEF Places
      <3> QED  BY <2>2, <3>2
    <2> QED  BY <2>4, <2>5, <2>6 DEF o
  <1>8. ASSUME NEW x \in Messages, x # m, x \notin Range(s) PROVE Places(x)' = Places(x)
    <2>1. /\ \A q \in Origins : x \in Range(buffer'[q]) <=> x \in Range(buffer[q])
          /\ \A n \in Messages : x \in Range(text'[n]) <=> x \in Range(text[n])
          /\ x \in lost' <=> x \in lost
      BY <1>1, <1>2, <1>4, <1>8 DEF o, s, E
    <2> QED  BY <2>1, SamePlaces DEF Places
  <1>9. ASSUME NEW x \in Messages
        PROVE  IF stage'[x] \in {"new", "push"} THEN Places(x)' = {}
               ELSE \E p \in Places(x)' : Places(x)' = {p}
    <2>1. CASE x = m
      BY <1>3, <1>6, <2>1
    <2>2. CASE x # m /\ x \in Range(s)
      BY <1>3, <1>7, <2>2
    <2>3. CASE x # m /\ x \notin Range(s)
      BY <1>3, <1>8, <2>3 DEF OnePlace
    <2> QED  BY <2>1, <2>2, <2>3
  <1> QED  BY <1>9 DEF OnePlace
\* Buffering a message keeps the places and the buffers.
LEMMA PushPlaces ==
    ASSUME TypeInv, PlaceInv, NEW m \in Messages, Push(m) \/ PushAndDrain(m)
    PROVE  PlaceInv'
  <1> DEFINE o == origin[m]
             b == PushBack(buffer[o], m)
  <1>1. /\ o \in Origins /\ buffer[o] \in Seq(Messages) /\ Len(buffer[o]) <= Capacity
        /\ Distinct(buffer[o]) /\ stage[m] = "push" /\ text[m] = <<>> /\ Places(m) = {}
        /\ DOMAIN buffer = Origins /\ DOMAIN text = Messages /\ DOMAIN stage = Messages
    BY DEF TypeInv, TypeOK, PlaceInv, BufferInv, OnePlace, Push, PushAndDrain
  <1>2. m \notin Range(buffer[o])
    BY <1>1, NoPlace DEF Places
  <1>3. Distinct(b) /\ b \in Seq(Messages) /\ Range(Reverse(b)) = Range(b)
    BY <1>1, <1>2, PushedBack, Reversed
  <1>4. Range(<<>>) = {} /\ Distinct(<<>>)
    BY DEF Range, Distinct
  <1> HIDE DEF b
  <1>5. /\ Buffered(m)
        /\ lost' = lost \cup Evicted(buffer[o]) /\ present' = present \cup {o}
    BY DEF Push, PushAndDrain, Buffered
  <1>6. CASE Push(m)
    <2>1. /\ buffer' = [buffer EXCEPT ![o] = b] /\ text' = text /\ queue' = queue
          /\ stage' = [stage EXCEPT ![m] = "clean"]
      BY <1>6 DEF Push, Goto, b
    <2>2. OnePlace'
      <3>1. /\ Range(buffer'[o]) = Range(b) /\ Range(text'[m]) = {}
            /\ \A q \in Origins : q # o => buffer'[q] = buffer[q]
        BY <1>1, <1>4, <2>1
      <3> QED  BY <1>1, <1>5, <2>1, <3>1, PlacesBuffered DEF b
    <2>3. BufferInv'
      BY <1>1, <1>3, <1>5, <2>1 DEF PlaceInv, BufferInv
    <2> QED  BY <2>2, <2>3 DEF PlaceInv
  <1>7. CASE PushAndDrain(m)
    <2>1. /\ buffer' = [buffer EXCEPT ![o] = <<>>] /\ text' = [text EXCEPT ![m] = Reverse(b)]
          /\ queue' = queue /\ stage' = [stage EXCEPT ![m] = "send"]
      BY <1>7 DEF PushAndDrain, Goto, b
    <2>2. OnePlace'
      <3>1. /\ Range(buffer'[o]) = {} /\ Range(text'[m]) = Range(b)
            /\ \A q \in Origins : q # o => buffer'[q] = buffer[q]
            /\ \A n \in Messages : n # m => text'[n] = text[n]
        BY <1>1, <1>3, <1>4, <2>1
      <3> QED  BY <1>1, <1>5, <2>1, <3>1, PlacesBuffered DEF b
    <2>3. BufferInv'
      BY <1>1, <1>4, <1>5, <2>1 DEF PlaceInv, BufferInv
    <2> QED  BY <2>2, <2>3 DEF PlaceInv
  <1> QED  BY <1>6, <1>7

\* An alert that is sent takes its text into the queue.
LEMMA SendPlaces ==
    ASSUME TypeInv, PlaceInv, NEW m \in Messages, Send(m)
    PROVE  PlaceInv'
  <1> DEFINE a == [trigger |-> m, origin |-> origin[m], destination |-> verdict[m],
                   text |-> text[m]]
             k == Len(queue) + 1
  <1>1. /\ queue \in Seq(Alert) /\ Len(queue) \in Nat /\ DOMAIN text = Messages
        /\ DOMAIN stage = Messages /\ stage[m] = "send" /\ OnePlace /\ BufferInv
    BY DEF TypeInv, TypeOK, PlaceInv, Send
  <1>2. /\ queue' = Append(queue, a) /\ text' = [text EXCEPT ![m] = <<>>]
        /\ stage' = [stage EXCEPT ![m] = "clean"] /\ UNCHANGED buffers
    BY DEF Send, Goto
  <1>3. a.text = text[m]
    OBVIOUS
  <1> HIDE DEF a
  <1>4. /\ DOMAIN queue' = DOMAIN queue \cup {k} /\ k \notin DOMAIN queue
        /\ \A i \in DOMAIN queue : queue'[i] = queue[i]
        /\ queue'[k] = a
    BY <1>1, <1>2
  <1>5. /\ \A n \in Messages : n # m => text'[n] = text[n]
        /\ Range(text'[m]) = {} /\ Range(queue'[k].text) = Range(text[m])
        /\ buffer' = buffer /\ lost' = lost /\ present' = present
    BY <1>1, <1>2, <1>3, <1>4 DEF Range, buffers
  <1> HIDE DEF k
  <1>6. ASSUME NEW x \in Messages, x \in Range(text[m])
        PROVE  stage[x] \notin {"new", "push"} /\ Places(x)' = {<<"queue", k>>}
    <2>1. <<"text", m>> \in Places(x)
      BY <1>6, PlaceKinds DEF Places
    <2>2. stage[x] \notin {"new", "push"} /\ Places(x) = {<<"text", m>>}
      BY <1>1, <2>1, OnlyPlace
    <2>3. /\ \A o \in Origins : x \notin Range(buffer[o])
          /\ \A n \in Messages : x \in Range(text[n]) <=> n = m
          /\ \A i \in DOMAIN queue : x \notin Range(queue[i].text)
          /\ x \notin lost
      BY <2>2, OnlyText DEF Places
    <2>4. /\ \A o \in Origins : x \notin Range(buffer'[o])
          /\ \A n \in Messages : x \notin Range(text'[n])
          /\ \A i \in DOMAIN queue' : x \in Range(queue'[i].text) <=> i = k
          /\ x \notin lost' /\ k \in DOMAIN queue'
      BY <1>4, <1>5, <1>6, <2>3
    <2> QED  BY <2>2, <2>4, OnlyQueue DEF Places
  <1>7. ASSUME NEW x \in Messages, x \notin Range(text[m]) PROVE Places(x)' = Places(x)
    <2>1. /\ \A n \in Messages : x \in Range(text'[n]) <=> x \in Range(text[n])
          /\ \A i \in DOMAIN queue' : x \in Range(queue'[i].text)
                 <=> i \in DOMAIN queue /\ x \in Range(queue[i].text)
      BY <1>4, <1>5, <1>7
    <2> QED  BY <1>4, <1>5, <2>1 DEF Places, PlacesIn
  <1>8. ASSUME NEW x \in Messages
        PROVE  IF stage'[x] \in {"new", "push"} THEN Places(x)' = {}
               ELSE \E p \in Places(x)' : Places(x)' = {p}
    <2>1. stage'[x] \in {"new", "push"} <=> stage[x] \in {"new", "push"}
      BY <1>1, <1>2
    <2>2. CASE x \in Range(text[m])
      BY <1>6, <2>1, <2>2
    <2>3. CASE x \notin Range(text[m])
      BY <1>1, <1>7, <2>1, <2>3 DEF OnePlace
    <2> QED  BY <2>2, <2>3
  <1>9. OnePlace'
    BY <1>8 DEF OnePlace
  <1>10. BufferInv'
    BY <1>1, <1>2, <1>5 DEF BufferInv
  <1> QED  BY <1>9, <1>10 DEF PlaceInv

\* A buffer that is cleaned up loses its messages.
LEMMA RetainPlaces ==
    ASSUME TypeInv, PlaceInv, NEW m \in Messages, Retain(m)
    PROVE  PlaceInv'
  <1>1. /\ present' = Kept(m) /\ Kept(m) \subseteq present
        /\ buffer' = [o \in Origins |-> IF o \in Kept(m) THEN buffer[o] ELSE <<>>]
        /\ lost' = lost \cup UNION {Range(buffer[o]) : o \in present \ Kept(m)}
        /\ text' = text /\ queue' = queue /\ stage' = [stage EXCEPT ![m] = "done"]
        /\ stage[m] = "retain"
    BY DEF Retain, Goto, Kept
  <1>2. /\ present \subseteq Origins /\ DOMAIN stage = Messages /\ OnePlace /\ BufferInv
    BY DEF TypeInv, TypeOK, PlaceInv
  <1>3. Range(<<>>) = {} /\ Distinct(<<>>)
    BY DEF Range, Distinct
  <1> DEFINE Gone == {o \in Origins : o \notin Kept(m)}
  <1>4. ASSUME NEW o \in Gone, NEW x \in Range(buffer[o]) PROVE x \in lost'
    <2>1. o \in present
      BY <1>2, <1>3 DEF BufferInv
    <2> QED  BY <1>1, <2>1
  <1>5. ASSUME NEW x \in Messages, NEW o \in Gone, x \in Range(buffer[o])
        PROVE  stage[x] \notin {"new", "push"} /\ Places(x)' = {<<"lost", 0>>}
    <2>1. <<"buffer", o>> \in Places(x)
      BY <1>5, PlaceKinds DEF Places
    <2>2. stage[x] \notin {"new", "push"} /\ Places(x) = {<<"buffer", o>>}
      BY <1>2, <2>1, OnlyPlace
    <2>3. /\ \A q \in Origins : x \in Range(buffer[q]) <=> q = o
          /\ \A n \in Messages : x \notin Range(text[n])
          /\ \A i \in DOMAIN queue : x \notin Range(queue[i].text)
      BY <2>2, OnlyBuffer DEF Places
    <2>4. /\ \A q \in Origins : x \notin Range(buffer'[q])
          /\ x \in lost'
      BY <1>1, <1>3, <1>4, <1>5, <2>3
    <2> QED  BY <1>1, <2>2, <2>3, <2>4, OnlyLost DEF Places
  <1>6. ASSUME NEW x \in Messages, \A o \in Gone : x \notin Range(buffer[o])
        PROVE  Places(x)' = Places(x)
    <2>1. \A o \in Origins : x \in Range(buffer'[o]) <=> x \in Range(buffer[o])
      BY <1>1, <1>3, <1>6
    <2>2. x \in lost' <=> x \in lost
      BY <1>1, <1>2, <1>6
    <2> QED  BY <1>1, <2>1, <2>2, SamePlaces DEF Places
  <1>7. ASSUME NEW x \in Messages
        PROVE  IF stage'[x] \in {"new", "push"} THEN Places(x)' = {}
               ELSE \E p \in Places(x)' : Places(x)' = {p}
    <2>1. stage'[x] \in {"new", "push"} <=> stage[x] \in {"new", "push"}
      BY <1>1, <1>2
    <2>2. CASE \E o \in Gone : x \in Range(buffer[o])
      BY <1>5, <2>1, <2>2
    <2>3. CASE \A o \in Gone : x \notin Range(buffer[o])
      BY <1>2, <1>6, <2>1, <2>3 DEF OnePlace
    <2> QED  BY <2>2, <2>3
  <1>8. OnePlace'
    BY <1>7 DEF OnePlace
  <1>9. BufferInv'
    BY <1>1, <1>2, <1>3 DEF BufferInv
  <1> QED  BY <1>8, <1>9 DEF PlaceInv

\* Every step keeps every message in one place.
LEMMA NextPlaces ==
    ASSUME TypeInv, PlaceInv, [Next]_vars
    PROVE  PlaceInv'
  <1>0. DOMAIN stage = Messages
    BY DEF TypeInv, TypeOK
  <1>1. CASE UNCHANGED vars
    BY <1>1, PlacesKept DEF vars, buffers
  <1>2. ASSUME NEW d \in Ticks, Tick(d) PROVE PlaceInv'
    BY <1>2, PlacesKept DEF Tick, task
  <1>3. ASSUME NEW m \in Messages,
               \/ \E v \in Destinations \cup {Suppressed}, lag \in Lags : Judge(m, v, lag)
               \/ SkipClean(m)
               \/ StartClean(m)
        PROVE  PlaceInv'
    BY <1>0, <1>3, PlacesKept DEF Judge, SkipClean, StartClean, Goto
  <1> QED
    BY <1>1, <1>2, <1>3, PushPlaces, SendPlaces, RetainPlaces DEF Next, Step

\* In one place ever after is what AccountedOnce counts.
LEMMA OnePlaceCounts == OnePlace => AccountedOnce
  <1> SUFFICES ASSUME OnePlace, NEW m \in Messages, stage[m] \notin {"new", "push"}
               PROVE  Cardinality({o \in Origins : m \in Range(buffer[o])})
                        + Cardinality({n \in Messages : m \in Range(text[n])})
                        + Cardinality({i \in DOMAIN queue : m \in Range(queue[i].text)})
                        + (IF m \in lost THEN 1 ELSE 0)
                      = 1
    BY DEF AccountedOnce
  <1> DEFINE B == {o \in Origins : m \in Range(buffer[o])}
             T == {n \in Messages : m \in Range(text[n])}
             Q == {i \in DOMAIN queue : m \in Range(queue[i].text)}
  <1>1. PICK p \in Places(m) : Places(m) = {p}
    BY DEF OnePlace
  <1>2. \A x : Cardinality({x}) = 1
    BY FS_Singleton
  <1>3. Cardinality({}) = 0
    BY FS_EmptySet
  <1>4. ASSUME NEW o \in Origins, p = <<"buffer", o>>
        PROVE  B = {o} /\ T = {} /\ Q = {} /\ m \notin lost
    BY <1>1, <1>4, OnlyBuffer DEF Places
  <1>5. ASSUME NEW n \in Messages, p = <<"text", n>>
        PROVE  B = {} /\ T = {n} /\ Q = {} /\ m \notin lost
    BY <1>1, <1>5, OnlyText DEF Places
  <1>6. ASSUME NEW i \in DOMAIN queue, p = <<"queue", i>>
        PROVE  B = {} /\ T = {} /\ Q = {i} /\ m \notin lost
    BY <1>1, <1>6, OnlyQueue DEF Places
  <1>7. ASSUME p = <<"lost", 0>>
        PROVE  B = {} /\ T = {} /\ Q = {} /\ m \in lost
    BY <1>1, <1>7, OnlyLost DEF Places
  <1>8. \/ \E o \in Origins : p = <<"buffer", o>>
        \/ \E n \in Messages : p = <<"text", n>>
        \/ \E i \in DOMAIN queue : p = <<"queue", i>>
        \/ p = <<"lost", 0>>
    BY PlaceKinds DEF Places
  <1> HIDE DEF B, T, Q
  <1>9. Cardinality(B) + Cardinality(T) + Cardinality(Q) + (IF m \in lost THEN 1 ELSE 0) = 1
    <2>1. \/ /\ Cardinality(B) = 1 /\ Cardinality(T) = 0 /\ Cardinality(Q) = 0 /\ m \notin lost
          \/ /\ Cardinality(B) = 0 /\ Cardinality(T) = 1 /\ Cardinality(Q) = 0 /\ m \notin lost
          \/ /\ Cardinality(B) = 0 /\ Cardinality(T) = 0 /\ Cardinality(Q) = 1 /\ m \notin lost
          \/ /\ Cardinality(B) = 0 /\ Cardinality(T) = 0 /\ Cardinality(Q) = 0 /\ m \in lost
      BY <1>2, <1>3, <1>4, <1>5, <1>6, <1>7, <1>8
    <2> QED  BY <2>1
  <1> QED  BY <1>9 DEF B, T, Q

\* Every message is in a buffer, in one alert, or lost, for any number of messages
\* and origins and every interleaving of the tasks that handle them.
THEOREM MessagesAccounted == Spec => []AccountedOnce
  <1>1. Init => PlaceInv
    <2> SUFFICES ASSUME Init PROVE PlaceInv
      OBVIOUS
    <2>1. Range(<<>>) = {} /\ Distinct(<<>>)
      BY DEF Range, Distinct
    <2>2. OnePlace
      BY <2>1, NoPlace DEF Init, OnePlace, Places
    <2>3. BufferInv
      BY <2>1 DEF Init, BufferInv
    <2> QED  BY <2>2, <2>3 DEF PlaceInv
  <1>2. TypeInv /\ PlaceInv /\ [Next]_vars => PlaceInv'
    BY NextPlaces
  <1>3. PlaceInv => AccountedOnce
    BY OnePlaceCounts DEF PlaceInv
  <1> QED  BY <1>1, <1>2, <1>3, TypeCorrect, PTL DEF Spec

-----------------------------------------------------------------------------
(***************************************************************************)
(* The text of an alert.                                                   *)
(***************************************************************************)

\* Every buffer is the end of its origin's log, and an alert's message has been judged.
LogInv ==
    /\ \A o \in Origins : Ends(buffer[o], log[o])
    /\ \A i \in DOMAIN queue : stage[queue[i].trigger] \notin {"new", "push"}

\* What an alert in the queue is.
LEMMA AlertTypes ==
    ASSUME TypeInv
    PROVE  \A i \in DOMAIN queue : queue[i].trigger \in Messages
  <1>1. \A i \in DOMAIN queue : queue[i] \in Alert
    BY DEF TypeInv, TypeOK
  <1> QED  BY <1>1 DEF Alert

\* The end of a log, from its end to its start, is a stretch of the log.
LEMMA EndIsStretch ==
    ASSUME NEW s \in Seq(Messages), s # <<>>, NEW l \in Seq(Messages), Ends(s, l)
    PROVE  Stretch(Reverse(s), s[Len(s)], l)
  <1>1. Reverse(s) # <<>> /\ Head(Reverse(s)) = s[Len(s)] /\ Reverse(Reverse(s)) = s
    BY Reversed
  <1> DEFINE i == Len(l) - Len(s) + 1
             k == Len(l)
  <1>2. /\ Len(s) \in Nat \ {0} /\ Len(l) \in Nat /\ Len(s) <= Len(l)
        /\ \A j \in 1 .. Len(s) : s[j] = l[Len(l) - Len(s) + j]
    BY DEF Ends
  <1>3. i \in DOMAIN l /\ k \in DOMAIN l /\ k - i + 1 = Len(s)
    BY <1>2
  <1>4. \A j \in 1 .. Len(s) : i + j - 1 = Len(l) - Len(s) + j
    BY <1>2
  <1> HIDE DEF i, k
  <1>5. SubSeq(l, i, k) = s
    <2> DEFINE t == SubSeq(l, i, k)
    <2>1. /\ t \in Seq(Messages) /\ Len(t) = Len(s)
          /\ \A j \in 1 .. Len(s) : t[j] = l[i + j - 1]
      BY <1>2, <1>3
    <2> HIDE DEF t
    <2>2. \A j \in 1 .. Len(s) : t[j] = s[j]
      BY <1>2, <1>4, <2>1
    <2>3. t = s
      BY <2>1, <2>2
    <2> QED  BY <2>3 DEF t
  <1> QED  BY <1>1, <1>3, <1>5 DEF Stretch

\* A log only grows, so that what was a stretch of it remains one.
LEMMA StretchRemains ==
    ASSUME NEW s, NEW m, NEW l \in Seq(Messages), NEW x \in Messages, Stretch(s, m, l)
    PROVE  Stretch(s, m, Append(l, x))
  <1> DEFINE u == Append(l, x)
  <1>1. PICK i \in DOMAIN l, k \in DOMAIN l : Reverse(s) = SubSeq(l, i, k)
    BY DEF Stretch
  <1>2. i \in DOMAIN u /\ k \in DOMAIN u /\ \A j \in 1 .. Len(l) : u[j] = l[j]
    OBVIOUS
  <1>3. SubSeq(u, i, k) = SubSeq(l, i, k)
    <2> DEFINE a == SubSeq(u, i, k)
               c == SubSeq(l, i, k)
    <2>1. u \in Seq(Messages) /\ i \in 1 .. Len(u) /\ k \in 1 .. Len(u)
          /\ i \in 1 .. Len(l) /\ k \in 1 .. Len(l) /\ Len(l) \in Nat
      OBVIOUS
    <2> HIDE DEF u
    <2>2. /\ a \in Seq(Messages) /\ Len(a) = (IF i <= k THEN k - i + 1 ELSE 0)
          /\ \A j \in 1 .. k - i + 1 : a[j] = u[i + j - 1]
      BY <2>1, SubSeqProperties
    <2>3. /\ c \in Seq(Messages) /\ Len(c) = (IF i <= k THEN k - i + 1 ELSE 0)
          /\ \A j \in 1 .. k - i + 1 : c[j] = l[i + j - 1]
      BY <2>1, SubSeqProperties
    <2>4. ASSUME NEW j \in 1 .. k - i + 1 PROVE u[i + j - 1] = l[i + j - 1]
      <3>0. \A n \in Nat : \A p, q \in 1 .. n : \A r \in 1 .. q - p + 1 : p + r - 1 \in 1 .. n
        OBVIOUS
      <3>1. i + j - 1 \in 1 .. Len(l)
        BY <2>1, <3>0
      <3> QED  BY <1>2, <3>1
    <2> HIDE DEF a, c
    <2>5. \A j \in 1 .. Len(a) : a[j] = c[j]
      BY <2>1, <2>2, <2>3, <2>4
    <2>6. Len(a) = Len(c)
      BY <2>2, <2>3
    <2>7. a \in Seq(Messages) /\ c \in Seq(Messages)
      BY <2>2, <2>3
    <2>8. a = c
      BY <2>5, <2>6, <2>7
    <2> QED  BY <2>8 DEF a, c
  <1> HIDE DEF u
  <1> QED  BY <1>1, <1>2, <1>3 DEF Stretch, u

\* Putting a message into a buffer keeps every text a stretch, and makes the new one.
LEMMA PushLog ==
    ASSUME TypeInv, LogInv, AlertIsRecentLog, NEW m \in Messages, Push(m) \/ PushAndDrain(m)
    PROVE  LogInv' /\ AlertIsRecentLog'
  <1> DEFINE o == origin[m]
             b == PushBack(buffer[o], m)
  <1>1. /\ o \in Origins /\ buffer[o] \in Seq(Messages) /\ Len(buffer[o]) <= Capacity
        /\ log \in [Origins -> Seq(Messages)] /\ origin \in [Messages -> Origins]
        /\ DOMAIN buffer = Origins /\ DOMAIN text = Messages /\ DOMAIN stage = Messages
        /\ queue \in Seq(Alert) /\ stage[m] = "push"
    BY DEF TypeInv, TypeOK, Push, PushAndDrain
  <1>2. /\ log' = [log EXCEPT ![o] = Append(log[o], m)] /\ origin' = origin
        /\ verdict' = verdict /\ queue' = queue
        /\ \/ /\ buffer' = [buffer EXCEPT ![o] = b] /\ text' = text
              /\ stage' = [stage EXCEPT ![m] = "clean"]
           \/ /\ buffer' = [buffer EXCEPT ![o] = <<>>]
              /\ text' = [text EXCEPT ![m] = Reverse(b)]
              /\ stage' = [stage EXCEPT ![m] = "send"]
    BY DEF Push, PushAndDrain, Buffered, Goto
  <1>3. /\ b \in Seq(Messages) /\ b # <<>> /\ b[Len(b)] = m
        /\ Ends(b, Append(log[o], m))
    BY <1>1, PushedBack DEF LogInv
  <1>4. \A l \in Seq(Messages) : Ends(<<>>, l)
    BY DEF Ends
  <1> HIDE DEF o, b
  <1>5. log'[o] = Append(log[o], m) /\ log'[o] \in Seq(Messages) /\ log[o] \in Seq(Messages)
    BY <1>1, <1>2
  <1>6. LogInv'
    <2>1. ASSUME NEW q \in Origins PROVE Ends(buffer'[q], log'[q])
      <3>1. CASE q = o
        <4>1. buffer'[o] = b \/ buffer'[o] = <<>>
          BY <1>1, <1>2
        <4> QED  BY <1>3, <1>4, <1>5, <3>1, <4>1
      <3>2. CASE q # o
        <4>1. buffer'[q] = buffer[q] /\ log'[q] = log[q]
          BY <1>1, <1>2, <3>2
        <4> QED  BY <4>1 DEF LogInv
      <3> QED  BY <3>1, <3>2
    <2>2. \A n \in Messages : stage[n] \notin {"new", "push"} => stage'[n] \notin {"new", "push"}
      BY <1>1, <1>2
    <2>3. \A i \in DOMAIN queue' : stage'[queue'[i].trigger] \notin {"new", "push"}
      BY <1>2, <2>2, AlertTypes DEF LogInv
    <2> QED  BY <2>1, <2>3 DEF LogInv
  <1>7. ASSUME NEW s, NEW n \in Messages, Stretch(s, n, log[origin[n]])
        PROVE  Stretch(s, n, log'[origin[n]])
    BY <1>1, <1>2, <1>5, <1>7, StretchRemains
  <1>8. \A i \in DOMAIN queue : queue[i].trigger \in Messages
    <2>1. \A i \in DOMAIN queue : queue[i] \in Alert
      BY <1>1
    <2> QED  BY <2>1 DEF Alert
  <1>9. ASSUME NEW n \in Messages, stage'[n] = "send"
        PROVE  Stretch(text'[n], n, log'[origin[n]])
    <2>1. CASE n = m
      <3>1. text'[m] = Reverse(b)
        BY <1>1, <1>2, <1>9, <2>1
      <3> QED  BY <1>3, <1>5, <2>1, <3>1, EndIsStretch DEF o
    <2>2. CASE n # m
      <3>1. text'[n] = text[n] /\ stage[n] = "send"
        BY <1>1, <1>2, <1>9, <2>2
      <3> QED  BY <1>7, <3>1 DEF AlertIsRecentLog
    <2> QED  BY <2>1, <2>2
  <1>10. AlertIsRecentLog'
    <2>1. ASSUME NEW i \in DOMAIN queue
          PROVE  /\ Stretch(queue[i].text, queue[i].trigger, log'[origin[queue[i].trigger]])
                 /\ queue[i].destination = verdict[queue[i].trigger]
      BY <1>7, <1>8 DEF AlertIsRecentLog
    <2> QED  BY <1>2, <1>9, <2>1 DEF AlertIsRecentLog
  <1> QED  BY <1>6, <1>10

\* Sending an alert keeps its text, its trigger and its destination together.
LEMMA SendLog ==
    ASSUME TypeInv, LogInv, AlertIsRecentLog, NEW m \in Messages, Send(m)
    PROVE  LogInv' /\ AlertIsRecentLog'
  <1> DEFINE a == [trigger |-> m, origin |-> origin[m], destination |-> verdict[m],
                   text |-> text[m]]
             k == Len(queue) + 1
  <1>1. /\ queue \in Seq(Alert) /\ Len(queue) \in Nat /\ DOMAIN text = Messages
        /\ DOMAIN stage = Messages /\ stage[m] = "send"
    BY DEF TypeInv, TypeOK, Send
  <1>2. /\ queue' = Append(queue, a) /\ text' = [text EXCEPT ![m] = <<>>]
        /\ stage' = [stage EXCEPT ![m] = "clean"]
        /\ origin' = origin /\ verdict' = verdict /\ buffer' = buffer /\ log' = log
    BY DEF Send, Goto, buffers
  <1>3. a.trigger = m /\ a.text = text[m] /\ a.destination = verdict[m]
    OBVIOUS
  <1> HIDE DEF a
  <1>4. \A i \in DOMAIN queue' : (i \in DOMAIN queue /\ queue'[i] = queue[i]) \/ queue'[i] = a
    BY <1>1, <1>2
  <1>5. Stretch(text[m], m, log[origin[m]])
    BY <1>1 DEF AlertIsRecentLog
  <1>6. LogInv'
    BY <1>1, <1>2, <1>3, <1>4 DEF LogInv
  <1>7. ASSUME NEW n \in Messages, stage'[n] = "send"
        PROVE  Stretch(text'[n], n, log[origin[n]])
    <2>1. n # m /\ stage[n] = "send" /\ text'[n] = text[n]
      BY <1>1, <1>2, <1>7
    <2> QED  BY <2>1 DEF AlertIsRecentLog
  <1>8. ASSUME NEW i \in DOMAIN queue'
        PROVE  /\ Stretch(queue'[i].text, queue'[i].trigger, log[origin[queue'[i].trigger]])
               /\ queue'[i].destination = verdict[queue'[i].trigger]
    BY <1>3, <1>4, <1>5 DEF AlertIsRecentLog
  <1> QED  BY <1>2, <1>6, <1>7, <1>8 DEF AlertIsRecentLog

\* Every step keeps the texts stretches of the logs.
LEMMA NextLog ==
    ASSUME TypeInv, LogInv, AlertIsRecentLog, [Next]_vars
    PROVE  LogInv' /\ AlertIsRecentLog'
  <1>0. DOMAIN stage = Messages /\ DOMAIN verdict = Messages /\ queue \in Seq(Alert)
    BY DEF TypeInv, TypeOK
  <1>1. CASE UNCHANGED <<origin, stage, verdict, text, buffer, queue, log>>
    BY <1>1 DEF LogInv, AlertIsRecentLog
  <1>2. ASSUME NEW m \in Messages, SkipClean(m) \/ StartClean(m)
        PROVE  LogInv' /\ AlertIsRecentLog'
    <2>1. UNCHANGED <<origin, verdict, text, buffer, queue, log>>
      BY <1>2 DEF SkipClean, StartClean, buffers
    <2>2. \A n \in Messages : /\ stage'[n] = "send" => stage[n] = "send"
                              /\ stage[n] \notin {"new", "push"} => stage'[n] \notin {"new", "push"}
      BY <1>0, <1>2 DEF SkipClean, StartClean, Goto
    <2> QED  BY <1>0, <2>1, <2>2, AlertTypes DEF LogInv, AlertIsRecentLog
  <1>3. ASSUME NEW m \in Messages, NEW v, NEW lag, Judge(m, v, lag)
        PROVE  LogInv' /\ AlertIsRecentLog'
    <2>1. UNCHANGED <<origin, text, buffer, queue, log>> /\ stage[m] = "new"
      BY <1>3 DEF Judge, buffers
    <2>2. \A n \in Messages : n # m => stage'[n] = stage[n] /\ verdict'[n] = verdict[n]
      BY <1>0, <1>3 DEF Judge, Goto
    <2>3. stage'[m] = "push"
      BY <1>0, <1>3 DEF Judge, Goto
    <2>4. \A i \in DOMAIN queue : queue[i].trigger # m /\ queue[i].trigger \in Messages
      BY <2>1, AlertTypes DEF LogInv
    <2> QED  BY <2>1, <2>2, <2>3, <2>4 DEF LogInv, AlertIsRecentLog
  <1>4. ASSUME NEW m \in Messages, Retain(m)
        PROVE  LogInv' /\ AlertIsRecentLog'
    <2>1. UNCHANGED <<origin, verdict, text, queue, log>> /\ stage[m] = "retain"
      BY <1>4 DEF Retain
    <2>2. \A n \in Messages : /\ stage'[n] = "send" => stage[n] = "send"
                              /\ stage[n] \notin {"new", "push"} => stage'[n] \notin {"new", "push"}
      BY <1>0, <1>4 DEF Retain, Goto
    <2>3. \A o \in Origins : Ends(buffer'[o], log[o])
      <3>1. \A o \in Origins : log[o] \in Seq(Messages)
        BY DEF TypeInv, TypeOK
      <3>2. \A l \in Seq(Messages) : Ends(<<>>, l)
        BY DEF Ends
      <3> QED  BY <1>4, <3>1, <3>2 DEF Retain, LogInv
    <2> QED  BY <1>0, <2>1, <2>2, <2>3, AlertTypes DEF LogInv, AlertIsRecentLog
  <1>5. CASE UNCHANGED vars
    BY <1>1, <1>5 DEF vars
  <1>6. ASSUME NEW d \in Ticks, Tick(d) PROVE LogInv' /\ AlertIsRecentLog'
    BY <1>1, <1>6 DEF Tick, task, buffers
  <1> QED
    BY <1>2, <1>3, <1>4, <1>5, <1>6, PushLog, SendLog DEF Next, Step

\* The text of an alert is a stretch of its origin's log that begins with the message
\* it is about, for any number of messages and origins, buffers of every capacity and
\* every interleaving of the tasks.
THEOREM TextsAreRecentLog == Spec => []AlertIsRecentLog
  <1>1. Init => LogInv /\ AlertIsRecentLog
    BY DEF Init, LogInv, AlertIsRecentLog, Ends
  <1>2. TypeInv /\ LogInv /\ AlertIsRecentLog /\ [Next]_vars => LogInv' /\ AlertIsRecentLog'
    BY NextLog
  <1> QED  BY <1>1, <1>2, TypeCorrect, PTL DEF Spec
=============================================================================
