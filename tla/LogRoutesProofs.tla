--------------------------- MODULE LogRoutesProofs --------------------------
(***************************************************************************)
(* Proofs about LogRoutes, for any routes and limits, any number of        *)
(* threads, and messages that come in any order.                           *)
(***************************************************************************)
EXTENDS LogRoutes, FiniteSetTheorems, FunctionTheorems, WellFoundedInduction, TLAPS

\* The overall sequence, and those of a route and an origin.
Overall == <<0, Everywhere>>
Tracked == ((DOMAIN Routes) \X Origins) \cup {Overall}

Locations(limit) == {Location(limit, m) : m \in Messages}

\* Message m is for location l of limiter i of s.
Heeds(s, i, l, m) ==
    /\ Matches(Limits(s)[i].filter, m)
    /\ Location(Limits(s)[i], m) = l
    /\ s[1] # 0 => m.origin = s[2] /\ Accepts(Routes[s[1]], m)

\* The checks that are over and were counted there, and the threads whose message
\* has been counted there.
Past(s, i, l) ==
    {e \in Checks : /\ Heeds(s, i, l, e[1].msg)
                    /\ s[1] = 0 => e[1].result[1] \in {"Passed", "OverallLimiter"}}
Evaluated(s, i, c) ==
    IF s[1] = 0 THEN c.at = "overall" /\ i \notin c.todo
    ELSE c.route > s[1] \/ (c.route = s[1] /\ ~(c.at = "origin" /\ i \in c.todo))
CountsSince(s, i, l, x, c) == Evaluated(s, i, c) /\ Heeds(s, i, l, c.msg) /\ c.msg.ts >= x
Present(s, i, l, x) == {t \in Threads : CountsSince(s, i, l, x, task[t])}
Counted(s, i, l, x) == Since(Past(s, i, l), x) + Cardinality(Present(s, i, l, x))

\* A ring of n entries stands for events of which c are not older than x.
Tallies(ring, n, x, c) == \A k \in 1 .. n : ring[k] >= x <=> c > n - k

\* Cleanups so far cannot have touched what is not older than x.
Remembered(s, limit, x) ==
    \/ s[1] = 0 /\ ~limit.by_source_location
    \/ (s[1] = 0 \/ limit.window <= MaxAge) /\ x + limit.window >= horizon

\* A limiter has its rings, and knows the newest timestamp in them.
Sound(limit, limiter) ==
    /\ DOMAIN limiter = {"rings", "latest", "size", "checkup"}
    /\ limiter.rings \in [Locations(limit) -> [1 .. limit.times -> Nat]]
    /\ limiter.latest \in Nat
    /\ \A l \in Locations(limit) : limiter.rings[l][limit.times] <= limiter.latest
    /\ ~limit.by_source_location =>
           \A l \in Locations(limit) : limiter.rings[l][limit.times] = limiter.latest

LimiterInv(s, i) ==
    /\ i \in DOMAIN limiters[s]
    /\ Sound(Limits(s)[i], limiters[s][i])
    /\ \A l \in Locations(Limits(s)[i]), x \in Nat \ {0} :
           Remembered(s, Limits(s)[i], x) =>
               Tallies(limiters[s][i].rings[l], Limits(s)[i].times, x, Counted(s, i, l, x))

TaskInv(c) ==
    /\ DOMAIN c = {"at", "msg", "route", "todo", "first", "passed", "failures"}
    /\ c.at # "idle" => c.msg \in Messages
    /\ c.at = "idle" => c = Idle
    /\ c.at \in {"idle", "routes", "origin", "retain", "global", "overall"}
    /\ c.route \in Nat
    /\ c.at \in {"origin", "retain", "global"} =>
           c.route \in DOMAIN Routes /\ Accepts(Routes[c.route], c.msg)
    /\ c.at = "overall" => RoutesLeft(c) = {}
    /\ c.at \in {"origin", "global", "overall"} => c.todo \subseteq Matching(Current(c), c.msg)

Busy == {t \in Threads : task[t] # Idle}

BagInv == \A o \in DOMAIN outcomes : outcomes[o] \in Nat \ {0}
MessageInv == \A o \in DOMAIN outcomes : o.msg \in Messages

\* The alerts in the window of an overall limit, and the threads that have passed it
\* and may become one.
InWindow(i, m) ==
    /\ Matches(OverallLimits[i].filter, m)
    /\ m.ts + OverallLimits[i].window >= limiters[Overall][i].latest
Alerts(i) == {e \in Checks : e[1].result[1] = "Passed" /\ InWindow(i, e[1].msg)}
Coming(i) ==
    {t \in Threads : /\ task[t].at = "overall" /\ task[t].first = 0
                     /\ i \notin task[t].todo /\ InWindow(i, task[t].msg)}
Capped(i) ==
    ~OverallLimits[i].ge /\ ~OverallLimits[i].by_source_location =>
        Cardinality(Alerts(i)) + Cardinality(Coming(i)) <= OverallLimits[i].times

RoutesInv ==
    /\ horizon \in Nat
    /\ IsFiniteSet(Busy) /\ IsFiniteSet(Checks)
    /\ BagInv /\ MessageInv
    /\ task = [t \in Threads |-> task[t]]
    /\ \A t \in Threads : TaskInv(task[t])
    /\ DOMAIN limiters = LimiterSequences
    /\ \A s \in Tracked : \A i \in DOMAIN Limits(s) : LimiterInv(s, i)
    /\ \A i \in DOMAIN OverallLimits : Capped(i)
-----------------------------------------------------------------------------
(* Rings.                                                                  *)

\* A set of naturals that is not empty has a least member.
LEMMA LeastExists ==
    ASSUME NEW S \in SUBSET Nat, S # {}
    PROVE  Min(S) \in S /\ \A k \in S : Min(S) <= k
  <1> DEFINE R == OpToRel(<, Nat)
  <1>1. \A j, k \in Nat : j < k => <<j, k>> \in R
    BY DEF OpToRel
  <1>2. IsWellFoundedOn(R, Nat)
    BY NatLessThanWellFounded
  <1> HIDE DEF R
  <1>3. PICK i \in S : \A k \in S : ~ (<<k, i>> \in R)
    BY <1>2, WFMin
  <1>4. ASSUME NEW k \in S PROVE i <= k
    <2>1. i \in Nat /\ k \in Nat
      OBVIOUS
    <2>2. ~ (k < i)
      BY <1>1, <1>3, <2>1, Zenon
    <2> QED  BY <2>1, <2>2
  <1>5. \E m \in S : \A k \in S : m <= k
    BY <1>4
  <1> QED  BY <1>5 DEF Min

\* One that is finite has a greatest one: the one with the fewest above it.
LEMMA GreatestExists ==
    ASSUME NEW S \in SUBSET Nat, S # {}, IsFiniteSet(S)
    PROVE  Max(S) \in S /\ \A k \in S : Max(S) >= k
  <1> DEFINE Above(m) == {k \in S : k > m}
             sizes == {Cardinality(Above(m)) : m \in S}
  <1>1. \A m \in S : IsFiniteSet(Above(m)) /\ Cardinality(Above(m)) \in Nat
    <2> SUFFICES ASSUME NEW m \in S
                 PROVE  IsFiniteSet(Above(m)) /\ Cardinality(Above(m)) \in Nat
      OBVIOUS
    <2>1. Above(m) \in SUBSET S
      OBVIOUS
    <2> HIDE DEF Above
    <2> QED  BY <2>1, FS_Subset, FS_CardinalityType
  <1>2. Min(sizes) \in sizes /\ \A n \in sizes : Min(sizes) <= n
    <2>1. sizes \in SUBSET Nat /\ sizes # {}
      BY <1>1
    <2> HIDE DEF sizes
    <2> QED  BY <2>1, LeastExists
  <1>3. PICK m \in S : \A k \in S : Cardinality(Above(m)) <= Cardinality(Above(k))
    BY <1>2
  <1>4. ASSUME NEW k \in S, ~ (m >= k) PROVE FALSE
    <2>0. \A y \in Nat : y > k => y > m
      <3>1. m \in Nat /\ k \in Nat
        OBVIOUS
      <3> QED  BY <1>4, <3>1
    <2>1. m \in Nat /\ k \in Nat /\ k > m
      BY <1>4
    <2>2. Above(k) \subseteq Above(m) /\ k \in Above(m) /\ k \notin Above(k)
      <3>1. \A y \in S : y \in Nat
        OBVIOUS
      <3>2. k \in Above(m) /\ k \notin Above(k)
        BY <2>1
      <3> QED  BY <2>0, <3>1, <3>2
    <2> HIDE DEF Above
    <2>3. Cardinality(Above(k)) <= Cardinality(Above(m)) /\ Cardinality(Above(k)) # Cardinality(Above(m))
      BY <1>1, <2>2, FS_Subset
    <2>4. Cardinality(Above(m)) <= Cardinality(Above(k))
      BY <1>3
    <2>5. PICK a \in Nat, b \in Nat : a = Cardinality(Above(k)) /\ b = Cardinality(Above(m))
      BY <1>1
    <2> QED  BY ONLY <2>3, <2>4, <2>5
  <1>5. \E x \in S : \A k \in S : x >= k
    BY <1>4
  <1> QED  BY <1>5 DEF Max

\* The image of a finite set of checks.
LEMMA TimesFinite ==
    ASSUME NEW C, IsFiniteSet(C)
    PROVE  IsFiniteSet({e[1].msg.ts : e \in C})
  <1> DEFINE f == [e \in C |-> e[1].msg.ts]
             T == {e[1].msg.ts : e \in C}
  <1>1. f \in Surjection(C, T)
    BY DEF Surjection
  <1> HIDE DEF f, T
  <1>2. IsFiniteSet(T)
    BY <1>1, FS_Surjection
  <1> QED  BY <1>2 DEF T

\* What Placed does: the oldest of n + 1 timestamps, the newest, and the n newest.
LEMMA PlacedIn ==
    ASSUME NEW n \in Nat \ {0}, NEW ring \in [1 .. n -> Nat], NEW x \in Nat
    PROVE  /\ Head(Placed(ring, x)) = IF ring[1] <= x THEN ring[1] ELSE x
           /\ Last(Placed(ring, x)) = IF ring[n] <= x THEN x ELSE ring[n]
           /\ \A k \in 1 .. n :
                  Tail(Placed(ring, x))[k] = IF k < n /\ ring[k + 1] <= x THEN ring[k + 1]
                                             ELSE IF ring[k] <= x THEN x ELSE ring[k]
           /\ Tail(Placed(ring, x)) \in [1 .. n -> Nat]
  <1> DEFINE all == Placed(ring, x)
  <1>1. ring \in Seq(Nat) /\ Len(ring) = n
    OBVIOUS
  <1>2. all = [i \in 1 .. n + 1 |-> IF i <= n /\ ring[i] <= x THEN ring[i]
                                    ELSE IF i = 1 \/ ring[i - 1] <= x THEN x ELSE ring[i - 1]]
    BY <1>1 DEF Placed
  <1>3. \A i \in 1 .. n + 1 : (i <= n => i \in 1 .. n) /\ (i # 1 => i - 1 \in 1 .. n)
    OBVIOUS
  <1>4. \A i \in 1 .. n + 1 : all[i] \in Nat
    BY <1>2, <1>3
  <1> HIDE DEF all
  <1>5. all \in Seq(Nat) /\ Len(all) = n + 1 /\ all # <<>>
    BY <1>2, <1>4
  <1>6. /\ 1 \in 1 .. n + 1 /\ n + 1 \in 1 .. n + 1 /\ 1 \in 1 .. n /\ n \in 1 .. n
        /\ ring[1] \in Nat /\ ring[n] \in Nat /\ n + 1 - 1 = n /\ ~ (n + 1 <= n) /\ n + 1 # 1
    OBVIOUS
  <1>7. all[1] = (IF ring[1] <= x THEN ring[1] ELSE x) /\ Head(all) = all[1]
    BY <1>2, <1>5, <1>6
  <1>8. all[n + 1] = (IF ring[n] <= x THEN x ELSE ring[n]) /\ Last(all) = all[n + 1]
    BY <1>2, <1>5, <1>6 DEF Last
  <1>9. /\ Tail(all) \in [1 .. n -> Nat]
        /\ \A k \in 1 .. n : Tail(all)[k] = all[k + 1]
        /\ \A k \in 1 .. n : k + 1 \in 1 .. n + 1 /\ (k + 1 <= n <=> k < n) /\ k + 1 # 1
                             /\ (k + 1) - 1 = k
    <2>1. Len(all) - 1 = n
      BY <1>5
    <2>2. Tail(all) \in Seq(Nat) /\ Len(Tail(all)) = n /\ \A k \in 1 .. n : Tail(all)[k] = all[k + 1]
      BY <1>5, <2>1
    <2>3. \A s \in Seq(Nat) : s \in [1 .. Len(s) -> Nat]
      OBVIOUS
    <2>4. Tail(all) \in [1 .. n -> Nat]
      BY <2>2, <2>3
    <2> QED  BY <2>2, <2>4
  <1>10. \A k \in 1 .. n : all[k + 1] = IF k < n /\ ring[k + 1] <= x THEN ring[k + 1]
                                        ELSE IF ring[k] <= x THEN x ELSE ring[k]
    <2> SUFFICES ASSUME NEW k \in 1 .. n
                 PROVE  all[k + 1] = IF k < n /\ ring[k + 1] <= x THEN ring[k + 1]
                                     ELSE IF ring[k] <= x THEN x ELSE ring[k]
      OBVIOUS
    <2>1. PICK j \in 1 .. n + 1 : j = k + 1
      BY <1>9
    <2>2. all[j] = IF j <= n /\ ring[j] <= x THEN ring[j]
                   ELSE IF j = 1 \/ ring[j - 1] <= x THEN x ELSE ring[j - 1]
      BY <1>2
    <2>3. (j <= n <=> k < n) /\ j # 1 /\ j - 1 = k
      BY <1>9, <2>1
    <2> QED  BY <2>1, <2>2, <2>3
  <1> QED  BY <1>7, <1>8, <1>9, <1>10 DEF all

\* A ring goes on to stand for the events it stood for and the one that comes.
LEMMA PlacedTallies ==
    ASSUME NEW n \in Nat \ {0}, NEW ring \in [1 .. n -> Nat], NEW x \in Nat,
           NEW v \in Nat, NEW c \in Nat, Tallies(ring, n, v, c)
    PROVE  Tallies(Tail(Placed(ring, x)), n, v, IF x >= v THEN c + 1 ELSE c)
  <1> SUFFICES ASSUME NEW k \in 1 .. n
               PROVE  Tail(Placed(ring, x))[k] >= v <=> (IF x >= v THEN c + 1 ELSE c) > n - k
    BY DEF Tallies
  <1>1. Tail(Placed(ring, x))[k] = IF k < n /\ ring[k + 1] <= x THEN ring[k + 1]
                                   ELSE IF ring[k] <= x THEN x ELSE ring[k]
    <2>1. \A j \in 1 .. n : Tail(Placed(ring, x))[j] = IF j < n /\ ring[j + 1] <= x THEN ring[j + 1]
                                                        ELSE IF ring[j] <= x THEN x ELSE ring[j]
      BY ONLY PlacedIn, n \in Nat \ {0}, ring \in [1 .. n -> Nat], x \in Nat
    <2> QED  BY <2>1
  <1>2. ring[k] \in Nat /\ (ring[k] >= v <=> c > n - k)
    BY DEF Tallies
  <1>3. CASE k < n
    <2>1. k + 1 \in 1 .. n /\ ring[k + 1] \in Nat
      BY <1>3
    <2>2. ring[k + 1] >= v <=> c > n - (k + 1)
      BY <2>1 DEF Tallies
    <2>3. PICK r \in Nat, q \in Nat, p \in Nat :
              r = Tail(Placed(ring, x))[k] /\ q = ring[k + 1] /\ p = ring[k]
      BY <1>1, <1>2, <1>3, <2>1
    <2>4. k \in Nat
      OBVIOUS
    <2>7. r = (IF q <= x THEN q ELSE IF p <= x THEN x ELSE p)
      <3>1. r = (IF k < n /\ q <= x THEN q ELSE IF p <= x THEN x ELSE p)
        BY ONLY <1>1, <2>3
      <3> QED  BY ONLY <1>3, <3>1
    <2>5. (q >= v <=> c > n - (k + 1)) /\ (p >= v <=> c > n - k)
      BY <1>2, <2>2, <2>3
    <2>6. r >= v <=> (IF x >= v THEN c + 1 ELSE c) > n - k
      BY ONLY <2>4, <2>5, <2>7, n \in Nat, v \in Nat, c \in Nat, x \in Nat, p \in Nat, q \in Nat
    <2> QED  BY <2>3, <2>6
  <1>4. CASE ~ (k < n)
    <2>1. k = n
      BY <1>4
    <2>2. PICK r \in Nat, p \in Nat : r = Tail(Placed(ring, x))[k] /\ p = ring[k]
      BY <1>1, <1>2, <1>4
    <2>3. r = (IF p <= x THEN x ELSE p) /\ (p >= v <=> c > n - k)
      BY <1>1, <1>2, <1>4, <2>2
    <2>4. r >= v <=> (IF x >= v THEN c + 1 ELSE c) > n - k
      BY ONLY <2>1, <2>3, n \in Nat, v \in Nat, c \in Nat, x \in Nat, p \in Nat
    <2> QED  BY <2>2, <2>4
  <1> QED  BY <1>3, <1>4

\* A new ring stands for nothing.
LEMMA FreshTallies ==
    ASSUME NEW n \in Nat \ {0}, NEW v \in Nat \ {0}
    PROVE  Fresh(n) \in [1 .. n -> Nat] /\ Fresh(n)[n] = 0 /\ Tallies(Fresh(n), n, v, 0)
  BY DEF Fresh, Tallies

\* One whose newest entry is older than v stands for nothing since v.
LEMMA OldTallies ==
    ASSUME NEW n \in Nat \ {0}, NEW ring \in [1 .. n -> Nat], NEW v \in Nat, NEW c \in Nat,
           Tallies(ring, n, v, c), ring[n] < v
    PROVE  c = 0
  <1>1. n \in 1 .. n /\ ring[n] \in Nat
    OBVIOUS
  <1>2. ~ (c > n - n)
    BY <1>1 DEF Tallies
  <1> QED  BY <1>2

\* Rings that stand for as many events since any time are the same.
LEMMA TalliesUnique ==
    ASSUME NEW n \in Nat \ {0}, NEW a \in [1 .. n -> Nat], NEW b \in [1 .. n -> Nat],
           \A v \in Nat \ {0} : \E c \in Nat : Tallies(a, n, v, c) /\ Tallies(b, n, v, c)
    PROVE  a = b
  <1>1. ASSUME NEW k \in 1 .. n PROVE a[k] = b[k]
    <2>1. a[k] \in Nat /\ b[k] \in Nat
      OBVIOUS
    <2>2. \A v \in Nat \ {0} : a[k] >= v <=> b[k] >= v
      BY DEF Tallies
    <2>3. PICK p \in Nat, q \in Nat : p = a[k] /\ q = b[k]
      BY <2>1
    <2>4. \A v \in Nat \ {0} : p >= v <=> q >= v
      BY ONLY <2>2, <2>3
    <2>5. p = q
      <3>1. p # 0 => q >= p
        BY ONLY <2>4, p \in Nat
      <3>2. q # 0 => p >= q
        BY ONLY <2>4, q \in Nat
      <3> QED  BY ONLY <3>1, <3>2, p \in Nat, q \in Nat
    <2> QED  BY <2>3, <2>5
  <1> QED  BY <1>1

\* How many checks there are since some time: fewer since a later one.
LEMMA SinceType ==
    ASSUME NEW C, IsFiniteSet(C), NEW v
    PROVE  IsFiniteSet({e \in C : e[1].msg.ts >= v}) /\ Since(C, v) \in Nat
  <1> DEFINE S == {e \in C : e[1].msg.ts >= v}
  <1>1. S \in SUBSET C
    OBVIOUS
  <1> HIDE DEF S
  <1>2. IsFiniteSet(S) /\ Cardinality(S) \in Nat
    BY <1>1, FS_Subset, FS_CardinalityType
  <1> QED  BY <1>2 DEF S, Since

\* What RingOf computes stands for just those checks.
LEMMA RingOfTallies ==
    ASSUME NEW limit, limit.times \in Nat \ {0}, NEW C, IsFiniteSet(C),
           \A e \in C : e[1].msg.ts \in Nat
    PROVE  /\ RingOf(limit, C) \in [1 .. limit.times -> Nat]
           /\ \A v \in Nat \ {0} : Tallies(RingOf(limit, C), limit.times, v, Since(C, v))
  <1> DEFINE T == {e[1].msg.ts : e \in C}
             Newest(k) == {0} \cup {x \in T : Since(C, x) > limit.times - k}
             ring == RingOf(limit, C)
  <1>1. IsFiniteSet(T) /\ T \in SUBSET Nat
    BY TimesFinite
  <1>2. ASSUME NEW k
        PROVE  /\ Max(Newest(k)) \in Newest(k) /\ Max(Newest(k)) \in Nat
               /\ \A x \in Newest(k) : Max(Newest(k)) >= x
    <2> DEFINE S == {x \in T : Since(C, x) > limit.times - k}
               N == {0} \cup S
    <2>1. S \in SUBSET T
      OBVIOUS
    <2> HIDE DEF S
    <2>2. IsFiniteSet(N) /\ N \in SUBSET Nat /\ N # {}
      <3>1. IsFiniteSet(S)
        BY <1>1, <2>1, FS_Subset
      <3>2. IsFiniteSet({0} \cup S)
        BY <3>1, FS_Singleton, FS_Union
      <3> QED  BY <1>1, <2>1, <3>2
    <2> HIDE DEF N
    <2>3. Max(N) \in N /\ \A x \in N : Max(N) >= x
      BY <2>2, GreatestExists
    <2>4. Max(N) \in Nat
      BY <2>2, <2>3
    <2> QED  BY <2>3, <2>4 DEF N, S
  <1>3. ring = [k \in 1 .. limit.times |-> Max(Newest(k))]
    BY DEF RingOf
  <1>4. ASSUME NEW v \in Nat \ {0}, NEW k \in 1 .. limit.times,
               Max(Newest(k)) >= v
        PROVE  Since(C, v) > limit.times - k
    <2>1. PICK x \in Nat : x = Max(Newest(k)) /\ x \in Newest(k)
      BY <1>2
    <2>2. x # 0 /\ x >= v
      BY <1>4, <2>1
    <2>3. Since(C, x) > limit.times - k
      BY <2>1, <2>2
    <2> DEFINE A == {e \in C : e[1].msg.ts >= x}
               B == {e \in C : e[1].msg.ts >= v}
    <2>4. A \in SUBSET B
      BY <2>2
    <2>5. IsFiniteSet(B) /\ Since(C, v) = Cardinality(B) /\ Since(C, x) = Cardinality(A)
      BY SinceType DEF Since
    <2> HIDE DEF A, B
    <2>6. Cardinality(A) <= Cardinality(B) /\ Cardinality(A) \in Nat /\ Cardinality(B) \in Nat
      BY <2>4, <2>5, FS_Subset, FS_CardinalityType
    <2> QED  BY <2>3, <2>5, <2>6
  <1>5. ASSUME NEW v \in Nat \ {0}, NEW k \in 1 .. limit.times,
               Since(C, v) > limit.times - k
        PROVE  Max(Newest(k)) >= v
    <2> DEFINE B == {e \in C : e[1].msg.ts >= v}
               late == {x \in T : x >= v}
    <2>1. IsFiniteSet(B) /\ Cardinality(B) = Since(C, v) /\ Since(C, v) \in Nat
      BY SinceType DEF Since
    <2>2. B # {}
      <3>1. Cardinality(B) # 0
        BY <1>5, <2>1
      <3> QED  BY <3>1, FS_EmptySet
    <2>3. late # {} /\ late \in SUBSET Nat
      BY <1>1, <2>2
    <2>4. PICK x \in late : \A y \in late : x <= y
      <3> HIDE DEF late
      <3> QED  BY <2>3, LeastExists
    <2>5. x \in T /\ x \in Nat /\ x >= v
      BY <1>1, <2>4
    <2>6. {e \in C : e[1].msg.ts >= x} = B
      <3>1. ASSUME NEW e \in C PROVE e[1].msg.ts >= x <=> e[1].msg.ts >= v
        <4>1. e[1].msg.ts \in T /\ e[1].msg.ts \in Nat
          OBVIOUS
        <4>2. e[1].msg.ts >= v => x <= e[1].msg.ts
          BY <2>4, <4>1
        <4> QED  BY <2>5, <4>1, <4>2
      <3> QED  BY <3>1
    <2>7. Since(C, x) > limit.times - k
      BY <1>5, <2>1, <2>6 DEF Since
    <2>8. x \in Newest(k)
      BY <2>5, <2>7
    <2>9. Max(Newest(k)) >= x /\ Max(Newest(k)) \in Nat
      BY <1>2, <2>8
    <2> QED  BY <2>5, <2>9
  <1> HIDE DEF Newest
  <1>6. ring \in [1 .. limit.times -> Nat]
    BY <1>2, <1>3
  <1>7. ASSUME NEW v \in Nat \ {0} PROVE Tallies(ring, limit.times, v, Since(C, v))
    BY <1>3, <1>4, <1>5 DEF Tallies
  <1> QED  BY <1>6, <1>7

\* A check that is over is one more.
LEMMA ResultChecks ==
    ASSUME BagInv, IsFiniteSet(Checks), NEW t, NEW result, Result(t, result)
    PROVE  /\ BagInv'
           /\ DOMAIN outcomes' = DOMAIN outcomes \cup {[msg |-> task[t].msg, result |-> result]}
           /\ \E e : /\ e \notin Checks /\ Checks' = Checks \cup {e}
                     /\ e[1] = [msg |-> task[t].msg, result |-> result]
  <1> DEFINE o == [msg |-> task[t].msg, result |-> result]
             n == IF o \in DOMAIN outcomes THEN outcomes[o] + 1 ELSE 1
  <1> HIDE DEF o
  <1>1. outcomes' = [e \in DOMAIN outcomes \cup {o} |-> IF e = o THEN n ELSE outcomes[e]]
    <2>1. outcomes' = outcomes (+) [e \in {o} |-> 1]
      BY DEF Result, SetToBag, o
    <2>2. outcomes (+) [e \in {o} |-> 1] =
              [e \in DOMAIN outcomes \cup {o} |-> (IF e \in DOMAIN outcomes THEN outcomes[e] ELSE 0)
                                                  + (IF e \in {o} THEN 1 ELSE 0)]
      BY DEF (+)
    <2>3. \A e \in DOMAIN outcomes \cup {o} :
              (IF e \in DOMAIN outcomes THEN outcomes[e] ELSE 0) + (IF e \in {o} THEN 1 ELSE 0)
                  = IF e = o THEN n ELSE outcomes[e]
      BY DEF BagInv
    <2> QED  BY <2>1, <2>2, <2>3
  <1>2. n \in Nat \ {0}
    BY DEF BagInv
  <1>3. DOMAIN outcomes' = DOMAIN outcomes \cup {o} /\ BagInv'
    BY <1>1, <1>2 DEF BagInv
  <1>4. \A e, k : <<e, k>> \in Checks <=> e \in DOMAIN outcomes /\ k \in 1 .. outcomes[e]
    BY DEF Checks, BagToSet
  <1>5. \A e, k : <<e, k>> \in Checks' <=> e \in DOMAIN outcomes' /\ k \in 1 .. outcomes'[e]
    BY DEF Checks, BagToSet
  <1>6. /\ \A c \in Checks : c = <<c[1], c[2]>>
        /\ \A c \in Checks' : c = <<c[1], c[2]>>
    BY DEF Checks, BagToSet
  <1>7. <<o, n>> \notin Checks
    BY <1>2, <1>4 DEF BagInv
  <1>8. ASSUME NEW e, NEW k
        PROVE  <<e, k>> \in Checks' <=> <<e, k>> \in Checks \/ (e = o /\ k = n)
    <2>1. CASE e # o
      BY <1>1, <1>4, <1>5, <2>1
    <2>2. CASE e = o
      <3>1. <<e, k>> \in Checks' <=> k \in 1 .. n
        BY <1>1, <1>5, <2>2
      <3>2. <<e, k>> \in Checks <=> k \in 1 .. (n - 1)
        BY <1>4, <2>2 DEF BagInv
      <3>3. k \in 1 .. n <=> k \in 1 .. (n - 1) \/ k = n
        <4> HIDE DEF n
        <4> QED  BY <1>2
      <3> QED  BY <2>2, <3>1, <3>2, <3>3
    <2> QED  BY <2>1, <2>2
  <1> HIDE DEF n
  <1>9. Checks' = Checks \cup {<<o, n>>}
    BY <1>6, <1>8
  <1>10. \E e : e \notin Checks /\ Checks' = Checks \cup {e} /\ e[1] = o
    BY <1>7, <1>9
  <1> QED  BY <1>3, <1>10 DEF o

-----------------------------------------------------------------------------
(* What is counted.                                                        *)

\* The sequences that are tracked, and their limits.
LEMMA TrackedLimits ==
    ASSUME NEW s \in Tracked
    PROVE  /\ s \in LimiterSequences
           /\ s[1] = 0 <=> s = Overall
           /\ s[1] # 0 => /\ s[1] \in DOMAIN Routes /\ s[2] \in Origins /\ s[2] # Everywhere
                          /\ s = <<s[1], s[2]>> /\ Limits(s) = Routes[s[1]].limits
           /\ s[1] \in Nat
           /\ \A i \in DOMAIN Limits(s) : i \in Nat \ {0} /\ IsLimit(Limits(s)[i])
  <1>1. DOMAIN Routes \subseteq Nat \ {0} /\ Everywhere \notin Origins
    BY RoutesAssumption DEF IsList
  <1>2. CASE s = Overall
    <2>1. s[1] = 0 /\ s[2] = Everywhere /\ Limits(s) = OverallLimits /\ s \in LimiterSequences
      BY <1>2 DEF Overall, Limits, LimiterSequences
    <2> QED  BY <1>2, <2>1, RoutesAssumption DEF AreLimits, IsList
  <1>3. CASE s \in (DOMAIN Routes) \X Origins
    <2>1. s[1] \in DOMAIN Routes /\ s[2] \in Origins /\ s = <<s[1], s[2]>>
      BY <1>3
    <2>2. s[1] # 0 /\ s[2] # Everywhere /\ s # Overall
      BY <1>1, <2>1 DEF Overall
    <2>3. Limits(s) = Routes[s[1]].limits /\ s \in LimiterSequences
      BY <2>1, <2>2, <1>3 DEF Limits, LimiterSequences
    <2> QED  BY <1>1, <2>1, <2>2, <2>3, RoutesAssumption DEF AreLimits, IsList
  <1> QED  BY <1>2, <1>3 DEF Tracked

\* Messages have timestamps and origins.
LEMMA MessageFacts ==
    ASSUME NEW m \in Messages
    PROVE  m.ts \in Nat /\ m.ts > MaxAge /\ m.ts \in Timestamps /\ m.origin \in Origins
  BY RoutesAssumption DEF Timestamps, Origins

\* A thread that waits for a message has counted nothing.
LEMMA IdleCounts ==
    ASSUME NEW s \in Tracked, NEW i, NEW l, NEW x
    PROVE  ~CountsSince(s, i, l, x, Idle)
  <1>1. Idle.at = "idle" /\ Idle.route = 0
    BY DEF Idle
  <1> QED  BY <1>1, TrackedLimits DEF CountsSince, Evaluated

\* The sets that are counted are finite.
LEMMA CountedType ==
    ASSUME RoutesInv, NEW s \in Tracked, NEW i, NEW l, NEW x
    PROVE  /\ IsFiniteSet(Past(s, i, l)) /\ Since(Past(s, i, l), x) \in Nat
           /\ IsFiniteSet(Present(s, i, l, x)) /\ Cardinality(Present(s, i, l, x)) \in Nat
           /\ Counted(s, i, l, x) \in Nat
  <1>1. Past(s, i, l) \in SUBSET Checks /\ IsFiniteSet(Checks) /\ IsFiniteSet(Busy)
    BY DEF Past, RoutesInv
  <1>2. Present(s, i, l, x) \in SUBSET Busy
    BY IdleCounts DEF Present, Busy
  <1>3. IsFiniteSet(Past(s, i, l)) /\ IsFiniteSet(Present(s, i, l, x))
    BY <1>1, <1>2, FS_Subset
  <1>4. Since(Past(s, i, l), x) \in Nat
    BY <1>3, SinceType
  <1>5. Cardinality(Present(s, i, l, x)) \in Nat
    BY <1>3, FS_CardinalityType
  <1> QED  BY <1>3, <1>4, <1>5 DEF Counted

\* A thread that goes on and counts as before changes nothing of the count.
LEMMA CountedKept ==
    ASSUME RoutesInv, NEW s, NEW i, NEW l, NEW x, NEW t \in Threads, NEW c, Update(t, c),
           UNCHANGED outcomes,
           CountsSince(s, i, l, x, c) <=> CountsSince(s, i, l, x, task[t])
    PROVE  Counted(s, i, l, x)' = Counted(s, i, l, x)
  <1>1. \A u \in Threads : task'[u] = IF u = t THEN c ELSE task[u]
    BY DEF Update, RoutesInv
  <1>2. Checks' = Checks
    BY DEF Checks, BagToSet
  <1>3. Present(s, i, l, x)' = Present(s, i, l, x)
    BY <1>1 DEF Present, CountsSince, Evaluated, Heeds
  <1> QED  BY <1>2, <1>3 DEF Counted, Since, Past, Heeds

\* One that counts from now on adds 1.
LEMMA CountedMore ==
    ASSUME RoutesInv, NEW s \in Tracked, NEW i, NEW l, NEW x, NEW t \in Threads, NEW c, Update(t, c),
           UNCHANGED outcomes,
           CountsSince(s, i, l, x, c), ~CountsSince(s, i, l, x, task[t])
    PROVE  Counted(s, i, l, x)' = Counted(s, i, l, x) + 1
  <1>1. \A u \in Threads : task'[u] = IF u = t THEN c ELSE task[u]
    BY DEF Update, RoutesInv
  <1>2. Checks' = Checks
    BY DEF Checks, BagToSet
  <1>3. Present(s, i, l, x)' = Present(s, i, l, x) \cup {t} /\ t \notin Present(s, i, l, x)
    BY <1>1 DEF Present, CountsSince, Evaluated, Heeds
  <1>4. Since(Past(s, i, l), x)' = Since(Past(s, i, l), x)
    BY <1>2 DEF Since, Past, Heeds
  <1>5. Cardinality(Present(s, i, l, x)') = Cardinality(Present(s, i, l, x)) + 1
    BY <1>3, CountedType, FS_AddElement
  <1> QED  BY <1>4, <1>5, CountedType DEF Counted

\* A check that ends is counted as one that is over, if its thread had counted it.
LEMMA CountedOver ==
    ASSUME RoutesInv, NEW s \in Tracked, NEW i, NEW l, NEW x, NEW t \in Threads, NEW result,
           Result(t, result),
           CountsSince(s, i, l, x, task[t]) <=>
               /\ Heeds(s, i, l, task[t].msg) /\ task[t].msg.ts >= x
               /\ s[1] = 0 => result[1] \in {"Passed", "OverallLimiter"}
    PROVE  Counted(s, i, l, x)' = Counted(s, i, l, x)
  <1> DEFINE P == {d \in Past(s, i, l) : d[1].msg.ts >= x}
             A == Present(s, i, l, x)
  <1>1. PICK e : /\ e \notin Checks /\ Checks' = Checks \cup {e}
                 /\ e[1].msg = task[t].msg /\ e[1].result = result
    <2>1. BagInv /\ IsFiniteSet(Checks)
      BY DEF RoutesInv
    <2>2. PICK e : /\ e \notin Checks /\ Checks' = Checks \cup {e}
                   /\ e[1] = [msg |-> task[t].msg, result |-> result]
      BY ONLY <2>1, Result(t, result), ResultChecks
    <2> QED  BY <2>2
  <1>2. \A u \in Threads : task'[u] = IF u = t THEN Idle ELSE task[u]
    BY DEF Result, Update, RoutesInv
  <1>3. A' = A \ {t}
    BY <1>2, IdleCounts DEF Present, CountsSince, Evaluated, Heeds
  <1>4. P' = IF t \in A THEN P \cup {e} ELSE P
    <2>1. t \in A <=> CountsSince(s, i, l, x, task[t])
      BY DEF Present
    <2>2. P' = {d \in Checks \cup {e} : /\ Heeds(s, i, l, d[1].msg)
                                        /\ s[1] = 0 => d[1].result[1] \in {"Passed", "OverallLimiter"}
                                        /\ d[1].msg.ts >= x}
      BY <1>1 DEF Past, Heeds
    <2>3. P = {d \in Checks : /\ Heeds(s, i, l, d[1].msg)
                              /\ s[1] = 0 => d[1].result[1] \in {"Passed", "OverallLimiter"}
                              /\ d[1].msg.ts >= x}
      BY DEF Past
    <2> HIDE DEF P, A
    <2> QED  BY <1>1, <2>1, <2>2, <2>3
  <1>5. e \notin P
    BY <1>1 DEF Past
  <1>6. IsFiniteSet(P) /\ IsFiniteSet(A) /\ Cardinality(A) \in Nat /\ Cardinality(P) \in Nat
    BY CountedType, SinceType DEF Since
  <1>7. Counted(s, i, l, x) = Cardinality(P) + Cardinality(A)
    BY DEF Counted, Since
  <1>8. Counted(s, i, l, x)' = Cardinality(P') + Cardinality(A')
    BY DEF Counted, Since
  <1> HIDE DEF P, A
  <1>9. Cardinality(P') + Cardinality(A') = Cardinality(P) + Cardinality(A)
    <2>1. CASE t \in A
      <3>1. Cardinality(P') = Cardinality(P) + 1
        BY <1>4, <1>5, <1>6, <2>1, FS_AddElement
      <3>2. Cardinality(A') = Cardinality(A) - 1
        BY <1>3, <1>6, <2>1, FS_RemoveElement
      <3> QED  BY <1>6, <3>1, <3>2
    <2>2. CASE t \notin A
      BY <1>3, <1>4, <2>2
    <2> QED  BY <2>1, <2>2
  <1> QED  BY <1>7, <1>8, <1>9

-----------------------------------------------------------------------------
(* Where threads are.                                                      *)

\* A thread that waits for a message.
LEMMA IdleFacts ==
    /\ Idle.at = "idle" /\ Idle.route = 0 /\ Idle.todo = {} /\ Idle.first = 0
    /\ DOMAIN Idle = {"at", "msg", "route", "todo", "first", "passed", "failures"}
    /\ TaskInv(Idle)
  BY DEF Idle, TaskInv

\* The first of the routes that are left.
LEMMA NextRoute ==
    ASSUME NEW c, RoutesLeft(c) # {}
    PROVE  /\ Min(RoutesLeft(c)) \in DOMAIN Routes /\ Min(RoutesLeft(c)) \in Nat \ {0}
           /\ Min(RoutesLeft(c)) > c.route /\ Accepts(Routes[Min(RoutesLeft(c))], c.msg)
           /\ \A r \in RoutesLeft(c) : Min(RoutesLeft(c)) <= r
  <1>1. RoutesLeft(c) \in SUBSET Nat /\ DOMAIN Routes \subseteq Nat \ {0}
    BY RoutesAssumption DEF IsList, RoutesLeft
  <1>2. Min(RoutesLeft(c)) \in RoutesLeft(c) /\ \A r \in RoutesLeft(c) : Min(RoutesLeft(c)) <= r
    BY <1>1, LeastExists
  <1> QED  BY <1>1, <1>2 DEF RoutesLeft

\* The next limiter of a sequence that is being evaluated.
LEMMA NextLimiter ==
    ASSUME NEW c, TaskInv(c), c.at \in {"origin", "global", "overall"}, c.todo # {},
           NEW s \in Tracked, Current(c) = s
    PROVE  /\ Min(c.todo) \in c.todo /\ Min(c.todo) \in DOMAIN Limits(s)
           /\ Min(c.todo) \in Nat \ {0}
           /\ Matches(Limits(s)[Min(c.todo)].filter, c.msg)
  <1>1. c.todo \subseteq Matching(s, c.msg)
    BY DEF TaskInv
  <1>2. c.todo \in SUBSET Nat
    BY <1>1, TrackedLimits DEF Matching
  <1>3. Min(c.todo) \in c.todo
    BY <1>2, LeastExists
  <1> QED  BY <1>1, <1>3, TrackedLimits DEF Matching

\* What a step leaves of the other threads, and where it leaves its own.
LEMMA StepTask ==
    ASSUME RoutesInv, NEW t \in Threads, Step(t) \/ \E m \in Messages : Arrive(t, m)
    PROVE  /\ TaskInv(task'[t])
           /\ \A u \in Threads \ {t} : task'[u] = task[u]
           /\ task' = [u \in Threads |-> task'[u]]
  <1>1. TaskInv(task[t]) /\ task = [u \in Threads |-> task[u]]
    BY DEF RoutesInv
  <1>2. ASSUME NEW c, Update(t, c), TaskInv(c)
        PROVE  /\ TaskInv(task'[t])
               /\ \A u \in Threads \ {t} : task'[u] = task[u]
               /\ task' = [u \in Threads |-> task'[u]]
    BY <1>1, <1>2 DEF Update
  <1>3. ASSUME NEW m \in Messages, Arrive(t, m) PROVE \E c : Update(t, c) /\ TaskInv(c)
    <2>1. TaskInv([Idle EXCEPT !.at = "routes", !.msg = m])
      BY IdleFacts DEF TaskInv
    <2> QED  BY <1>3, <2>1 DEF Arrive
  <1>4. CASE EnterRoute(t)
    <2> DEFINE r == Min(RoutesLeft(task[t]))
               c == Begin([task[t] EXCEPT !.route = r], "origin", <<r, task[t].msg.origin>>)
    <2>1. Update(t, c)
      BY <1>4 DEF EnterRoute
    <2>2. r \in DOMAIN Routes /\ r \in Nat /\ Accepts(Routes[r], task[t].msg)
      BY <1>4, NextRoute DEF EnterRoute
    <2>3. /\ c.at = "origin" /\ c.route = r /\ c.msg = task[t].msg
          /\ c.todo = Matching(<<r, task[t].msg.origin>>, task[t].msg)
          /\ DOMAIN c = DOMAIN task[t]
      BY <1>1 DEF Begin, TaskInv
    <2> HIDE DEF c, r
    <2>4. Current(c) = <<r, c.msg.origin>>
      BY <2>3 DEF Current
    <2>5. TaskInv(c)
      BY <1>1, <1>4, <2>2, <2>3, <2>4 DEF TaskInv, EnterRoute
    <2> QED  BY <1>2, <2>1, <2>5
  <1>5. CASE NoRoutePassed(t) \/ Conclude(t)
    BY <1>2, <1>5, IdleFacts DEF NoRoutePassed, Conclude, Result
  <1>6. CASE SomeRoutePassed(t)
    <2> DEFINE c == Begin(task[t], "overall", <<0, Everywhere>>)
    <2>1. Update(t, c)
      BY <1>6 DEF SomeRoutePassed
    <2>2. /\ c.at = "overall" /\ c.route = task[t].route /\ c.msg = task[t].msg
          /\ c.todo = Matching(<<0, Everywhere>>, task[t].msg)
          /\ DOMAIN c = DOMAIN task[t]
      BY <1>1 DEF Begin, TaskInv
    <2> HIDE DEF c
    <2>3. Current(c) = <<0, Everywhere>> /\ RoutesLeft(c) = {}
      BY <1>6, <2>2 DEF Current, SomeRoutePassed, RoutesLeft
    <2>4. TaskInv(c)
      BY <1>1, <1>6, <2>2, <2>3 DEF TaskInv, SomeRoutePassed
    <2> QED  BY <1>2, <2>1, <2>4
  <1>7. CASE Evaluate(t)
    <2>1. PICK todo, first : /\ Update(t, [task[t] EXCEPT !.todo = todo, !.first = first])
                             /\ todo \subseteq task[t].todo
                             /\ task[t].at \in {"origin", "global", "overall"}
      <3> DEFINE c == task[t]
                 s == Current(c)
                 limit == Limits(s)[Min(c.todo)]
                 all == Placed(limiters[s][Min(c.todo)].rings[Location(limit, c.msg)], c.msg.ts)
                 passes == Passes(limit, Head(all), Last(all))
      <3>1. /\ Update(t, [c EXCEPT !.todo = Remaining(c, passes), !.first = FirstBlocked(c, passes)])
            /\ c.at \in {"origin", "global", "overall"}
        BY <1>7 DEF Evaluate
      <3> HIDE DEF passes
      <3>2. Remaining(c, passes) \subseteq c.todo
        BY DEF Remaining
      <3> QED  BY <3>1, <3>2
    <2> DEFINE c == [task[t] EXCEPT !.todo = todo, !.first = first]
    <2>2. /\ c.at = task[t].at /\ c.route = task[t].route /\ c.msg = task[t].msg
          /\ c.todo = todo /\ DOMAIN c = DOMAIN task[t]
      BY <1>1 DEF TaskInv
    <2>3. Update(t, c)
      BY <2>1
    <2> HIDE DEF c
    <2>4. Current(c) = Current(task[t]) /\ RoutesLeft(c) = RoutesLeft(task[t])
      BY <2>2 DEF Current, RoutesLeft
    <2>5. TaskInv(c)
      BY <1>1, <2>1, <2>2, <2>4 DEF TaskInv
    <2> QED  BY <1>2, <2>3, <2>5
  <1>8. CASE StartClean(t)
    <2> DEFINE c == [task[t] EXCEPT !.at = "retain"]
    <2>1. /\ c.at = "retain" /\ c.route = task[t].route /\ c.msg = task[t].msg
          /\ DOMAIN c = DOMAIN task[t]
      BY <1>1 DEF TaskInv
    <2>2. Update(t, c) /\ task[t].at = "origin"
      BY <1>8 DEF StartClean, MayClean
    <2> HIDE DEF c
    <2>3. TaskInv(c)
      BY <1>1, <2>1, <2>2 DEF TaskInv
    <2> QED  BY <1>2, <2>2, <2>3
  <1>9. CASE SkipClean(t) \/ Retain(t)
    <2>1. AfterOrigin(t) /\ task[t].at \in {"origin", "retain"}
      BY <1>9 DEF SkipClean, Retain
    <2> DEFINE b == Begin(task[t], "global", <<task[t].route, Everywhere>>)
               d == [task[t] EXCEPT !.at = "routes", !.failures =
                        Append(@, <<task[t].route, "Limiter", task[t].first>>)]
    <2>2. /\ b.at = "global" /\ b.route = task[t].route /\ b.msg = task[t].msg
          /\ b.todo = Matching(<<task[t].route, Everywhere>>, task[t].msg)
          /\ DOMAIN b = DOMAIN task[t]
      BY <1>1 DEF Begin, TaskInv
    <2>3. /\ d.at = "routes" /\ d.route = task[t].route /\ d.msg = task[t].msg
          /\ DOMAIN d = DOMAIN task[t]
      BY <1>1 DEF TaskInv
    <2>4. Update(t, b) \/ Update(t, d)
      BY <2>1 DEF AfterOrigin
    <2> HIDE DEF b, d
    <2>5. Current(b) = <<b.route, Everywhere>>
      BY <2>2 DEF Current
    <2>6. TaskInv(b)
      BY <1>1, <2>1, <2>2, <2>5 DEF TaskInv
    <2>7. TaskInv(d)
      BY <1>1, <2>1, <2>3 DEF TaskInv
    <2> QED  BY <1>2, <2>4, <2>6, <2>7
  <1>10. CASE RouteDone(t)
    <2> DEFINE b == [task[t] EXCEPT !.at = "routes", !.failures =
                        Append(@, <<task[t].route, "GlobalLimiter", task[t].first>>)]
               d == [task[t] EXCEPT !.at = "routes",
                                    !.passed = IF @ = 0 THEN task[t].route ELSE @]
    <2>1. /\ b.at = "routes" /\ b.route = task[t].route /\ b.msg = task[t].msg
          /\ DOMAIN b = DOMAIN task[t]
      BY <1>1 DEF TaskInv
    <2>2. /\ d.at = "routes" /\ d.route = task[t].route /\ d.msg = task[t].msg
          /\ DOMAIN d = DOMAIN task[t]
      BY <1>1 DEF TaskInv
    <2>3. (Update(t, b) \/ Update(t, d)) /\ task[t].at = "global"
      BY <1>10 DEF RouteDone
    <2> HIDE DEF b, d
    <2>4. TaskInv(b) /\ TaskInv(d)
      BY <1>1, <2>1, <2>2, <2>3 DEF TaskInv
    <2> QED  BY <1>2, <2>3, <2>4
  <1> QED  BY <1>2, <1>3, <1>4, <1>5, <1>6, <1>7, <1>8, <1>9, <1>10 DEF Step

\* Only the evaluation of a limiter counts.
LEMMA QuietCounted ==
    ASSUME RoutesInv, NEW s \in Tracked, NEW i \in DOMAIN Limits(s), NEW l, NEW x,
           NEW t \in Threads,
           \/ EnterRoute(t) \/ NoRoutePassed(t) \/ SomeRoutePassed(t) \/ SkipClean(t)
           \/ StartClean(t) \/ Retain(t) \/ RouteDone(t) \/ Conclude(t)
           \/ \E m \in Messages : Arrive(t, m)
    PROVE  Counted(s, i, l, x)' = Counted(s, i, l, x)
  <1> DEFINE c == task[t]
  <1>1. TaskInv(c) /\ task = [u \in Threads |-> task[u]]
    BY DEF RoutesInv
  <1>2. s[1] # 0 => s[1] \in DOMAIN Routes /\ s[1] \in Nat
    BY TrackedLimits
  \* A thread that goes from one part of its check to the next.
  <1>3. ASSUME NEW d, Update(t, d), UNCHANGED outcomes, d.msg = c.msg, d.route = c.route,
               c.at # "overall", c.at = "origin" => c.todo = {},
               d.at \in {"routes", "retain", "global"}
                   \/ (d.at = "overall" /\ d.todo = Matching(Overall, d.msg))
        PROVE  Counted(s, i, l, x)' = Counted(s, i, l, x)
    <2>1. CountsSince(s, i, l, x, d) <=> CountsSince(s, i, l, x, c)
      <3>1. CASE s[1] = 0
        <4>1. ~Evaluated(s, i, c)
          BY <1>3, <3>1 DEF Evaluated
        <4>2. CASE d.at = "overall"
          <5>1. s = Overall /\ d.todo = {j \in DOMAIN Limits(s) : Matches(Limits(s)[j].filter, d.msg)}
            BY <1>3, <3>1, <4>2, TrackedLimits DEF Matching
          <5>2. i \notin d.todo => ~Heeds(s, i, l, d.msg)
            BY <5>1 DEF Heeds
          <5> QED  BY <3>1, <4>1, <5>2 DEF CountsSince, Evaluated
        <4>3. CASE d.at # "overall"
          BY <3>1, <4>1, <4>3 DEF CountsSince, Evaluated
        <4> QED  BY <4>2, <4>3
      <3>2. CASE s[1] # 0
        <4>1. Evaluated(s, i, c) <=> Evaluated(s, i, d)
          BY <1>3, <3>2 DEF Evaluated
        <4> QED  BY <1>3, <4>1 DEF CountsSince
      <3> QED  BY <3>1, <3>2
    <2> QED  BY <1>3, <2>1, CountedKept
  \* A thread that is done.
  <1>4. ASSUME NEW result, Result(t, result), RoutesLeft(c) = {}, c.at # "origin",
               c.msg \in Messages, c.at = "overall" => c.todo = {},
               result[1] \in {"Passed", "OverallLimiter"} <=> c.at = "overall"
        PROVE  Counted(s, i, l, x)' = Counted(s, i, l, x)
    <2>1. CASE s[1] = 0
      <3>1. Evaluated(s, i, c) <=> result[1] \in {"Passed", "OverallLimiter"}
        BY <1>4, <2>1 DEF Evaluated
      <3>2. CountsSince(s, i, l, x, c) <=>
                /\ Heeds(s, i, l, c.msg) /\ c.msg.ts >= x
                /\ s[1] = 0 => result[1] \in {"Passed", "OverallLimiter"}
        BY <2>1, <3>1 DEF CountsSince
      <3> QED  BY <1>4, <3>2, CountedOver
    <2>2. CASE s[1] # 0
      <3>1. Heeds(s, i, l, c.msg) => Evaluated(s, i, c)
        <4>1. SUFFICES ASSUME Accepts(Routes[s[1]], c.msg) PROVE Evaluated(s, i, c)
          BY <2>2 DEF Heeds
        <4>2. ~ (s[1] > c.route) /\ c.route \in Nat
          BY <1>1, <1>2, <1>4, <2>2, <4>1 DEF RoutesLeft, TaskInv
        <4> QED  BY <1>2, <1>4, <2>2, <4>2 DEF Evaluated
      <3>2. CountsSince(s, i, l, x, c) <=>
                /\ Heeds(s, i, l, c.msg) /\ c.msg.ts >= x
                /\ s[1] = 0 => result[1] \in {"Passed", "OverallLimiter"}
        BY <2>2, <3>1 DEF CountsSince
      <3> QED  BY <1>4, <3>2, CountedOver
    <2> QED  BY <2>1, <2>2
  <1>5. CASE EnterRoute(t)
    <2> DEFINE r == Min(RoutesLeft(c))
               d == Begin([c EXCEPT !.route = r], "origin", <<r, c.msg.origin>>)
    <2>1. Update(t, d) /\ UNCHANGED outcomes /\ c.at = "routes"
      BY <1>5 DEF EnterRoute
    <2>2. r \in DOMAIN Routes /\ r \in Nat \ {0} /\ r > c.route /\ \A q \in RoutesLeft(c) : r <= q
      BY <1>5, NextRoute DEF EnterRoute
    <2>3. /\ d.at = "origin" /\ d.route = r /\ d.msg = c.msg
          /\ d.todo = Matching(<<r, c.msg.origin>>, c.msg)
      BY <1>1 DEF Begin, TaskInv
    <2> HIDE DEF d, r
    <2>4. CountsSince(s, i, l, x, d) <=> CountsSince(s, i, l, x, c)
      <3>1. CASE s[1] = 0
        BY <2>1, <2>3, <3>1 DEF CountsSince, Evaluated
      <3>2. CASE s[1] # 0
        <4>1. SUFFICES ASSUME Heeds(s, i, l, c.msg) PROVE Evaluated(s, i, c) <=> Evaluated(s, i, d)
          BY <2>3 DEF CountsSince
        <4>2. c.msg.origin = s[2] /\ Accepts(Routes[s[1]], c.msg) /\ Matches(Limits(s)[i].filter, c.msg)
          BY <3>2, <4>1 DEF Heeds
        <4>3. s[1] > c.route => r <= s[1]
          BY <1>2, <2>2, <3>2, <4>2 DEF RoutesLeft
        <4>4. r = s[1] => i \in d.todo
          <5>1. r = s[1] => s = <<r, c.msg.origin>>
            BY <3>2, <4>2, TrackedLimits
          <5> QED  BY <2>3, <4>2, <5>1 DEF Matching
        <4>5. c.route \in Nat /\ r \in Nat /\ s[1] \in Nat
          BY <1>1, <1>2, <2>2, <3>2 DEF TaskInv
        <4>6. Evaluated(s, i, c) <=> c.route >= s[1]
          BY <2>1, <3>2, <4>5 DEF Evaluated
        <4>7. Evaluated(s, i, d) <=> r > s[1]
          BY <2>3, <3>2, <4>4, <4>5 DEF Evaluated
        <4> QED  BY <2>2, <4>3, <4>5, <4>6, <4>7
      <3> QED  BY <3>1, <3>2
    <2> QED  BY <2>1, <2>4, CountedKept
  <1>6. CASE NoRoutePassed(t)
    <2>1. PICK result : /\ Result(t, result)
                        /\ result[1] \in {"NoRoutes", "Routes"}
                        /\ c.at = "routes" /\ RoutesLeft(c) = {}
      BY <1>6 DEF NoRoutePassed
    <2>2. c.msg \in Messages
      BY <1>1, <2>1 DEF TaskInv
    <2> QED  BY <1>4, <2>1, <2>2
  <1>7. CASE Conclude(t)
    <2>1. PICK result : /\ Result(t, result)
                        /\ result[1] \in {"Passed", "OverallLimiter"}
                        /\ c.at = "overall" /\ c.todo = {}
      BY <1>7 DEF Conclude
    <2>2. c.msg \in Messages /\ RoutesLeft(c) = {}
      BY <1>1, <2>1 DEF TaskInv
    <2> QED  BY <1>4, <2>1, <2>2
  <1>8. CASE SomeRoutePassed(t)
    <2> DEFINE d == Begin(c, "overall", <<0, Everywhere>>)
    <2>1. Update(t, d) /\ UNCHANGED outcomes /\ c.at = "routes"
      BY <1>8 DEF SomeRoutePassed
    <2>2. d.at = "overall" /\ d.route = c.route /\ d.msg = c.msg /\ d.todo = Matching(Overall, d.msg)
      BY <1>1 DEF Begin, TaskInv, Overall
    <2> HIDE DEF d
    <2> QED  BY <1>3, <2>1, <2>2
  <1>9. CASE SkipClean(t) \/ Retain(t)
    <2>1. /\ AfterOrigin(t) /\ UNCHANGED outcomes
          /\ c.at = "retain" \/ (c.at = "origin" /\ c.todo = {})
      BY <1>9 DEF SkipClean, Retain
    <2> DEFINE b == Begin(c, "global", <<c.route, Everywhere>>)
               d == [c EXCEPT !.at = "routes", !.failures = Append(@, <<c.route, "Limiter", c.first>>)]
    <2>2. b.at = "global" /\ b.route = c.route /\ b.msg = c.msg
      BY <1>1 DEF Begin, TaskInv
    <2>3. d.at = "routes" /\ d.route = c.route /\ d.msg = c.msg
      BY <1>1 DEF TaskInv
    <2>4. Update(t, b) \/ Update(t, d)
      BY <2>1 DEF AfterOrigin
    <2> HIDE DEF b, d
    <2> QED  BY <1>3, <2>1, <2>2, <2>3, <2>4
  <1>10. CASE StartClean(t)
    <2> DEFINE d == [c EXCEPT !.at = "retain"]
    <2>1. d.at = "retain" /\ d.route = c.route /\ d.msg = c.msg
      BY <1>1 DEF TaskInv
    <2>2. Update(t, d) /\ UNCHANGED outcomes /\ c.at = "origin" /\ c.todo = {}
      BY <1>10 DEF StartClean, MayClean
    <2> HIDE DEF d
    <2> QED  BY <1>3, <2>1, <2>2
  <1>11. CASE RouteDone(t)
    <2> DEFINE b == [c EXCEPT !.at = "routes", !.failures =
                        Append(@, <<c.route, "GlobalLimiter", c.first>>)]
               d == [c EXCEPT !.at = "routes", !.passed = IF @ = 0 THEN c.route ELSE @]
    <2>1. b.at = "routes" /\ b.route = c.route /\ b.msg = c.msg
      BY <1>1 DEF TaskInv
    <2>2. d.at = "routes" /\ d.route = c.route /\ d.msg = c.msg
      BY <1>1 DEF TaskInv
    <2>3. (Update(t, b) \/ Update(t, d)) /\ UNCHANGED outcomes /\ c.at = "global"
      BY <1>11 DEF RouteDone
    <2> HIDE DEF b, d
    <2> QED  BY <1>3, <2>1, <2>2, <2>3
  <1>12. ASSUME NEW m \in Messages, Arrive(t, m) PROVE Counted(s, i, l, x)' = Counted(s, i, l, x)
    <2> DEFINE d == [Idle EXCEPT !.at = "routes", !.msg = m]
    <2>1. Update(t, d) /\ UNCHANGED outcomes /\ c = Idle
      BY <1>1, <1>12 DEF Arrive, TaskInv
    <2>2. d.at = "routes" /\ d.route = 0
      BY IdleFacts
    <2> HIDE DEF d
    <2>3. ~CountsSince(s, i, l, x, d) /\ ~CountsSince(s, i, l, x, c)
      BY <1>2, <2>1, <2>2, IdleCounts DEF CountsSince, Evaluated
    <2> QED  BY <2>1, <2>3, CountedKept
  <1> QED  BY <1>5, <1>6, <1>7, <1>8, <1>9, <1>10, <1>11, <1>12

\* An evaluation counts the message, once, for the location it comes from.
LEMMA EvaluateCounted ==
    ASSUME RoutesInv, NEW s \in Tracked, NEW i \in DOMAIN Limits(s), NEW l, NEW x,
           NEW t \in Threads, Evaluate(t)
    PROVE  Counted(s, i, l, x)' =
               IF /\ s = Current(task[t]) /\ i = Min(task[t].todo)
                  /\ l = Location(Limits(s)[i], task[t].msg) /\ task[t].msg.ts >= x
               THEN Counted(s, i, l, x) + 1 ELSE Counted(s, i, l, x)
  <1> DEFINE c == task[t]
             k == Min(c.todo)
  <1>1. TaskInv(c)
    BY DEF RoutesInv
  <1>2. PICK d : /\ Update(t, d) /\ UNCHANGED outcomes
                 /\ d.at = c.at /\ d.route = c.route /\ d.msg = c.msg /\ d.todo = c.todo \ {k}
                 /\ c.at \in {"origin", "global", "overall"} /\ c.todo # {}
    <2> DEFINE q == Current(c)
               limit == Limits(q)[k]
               all == Placed(limiters[q][k].rings[Location(limit, c.msg)], c.msg.ts)
               passes == Passes(limit, Head(all), Last(all))
    <2>1. /\ Update(t, [c EXCEPT !.todo = Remaining(c, passes), !.first = FirstBlocked(c, passes)])
          /\ c.at \in {"origin", "global", "overall"} /\ c.todo # {} /\ UNCHANGED outcomes
      BY DEF Evaluate
    <2> HIDE DEF passes
    <2> DEFINE d == [c EXCEPT !.todo = Remaining(c, passes), !.first = FirstBlocked(c, passes)]
    <2>2. d.at = c.at /\ d.route = c.route /\ d.msg = c.msg /\ d.todo = c.todo \ {k}
      BY <1>1 DEF TaskInv, Remaining
    <2>3. Update(t, d)
      BY <2>1
    <2> HIDE DEF d
    <2> QED  BY <2>1, <2>2, <2>3
  <1> HIDE DEF k
  <1>3. s[1] # 0 => s[1] \in DOMAIN Routes /\ s[1] \in Nat
    BY TrackedLimits
  <1>4. CASE s = Current(c) /\ i = k
    <2>1. k \in c.todo /\ Matches(Limits(s)[i].filter, c.msg)
      BY <1>1, <1>2, <1>4, NextLimiter DEF k
    <2>2. s[1] = 0 \/ (c.at = "origin" /\ s[1] = c.route /\ s[2] = c.msg.origin)
      BY <1>2, <1>4, TrackedLimits DEF Current
    <2>3. s[1] = 0 => c.at = "overall"
      <3>1. c.at # "overall" => c.route \in DOMAIN Routes /\ s[1] = c.route
        BY <1>1, <1>2, <1>4 DEF Current, TaskInv
      <3>2. 0 \notin DOMAIN Routes
        BY RoutesAssumption DEF IsList
      <3> QED  BY <3>1, <3>2
    <2>4. ~Evaluated(s, i, c) /\ Evaluated(s, i, d)
      BY <1>1, <1>2, <1>3, <1>4, <2>1, <2>2, <2>3 DEF Evaluated, TaskInv
    <2>5. Heeds(s, i, l, c.msg) <=> l = Location(Limits(s)[i], c.msg)
      BY <1>1, <2>1, <2>2 DEF Heeds, TaskInv
    <2>6. ~CountsSince(s, i, l, x, c)
      BY <2>4 DEF CountsSince
    <2>7. CountsSince(s, i, l, x, d) <=> l = Location(Limits(s)[i], c.msg) /\ c.msg.ts >= x
      BY <1>2, <2>4, <2>5 DEF CountsSince
    <2>8. CASE CountsSince(s, i, l, x, d)
      <3>1. Counted(s, i, l, x)' = Counted(s, i, l, x) + 1
        BY <1>2, <2>6, <2>8, CountedMore
      <3> QED  BY <1>4, <2>7, <2>8, <3>1 DEF k
    <2>9. CASE ~CountsSince(s, i, l, x, d)
      <3>1. Counted(s, i, l, x)' = Counted(s, i, l, x)
        BY <1>2, <2>6, <2>9, CountedKept
      <3> QED  BY <1>4, <2>7, <2>9, <3>1 DEF k
    <2> QED  BY <2>8, <2>9
  <1>5. CASE ~ (s = Current(c) /\ i = k)
    <2>1. CountsSince(s, i, l, x, d) <=> CountsSince(s, i, l, x, c)
      <3>1. CASE s[1] = 0
        <4>1. c.at = "overall" => s = Current(c)
          BY <3>1, TrackedLimits DEF Current, Overall
        <4>2. Evaluated(s, i, d) <=> Evaluated(s, i, c)
          BY <1>2, <1>5, <3>1, <4>1 DEF Evaluated
        <4> QED  BY <1>2, <4>2 DEF CountsSince
      <3>2. CASE s[1] # 0
        <4>1. SUFFICES ASSUME Heeds(s, i, l, c.msg) PROVE Evaluated(s, i, d) <=> Evaluated(s, i, c)
          BY <1>2 DEF CountsSince
        <4>2. c.at = "origin" /\ c.route = s[1] => s = Current(c)
          BY <3>2, <4>1, TrackedLimits DEF Heeds, Current
        <4> QED  BY <1>2, <1>5, <3>2, <4>2 DEF Evaluated
      <3> QED  BY <3>1, <3>2
    <2>2. Counted(s, i, l, x)' = Counted(s, i, l, x)
      BY <1>2, <2>1, CountedKept
    <2> QED  BY <1>5, <2>2 DEF k
  <1> QED  BY <1>4, <1>5

-----------------------------------------------------------------------------
(* Limiters.                                                               *)

\* A limiter that a message is put into.
Put(limit, limiter, m) ==
    [limiter EXCEPT
        !.rings[Location(limit, m)] = Tail(Placed(limiter.rings[Location(limit, m)], m.ts)),
        !.latest = Later(@, m.ts)]

LEMMA PutSound ==
    ASSUME NEW limit, IsLimit(limit), NEW limiter, Sound(limit, limiter), NEW m \in Messages
    PROVE  /\ Sound(limit, Put(limit, limiter, m))
           /\ Put(limit, limiter, m).latest = Later(limiter.latest, m.ts)
           /\ Location(limit, m) \in Locations(limit)
           /\ \A l \in Locations(limit) :
                  Put(limit, limiter, m).rings[l] =
                      IF l = Location(limit, m) THEN Tail(Placed(limiter.rings[l], m.ts))
                      ELSE limiter.rings[l]
  <1> DEFINE here == Location(limit, m)
             new == Put(limit, limiter, m)
             ring == Tail(Placed(limiter.rings[here], m.ts))
             n == limit.times
  <1>1. here \in Locations(limit) /\ n \in Nat \ {0} /\ m.ts \in Nat
    BY MessageFacts DEF Locations, IsLimit
  <1>2. limiter.rings[here] \in [1 .. n -> Nat] /\ limiter.rings[here][n] \in Nat /\ n \in 1 .. n
    BY <1>1 DEF Sound
  <1>3. ring \in [1 .. n -> Nat] /\ ring[n] = Later(limiter.rings[here][n], m.ts)
    <2>1. ring \in [1 .. n -> Nat]
      BY <1>1, <1>2, PlacedIn
    <2>2. \A k \in 1 .. n : ring[k] = IF k < n /\ limiter.rings[here][k + 1] <= m.ts
                                      THEN limiter.rings[here][k + 1]
                                      ELSE IF limiter.rings[here][k] <= m.ts THEN m.ts
                                      ELSE limiter.rings[here][k]
      <3>1. n \in Nat \ {0} /\ m.ts \in Nat /\ limiter.rings[here] \in [1 .. n -> Nat]
        BY <1>1, <1>2
      <3> QED  BY ONLY <3>1, PlacedIn, Zenon
    <2>3. ring[n] = IF limiter.rings[here][n] <= m.ts THEN m.ts ELSE limiter.rings[here][n]
      <3>1. ~ (n < n)
        BY <1>1
      <3> QED  BY <1>2, <2>2, <3>1
    <2> HIDE DEF ring
    <2> QED  BY <1>1, <1>2, <2>1, <2>3 DEF Later
  <1>4. /\ DOMAIN new = DOMAIN limiter
        /\ new.rings = [limiter.rings EXCEPT ![here] = ring]
        /\ new.latest = Later(limiter.latest, m.ts)
    BY DEF Put, Sound
  <1> HIDE DEF new, ring, here
  <1>5. \A l \in Locations(limit) : new.rings[l] = IF l = here THEN ring ELSE limiter.rings[l]
    BY <1>1, <1>4 DEF Sound
  <1>6. new.rings \in [Locations(limit) -> [1 .. n -> Nat]]
    BY <1>1, <1>3, <1>4 DEF Sound
  <1>7. limiter.latest \in Nat /\ new.latest \in Nat
    BY <1>1, <1>4 DEF Sound, Later
  <1>8. ASSUME NEW l \in Locations(limit)
        PROVE  /\ new.rings[l][n] <= new.latest
               /\ ~limit.by_source_location => new.rings[l][n] = new.latest
    <2>1. limiter.rings[l] \in [1 .. n -> Nat] /\ limiter.rings[l][n] \in Nat
      BY <1>2 DEF Sound
    <2>2. /\ limiter.rings[l][n] <= limiter.latest
          /\ ~limit.by_source_location => limiter.rings[l][n] = limiter.latest
      BY DEF Sound
    <2>3. ~limit.by_source_location => l = here
      BY DEF Locations, Location, here
    <2> QED  BY <1>1, <1>3, <1>4, <1>5, <1>7, <2>1, <2>2, <2>3 DEF Later
  <1>9. Sound(limit, new)
    BY <1>4, <1>6, <1>7, <1>8 DEF Sound
  <1> QED  BY <1>1, <1>4, <1>5, <1>9 DEF new, ring, here

\* A limiter that is cleaned.
LEMMA CleanedSound ==
    ASSUME NEW limit, IsLimit(limit), limit.by_source_location, NEW limiter,
           Sound(limit, limiter), NEW now \in Nat
    PROVE  /\ Sound(limit, Cleaned(limit, limiter, now))
           /\ \A l \in Locations(limit) :
                  Cleaned(limit, limiter, now).rings[l] =
                      IF limiter.rings[l][limit.times] >= now - limit.window
                      THEN limiter.rings[l] ELSE Fresh(limit.times)
  <1> DEFINE new == Cleaned(limit, limiter, now)
             n == limit.times
  <1>1. n \in Nat \ {0} /\ n \in 1 .. n
    BY DEF IsLimit
  <1>2. Fresh(n) \in [1 .. n -> Nat] /\ Fresh(n)[n] = 0
    BY <1>1, FreshTallies
  <1>3. /\ DOMAIN new = DOMAIN limiter
        /\ new.rings = [l \in Locations(limit) |->
               IF limiter.rings[l][n] >= now - limit.window THEN limiter.rings[l] ELSE Fresh(n)]
        /\ new.latest = limiter.latest
    BY DEF Cleaned, Sound
  <1> HIDE DEF new
  <1>4. new.rings \in [Locations(limit) -> [1 .. n -> Nat]]
    BY <1>2, <1>3 DEF Sound
  <1>5. \A l \in Locations(limit) : new.rings[l][n] <= new.latest
    BY <1>2, <1>3 DEF Sound
  <1>6. Sound(limit, new)
    BY <1>3, <1>4, <1>5 DEF Sound
  <1> QED  BY <1>3, <1>6 DEF new

\* Times of cleanups.
LEMMA HorizonGrows ==
    ASSUME RoutesInv, NEW t \in Threads, Step(t) \/ \E m \in Messages : Arrive(t, m)
    PROVE  horizon' \in Nat /\ horizon' >= horizon
  <1>1. horizon \in Nat
    BY DEF RoutesInv
  <1>2. ASSUME NEW m \in Messages
        PROVE  Later(horizon, m.ts) \in Nat /\ Later(horizon, m.ts) >= horizon
    BY <1>1, MessageFacts DEF Later
  <1>3. TaskInv(task[t])
    BY DEF RoutesInv
  <1>4. CASE Evaluate(t)
    <2>1. horizon' \in {horizon, Later(horizon, task[t].msg.ts)} /\ task[t].at # "idle"
      BY <1>4 DEF Evaluate
    <2> QED  BY <1>1, <1>2, <1>3, <2>1 DEF TaskInv
  <1>5. CASE Retain(t)
    <2>1. horizon' = Later(horizon, task[t].msg.ts) /\ task[t].at # "idle"
      BY <1>5 DEF Retain
    <2> QED  BY <1>1, <1>2, <1>3, <2>1 DEF TaskInv
  <1>6. CASE horizon' = horizon
    BY <1>1, <1>6
  <1> QED  BY <1>4, <1>5, <1>6 DEF Step, EnterRoute, NoRoutePassed, SomeRoutePassed, SkipClean,
              StartClean, RouteDone, Conclude, Arrive

\* What is remembered after a step was remembered before it.
LEMMA RememberedBefore ==
    ASSUME horizon \in Nat, horizon' \in Nat, horizon' >= horizon, NEW s, NEW limit, IsLimit(limit),
           NEW x \in Nat, Remembered(s, limit, x)'
    PROVE  Remembered(s, limit, x)
  BY RoutesAssumption DEF Remembered, IsLimit

\* A limiter that is left alone stays as it should be, if the count does.
LEMMA SameLimiter ==
    ASSUME RoutesInv, NEW s \in Tracked, NEW i \in DOMAIN Limits(s), i \in DOMAIN limiters'[s],
           limiters'[s][i] = limiters[s][i], horizon' \in Nat, horizon' >= horizon,
           \A l \in Locations(Limits(s)[i]), x \in Nat \ {0} :
               Counted(s, i, l, x)' = Counted(s, i, l, x)
    PROVE  LimiterInv(s, i)'
  <1>1. LimiterInv(s, i) /\ horizon \in Nat
    BY DEF RoutesInv
  <1>2. ASSUME NEW l \in Locations(Limits(s)[i]), NEW x \in Nat \ {0}, Remembered(s, Limits(s)[i], x)'
        PROVE  Tallies(limiters[s][i].rings[l], Limits(s)[i].times, x, Counted(s, i, l, x))
    <2>1. Remembered(s, Limits(s)[i], x)
      BY <1>1, <1>2, TrackedLimits, RememberedBefore
    <2> QED  BY <1>1, <2>1 DEF LimiterInv
  <1> QED  BY <1>1, <1>2 DEF LimiterInv, Remembered

\* An evaluation keeps the limiters as they should be.
LEMMA EvaluateLimiters ==
    ASSUME RoutesInv, NEW t \in Threads, Evaluate(t), NEW s \in Tracked, NEW i \in DOMAIN Limits(s)
    PROVE  LimiterInv(s, i)'
  <1> DEFINE c == task[t]
             q == Current(c)
             k == Min(c.todo)
             here == Location(Limits(q)[k], c.msg)
             new == Put(Limits(q)[k], limiters[q][k], c.msg)
             w == Limits(q)[k].window
             n == Limits(q)[k].times
  <1>1. TaskInv(c) /\ DOMAIN limiters = LimiterSequences /\ LimiterInv(s, i)
    BY DEF RoutesInv
  <1>2. horizon \in Nat /\ horizon' \in Nat /\ horizon' >= horizon
    BY HorizonGrows DEF Step, RoutesInv
  <1>3. /\ c.at \in {"origin", "global", "overall"} /\ c.todo # {}
        /\ \E cleans \in BOOLEAN :
               /\ cleans => Limits(q)[k].by_source_location
               /\ limiters' = [limiters EXCEPT ![q][k] =
                      IF cleans THEN Cleaned(Limits(q)[k], new, c.msg.ts) ELSE new]
               /\ horizon' = IF cleans THEN Later(horizon, c.msg.ts) ELSE horizon
    BY DEF Evaluate, Put
  <1>4. c.msg \in Messages /\ c.msg.ts \in Nat
    BY <1>1, <1>3, MessageFacts DEF TaskInv
  <1>5. PICK cleans \in BOOLEAN :
              /\ cleans => Limits(q)[k].by_source_location
              /\ limiters' = [limiters EXCEPT ![q][k] =
                     IF cleans THEN Cleaned(Limits(q)[k], new, c.msg.ts) ELSE new]
              /\ horizon' = IF cleans THEN Later(horizon, c.msg.ts) ELSE horizon
    BY <1>3
  <1> HIDE DEF new, q, k
  <1>6. CASE ~ (s = q /\ i = k)
    <2>1. i \in DOMAIN limiters[s] /\ s \in DOMAIN limiters
      BY <1>1, TrackedLimits DEF LimiterInv
    <2>2. i \in DOMAIN limiters'[s] /\ limiters'[s][i] = limiters[s][i]
      BY <1>5, <1>6, <2>1
    <2>3. ASSUME NEW l, NEW x PROVE Counted(s, i, l, x)' = Counted(s, i, l, x)
      BY <1>6, EvaluateCounted DEF q, k
    <2> QED  BY <1>2, <2>2, <2>3, SameLimiter
  <1>7. CASE s = q /\ i = k
    <2>1. i \in DOMAIN limiters[s] /\ s \in DOMAIN limiters /\ Sound(Limits(s)[i], limiters[s][i])
      BY <1>1, TrackedLimits DEF LimiterInv
    <2>2. /\ i \in DOMAIN limiters'[s]
          /\ limiters'[s][i] = IF cleans THEN Cleaned(Limits(s)[i], new, c.msg.ts) ELSE new
      BY <1>5, <1>7, <2>1
    <2>3. IsLimit(Limits(s)[i]) /\ n \in Nat \ {0} /\ n \in 1 .. n /\ w \in Nat
      BY <1>7, TrackedLimits DEF IsLimit
    <2>4. /\ Sound(Limits(s)[i], new)
          /\ \A l \in Locations(Limits(s)[i]) :
                 new.rings[l] = IF l = here THEN Tail(Placed(limiters[s][i].rings[l], c.msg.ts))
                                ELSE limiters[s][i].rings[l]
      BY <1>4, <1>7, <2>1, <2>3, PutSound DEF new
    <2>5. cleans => /\ Sound(Limits(s)[i], Cleaned(Limits(s)[i], new, c.msg.ts))
                    /\ \A l \in Locations(Limits(s)[i]) :
                           Cleaned(Limits(s)[i], new, c.msg.ts).rings[l] =
                               IF new.rings[l][n] >= c.msg.ts - w THEN new.rings[l] ELSE Fresh(n)
      <3> SUFFICES ASSUME cleans
                   PROVE  /\ Sound(Limits(s)[i], Cleaned(Limits(s)[i], new, c.msg.ts))
                          /\ \A l \in Locations(Limits(s)[i]) :
                                 Cleaned(Limits(s)[i], new, c.msg.ts).rings[l] =
                                     IF new.rings[l][n] >= c.msg.ts - w THEN new.rings[l] ELSE Fresh(n)
        OBVIOUS
      <3> PICK limit : limit = Limits(s)[i]
        OBVIOUS
      <3> PICK now \in Nat : now = c.msg.ts
        BY <1>4
      <3>1. IsLimit(limit) /\ limit.by_source_location /\ Sound(limit, new)
        BY <1>5, <1>7, <2>3, <2>4
      <3>2. n = limit.times /\ w = limit.window
        BY <1>7
      <3>3. /\ Sound(limit, Cleaned(limit, new, now))
            /\ \A l \in Locations(limit) :
                   Cleaned(limit, new, now).rings[l] =
                       IF new.rings[l][limit.times] >= now - limit.window
                       THEN new.rings[l] ELSE Fresh(limit.times)
        BY ONLY <3>1, now \in Nat, CleanedSound
      <3> HIDE DEF n, w
      <3> QED  BY ONLY <3>2, <3>3, limit = Limits(s)[i], now = c.msg.ts
    <2>6. ASSUME NEW l \in Locations(Limits(s)[i]), NEW x \in Nat \ {0}, Remembered(s, Limits(s)[i], x)'
          PROVE  Tallies(limiters'[s][i].rings[l], n, x, Counted(s, i, l, x)')
      <3>1. Remembered(s, Limits(s)[i], x)
        BY <1>2, <2>3, <2>6, RememberedBefore
      <3>2. Tallies(limiters[s][i].rings[l], n, x, Counted(s, i, l, x))
        BY <1>1, <1>7, <3>1 DEF LimiterInv
      <3>3. limiters[s][i].rings[l] \in [1 .. n -> Nat] /\ new.rings[l] \in [1 .. n -> Nat]
        BY <1>7, <2>1, <2>4 DEF Sound
      <3>4. Counted(s, i, l, x)' = IF l = here /\ c.msg.ts >= x THEN Counted(s, i, l, x) + 1
                                   ELSE Counted(s, i, l, x)
        BY <1>7, EvaluateCounted DEF q, k
      <3>5. Counted(s, i, l, x) \in Nat
        BY CountedType
      <3>6. Tallies(new.rings[l], n, x, Counted(s, i, l, x)')
        <4>1. CASE l = here
          <5>1. PICK a \in Nat : a = Counted(s, i, l, x)
            BY <3>5
          <5>2. Tallies(Tail(Placed(limiters[s][i].rings[l], c.msg.ts)), n, x,
                        IF c.msg.ts >= x THEN a + 1 ELSE a)
            BY <1>4, <2>3, <3>2, <3>3, <5>1, PlacedTallies
          <5> QED  BY <2>4, <3>4, <4>1, <5>1, <5>2
        <4>2. CASE l # here
          BY <2>4, <3>2, <3>4, <4>2
        <4> QED  BY <4>1, <4>2
      <3>7. CASE cleans /\ ~ (new.rings[l][n] >= c.msg.ts - w)
        <4>1. x + w >= c.msg.ts
          <5>1. x + w >= horizon' /\ horizon' = Later(horizon, c.msg.ts)
            BY <1>5, <1>7, <2>6, <3>7 DEF Remembered
          <5> QED  BY <1>2, <1>4, <2>3, <5>1 DEF Later
        <4>2. new.rings[l][n] \in Nat
          BY <2>3, <3>3
        <4>3. new.rings[l][n] < x
          BY <1>4, <2>3, <3>7, <4>1, <4>2
        <4>4. Counted(s, i, l, x)' \in Nat
          BY <3>4, <3>5
        <4>5. Counted(s, i, l, x)' = 0
          <5>1. PICK a \in Nat : a = Counted(s, i, l, x)'
            BY <4>4
          <5>2. a = 0
            BY <2>3, <3>3, <3>6, <4>3, <5>1, OldTallies
          <5> QED  BY <5>1, <5>2
        <4>6. Tallies(Fresh(n), n, x, 0)
          BY <2>3, FreshTallies
        <4> QED  BY <2>2, <2>5, <3>7, <4>5, <4>6
      <3>8. CASE ~ (cleans /\ ~ (new.rings[l][n] >= c.msg.ts - w))
        BY <2>2, <2>5, <3>6, <3>8
      <3> QED  BY <3>7, <3>8
    <2>7. Sound(Limits(s)[i], limiters'[s][i])
      BY <2>2, <2>4, <2>5
    <2> QED  BY <1>7, <2>2, <2>6, <2>7 DEF LimiterInv
  <1> QED  BY <1>6, <1>7

\* No limiter of a sequence has counted anything later than TsSecs.
LEMMA TsSecsNewest ==
    ASSUME RoutesInv, NEW s \in Tracked, NEW i \in DOMAIN Limits(s)
    PROVE  TsSecs(s) \in Nat /\ TsSecs(s) >= limiters[s][i].latest
  <1> DEFINE D == DOMAIN Limits(s)
             f == [j \in D |-> limiters[s][j].latest]
             T == {limiters[s][j].latest : j \in D}
             S == T \cup {0}
  <1>1. IsFiniteSet(D)
    <2>1. \E n \in Nat : D = 1 .. n
      BY TrackedLimits, RoutesAssumption DEF AreLimits, IsList, Tracked, Overall, Limits
    <2> QED  BY <2>1, FS_Interval
  <1>2. \A j \in D : limiters[s][j].latest \in Nat
    BY DEF RoutesInv, LimiterInv, Sound
  <1>3. f \in Surjection(D, T)
    BY DEF Surjection
  <1> HIDE DEF f
  <1>4. IsFiniteSet(S) /\ S \in SUBSET Nat /\ S # {}
    <2>1. T \in SUBSET Nat
      BY <1>2
    <2> HIDE DEF T, D
    <2>2. IsFiniteSet(T)
      BY <1>1, <1>3, FS_Surjection
    <2>3. IsFiniteSet({0})
      BY FS_Singleton
    <2>4. IsFiniteSet(T \cup {0})
      BY <2>2, <2>3, FS_Union
    <2> QED  BY <2>1, <2>4
  <1>5. limiters[s][i].latest \in S /\ TsSecs(s) = Max(S)
    BY DEF TsSecs
  <1> HIDE DEF S
  <1> QED  BY <1>4, <1>5, GreatestExists

\* What a cleanup of the origins of a route forgets was too old to matter.
LEMMA RetainLimiters ==
    ASSUME RoutesInv, NEW t \in Threads, Retain(t), NEW s \in Tracked, NEW i \in DOMAIN Limits(s)
    PROVE  LimiterInv(s, i)'
  <1> DEFINE c == task[t]
             now == c.msg.ts
             limit == Limits(s)[i]
             w == limit.window
             n == limit.times
  <1>1. TaskInv(c) /\ DOMAIN limiters = LimiterSequences /\ LimiterInv(s, i)
    BY DEF RoutesInv
  <1>2. horizon \in Nat /\ horizon' \in Nat /\ horizon' >= horizon
    BY HorizonGrows DEF Step, RoutesInv
  <1>3. c.at = "retain" /\ now \in Nat /\ c.route \in DOMAIN Routes /\ horizon' = Later(horizon, now)
    BY <1>1, MessageFacts DEF Retain, TaskInv
  <1>4. s \in LimiterSequences /\ IsLimit(limit) /\ w \in Nat /\ n \in Nat \ {0} /\ n \in 1 .. n
    BY TrackedLimits DEF IsLimit
  <1>5. \A l, x : Counted(s, i, l, x)' = Counted(s, i, l, x)
    BY QuietCounted
  <1>6. \/ limiters'[s] = limiters[s]
        \/ /\ s[1] = c.route /\ limiters'[s] = MakeLimiters(s)
           /\ TsSecs(s) < now - MaxAge
    <2> DEFINE kept == {o \in origins[c.route] : TsSecs(<<c.route, o>>) >= now - MaxAge}
    <2>1. limiters'[s] = IF s[1] = c.route /\ s[2] \in origins[c.route] \ kept THEN MakeLimiters(s)
                         ELSE limiters[s]
      BY <1>4 DEF Retain
    <2>2. CASE s[1] = c.route /\ s[2] \in origins[c.route] \ kept
      <3>1. s[1] # 0
        BY <1>3, <2>2, RoutesAssumption DEF IsList
      <3>2. s = <<c.route, s[2]>> /\ ~ (TsSecs(<<c.route, s[2]>>) >= now - MaxAge)
        BY <2>2, <3>1, TrackedLimits
      <3>3. TsSecs(s) \in Nat /\ MaxAge \in Nat
        BY TsSecsNewest, RoutesAssumption
      <3> HIDE DEF now
      <3> QED  BY <1>3, <2>1, <2>2, <3>2, <3>3
    <2> QED  BY <2>1, <2>2
  <1>7. CASE limiters'[s] = limiters[s]
    <2>1. i \in DOMAIN limiters'[s] /\ limiters'[s][i] = limiters[s][i]
      BY <1>1, <1>7 DEF LimiterInv
    <2> QED  BY <1>2, <1>5, <2>1, SameLimiter
  <1>8. CASE /\ s[1] = c.route /\ limiters'[s] = MakeLimiters(s)
             /\ TsSecs(s) < now - MaxAge
    <2>1. s[1] # 0
      BY <1>3, <1>8, RoutesAssumption DEF IsList
    <2>2. i \in DOMAIN limiters'[s] /\ limiters'[s][i] = MakeLimiter(limit)
      BY <1>8 DEF MakeLimiters
    <2>3. Fresh(n) \in [1 .. n -> Nat] /\ Fresh(n)[n] = 0
      BY <1>4, FreshTallies
    <2>4. /\ Sound(limit, MakeLimiter(limit))
          /\ \A l \in Locations(limit) : MakeLimiter(limit).rings[l] = Fresh(n)
      BY <2>3 DEF MakeLimiter, Sound, Locations
    <2>5. ASSUME NEW l \in Locations(limit), NEW x \in Nat \ {0}, Remembered(s, limit, x)'
          PROVE  Tallies(Fresh(n), n, x, Counted(s, i, l, x))
      <3>1. Remembered(s, limit, x)
        BY <1>2, <1>4, <2>5, RememberedBefore
      <3>2. Tallies(limiters[s][i].rings[l], n, x, Counted(s, i, l, x))
        BY <1>1, <3>1 DEF LimiterInv
      <3>3. /\ limiters[s][i].rings[l] \in [1 .. n -> Nat] /\ limiters[s][i].rings[l][n] \in Nat
            /\ limiters[s][i].rings[l][n] <= limiters[s][i].latest /\ limiters[s][i].latest \in Nat
        BY <1>1, <1>4 DEF LimiterInv, Sound
      <3>4. TsSecs(s) >= limiters[s][i].latest /\ TsSecs(s) \in Nat
        BY TsSecsNewest
      <3>5. w <= MaxAge /\ x + w >= Later(horizon, now)
        BY <1>3, <2>1, <2>5 DEF Remembered
      <3>6. limiters[s][i].rings[l][n] < x
        <4>1. x + w >= now
          BY <1>2, <1>3, <1>4, <3>5 DEF Later
        <4>2. MaxAge \in Nat /\ TsSecs(s) < now - MaxAge
          BY <1>8, RoutesAssumption
        <4>3. PICK newest \in Nat, secs \in Nat, ts \in Nat, window \in Nat, last \in Nat :
                  /\ newest = limiters[s][i].latest /\ secs = TsSecs(s) /\ ts = now /\ window = w
                  /\ last = limiters[s][i].rings[l][n]
          BY <1>3, <1>4, <3>3, <3>4
        <4>4. /\ window <= MaxAge /\ x + window >= ts /\ secs < ts - MaxAge
              /\ last <= newest /\ secs >= newest
          BY <3>3, <3>4, <3>5, <4>1, <4>2, <4>3
        <4>5. last < x
          BY ONLY <4>2, <4>4, x \in Nat \ {0}, newest \in Nat, secs \in Nat, ts \in Nat,
                  window \in Nat, last \in Nat
        <4> QED  BY <4>3, <4>5
      <3>7. PICK a \in Nat : a = Counted(s, i, l, x)
        BY CountedType
      <3>8. a = 0
        BY <1>4, <3>2, <3>3, <3>6, <3>7, OldTallies
      <3> QED  BY <1>4, <3>7, <3>8, FreshTallies
    <2> QED  BY <1>5, <2>2, <2>4, <2>5 DEF LimiterInv
  <1> QED  BY <1>6, <1>7, <1>8

-----------------------------------------------------------------------------
(* The cap.                                                                *)

\* The checks that are over were of messages.
LEMMA CheckMessages ==
    ASSUME MessageInv, NEW e \in Checks
    PROVE  e[1].msg \in Messages /\ e[1].msg.ts \in Nat
  <1>1. e[1] \in DOMAIN outcomes
    BY DEF Checks, BagToSet
  <1> QED  BY <1>1, MessageFacts DEF MessageInv

\* There are finitely many checks, over or not, and all are of messages.
LEMMA StepFinite ==
    ASSUME RoutesInv, NEW t \in Threads, Step(t) \/ \E m \in Messages : Arrive(t, m)
    PROVE  IsFiniteSet(Busy)' /\ IsFiniteSet(Checks)' /\ BagInv' /\ MessageInv'
  <1>1. IsFiniteSet(Busy) /\ IsFiniteSet(Checks) /\ BagInv /\ MessageInv /\ TaskInv(task[t])
    BY DEF RoutesInv
  <1>2. IsFiniteSet(Busy)'
    <2>1. PICK B : B = Busy'
      OBVIOUS
    <2>2. B \in SUBSET (Busy \cup {t})
      BY <2>1, StepTask DEF Busy
    <2>3. IsFiniteSet(Busy \cup {t})
      BY <1>1, FS_AddElement
    <2>4. IsFiniteSet(B)
      BY <2>2, <2>3, FS_Subset
    <2> QED  BY <2>1, <2>4
  <1>3. CASE outcomes' = outcomes
    <2>1. Checks' = Checks
      BY <1>3 DEF Checks, BagToSet
    <2> QED  BY <1>1, <1>2, <1>3, <2>1 DEF BagInv, MessageInv
  <1>4. ASSUME NEW result, Result(t, result), task[t].at # "idle"
        PROVE  IsFiniteSet(Checks)' /\ BagInv' /\ MessageInv'
    <2>1. /\ BagInv'
          /\ DOMAIN outcomes' = DOMAIN outcomes \cup {[msg |-> task[t].msg, result |-> result]}
          /\ \E e : /\ e \notin Checks /\ Checks' = Checks \cup {e}
                    /\ e[1] = [msg |-> task[t].msg, result |-> result]
      BY <1>1, <1>4, ResultChecks
    <2>2. IsFiniteSet(Checks)'
      BY <1>1, <2>1, FS_AddElement
    <2>3. MessageInv'
      BY <1>1, <1>4, <2>1 DEF MessageInv, TaskInv
    <2> QED  BY <2>1, <2>2, <2>3
  <1>5. CASE NoRoutePassed(t) \/ Conclude(t)
    <2>1. PICK result : Result(t, result) /\ task[t].at # "idle"
      BY <1>5 DEF NoRoutePassed, Conclude
    <2> QED  BY <1>2, <1>4, <2>1
  <1> QED  BY <1>3, <1>5 DEF Step, EnterRoute, SomeRoutePassed, SkipClean, Evaluate, Retain,
              StartClean, RouteDone, Arrive

\* What an overall limit caps is finite.
LEMMA CappedType ==
    ASSUME RoutesInv, NEW i
    PROVE  /\ IsFiniteSet(Alerts(i)) /\ Cardinality(Alerts(i)) \in Nat
           /\ IsFiniteSet(Coming(i)) /\ Cardinality(Coming(i)) \in Nat
  <1>1. Alerts(i) \in SUBSET Checks /\ IsFiniteSet(Checks) /\ IsFiniteSet(Busy)
    BY DEF Alerts, RoutesInv
  <1>2. Coming(i) \in SUBSET Busy
    BY IdleFacts DEF Coming, Busy
  <1>3. IsFiniteSet(Alerts(i)) /\ IsFiniteSet(Coming(i))
    BY <1>1, <1>2, FS_Subset
  <1> QED  BY <1>3, FS_CardinalityType

\* Fewer are not more.
LEMMA SumShrinks ==
    ASSUME NEW A, NEW B, IsFiniteSet(A), IsFiniteSet(B), NEW C \in SUBSET A, NEW D \in SUBSET B,
           NEW n \in Int, Cardinality(A) + Cardinality(B) <= n
    PROVE  Cardinality(C) + Cardinality(D) <= n
  <1>1. /\ Cardinality(A) \in Nat /\ Cardinality(B) \in Nat
        /\ Cardinality(C) \in Nat /\ Cardinality(D) \in Nat
    BY FS_Subset, FS_CardinalityType
  <1>2. Cardinality(C) <= Cardinality(A) /\ Cardinality(D) <= Cardinality(B)
    BY FS_Subset
  <1> QED  BY <1>1, <1>2

LEMMA CappedShrinks ==
    ASSUME RoutesInv, NEW i \in DOMAIN OverallLimits,
           Alerts(i)' \subseteq Alerts(i), Coming(i)' \subseteq Coming(i)
    PROVE  Capped(i)'
  <1> SUFFICES ASSUME ~OverallLimits[i].ge, ~OverallLimits[i].by_source_location
               PROVE  Cardinality(Alerts(i)') + Cardinality(Coming(i)') <= OverallLimits[i].times
    BY DEF Capped
  <1>1. PICK C \in SUBSET Alerts(i), D \in SUBSET Coming(i) : C = Alerts(i)' /\ D = Coming(i)'
    OBVIOUS
  <1>2. Cardinality(Alerts(i)) + Cardinality(Coming(i)) <= OverallLimits[i].times
    BY DEF RoutesInv, Capped
  <1>3. OverallLimits[i].times \in Int
    BY RoutesAssumption DEF AreLimits, IsLimit
  <1>4. Cardinality(C) + Cardinality(D) <= OverallLimits[i].times
    BY <1>2, <1>3, CappedType, SumShrinks
  <1> QED  BY <1>1, <1>4

\* A limiter that lets a message through has counted fewer than its limit in the window
\* that the message comes into.
LEMMA EvaluateCapped ==
    ASSUME RoutesInv, NEW t \in Threads, Evaluate(t), NEW i \in DOMAIN OverallLimits
    PROVE  Capped(i)'
  <1> DEFINE c == task[t]
             q == Current(c)
             k == Min(c.todo)
             limit == Limits(q)[k]
             here == Location(limit, c.msg)
             old == limiters[q][k]
             all == Placed(old.rings[here], c.msg.ts)
             new == Put(limit, old, c.msg)
             passes == Passes(limit, Head(all), Last(all))
             d == [c EXCEPT !.todo = Remaining(c, passes), !.first = FirstBlocked(c, passes)]
  <1>1. TaskInv(c) /\ DOMAIN limiters = LimiterSequences /\ task = [u \in Threads |-> task[u]]
    BY DEF RoutesInv
  <1>2. /\ c.at \in {"origin", "global", "overall"} /\ c.todo # {} /\ Update(t, d)
        /\ UNCHANGED outcomes
        /\ \E cleans \in BOOLEAN :
               /\ cleans => limit.by_source_location
               /\ limiters' = [limiters EXCEPT ![q][k] =
                      IF cleans THEN Cleaned(limit, new, c.msg.ts) ELSE new]
    BY DEF Evaluate, Put
  <1>3. c.msg \in Messages /\ c.msg.ts \in Nat /\ Checks' = Checks /\ MessageInv
    <2>1. c.msg \in Messages /\ c.msg.ts \in Nat
      BY <1>1, <1>2, MessageFacts DEF TaskInv
    <2>2. outcomes' = outcomes
      BY ONLY <1>2
    <2>3. Checks' = Checks
      BY ONLY <2>2 DEF Checks, BagToSet
    <2> QED  BY <2>1, <2>3 DEF RoutesInv
  <1>4. PICK cleans \in BOOLEAN :
              /\ cleans => limit.by_source_location
              /\ limiters' = [limiters EXCEPT ![q][k] =
                     IF cleans THEN Cleaned(limit, new, c.msg.ts) ELSE new]
    BY <1>2
  <1> HIDE DEF passes, new, q, k
  <1>5. /\ d.at = c.at /\ d.msg = c.msg /\ d.todo = c.todo \ {k}
        /\ d.first = FirstBlocked(c, passes)
    BY <1>1 DEF TaskInv, Remaining, k
  <1> HIDE DEF d
  <1>6. \A u \in Threads : task'[u] = IF u = t THEN d ELSE task[u]
    BY <1>1, <1>2 DEF Update
  <1>7. Overall \in Tracked /\ Limits(Overall) = OverallLimits /\ Overall[1] = 0
    BY DEF Tracked, Overall, Limits
  <1>8. LimiterInv(Overall, i) /\ i \in DOMAIN limiters[Overall] /\ Overall \in DOMAIN limiters
    BY <1>1, <1>7, TrackedLimits DEF RoutesInv, LimiterInv
  <1>9. i # 0 /\ IsLimit(OverallLimits[i])
    BY <1>7, TrackedLimits
  <1>10. d.first = 0 /\ q = Overall => passes /\ c.first = 0
    <2>1. q = Overall => k # 0
      BY <1>1, <1>2, <1>7, NextLimiter DEF q, k
    <2> QED  BY <1>5, <2>1 DEF FirstBlocked, k
  <1>11. c.at = "overall" <=> q = Overall
    <2>1. c.at # "overall" => c.route \in DOMAIN Routes /\ 0 \notin DOMAIN Routes
      BY <1>1, <1>2, RoutesAssumption DEF TaskInv, IsList
    <2>2. c.at # "overall" => q[1] = c.route
      BY DEF Current, q
    <2>3. c.at = "overall" => q = Overall
      BY DEF Current, q, Overall
    <2> QED  BY <1>7, <2>1, <2>2, <2>3
  <1>12. CASE ~ (q = Overall /\ i = k)
    <2>1. limiters'[Overall][i] = limiters[Overall][i]
      BY <1>4, <1>8, <1>12
    <2>2. Alerts(i)' = Alerts(i)
      BY <1>3, <2>1 DEF Alerts, InWindow
    <2>3. Coming(i)' \subseteq Coming(i)
      BY <1>5, <1>6, <1>10, <1>11, <1>12, <2>1 DEF Coming, InWindow
    <2> QED  BY <2>2, <2>3, CappedShrinks
  <1>13. CASE q = Overall /\ i = k
    <2> SUFFICES ASSUME ~OverallLimits[i].ge, ~OverallLimits[i].by_source_location
                 PROVE  Capped(i)'
      BY DEF Capped
    <2> DEFINE newest == limiters'[Overall][i].latest
               w == OverallLimits[i].window
               n == OverallLimits[i].times
    <2>1. limit = OverallLimits[i] /\ old = limiters[Overall][i] /\ Sound(limit, old) /\ IsLimit(limit)
      BY <1>7, <1>8, <1>9, <1>13 DEF LimiterInv
    <2>2. limiters'[Overall][i] = new
      BY <1>4, <1>8, <1>13, <2>1
    <2>3. /\ newest = Later(old.latest, c.msg.ts) /\ here \in Locations(limit)
          /\ old.latest \in Nat /\ n \in Nat \ {0} /\ n \in 1 .. n /\ 1 \in 1 .. n /\ w \in Nat
      <3>1. new.latest = Later(old.latest, c.msg.ts) /\ here \in Locations(limit)
        BY <1>3, <2>1, PutSound DEF new
      <3> QED  BY <2>1, <2>2, <3>1 DEF Sound, IsLimit
    <2>4. newest \in Nat /\ newest >= old.latest /\ newest >= c.msg.ts
      BY <1>3, <2>3 DEF Later
    <2> HIDE DEF newest
    <2> DEFINE Within(m) == Matches(OverallLimits[i].filter, m) /\ m.ts + w >= newest
    <2>5. \A m : InWindow(i, m)' <=> Within(m)
      BY DEF InWindow, newest
    <2>6. \A m : InWindow(i, m) <=> Matches(OverallLimits[i].filter, m) /\ m.ts + w >= old.latest
      BY <2>1 DEF InWindow
    <2>7. \A m \in Messages : Within(m) => InWindow(i, m)
      BY <2>3, <2>4, <2>6, MessageFacts
    <2>8. Alerts(i)' = {e \in Checks : e[1].result[1] = "Passed" /\ Within(e[1].msg)}
      BY <1>3, <2>5 DEF Alerts
    <2>9. Alerts(i)' \subseteq Alerts(i)
      BY <1>3, <2>7, <2>8, CheckMessages DEF Alerts
    <2>10. \A u \in Threads : task[u].at = "overall" => task[u].msg \in Messages
      BY DEF RoutesInv, TaskInv
    <2>11. \A u \in Threads : u \in Coming(i)' <=>
              IF u = t THEN d.at = "overall" /\ d.first = 0 /\ i \notin d.todo /\ Within(d.msg)
              ELSE task[u].at = "overall" /\ task[u].first = 0 /\ i \notin task[u].todo
                       /\ Within(task[u].msg)
      <3>1. \A u \in Threads : u \in Coming(i)' <=>
                /\ task'[u].at = "overall" /\ task'[u].first = 0 /\ i \notin task'[u].todo
                /\ Within(task'[u].msg)
        BY DEF Coming, InWindow, newest
      <3> HIDE DEF Within
      <3> QED  BY <1>6, <3>1
    <2>12. Coming(i)' \subseteq Threads
      BY DEF Coming
    <2> HIDE DEF Within
    <2>13. CASE t \notin Coming(i)'
      <3>1. Coming(i)' \subseteq Coming(i)
        <4>1. ASSUME NEW u \in Threads, u \in Coming(i)', u # t PROVE u \in Coming(i)
          BY <2>7, <2>10, <2>11, <4>1 DEF Coming
        <4> QED  BY <2>12, <2>13, <4>1
      <3> QED  BY <2>9, <3>1, CappedShrinks
    <2>14. CASE t \in Coming(i)'
      <3>1. passes /\ c.at = "overall" /\ c.msg.ts + w >= newest
        <4>1. d.first = 0 /\ c.at = "overall" /\ Within(c.msg)
          BY <1>5, <2>11, <2>14
        <4> QED  BY <1>10, <1>13, <4>1 DEF Within
      <3>2. /\ old.rings[here] \in [1 .. n -> Nat] /\ old.rings[here][1] \in Nat
            /\ old.rings[here][n] = old.latest
        BY <2>1, <2>3 DEF Sound
      <3>3. /\ Head(all) = IF old.rings[here][1] <= c.msg.ts THEN old.rings[here][1] ELSE c.msg.ts
            /\ Last(all) = IF old.latest <= c.msg.ts THEN c.msg.ts ELSE old.latest
        <4>1. PICK ring \in [1 .. n -> Nat], x \in Nat :
                  ring = old.rings[here] /\ x = c.msg.ts /\ ring[n] = old.latest
          BY <1>3, <3>2
        <4>2. /\ Head(Placed(ring, x)) = IF ring[1] <= x THEN ring[1] ELSE x
              /\ Last(Placed(ring, x)) = IF ring[n] <= x THEN x ELSE ring[n]
          <5>1. PICK size \in Nat \ {0} : size = n
            BY <2>3
          <5>2. /\ Head(Placed(ring, x)) = IF ring[1] <= x THEN ring[1] ELSE x
                /\ Last(Placed(ring, x)) = IF ring[size] <= x THEN x ELSE ring[size]
            BY ONLY <5>1, PlacedIn, size \in Nat \ {0}, ring \in [1 .. n -> Nat], x \in Nat
          <5> QED  BY <5>1, <5>2
        <4> QED  BY <4>1, <4>2
      <3>4. ~ (Head(all) + w >= Last(all))
        BY <2>1, <3>1 DEF Passes, passes, IsLimit
      <3>5. PICK ring1 \in Nat, ts \in Nat, latest \in Nat :
                ring1 = old.rings[here][1] /\ ts = c.msg.ts /\ latest = old.latest
        BY <1>3, <2>3, <3>2
      <3>6. newest = (IF latest <= ts THEN ts ELSE latest)
        BY <2>3, <3>5 DEF Later
      <3>7. ~ ((IF ring1 <= ts THEN ring1 ELSE ts) + w >= newest) /\ ts + w >= newest
        BY <2>1, <3>1, <3>3, <3>4, <3>5, <3>6
      <3>8. PICK v \in Nat \ {0} : v = newest - w /\ ring1 < v
        <4>1. newest - w \in Nat \ {0} /\ ring1 < newest - w
          BY ONLY <2>3, <2>4, <3>7, ring1 \in Nat, ts \in Nat
        <4> QED  BY <4>1
      <3>9. Tallies(old.rings[here], n, v, Counted(Overall, i, here, v))
        BY <1>7, <1>8, <2>1, <2>3 DEF LimiterInv, Remembered
      <3>10. PICK a \in Nat, p \in Nat, r \in Nat :
                 /\ a = Counted(Overall, i, here, v) /\ a = p + r
                 /\ p = Since(Past(Overall, i, here), v)
                 /\ r = Cardinality(Present(Overall, i, here, v))
        BY <1>7, CountedType DEF Counted
      <3>11. a <= n - 1
        <4>1. ring1 >= v <=> a > n - 1
          BY <2>3, <3>5, <3>9, <3>10 DEF Tallies
        <4> QED  BY ONLY <2>3, <3>8, <4>1, ring1 \in Nat, a \in Nat
      <3>12. \A m \in Messages : Within(m) => Heeds(Overall, i, here, m) /\ m.ts >= v
        <4>1. TAKE m \in Messages
        <4>2. Location(limit, m) = here
          BY <2>1 DEF Location
        <4>3. m.ts + w >= newest => m.ts >= v
          BY <2>3, <2>4, <3>8, MessageFacts
        <4> QED  BY <1>7, <2>1, <4>2, <4>3 DEF Heeds, Within
      <3> DEFINE P == {e \in Past(Overall, i, here) : e[1].msg.ts >= v}
                 R == Present(Overall, i, here, v)
      <3>13. Alerts(i)' \subseteq P
        BY <1>3, <1>7, <2>8, <3>12, CheckMessages DEF Past
      <3>14. Coming(i)' \ {t} \subseteq R
        <4>1. ASSUME NEW u \in Threads, u \in Coming(i)', u # t PROVE u \in R
          BY <1>7, <2>10, <2>11, <3>12, <4>1 DEF Present, CountsSince, Evaluated
        <4> QED  BY <2>12, <4>1
      <3>15. IsFiniteSet(P) /\ IsFiniteSet(R) /\ Cardinality(P) = p /\ Cardinality(R) = r
        BY <1>7, <3>10, CountedType, SinceType DEF Since
      <3> HIDE DEF P, R
      <3>16. PICK A \in SUBSET P, B \in SUBSET R : A = Alerts(i)' /\ B = Coming(i)' \ {t}
        BY <3>13, <3>14
      <3>17. Cardinality(A) + Cardinality(B) <= n - 1
        <4>1. n - 1 \in Int /\ Cardinality(P) + Cardinality(R) <= n - 1
          BY <2>3, <3>10, <3>11, <3>15
        <4> QED  BY <3>15, <3>16, <4>1, SumShrinks
      <3>18. /\ IsFiniteSet(A) /\ Cardinality(A) \in Nat
             /\ IsFiniteSet(B) /\ Cardinality(B) \in Nat
        BY <3>15, <3>16, FS_Subset, FS_CardinalityType
      <3>19. Coming(i)' = B \cup {t} /\ t \notin B
        BY <2>14, <3>16
      <3>20. Cardinality(B \cup {t}) = Cardinality(B) + 1
        BY <3>18, <3>19, FS_AddElement
      <3>21. Cardinality(Alerts(i)') + Cardinality(Coming(i)') <= n
        <4>1. Cardinality(A) + Cardinality(B \cup {t}) <= n
          BY <2>3, <3>17, <3>18, <3>20
        <4> QED  BY <3>16, <3>19, <4>1
      <3> QED  BY <3>21 DEF Capped
    <2> QED  BY <2>13, <2>14
  <1> QED  BY <1>12, <1>13

\* A thread that has passed all the overall limits becomes an alert.
LEMMA ConcludeCapped ==
    ASSUME RoutesInv, NEW t \in Threads, Conclude(t), NEW i \in DOMAIN OverallLimits
    PROVE  Capped(i)'
  <1> DEFINE c == task[t]
  <1>1. PICK result : /\ Result(t, result) /\ limiters' = limiters
                      /\ c.at = "overall" /\ c.todo = {}
                      /\ result[1] = IF c.first # 0 THEN "OverallLimiter" ELSE "Passed"
    BY DEF Conclude
  <1>2. BagInv /\ IsFiniteSet(Checks) /\ task = [u \in Threads |-> task[u]]
    BY DEF RoutesInv
  <1>3. PICK e : e \notin Checks /\ Checks' = Checks \cup {e} /\ e[1].msg = c.msg /\ e[1].result = result
    <2>1. PICK e : /\ e \notin Checks /\ Checks' = Checks \cup {e}
                   /\ e[1] = [msg |-> c.msg, result |-> result]
      BY ONLY <1>1, <1>2, ResultChecks
    <2> QED  BY <2>1
  <1>4. \A u \in Threads : task'[u] = IF u = t THEN Idle ELSE task[u]
    BY <1>1, <1>2 DEF Result, Update
  <1>5. \A m : InWindow(i, m)' <=> InWindow(i, m)
    BY <1>1 DEF InWindow
  <1>6. t \in Coming(i) <=> c.first = 0 /\ InWindow(i, c.msg)
    BY <1>1 DEF Coming
  <1>7. Alerts(i)' = IF t \in Coming(i) THEN Alerts(i) \cup {e} ELSE Alerts(i)
    <2>1. Alerts(i)' = {a \in Checks \cup {e} : a[1].result[1] = "Passed" /\ InWindow(i, a[1].msg)}
      BY <1>3, <1>5 DEF Alerts
    <2>2. e[1].result[1] = "Passed" /\ InWindow(i, e[1].msg) <=> t \in Coming(i)
      BY <1>1, <1>3, <1>6
    <2> QED  BY <2>1, <2>2 DEF Alerts
  <1>8. Coming(i)' = Coming(i) \ {t}
    <2>1. \A u \in Threads : u \in Coming(i)' <=>
              /\ task'[u].at = "overall" /\ task'[u].first = 0 /\ i \notin task'[u].todo
              /\ InWindow(i, task'[u].msg)
      BY <1>1 DEF Coming, InWindow
    <2>2. Coming(i)' \subseteq Threads
      BY DEF Coming
    <2>3. ASSUME NEW u \in Threads PROVE u \in Coming(i)' <=> u \in Coming(i) /\ u # t
      BY <1>4, <2>1, IdleFacts DEF Coming
    <2>4. Coming(i) \subseteq Threads
      BY DEF Coming
    <2> QED  BY <2>2, <2>3, <2>4
  <1>9. CASE t \notin Coming(i)
    BY <1>7, <1>8, <1>9, CappedShrinks
  <1>10. CASE t \in Coming(i)
    <2>1. /\ IsFiniteSet(Alerts(i)) /\ Cardinality(Alerts(i)) \in Nat
          /\ IsFiniteSet(Coming(i)) /\ Cardinality(Coming(i)) \in Nat
      BY CappedType
    <2>2. e \notin Alerts(i)
      BY <1>3 DEF Alerts
    <2>3. Cardinality(Alerts(i)') = Cardinality(Alerts(i)) + 1
      BY <1>7, <1>10, <2>1, <2>2, FS_AddElement
    <2>4. Cardinality(Coming(i)') = Cardinality(Coming(i)) - 1
      BY <1>8, <1>10, <2>1, FS_RemoveElement
    <2>5. Cardinality(Alerts(i)') + Cardinality(Coming(i)') = Cardinality(Alerts(i)) + Cardinality(Coming(i))
      BY <2>1, <2>3, <2>4
    <2>6. Capped(i)
      BY DEF RoutesInv
    <2> QED  BY <2>5, <2>6 DEF Capped
  <1> QED  BY <1>9, <1>10

\* No other step makes alerts, or lets a message pass an overall limit.
LEMMA QuietCapped ==
    ASSUME RoutesInv, NEW t \in Threads, NEW i \in DOMAIN OverallLimits,
           \/ EnterRoute(t) \/ NoRoutePassed(t) \/ SomeRoutePassed(t) \/ SkipClean(t)
           \/ StartClean(t) \/ Retain(t) \/ RouteDone(t)
           \/ \E m \in Messages : Arrive(t, m)
    PROVE  Capped(i)'
  <1> DEFINE c == task[t]
  <1>1. TaskInv(c) /\ BagInv /\ IsFiniteSet(Checks) /\ task = [u \in Threads |-> task[u]]
    BY DEF RoutesInv
  <1>2. limiters'[Overall] = limiters[Overall]
    <2>1. CASE Retain(t)
      <3>1. c.route \in DOMAIN Routes /\ 0 \notin DOMAIN Routes
        BY <1>1, <2>1, RoutesAssumption DEF Retain, TaskInv, IsList
      <3>2. Overall \in LimiterSequences /\ Overall[1] = 0
        BY DEF LimiterSequences, Overall
      <3> QED  BY <2>1, <3>1, <3>2 DEF Retain
    <2>2. CASE limiters' = limiters
      BY <2>2
    <2> QED  BY <2>1, <2>2 DEF EnterRoute, NoRoutePassed, SomeRoutePassed, SkipClean, StartClean,
                RouteDone, Arrive
  <1>3. \A m : InWindow(i, m)' <=> InWindow(i, m)
    BY <1>2 DEF InWindow
  <1>4. Alerts(i)' = Alerts(i)
    <2>1. CASE NoRoutePassed(t)
      <3>1. PICK result : Result(t, result) /\ result[1] # "Passed"
        BY <2>1 DEF NoRoutePassed
      <3>2. PICK e : Checks' = Checks \cup {e} /\ e[1] = [msg |-> c.msg, result |-> result]
        BY ONLY <1>1, <3>1, ResultChecks
      <3>3. e[1].result[1] # "Passed"
        BY <3>1, <3>2
      <3> QED  BY <1>3, <3>2, <3>3 DEF Alerts
    <2>2. CASE outcomes' = outcomes
      <3>1. Checks' = Checks
        BY <2>2 DEF Checks, BagToSet
      <3> QED  BY <1>3, <3>1 DEF Alerts
    <2> QED  BY <2>1, <2>2 DEF EnterRoute, SomeRoutePassed, SkipClean, StartClean, Retain,
                RouteDone, Arrive
  <1>5. t \notin Coming(i)'
    <2> SUFFICES ASSUME task'[t].at = "overall", i \notin task'[t].todo
                 PROVE  ~Matches(OverallLimits[i].filter, task'[t].msg)
      BY DEF Coming, InWindow
    <2>1. CASE SomeRoutePassed(t)
      <3> DEFINE d == Begin(c, "overall", <<0, Everywhere>>)
      <3>1. d.todo = Matching(<<0, Everywhere>>, c.msg) /\ d.msg = c.msg
        BY <1>1 DEF Begin, TaskInv
      <3>2. task'[t] = d
        BY <1>1, <2>1 DEF SomeRoutePassed, Update
      <3>3. Limits(<<0, Everywhere>>) = OverallLimits
        BY DEF Limits
      <3> HIDE DEF d
      <3>4. i \in d.todo <=> Matches(OverallLimits[i].filter, d.msg)
        BY <3>1, <3>3 DEF Matching
      <3> QED  BY <3>2, <3>4
    <2>2. CASE NoRoutePassed(t)
      BY <1>1, <2>2, IdleFacts DEF NoRoutePassed, Result, Update
    <2>3. ASSUME NEW d, Update(t, d), d.at # "overall" PROVE FALSE
      BY <1>1, <2>3 DEF Update
    <2>4. CASE EnterRoute(t)
      <3> DEFINE r == Min(RoutesLeft(c))
                 d == Begin([c EXCEPT !.route = r], "origin", <<r, c.msg.origin>>)
      <3>1. d.at = "origin" /\ Update(t, d)
        BY <1>1, <2>4 DEF Begin, TaskInv, EnterRoute
      <3> HIDE DEF d
      <3> QED  BY <2>3, <3>1
    <2>5. CASE StartClean(t)
      <3> DEFINE d == [c EXCEPT !.at = "retain"]
      <3>1. d.at = "retain" /\ Update(t, d)
        BY <1>1, <2>5 DEF TaskInv, StartClean
      <3> HIDE DEF d
      <3> QED  BY <2>3, <3>1
    <2>6. CASE SkipClean(t) \/ Retain(t)
      <3> DEFINE b == Begin(c, "global", <<c.route, Everywhere>>)
                 d == [c EXCEPT !.at = "routes", !.failures =
                          Append(@, <<c.route, "Limiter", c.first>>)]
      <3>1. b.at = "global" /\ d.at = "routes"
        BY <1>1 DEF Begin, TaskInv
      <3>2. Update(t, b) \/ Update(t, d)
        BY <2>6 DEF SkipClean, Retain, AfterOrigin
      <3> HIDE DEF b, d
      <3> QED  BY <2>3, <3>1, <3>2
    <2>7. CASE RouteDone(t)
      <3> DEFINE b == [c EXCEPT !.at = "routes", !.passed = IF @ = 0 THEN c.route ELSE @]
                 d == [c EXCEPT !.at = "routes", !.failures =
                          Append(@, <<c.route, "GlobalLimiter", c.first>>)]
      <3>1. b.at = "routes" /\ d.at = "routes"
        BY <1>1 DEF TaskInv
      <3>2. Update(t, b) \/ Update(t, d)
        BY <2>7 DEF RouteDone
      <3> HIDE DEF b, d
      <3> QED  BY <2>3, <3>1, <3>2
    <2>8. CASE \E m \in Messages : Arrive(t, m)
      <3>1. PICK m \in Messages : Arrive(t, m)
        BY <2>8
      <3> DEFINE d == [Idle EXCEPT !.at = "routes", !.msg = m]
      <3>2. d.at = "routes"
        BY IdleFacts
      <3>3. Update(t, d)
        BY ONLY <3>1 DEF Arrive
      <3> HIDE DEF d
      <3> QED  BY <2>3, <3>2, <3>3
    <2> QED  BY <2>1, <2>2, <2>4, <2>5, <2>6, <2>7, <2>8
  <1>6. \A u \in Threads \ {t} : task'[u] = task[u]
    BY StepTask DEF Step
  <1>7. Coming(i)' \subseteq Coming(i)
    <2>1. \A u \in Coming(i)' : /\ u \in Threads /\ u # t
                                /\ task'[u].at = "overall" /\ task'[u].first = 0
                                /\ i \notin task'[u].todo /\ InWindow(i, task'[u].msg)
      BY <1>2, <1>5 DEF Coming, InWindow
    <2> QED  BY <1>6, <2>1 DEF Coming
  <1> QED  BY <1>4, <1>7, CappedShrinks

\* Limiters change only when they are evaluated or cleared away.
LEMMA OnlyLimiters ==
    ASSUME NEW t \in Threads, Step(t) \/ \E m \in Messages : Arrive(t, m),
           ~Evaluate(t), ~Retain(t)
    PROVE  limiters' = limiters
  <1>1. CASE EnterRoute(t)
    BY ONLY <1>1 DEF EnterRoute
  <1>2. CASE NoRoutePassed(t) \/ SomeRoutePassed(t)
    BY ONLY <1>2 DEF NoRoutePassed, SomeRoutePassed
  <1>3. CASE SkipClean(t) \/ StartClean(t)
    BY ONLY <1>3 DEF SkipClean, StartClean
  <1>4. CASE RouteDone(t)
    BY ONLY <1>4 DEF RouteDone
  <1>5. CASE Conclude(t)
    BY ONLY <1>5 DEF Conclude
  <1>6. CASE \E m \in Messages : Arrive(t, m)
    <2>1. PICK m \in Messages : Arrive(t, m)
      BY <1>6
    <2> QED  BY ONLY <2>1 DEF Arrive
  <1> QED  BY <1>1, <1>2, <1>3, <1>4, <1>5, <1>6 DEF Step

-----------------------------------------------------------------------------
\* In every state, each ring stands for the messages that have been counted in it, and
\* the alerts of an overall limit and those to come are not more than it allows.
THEOREM RoutesInvCorrect == Spec => []RoutesInv
  <1>1. Init => RoutesInv
    <2> SUFFICES ASSUME Init PROVE RoutesInv
      OBVIOUS
    <2>1. /\ task = [t \in Threads |-> Idle] /\ horizon = 0 /\ DOMAIN limiters = LimiterSequences
          /\ limiters = [s \in LimiterSequences |-> MakeLimiters(s)]
      BY DEF Init
    <2>2. outcomes = [e \in {} |-> 1] /\ Checks = {}
      BY DEF Init, EmptyBag, SetToBag, Checks, BagToSet
    <2>3. BagInv /\ MessageInv
      BY <2>2 DEF BagInv, MessageInv
    <2>4. Busy = {} /\ IsFiniteSet(Busy) /\ IsFiniteSet(Checks)
      BY <2>1, <2>2, FS_EmptySet DEF Busy
    <2>5. \A t \in Threads : TaskInv(task[t])
      BY <2>1, IdleFacts
    <2>6. ASSUME NEW s \in Tracked, NEW i \in DOMAIN Limits(s) PROVE LimiterInv(s, i)
      <3> DEFINE limit == Limits(s)[i]
                 n == limit.times
      <3>1. IsLimit(limit) /\ n \in Nat \ {0} /\ n \in 1 .. n
        BY TrackedLimits DEF IsLimit
      <3>2. Fresh(n) \in [1 .. n -> Nat] /\ Fresh(n)[n] = 0
        BY <3>1, FreshTallies
      <3>3. i \in DOMAIN limiters[s] /\ limiters[s][i] = MakeLimiter(limit)
        BY <2>1, TrackedLimits DEF MakeLimiters
      <3>4. /\ Sound(limit, MakeLimiter(limit))
            /\ \A l \in Locations(limit) : MakeLimiter(limit).rings[l] = Fresh(n)
        BY <3>2 DEF MakeLimiter, Sound, Locations
      <3>5. ASSUME NEW l, NEW x PROVE Counted(s, i, l, x) = 0
        <4>1. Present(s, i, l, x) = {}
          BY <2>1, IdleCounts DEF Present
        <4>2. {e \in Past(s, i, l) : e[1].msg.ts >= x} = {}
          BY <2>2 DEF Past
        <4>3. Cardinality(Present(s, i, l, x)) = 0 /\ Since(Past(s, i, l), x) = 0
          BY <4>1, <4>2, FS_EmptySet DEF Since
        <4> QED  BY ONLY <4>3 DEF Counted
      <3>6. \A x \in Nat \ {0} : Tallies(Fresh(n), n, x, 0)
        BY <3>1, FreshTallies
      <3> QED  BY <3>3, <3>4, <3>5, <3>6 DEF LimiterInv
    <2>7. ASSUME NEW i \in DOMAIN OverallLimits PROVE Capped(i)
      <3>1. Alerts(i) = {} /\ Coming(i) = {}
        BY <2>1, <2>2, IdleFacts DEF Alerts, Coming
      <3>2. OverallLimits[i].times \in Nat
        BY RoutesAssumption DEF AreLimits, IsLimit
      <3> QED  BY <3>1, <3>2, FS_EmptySet DEF Capped
    <2> QED  BY <2>1, <2>3, <2>4, <2>5, <2>6, <2>7 DEF RoutesInv
  <1>2. RoutesInv /\ [Next]_vars => RoutesInv'
    <2> SUFFICES ASSUME RoutesInv, [Next]_vars PROVE RoutesInv'
      OBVIOUS
    <2>1. ASSUME NEW t \in Threads, Step(t) \/ \E m \in Messages : Arrive(t, m) PROVE RoutesInv'
      <3>1. horizon \in Nat /\ horizon' \in Nat /\ horizon' >= horizon
        BY <2>1, HorizonGrows DEF RoutesInv
      <3>2. IsFiniteSet(Busy)' /\ IsFiniteSet(Checks)' /\ BagInv' /\ MessageInv'
        BY <2>1, StepFinite
      <3>3. task' = [u \in Threads |-> task'[u]] /\ \A u \in Threads : TaskInv(task'[u])
        BY <2>1, StepTask DEF RoutesInv
      <3>4. DOMAIN limiters' = LimiterSequences
        <4>1. DOMAIN limiters = LimiterSequences
          BY DEF RoutesInv
        <4>2. CASE Evaluate(t)
          BY <4>1, <4>2 DEF Evaluate
        <4>3. CASE Retain(t)
          BY <4>3 DEF Retain
        <4>4. CASE ~Evaluate(t) /\ ~Retain(t)
          BY <2>1, <4>1, <4>4, OnlyLimiters
        <4> QED  BY <4>2, <4>3, <4>4
      <3>5. ASSUME NEW s \in Tracked, NEW i \in DOMAIN Limits(s) PROVE LimiterInv(s, i)'
        <4>1. CASE Evaluate(t)
          BY <4>1, EvaluateLimiters
        <4>2. CASE Retain(t)
          BY <4>2, RetainLimiters
        <4>3. CASE ~Evaluate(t) /\ ~Retain(t)
          <5>1. limiters' = limiters
            BY <2>1, <4>3, OnlyLimiters
          <5>2. i \in DOMAIN limiters[s]
            BY DEF RoutesInv, LimiterInv
          <5>3. \A l, x : Counted(s, i, l, x)' = Counted(s, i, l, x)
            BY <2>1, <4>3, QuietCounted DEF Step
          <5> QED  BY <3>1, <5>1, <5>2, <5>3, SameLimiter
        <4> QED  BY <4>1, <4>2, <4>3
      <3>6. ASSUME NEW i \in DOMAIN OverallLimits PROVE Capped(i)'
        BY <2>1, EvaluateCapped, ConcludeCapped, QuietCapped DEF Step
      <3> QED  BY <3>1, <3>2, <3>3, <3>4, <3>5, <3>6 DEF RoutesInv
    <2>2. CASE UNCHANGED vars
      <3>1. /\ UNCHANGED <<limiters, task, outcomes, horizon>> /\ Checks' = Checks
        BY <2>2 DEF vars, Checks, BagToSet
      <3>2. Busy' = Busy /\ (BagInv <=> BagInv') /\ (MessageInv <=> MessageInv')
        BY <3>1 DEF Busy, BagInv, MessageInv
      <3>3. \A i : Capped(i)' <=> Capped(i)
        BY <3>1 DEF Capped, Alerts, Coming, InWindow
      <3>4. \A s, i : LimiterInv(s, i)' <=> LimiterInv(s, i)
        BY <3>1 DEF LimiterInv, Remembered, Counted, Since, Past, Present
      <3> QED  BY <3>1, <3>2, <3>3, <3>4 DEF RoutesInv
    <2> QED  BY <2>1, <2>2 DEF Next
  <1> QED  BY <1>1, <1>2, PTL DEF Spec

-----------------------------------------------------------------------------
(* What follows from it.                                                   *)

\* An overall limit of fewer than N + 1 messages caps the alerts in its window,
\* however the checks of several threads are interleaved.
THEOREM AlertsAlwaysCapped == Spec => []AlertsCapped
  <1>1. RoutesInv => AlertsCapped
    <2> SUFFICES ASSUME RoutesInv, NEW i \in DOMAIN OverallLimits,
                        ~OverallLimits[i].ge, ~OverallLimits[i].by_source_location
                 PROVE  Cardinality(Alerts(i)) <= OverallLimits[i].times
      BY DEF AlertsCapped, Alerts, InWindow, Overall
    <2>1. Cardinality(Alerts(i)) + Cardinality(Coming(i)) <= OverallLimits[i].times
      BY DEF RoutesInv, Capped
    <2>2. OverallLimits[i].times \in Nat
      BY RoutesAssumption DEF AreLimits, IsLimit
    <2>3. Cardinality(Alerts(i)) \in Nat /\ Cardinality(Coming(i)) \in Nat
      BY CappedType
    <2> QED  BY ONLY <2>1, <2>2, <2>3
  <1> QED  BY <1>1, RoutesInvCorrect, PTL

\* When no check is under way, all that is counted is over.
LEMMA RestCounted ==
    ASSUME RoutesInv, AtRest, NEW s \in Tracked, NEW i, NEW l, NEW x
    PROVE  Counted(s, i, l, x) = Since(Past(s, i, l), x)
  <1>1. \A t \in Threads : task[t] = Idle
    BY DEF RoutesInv, AtRest, TaskInv
  <1>2. Present(s, i, l, x) = {}
    BY <1>1, IdleCounts DEF Present
  <1>3. Cardinality(Present(s, i, l, x)) = 0
    BY <1>2, FS_EmptySet
  <1>4. Since(Past(s, i, l), x) \in Nat
    BY CountedType
  <1> QED  BY ONLY <1>3, <1>4 DEF Counted

\* Then a ring and the one that counts exactly the checks that were for it stand for
\* as many, since any time that no cleanup has reached.
LEMMA RestRings ==
    ASSUME RoutesInv, AtRest, NEW s \in Tracked, NEW i \in DOMAIN Limits(s),
           NEW l \in Locations(Limits(s)[i])
    PROVE  LET limit == Limits(s)[i]
               a == limiters[s][i].rings[l]
               b == RingOf(limit, Past(s, i, l))
           IN  /\ a \in [1 .. limit.times -> Nat] /\ b \in [1 .. limit.times -> Nat]
               /\ \A v \in Nat \ {0} :
                      Remembered(s, limit, v) =>
                          \E c \in Nat : Tallies(a, limit.times, v, c) /\ Tallies(b, limit.times, v, c)
  <1> DEFINE limit == Limits(s)[i]
             a == limiters[s][i].rings[l]
             b == RingOf(limit, Past(s, i, l))
  <1>1. limit.times \in Nat \ {0}
    BY TrackedLimits DEF IsLimit
  <1>2. LimiterInv(s, i) /\ MessageInv
    BY DEF RoutesInv
  <1>3. a \in [1 .. limit.times -> Nat]
    BY <1>2 DEF LimiterInv, Sound
  <1>4. IsFiniteSet(Past(s, i, l)) /\ \A e \in Past(s, i, l) : e[1].msg.ts \in Nat
    <2>1. Past(s, i, l) \subseteq Checks
      BY DEF Past
    <2> QED  BY <1>2, <2>1, CountedType, CheckMessages
  <1>5. /\ b \in [1 .. limit.times -> Nat]
        /\ \A v \in Nat \ {0} : Tallies(b, limit.times, v, Since(Past(s, i, l), v))
    <2> HIDE DEF limit
    <2> QED  BY ONLY <1>1, <1>4, RingOfTallies DEF b
  <1>6. ASSUME NEW v \in Nat \ {0}, Remembered(s, limit, v)
        PROVE  Tallies(a, limit.times, v, Since(Past(s, i, l), v))
    <2>1. Tallies(a, limit.times, v, Counted(s, i, l, v))
      BY <1>2, <1>6 DEF LimiterInv
    <2> QED  BY <2>1, RestCounted
  <1>7. \A v : Since(Past(s, i, l), v) \in Nat
    BY CountedType
  <1> HIDE DEF a, b, limit
  <1>8. ASSUME NEW v \in Nat \ {0}, Remembered(s, limit, v)
        PROVE  \E c \in Nat : Tallies(a, limit.times, v, c) /\ Tallies(b, limit.times, v, c)
    BY <1>5, <1>6, <1>7, <1>8
  <1> QED  BY <1>3, <1>5, <1>8 DEF a, b, limit

\* A message counts once for the overall limits if some route passes it, however many
\* do, and not at all if none does.
THEOREM OverallCounted == Spec => []OverallCountsOnce
  <1>1. RoutesInv => OverallCountsOnce
    <2> SUFFICES ASSUME RoutesInv, AtRest, NEW i \in DOMAIN OverallLimits,
                        ~OverallLimits[i].by_source_location
                 PROVE  limiters[Overall][i].rings[<<>>] =
                            RingOf(OverallLimits[i],
                                   {e \in Checks : /\ e[1].result[1] \in {"Passed", "OverallLimiter"}
                                                   /\ Matches(OverallLimits[i].filter, e[1].msg)})
      BY DEF OverallCountsOnce, Overall
    <2>1. Overall \in Tracked /\ Overall[1] = 0 /\ Limits(Overall) = OverallLimits
      BY DEF Tracked, Overall, Limits
    <2>2. \A m : Location(OverallLimits[i], m) = <<>>
      BY DEF Location
    <2>3. <<>> \in Locations(OverallLimits[i])
      BY <2>2, RoutesAssumption DEF Locations
    <2>4. Past(Overall, i, <<>>) =
              {e \in Checks : /\ e[1].result[1] \in {"Passed", "OverallLimiter"}
                              /\ Matches(OverallLimits[i].filter, e[1].msg)}
      BY <2>1, <2>2 DEF Past, Heeds
    <2>5. \A v : Remembered(Overall, OverallLimits[i], v)
      BY <2>1 DEF Remembered
    <2> DEFINE a == limiters[Overall][i].rings[<<>>]
               b == RingOf(OverallLimits[i], Past(Overall, i, <<>>))
               n == OverallLimits[i].times
    <2>6. /\ a \in [1 .. n -> Nat] /\ b \in [1 .. n -> Nat]
          /\ \A v \in Nat \ {0} : \E c \in Nat : Tallies(a, n, v, c) /\ Tallies(b, n, v, c)
      BY <2>1, <2>3, <2>5, RestRings
    <2>7. n \in Nat \ {0}
      BY <2>1, TrackedLimits DEF IsLimit
    <2> HIDE DEF a, b, n
    <2>8. a = b
      BY <2>6, <2>7, TalliesUnique
    <2> QED  BY <2>4, <2>8 DEF a, b
  <1> QED  BY <1>1, RoutesInvCorrect, PTL

\* Rings that stand for as many since the start of any window that ends at h or later
\* give a message that is not older than h the same answer.
LEMMA SameAnswer ==
    ASSUME NEW limit, IsLimit(limit), NEW h \in Nat, NEW x \in Nat, x >= h, x > limit.window,
           NEW a \in [1 .. limit.times -> Nat], NEW b \in [1 .. limit.times -> Nat],
           \A v \in Nat \ {0} : v + limit.window >= h =>
               \E c \in Nat : Tallies(a, limit.times, v, c) /\ Tallies(b, limit.times, v, c)
    PROVE  Answer(limit, a, x) = Answer(limit, b, x)
  <1>1. PICK n \in Nat \ {0}, w \in Nat : n = limit.times /\ w = limit.window
    BY DEF IsLimit
  <1>2. \A k \in 1 .. n, v \in Nat \ {0} : v + w >= h => (a[k] >= v <=> b[k] >= v)
    BY <1>1 DEF Tallies
  <1>3. 1 \in 1 .. n /\ n \in 1 .. n
    OBVIOUS
  <1>4. PICK p \in Nat, q \in Nat, r \in Nat, s \in Nat : p = a[1] /\ q = b[1] /\ r = a[n] /\ s = b[n]
    BY <1>1, <1>3
  <1>5. \A v \in Nat \ {0} : v + w >= h => (p >= v <=> q >= v) /\ (r >= v <=> s >= v)
    BY <1>2, <1>3, <1>4
  <1>6. /\ Head(Placed(a, x)) = IF p <= x THEN p ELSE x
        /\ Last(Placed(a, x)) = IF r <= x THEN x ELSE r
        /\ Head(Placed(b, x)) = IF q <= x THEN q ELSE x
        /\ Last(Placed(b, x)) = IF s <= x THEN x ELSE s
    <2>1. n \in Nat \ {0} /\ a \in [1 .. n -> Nat] /\ b \in [1 .. n -> Nat]
      BY <1>1
    <2>2. \A ring \in [1 .. n -> Nat] :
              /\ Head(Placed(ring, x)) = IF ring[1] <= x THEN ring[1] ELSE x
              /\ Last(Placed(ring, x)) = IF ring[n] <= x THEN x ELSE ring[n]
      BY ONLY n \in Nat \ {0}, x \in Nat, PlacedIn, Zenon
    <2>3. /\ Head(Placed(a, x)) = IF a[1] <= x THEN a[1] ELSE x
          /\ Last(Placed(a, x)) = IF a[n] <= x THEN x ELSE a[n]
          /\ Head(Placed(b, x)) = IF b[1] <= x THEN b[1] ELSE x
          /\ Last(Placed(b, x)) = IF b[n] <= x THEN x ELSE b[n]
      BY ONLY <2>1, <2>2
    <2> QED  BY ONLY <1>4, <2>3
  <1>7. (IF r <= x THEN x ELSE r) = (IF s <= x THEN x ELSE s)
    <2>1. ASSUME NEW v \in Nat, v > x PROVE r >= v <=> s >= v
      <3>1. v # 0 /\ v + w >= h
        BY ONLY <2>1, x >= h, x \in Nat, h \in Nat, w \in Nat, v \in Nat
      <3> QED  BY <1>5, <3>1
    <2>2. CASE r > x
      <3>1. s >= r
        BY <2>1, <2>2
      <3>2. s > x /\ r >= s
        BY <2>1, <2>2, <3>1
      <3> QED  BY <2>2, <3>1, <3>2
    <2>3. CASE s > x
      <3>1. r >= s
        BY <2>1, <2>3
      <3>2. r > x /\ s >= r
        BY <2>1, <2>3, <3>1
      <3> QED  BY <2>3, <3>1, <3>2
    <2> QED  BY <2>2, <2>3
  <1>8. PICK y \in Nat : y = (IF r <= x THEN x ELSE r) /\ y >= x
    OBVIOUS
  <1>9. (IF p <= x THEN p ELSE x) + w >= y <=> (IF q <= x THEN q ELSE x) + w >= y
    <2>1. PICK v \in Nat \ {0} : v + w = y
      <3>1. y - w \in Nat \ {0} /\ (y - w) + w = y
        <4>1. x > w
          BY <1>1
        <4> QED  BY ONLY <1>8, <4>1, x \in Nat, y \in Nat, w \in Nat
      <3> QED  BY <3>1
    <2>2. p >= v <=> q >= v
      <3>1. v + w >= h
        BY <1>8, <2>1
      <3> QED  BY <1>5, <3>1
    <2> QED  BY ONLY <2>1, <2>2, p \in Nat, q \in Nat, x \in Nat, w \in Nat, y \in Nat
  <1> QED  BY <1>1, <1>6, <1>7, <1>8, <1>9 DEF Answer, Passes

\* Every message that a route accepts counts for the limits of its origin that match
\* it, and clearing limiters away is invisible to messages that are not older.
THEOREM AnswersCounted == Spec => []AnswersCountEverything
  <1>1. RoutesInv => AnswersCountEverything
    <2> SUFFICES ASSUME RoutesInv, AtRest, NEW r \in DOMAIN Routes, NEW o \in Origins,
                        NEW i \in DOMAIN Routes[r].limits,
                        Routes[r].limits[i].window <= MaxAge,
                        NEW l \in DOMAIN limiters[<<r, o>>][i].rings,
                        NEW x \in Timestamps, x >= horizon
                 PROVE  Answer(Routes[r].limits[i], limiters[<<r, o>>][i].rings[l], x) =
                            Answer(Routes[r].limits[i],
                                   RingOf(Routes[r].limits[i],
                                          {e \in Checks : /\ e[1].msg.origin = o
                                                          /\ Accepts(Routes[r], e[1].msg)
                                                          /\ Matches(Routes[r].limits[i].filter, e[1].msg)
                                                          /\ Location(Routes[r].limits[i], e[1].msg) = l}), x)
      BY SMTT(30) DEF AnswersCountEverything
    <2> DEFINE s == <<r, o>>
               limit == Routes[r].limits[i]
               a == limiters[s][i].rings[l]
               b == RingOf(limit, Past(s, i, l))
    <2>1. s \in Tracked /\ s[1] = r /\ s[2] = o
      BY DEF Tracked
    <2>2. r # 0
      BY RoutesAssumption DEF IsList
    <2>3. Limits(s) = Routes[r].limits
      BY <2>1, <2>2, TrackedLimits
    <2>4. IsLimit(limit) /\ i \in DOMAIN Limits(s)
      BY <2>1, <2>3, TrackedLimits
    <2>5. LimiterInv(s, i)
      BY <2>1, <2>4 DEF RoutesInv
    <2>6. l \in Locations(limit)
      BY <2>3, <2>5 DEF LimiterInv, Sound
    <2>7. Past(s, i, l) = {e \in Checks : /\ e[1].msg.origin = o /\ Accepts(Routes[r], e[1].msg)
                                          /\ Matches(limit.filter, e[1].msg)
                                          /\ Location(limit, e[1].msg) = l}
      BY <2>1, <2>2, <2>3 DEF Past, Heeds
    <2>8. \A v : v + limit.window >= horizon => Remembered(s, limit, v)
      BY DEF Remembered
    <2>9. /\ a \in [1 .. limit.times -> Nat] /\ b \in [1 .. limit.times -> Nat]
          /\ \A v \in Nat \ {0} : v + limit.window >= horizon =>
                 \E c \in Nat : Tallies(a, limit.times, v, c) /\ Tallies(b, limit.times, v, c)
      BY <2>1, <2>3, <2>4, <2>6, <2>8, RestRings
    <2>10. x \in Nat /\ x > limit.window /\ horizon \in Nat
      <3>1. x \in Nat /\ x > MaxAge /\ MaxAge \in Nat
        BY RoutesAssumption
      <3>2. limit.window \in Nat
        BY <2>4 DEF IsLimit
      <3> QED  BY <3>1, <3>2 DEF RoutesInv
    <2> HIDE DEF a, b, limit, s
    <2>11. Answer(limit, a, x) = Answer(limit, b, x)
      BY ONLY <2>4, <2>9, <2>10, x >= horizon, SameAnswer
    <2> QED  BY <2>7, <2>11 DEF a, b, limit, s
  <1> QED  BY <1>1, RoutesInvCorrect, PTL

=============================================================================
