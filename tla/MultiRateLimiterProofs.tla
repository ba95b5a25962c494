----------------------- MODULE MultiRateLimiterProofs -----------------------
(***************************************************************************)
(* Proofs about MultiRateLimiter, for every number N of timestamps kept,   *)
(* every window, every set of threads and every timestamps they pass.      *)
(*                                                                         *)
(* Order of the argument: types; what the write that ends an insertion     *)
(* does to the ring (SettleKeepsOrder); one step per action; the window    *)
(* that the ring implements, again one step per action; last, how many     *)
(* events the entries of that window stand for.                            *)
(***************************************************************************)
EXTENDS MultiRateLimiter, Sequences, FiniteSetTheorems, TLAPS

\* Moving an index one slot on keeps it in the ring.
LEMMA IncType == ASSUME NEW i \in Slots PROVE Inc(i) \in Slots
  BY RateThresholdAssumption DEF Slots, Inc

\* The step that ends an insertion keeps every variable in its type.
LEMMA SettleType ==
    ASSUME TypeOK, NEW t \in Threads, NEW slot \in Slots,
           NEW value \in Int, NEW dropped \in Int,
           Settle(t, slot, value, dropped)
    PROVE  TypeOK'
<1> DEFINE ts == [timestamps EXCEPT ![slot] = value]
<1>1. ts \in [Slots -> Int] /\ ts[idx] \in Int
  BY DEF TypeOK
<1>2. timestamps' = ts /\ newest' = [newest EXCEPT ![t] = ts[idx]]
  BY DEF Settle
<1>3. Inc(idx) \in Slots
  BY IncType DEF TypeOK
<1>4. seen' \in [Timestamps -> Nat]
  <2>1. seen' = [seen EXCEPT ![new[t]] = seen[new[t]] + 1]
    BY DEF Settle
  <2>2. CASE new[t] \in Timestamps
    <3>1. seen[new[t]] + 1 \in Nat
      BY <2>2 DEF TypeOK
    <3>2. QED
      BY <2>1, <2>2, <3>1, Zenon DEF TypeOK
  <2>3. CASE new[t] \notin Timestamps
    <3>1. \A x \in Timestamps : x # new[t]
      BY <2>3
    <3>2. QED
      BY <2>1, <3>1, Zenon DEF TypeOK
  <2>4. QED
    BY <2>2, <2>3
<1> HIDE DEF ts
<1>5. QED
  BY <1>1, <1>2, <1>3, <1>4 DEF TypeOK, Settle

\* Every variable keeps its type: no index leaves the ring.
THEOREM TypeCorrect == Spec => []TypeOK
<1> USE RateThresholdAssumption, EnvironmentAssumption
<1>1. Init => TypeOK
  BY DEF Init, TypeOK, Slots
<1>2. TypeOK /\ [Next]_vars => TypeOK'
  <2> SUFFICES ASSUME TypeOK, [Next]_vars PROVE TypeOK'
    OBVIOUS
  <2>1. ASSUME NEW t \in Threads, NEW x \in Timestamps, Call(t, x) PROVE TypeOK'
    BY <2>1 DEF TypeOK, Call, ring, cursor
  <2>2. ASSUME NEW t \in Threads, Lock(t) PROVE TypeOK'
    BY <2>2 DEF TypeOK, Lock, ring, Slots
  <2>3. ASSUME NEW t \in Threads, Iterate(t) PROVE TypeOK'
    <3>1. j \in Slots
      BY <2>3 DEF Iterate, TypeOK, Slots
    <3>2. j + 1 \in Slots
      BY <2>3, <3>1 DEF Iterate, TypeOK, Slots
    <3>3. CASE Settle(t, j + 1, new[t], prevOldest)
      BY <3>2, <3>3, SettleType DEF TypeOK
    <3>4. CASE Shift(j, j + 1) /\ j' = Below(j) /\ UNCHANGED loop
      BY <3>1, <3>2, <3>4 DEF TypeOK, Shift, Slots, Below
    <3>5. QED
      BY <2>3, <3>3, <3>4 DEF Iterate
  <2>4. ASSUME NEW t \in Threads, WrapAround(t) PROVE TypeOK'
    <3>1. 0 \in Slots /\ N - 1 \in Slots /\ N - 2 \in -1 .. N - 2
      BY DEF Slots
    <3>2. CASE Settle(t, 0, new[t], prevOldest)
      BY <3>1, <3>2, SettleType DEF TypeOK
    <3>3. CASE Shift(N - 1, 0) /\ loop' = "high" /\ j' = N - 2
      BY <3>1, <3>3 DEF TypeOK, Shift
    <3>4. CASE /\ loop' = "high" /\ j' = N - 2
               /\ UNCHANGED <<ring, latest, holder, prevOldest, pc, new,
                              evicted, newest, seen>>
      BY <3>1, <3>4 DEF TypeOK, ring
    <3>5. QED
      BY <2>4, <3>2, <3>3, <3>4 DEF WrapAround
  <2>5. ASSUME NEW t \in Threads, InsertLast(t) PROVE TypeOK'
    <3>1. Inc(idx) \in Slots
      BY IncType DEF TypeOK
    <3>2. QED
      BY <2>5, <3>1, SettleType DEF TypeOK, InsertLast
  <2>6. ASSUME NEW t \in Threads, Publish(t) PROVE TypeOK'
    BY <2>6 DEF TypeOK, Publish, ring, cursor
  <2>7. CASE UNCHANGED vars
    BY <2>7 DEF TypeOK, vars
  <2>8. QED
    BY <2>1, <2>2, <2>3, <2>4, <2>5, <2>6, <2>7 DEF Next, Step
<1>3. QED
  BY <1>1, <1>2, PTL DEF Spec
-----------------------------------------------------------------------------
\* A rank is a number of the ring.
LEMMA RankType ==
    ASSUME NEW first \in Slots, NEW a \in Slots
    PROVE  Rank(a, first) \in Slots /\ Rank(a, first) \in Int
  BY RateThresholdAssumption DEF Slots, Rank

\* Distinct slots have distinct ranks.
LEMMA RankInjective ==
    ASSUME NEW first \in Slots, NEW a \in Slots, NEW b \in Slots, a # b
    PROVE  /\ Rank(a, first) \in Int
           /\ Rank(b, first) \in Int
           /\ Rank(a, first) # Rank(b, first)
  BY RateThresholdAssumption DEF Slots, Rank

\* Writing a value into the hole, when it fits there, restores the order.
LEMMA SettleKeepsOrder ==
    ASSUME TypeOK, RingInv, NEW t \in Threads, pc[t] = "insert",
           NEW value \in Int, NEW dropped \in Int,
           Hole \in Slots, Settle(t, Hole, value, dropped),
           \A a \in Slots \ {Hole} :
               Rank(a, Inc(idx)) < Rank(Hole, Inc(idx)) => timestamps[a] <= value,
           \A a \in Slots \ {Hole} :
               Rank(a, Inc(idx)) > Rank(Hole, Inc(idx)) => value <= timestamps[a],
           \A a \in Slots \ {Hole} : dropped <= timestamps[a],
           dropped <= value, prevOldest <= value
    PROVE  RingInv'
<1> USE EnvironmentAssumption
<1>0. idx \in Slots /\ Inc(idx) \in Slots /\ timestamps \in [Slots -> Int] /\ prevOldest \in Int
  BY IncType DEF TypeOK
<1>1. holder = t
  BY DEF RingInv, MutexOK
<1>2. /\ \A a \in Slots \ {Hole} : timestamps'[a] = timestamps[a]
      /\ timestamps'[Hole] = value
  BY <1>0 DEF Settle
<1>3. SortedButHole(new[t])
  BY <1>1, EnvironmentAssumption DEF RingInv
<1>4. MutexOK'
  BY <1>1 DEF RingInv, MutexOK, Settle, TypeOK
<1>5. Sorted(idx)'
  <2> SUFFICES ASSUME NEW a \in Slots, NEW b \in Slots,
                      Rank(a, Inc(idx)) <= Rank(b, Inc(idx))
               PROVE  timestamps'[a] <= timestamps'[b]
    BY DEF Sorted, Settle, Slots, Rank
  <2>1. CASE a # Hole /\ b # Hole
    BY <1>2, <1>3, <2>1 DEF SortedButHole
  <2>2. CASE a = Hole /\ b # Hole
    <3>1. Rank(b, Inc(idx)) > Rank(Hole, Inc(idx))
      <4> DEFINE ra == Rank(a, Inc(idx))  rb == Rank(b, Inc(idx))
      <4>1. ra \in Int /\ rb \in Int /\ ra # rb
        BY <1>0, <2>2, RankInjective
      <4>2. ra <= rb
        OBVIOUS
      <4> HIDE DEF ra, rb
      <4>3. rb > ra
        BY <4>1, <4>2
      <4>4. QED
        BY <2>2, <4>3 DEF ra, rb
    <3>2. QED
      BY <1>2, <2>2, <3>1
  <2>3. CASE a # Hole /\ b = Hole
    <3>1. Rank(a, Inc(idx)) < Rank(Hole, Inc(idx))
      <4> DEFINE ra == Rank(a, Inc(idx))  rb == Rank(b, Inc(idx))
      <4>1. ra \in Int /\ rb \in Int /\ ra # rb
        BY <1>0, <2>3, RankInjective
      <4>2. ra <= rb
        OBVIOUS
      <4> HIDE DEF ra, rb
      <4>3. ra < rb
        BY <4>1, <4>2
      <4>4. QED
        BY <2>3, <4>3 DEF ra, rb
    <3>2. QED
      BY <1>2, <2>3, <3>1
  <2>4. CASE a = Hole /\ b = Hole
    BY <1>2, <2>4
  <2>5. QED
    BY <2>1, <2>2, <2>3, <2>4
<1>6. \A u \in Threads : pc'[u] = "publish" =>
          \A i \in Slots : evicted'[u] <= timestamps'[i]
  <2> SUFFICES ASSUME NEW u \in Threads, pc'[u] = "publish", NEW i \in Slots
               PROVE  evicted'[u] <= timestamps'[i]
    OBVIOUS
  <2>1. CASE u = t
    <3>1. evicted'[u] = dropped
      BY <2>1 DEF Settle, TypeOK
    <3>2. QED
      BY <1>2, <3>1
  <2>2. CASE u # t
    <3>1. pc[u] = "publish" /\ evicted'[u] = evicted[u] /\ evicted[u] \in Int
      BY <2>2 DEF Settle, TypeOK
    <3>2. evicted[u] <= timestamps[i] /\ evicted[u] <= prevOldest
      BY <1>1, <3>1 DEF RingInv
    <3>3. QED
      BY <1>0, <1>2, <3>1, <3>2
  <2>3. QED
    BY <2>1, <2>2
<1>7. holder' = NoThread
  BY DEF Settle
<1>8. QED
  BY <1>4, <1>5, <1>6, <1>7 DEF RingInv, Slots

-----------------------------------------------------------------------------
\* Taking the mutex: idx becomes the hole, and every other slot is in order.
LEMMA LockKeepsRingInv ==
    ASSUME TypeOK, RingInv, NEW t \in Threads, Lock(t) PROVE RingInv'
<1> USE EnvironmentAssumption, RateThresholdAssumption
<1>0. /\ idx \in Slots /\ timestamps \in [Slots -> Int]
      /\ holder = NoThread /\ holder' = t /\ t # NoThread
      /\ idx' = idx /\ timestamps' = timestamps
  BY DEF Lock, TypeOK, ring
<1>1. MutexOK'
  BY DEF RingInv, MutexOK, Lock, TypeOK
<1>2. Hole' = idx /\ CursorOK'
  BY <1>0 DEF Hole, CursorOK, Lock, Slots
<1>3. Sorted(idx)
  BY <1>0 DEF RingInv
<1>4. \A a \in Slots : timestamps[idx] <= timestamps[a]
  BY <1>0, <1>3 DEF Sorted, Rank, Slots
<1>5. SortedButHole(new[holder])'
  <2>1. \A a, b \in Slots \ {idx} :
            Rank(a, Inc(idx)) <= Rank(b, Inc(idx)) => timestamps[a] <= timestamps[b]
    BY <1>0, <1>3 DEF Sorted, Rank, Inc, Slots
  <2>2. \A a \in Slots \ {idx} : ~(Rank(a, Inc(idx)) > Rank(idx, Inc(idx)))
    BY <1>0 DEF Rank, Inc, Slots
  <2>3. prevOldest' = timestamps[idx]
    BY DEF Lock
  <2>4. QED
    BY <1>0, <1>2, <1>4, <2>1, <2>2, <2>3 DEF SortedButHole, Rank, Inc, Slots
<1>6. \A u \in Threads : pc'[u] = "publish" =>
          /\ \A i \in Slots : evicted'[u] <= timestamps'[i]
          /\ evicted'[u] <= prevOldest'
  BY <1>0 DEF RingInv, Lock, TypeOK
<1>7. QED
  BY <1>0, <1>1, <1>2, <1>5, <1>6 DEF RingInv, Slots

\* Where the hole is while a loop runs: one above the slot j it looks at,
\* and one rank above it.
LEMMA HoleAboveJ ==
    ASSUME TypeOK, CursorOK,
           IF loop = "low" THEN j >= 0 ELSE j >= idx + 1
    PROVE  /\ j \in Slots /\ Hole \in Slots /\ Hole = j + 1 /\ j # Hole
           /\ Rank(j, Inc(idx)) = Rank(Hole, Inc(idx)) - 1
  BY RateThresholdAssumption DEF TypeOK, CursorOK, Hole, Slots, Rank, Inc

\* If the slot below the hole is not newer than the new timestamp, the new
\* timestamp fits in the hole.
LEMMA FitsAboveSlot ==
    ASSUME TypeOK, NEW x \in Int, SortedButHole(x), NEW i \in Slots,
           i # Hole, Hole \in Slots, Rank(i, Inc(idx)) = Rank(Hole, Inc(idx)) - 1,
           timestamps[i] <= x
    PROVE  /\ \A a \in Slots \ {Hole} :
                  Rank(a, Inc(idx)) < Rank(Hole, Inc(idx)) => timestamps[a] <= x
           /\ \A a \in Slots \ {Hole} :
                  Rank(a, Inc(idx)) > Rank(Hole, Inc(idx)) => x <= timestamps[a]
           /\ \A a \in Slots \ {Hole} : prevOldest <= timestamps[a]
           /\ prevOldest <= x
<1>1. idx \in Slots /\ Inc(idx) \in Slots /\ timestamps \in [Slots -> Int] /\ prevOldest \in Int
  BY IncType DEF TypeOK
<1>2. \A a \in Slots : Rank(a, Inc(idx)) \in Int
  BY <1>1, RankType
<1>3. ASSUME NEW a \in Slots \ {Hole}, Rank(a, Inc(idx)) < Rank(Hole, Inc(idx))
      PROVE  timestamps[a] <= x
  <2> DEFINE ra == Rank(a, Inc(idx))  ri == Rank(i, Inc(idx))  rh == Rank(Hole, Inc(idx))
  <2>1. ra \in Int /\ ri \in Int /\ rh \in Int /\ ri = rh - 1 /\ ra < rh
    BY <1>2, <1>3
  <2> HIDE DEF ra, ri, rh
  <2>2. ra <= ri
    BY <2>1
  <2>3. timestamps[a] <= timestamps[i]
    BY <2>2 DEF SortedButHole, ra, ri
  <2>4. QED
    BY <1>1, <2>3
<1>4. QED
  BY <1>1, <1>3 DEF SortedButHole

\* Moving the entry below the hole into it moves the hole down one slot.
LEMMA ShiftKeepsOrder ==
    ASSUME TypeOK, NEW x \in Int, SortedButHole(x), NEW i \in Slots,
           i # Hole, Hole \in Slots, Rank(i, Inc(idx)) = Rank(Hole, Inc(idx)) - 1,
           timestamps[i] > x, Shift(i, Hole), Hole' = i
    PROVE  SortedButHole(x)'
<1>1. idx \in Slots /\ Inc(idx) \in Slots /\ timestamps \in [Slots -> Int]
  BY IncType DEF TypeOK
<1>2. /\ idx' = idx /\ prevOldest' = prevOldest /\ x' = x
      /\ timestamps'[Hole] = timestamps[i]
      /\ \A a \in Slots \ {Hole} : timestamps'[a] = timestamps[a]
  BY <1>1 DEF Shift
<1> DEFINE r(a) == Rank(a, Inc(idx))
<1>3. \A a \in Slots : r(a) \in Int
  BY <1>1, RankType
<1>4. \A a \in Slots \ {Hole, i} : r(a) # r(Hole) /\ r(a) # r(i)
  BY <1>1, RankInjective
<1>5. \A a \in Slots : Rank(a, Inc(idx))' = r(a)
  BY <1>2 DEF Rank, Inc
<1>6. r(i) = r(Hole) - 1
  OBVIOUS
<1> HIDE DEF r
<1>7. ASSUME NEW a \in Slots \ {i}, NEW b \in Slots \ {i}, r(a) <= r(b)
      PROVE  timestamps'[a] <= timestamps'[b]
  <2>1. CASE a # Hole /\ b # Hole
    BY <1>2, <1>7, <2>1 DEF SortedButHole, r
  <2>2. CASE a = Hole /\ b # Hole
    <3>1. r(i) <= r(b)
      BY <1>3, <1>6, <1>7, <2>2
    <3>2. timestamps[i] <= timestamps[b]
      BY <2>2, <3>1 DEF SortedButHole, r
    <3>3. QED
      BY <1>2, <2>2, <3>2
  <2>3. CASE a # Hole /\ b = Hole
    <3>1. r(a) <= r(i)
      BY <1>3, <1>4, <1>6, <1>7, <2>3
    <3>2. timestamps[a] <= timestamps[i]
      BY <2>3, <3>1 DEF SortedButHole, r
    <3>3. QED
      BY <1>2, <2>3, <3>2
  <2>4. CASE a = Hole /\ b = Hole
    BY <1>1, <1>2, <2>4
  <2>5. QED
    BY <2>1, <2>2, <2>3, <2>4
<1>8. ASSUME NEW a \in Slots \ {i}, r(a) > r(i)
      PROVE  timestamps'[a] > x
  <2>1. CASE a = Hole
    BY <1>2, <2>1
  <2>2. CASE a # Hole
    <3>1. r(a) > r(Hole)
      BY <1>3, <1>4, <1>6, <1>8, <2>2
    <3>2. QED
      BY <1>2, <2>2, <3>1 DEF SortedButHole, r
  <2>3. QED
    BY <2>1, <2>2
<1>9. ASSUME NEW a \in Slots \ {i} PROVE prevOldest <= timestamps'[a]
  BY <1>1, <1>2 DEF SortedButHole
<1>10. QED
  BY <1>2, <1>5, <1>7, <1>8, <1>9 DEF SortedButHole, r, Slots

\* A step inside the loops keeps the invariant if it keeps the ring ordered but
\* for the hole and leaves only timestamps that were in the ring.
LEMMA InsideKeepsRingInv ==
    ASSUME TypeOK, RingInv, NEW t \in Threads, pc[t] = "insert",
           UNCHANGED <<holder, pc, new, evicted, prevOldest>>,
           CursorOK', SortedButHole(new[t])',
           \A i \in Slots : \E k \in Slots : timestamps'[i] = timestamps[k]
    PROVE  RingInv'
<1>1. holder = t /\ t # NoThread
  BY EnvironmentAssumption DEF RingInv, MutexOK
<1>2. MutexOK'
  BY DEF RingInv, MutexOK
<1>3. \A u \in Threads : pc[u] = "publish" =>
          /\ \A i \in Slots : evicted[u] <= timestamps'[i]
          /\ evicted[u] <= prevOldest
  <2> SUFFICES ASSUME NEW u \in Threads, pc[u] = "publish"
               PROVE  /\ \A i \in Slots : evicted[u] <= timestamps'[i]
                      /\ evicted[u] <= prevOldest
    OBVIOUS
  <2>1. \A k \in Slots : evicted[u] <= timestamps[k]
    BY DEF RingInv
  <2>2. evicted[u] <= prevOldest
    BY <1>1 DEF RingInv
  <2>3. QED
    BY <2>1, <2>2
<1>4. QED
  BY <1>1, <1>2, <1>3 DEF RingInv, Slots
-----------------------------------------------------------------------------
\* Every step of the specification preserves the ring's order.
LEMMA NextKeepsRingInv == TypeOK /\ RingInv /\ [Next]_vars => RingInv'
<1> USE EnvironmentAssumption, RateThresholdAssumption
<1> SUFFICES ASSUME TypeOK, RingInv, [Next]_vars PROVE RingInv'
  OBVIOUS
<1>1. ASSUME NEW t \in Threads, NEW x \in Timestamps, Call(t, x) PROVE RingInv'
  <2>1. holder # t
    BY <1>1 DEF Call, RingInv, MutexOK
  <2>2. MutexOK'
    BY <1>1 DEF Call, RingInv, MutexOK, cursor, TypeOK
  <2>3. holder # NoThread => new'[holder] = new[holder] /\ holder' = holder
    BY <1>1, <2>1 DEF Call, cursor, TypeOK
  <2>4. /\ Sorted(idx)' <=> Sorted(idx)
        /\ CursorOK' <=> CursorOK
        /\ \A y : SortedButHole(y)' <=> SortedButHole(y)
    BY <1>1 DEF Call, cursor, ring, Sorted, CursorOK, SortedButHole, Slots,
                Rank, Inc, Hole
  <2>5. \A u \in Threads : pc'[u] = "publish" =>
            pc[u] = "publish" /\ evicted'[u] = evicted[u]
    BY <1>1 DEF Call, TypeOK
  <2>6. QED
    BY <1>1, <2>2, <2>3, <2>4, <2>5 DEF Call, cursor, ring, RingInv, Slots
<1>2. ASSUME NEW t \in Threads, Lock(t) PROVE RingInv'
  BY <1>2, LockKeepsRingInv
<1>3. ASSUME NEW t \in Threads, Iterate(t) PROVE RingInv'
  <2>1. /\ holder = t /\ t # NoThread /\ pc[t] = "insert"
        /\ new[t] \in Int /\ prevOldest \in Int
    BY <1>3 DEF Iterate, RingInv, MutexOK, TypeOK
  <2>2. CursorOK /\ SortedButHole(new[t])
    BY <2>1 DEF RingInv
  <2>3. /\ j \in Slots /\ Hole \in Slots /\ Hole = j + 1 /\ j # Hole
        /\ Rank(j, Inc(idx)) = Rank(Hole, Inc(idx)) - 1
    BY <1>3, <2>2, HoleAboveJ DEF Iterate
  <2>4. CASE timestamps[j] <= new[t] /\ Settle(t, j + 1, new[t], prevOldest)
    <3>1. /\ \A a \in Slots \ {Hole} :
                 Rank(a, Inc(idx)) < Rank(Hole, Inc(idx)) => timestamps[a] <= new[t]
          /\ \A a \in Slots \ {Hole} :
                 Rank(a, Inc(idx)) > Rank(Hole, Inc(idx)) => new[t] <= timestamps[a]
          /\ \A a \in Slots \ {Hole} : prevOldest <= timestamps[a]
          /\ prevOldest <= new[t]
      BY <2>1, <2>2, <2>3, <2>4, FitsAboveSlot
    <3>2. prevOldest <= prevOldest
      BY <2>1
    <3>3. Settle(t, Hole, new[t], prevOldest)
      BY <2>3, <2>4
    <3>4. QED
      BY <2>1, <2>3, <3>1, <3>2, <3>3, SettleKeepsOrder
  <2>5. CASE /\ timestamps[j] > new[t] /\ Shift(j, j + 1)
             /\ j' = Below(j) /\ UNCHANGED loop
    <3>1. /\ holder' = holder /\ pc' = pc /\ new' = new /\ idx' = idx
          /\ evicted' = evicted /\ prevOldest' = prevOldest
      BY <2>5 DEF Shift
    <3>2. Hole' = j /\ CursorOK'
      BY <1>3, <2>2, <2>3, <2>5, <3>1 DEF Iterate, CursorOK, Hole, Below, TypeOK, Slots
    <3>3. Shift(j, Hole)
      BY <2>3, <2>5
    <3>4. SortedButHole(new[t])'
      <4> DEFINE x == new[t]
      <4>1. x' = x
        BY <3>1
      <4> SUFFICES SortedButHole(x)'
        BY <4>1
      <4>2. SortedButHole(x) /\ x \in Int /\ timestamps[j] > x
        BY <2>1, <2>2, <2>5
      <4> HIDE DEF x
      <4>3. QED
        BY <2>3, <3>2, <3>3, <4>1, <4>2, ShiftKeepsOrder
    <3>5. \A i \in Slots : \E k \in Slots : timestamps'[i] = timestamps[k]
      BY <2>3, <2>5 DEF Shift, TypeOK
    <3>6. QED
      BY <2>1, <3>1, <3>2, <3>4, <3>5, InsideKeepsRingInv
  <2>6. QED
    BY <1>3, <2>4, <2>5 DEF Iterate
<1>4. ASSUME NEW t \in Threads, WrapAround(t) PROVE RingInv'
  <2>1. /\ holder = t /\ t # NoThread /\ pc[t] = "insert"
        /\ new[t] \in Int /\ prevOldest \in Int
        /\ timestamps \in [Slots -> Int] /\ idx \in Slots
    BY <1>4 DEF WrapAround, RingInv, MutexOK, TypeOK
  <2>2. CursorOK /\ SortedButHole(new[t])
    BY <2>1 DEF RingInv
  <2>3. Hole = 0 /\ Hole \in Slots /\ N - 1 \in Slots /\ loop = "low"
    BY <1>4 DEF WrapAround, Hole, Slots
  <2>4. CASE N > 1 /\ timestamps[N - 1] <= new[t] /\ Settle(t, 0, new[t], prevOldest)
    \* Had idx been n - 1, that slot would hold a timestamp above the hole.
    <3>1. N - 1 # Hole
      BY <2>3, <2>4
    <3>2. ~(Rank(N - 1, Inc(idx)) > Rank(Hole, Inc(idx)))
      BY <2>1, <2>2, <2>3, <2>4, <3>1 DEF SortedButHole
    <3>3. Rank(N - 1, Inc(idx)) = Rank(Hole, Inc(idx)) - 1
      BY <2>1, <2>3, <2>4, <3>2 DEF Rank, Inc, Slots
    <3>4. /\ \A a \in Slots \ {Hole} :
                 Rank(a, Inc(idx)) < Rank(Hole, Inc(idx)) => timestamps[a] <= new[t]
          /\ \A a \in Slots \ {Hole} :
                 Rank(a, Inc(idx)) > Rank(Hole, Inc(idx)) => new[t] <= timestamps[a]
          /\ \A a \in Slots \ {Hole} : prevOldest <= timestamps[a]
          /\ prevOldest <= new[t]
      BY <2>1, <2>2, <2>3, <2>4, <3>1, <3>3, FitsAboveSlot
    <3>5. prevOldest <= prevOldest
      BY <2>1
    <3>6. Settle(t, Hole, new[t], prevOldest)
      BY <2>3, <2>4
    <3>7. QED
      BY <2>1, <2>3, <3>4, <3>5, <3>6, SettleKeepsOrder
  <2>5. CASE /\ N > 1 /\ timestamps[N - 1] > new[t]
             /\ Shift(N - 1, 0) /\ loop' = "high" /\ j' = N - 2
    <3>1. /\ holder' = holder /\ pc' = pc /\ new' = new /\ idx' = idx
          /\ evicted' = evicted /\ prevOldest' = prevOldest
      BY <2>5 DEF Shift
    <3>2. CursorOK'
      BY <2>1, <2>5, <3>1 DEF CursorOK
    <3>3. \A i \in Slots : \E k \in Slots : timestamps'[i] = timestamps[k]
      BY <2>1, <2>3, <2>5 DEF Shift
    <3>4. SortedButHole(new[t])'
      <4>1. CASE idx = N - 1
        <5>1. Hole' = Hole
          BY <2>3, <2>5, <3>1, <4>1 DEF Hole
        <5>2. \A a \in Slots \ {Hole} : timestamps'[a] = timestamps[a]
          BY <2>1, <2>3, <2>5 DEF Shift
        <5>3. QED
          BY <2>2, <3>1, <5>1, <5>2 DEF SortedButHole, Rank, Inc, Slots
      <4>2. CASE idx # N - 1
        <5> DEFINE x == new[t]
        <5>1. x' = x
          BY <3>1
        <5> SUFFICES SortedButHole(x)'
          BY <5>1
        <5>2. SortedButHole(x) /\ x \in Int /\ timestamps[N - 1] > x
          BY <2>1, <2>2, <2>5
        <5> HIDE DEF x
        <5>3. Hole' = N - 1 /\ Shift(N - 1, Hole) /\ N - 1 # Hole
          BY <2>3, <2>5, <3>1, <4>2 DEF Hole
        <5>4. Rank(N - 1, Inc(idx)) = Rank(Hole, Inc(idx)) - 1
          BY <2>1, <2>3, <2>5, <4>2 DEF Rank, Inc, Slots
        <5>5. QED
          BY <2>3, <5>1, <5>2, <5>3, <5>4, ShiftKeepsOrder
      <4>3. QED
        BY <4>1, <4>2
    <3>5. QED
      BY <2>1, <3>1, <3>2, <3>3, <3>4, InsideKeepsRingInv
  <2>6. CASE /\ N = 1 /\ loop' = "high" /\ j' = N - 2
             /\ UNCHANGED <<ring, latest, holder, prevOldest, pc, new, evicted,
                            newest, seen>>
    <3>1. /\ holder' = holder /\ pc' = pc /\ new' = new /\ idx' = idx
          /\ evicted' = evicted /\ prevOldest' = prevOldest
          /\ timestamps' = timestamps
      BY <2>6 DEF ring
    <3>2. CursorOK' /\ Hole' = Hole
      BY <2>1, <2>3, <2>6, <3>1 DEF CursorOK, Hole, Slots
    <3>3. SortedButHole(new[t])'
      BY <2>2, <3>1, <3>2 DEF SortedButHole, Rank, Inc, Slots
    <3>4. QED
      BY <2>1, <3>1, <3>2, <3>3, InsideKeepsRingInv
  <2>7. QED
    BY <1>4, <2>4, <2>5, <2>6 DEF WrapAround
<1>5. ASSUME NEW t \in Threads, InsertLast(t) PROVE RingInv'
  <2>1. /\ holder = t /\ t # NoThread /\ pc[t] = "insert"
        /\ new[t] \in Int /\ prevOldest \in Int
        /\ timestamps \in [Slots -> Int] /\ idx \in Slots
    BY <1>5 DEF InsertLast, RingInv, MutexOK, TypeOK
  <2>2. CursorOK /\ SortedButHole(new[t])
    BY <2>1 DEF RingInv
  <2>3. Hole = Inc(idx) /\ Hole \in Slots
    BY <1>5, <2>1, <2>2 DEF InsertLast, CursorOK, Hole, Inc, Slots, TypeOK
  <2>4. /\ \A a \in Slots : ~(Rank(a, Inc(idx)) < Rank(Hole, Inc(idx)))
        /\ \A a \in Slots \ {Hole} : Rank(a, Inc(idx)) > Rank(Hole, Inc(idx))
    <3> PICK f \in Slots : f = Inc(idx)
      BY <2>1, IncType
    <3>1. \A a \in Slots : ~(Rank(a, f) < Rank(f, f)) /\ (a # f => Rank(a, f) > Rank(f, f))
      BY ONLY RateThresholdAssumption, f \in Slots DEF Rank, Slots
    <3> QED  BY <2>3, <3>1
  <2>5. \A a \in Slots \ {Hole} : timestamps[a] > new[t] /\ prevOldest <= timestamps[a]
    BY <2>2, <2>4 DEF SortedButHole
  <2>6. CASE prevOldest < new[t] /\ Settle(t, Inc(idx), new[t], prevOldest)
    <3>1. /\ \A a \in Slots \ {Hole} : new[t] <= timestamps[a]
          /\ prevOldest <= new[t] /\ prevOldest <= prevOldest
      BY <2>1, <2>5, <2>6
    <3>2. Settle(t, Hole, new[t], prevOldest)
      BY <2>3, <2>6
    <3>3. QED
      BY <2>1, <2>3, <2>4, <2>5, <3>1, <3>2, SettleKeepsOrder
  <2>7. CASE prevOldest >= new[t] /\ Settle(t, Inc(idx), prevOldest, new[t])
    <3>1. /\ \A a \in Slots \ {Hole} : new[t] <= timestamps[a]
          /\ new[t] <= prevOldest /\ prevOldest <= prevOldest
      BY <2>1, <2>5, <2>7
    <3>2. Settle(t, Hole, prevOldest, new[t])
      BY <2>3, <2>7
    <3>3. QED
      BY <2>1, <2>3, <2>4, <2>5, <3>1, <3>2, SettleKeepsOrder
  <2>8. QED
    BY <1>5, <2>6, <2>7 DEF InsertLast
<1>6. ASSUME NEW t \in Threads, Publish(t) PROVE RingInv'
  <2>1. holder # t
    BY <1>6 DEF Publish, RingInv, MutexOK
  <2>2. MutexOK'
    BY <1>6 DEF Publish, RingInv, MutexOK, cursor, TypeOK
  <2>3. /\ Sorted(idx)' <=> Sorted(idx)
        /\ CursorOK' <=> CursorOK
        /\ \A y : SortedButHole(y)' <=> SortedButHole(y)
    BY <1>6 DEF Publish, cursor, ring, Sorted, CursorOK, SortedButHole, Slots,
                Rank, Inc, Hole
  <2>4. \A u \in Threads : pc'[u] = "publish" =>
            pc[u] = "publish" /\ evicted'[u] = evicted[u]
    BY <1>6 DEF Publish, TypeOK
  <2>5. QED
    BY <1>6, <2>2, <2>3, <2>4 DEF Publish, cursor, ring, RingInv, Slots
<1>7. CASE UNCHANGED vars
  BY <1>7 DEF vars, RingInv, MutexOK, Sorted, CursorOK, SortedButHole, Slots,
              Rank, Inc, Hole
<1>8. QED
  BY <1>1, <1>2, <1>3, <1>4, <1>5, <1>6, <1>7 DEF Next, Step

\* In every reachable state the ring is in order, or in order but for the hole.
LEMMA RingInvCorrect == Spec => []RingInv
<1>1. Init => RingInv
  BY RateThresholdAssumption, EnvironmentAssumption
  DEF Init, RingInv, MutexOK, Sorted, Slots
<1>2. QED
  BY <1>1, NextKeepsRingInv, TypeCorrect, PTL DEF Spec

\* Between two insertions the ring is in increasing order from idx on, for
\* rings of every size: the invariant the struct documents.
THEOREM RingAlwaysSorted == Spec => []RingSorted
<1>1. TypeOK /\ RingInv => RingSorted
  <2> SUFFICES ASSUME TypeOK, RingInv, holder = NoThread,
                      NEW i \in Slots, Inc(i) # idx
               PROVE  timestamps[i] <= timestamps[Inc(i)]
    BY DEF RingSorted
  <2>1. Inc(i) \in Slots /\ Rank(i, idx) <= Rank(Inc(i), idx)
    BY RateThresholdAssumption DEF Slots, Inc, Rank, TypeOK
  <2>2. QED
    BY <2>1 DEF RingInv, Sorted
<1>2. QED
  BY <1>1, RingInvCorrect, TypeCorrect, PTL

\* What insert_and_pop dropped is never newer than anything the ring keeps,
\* at any later moment before the caller looks at it.
THEOREM EvictedAlwaysOldest == Spec => []EvictedIsOldest
<1>1. RingInv => EvictedIsOldest
  BY DEF RingInv, EvictedIsOldest
<1>2. QED
  BY <1>1, RingInvCorrect, PTL
-----------------------------------------------------------------------------
(***************************************************************************)
(* The ring implements the window of RateWindow.                           *)
(***************************************************************************)

\* The window the ring stands for, oldest first.
Kept == [i \in 1 .. N |-> Before(SlotOf(i - 1, idx))]

\* The place of the hole in it, counted from the lowest.
HoleRank == Rank(Hole, Inc(idx))

\* Slots and ranks are each other's inverse.
LEMMA SlotOfRank ==
    ASSUME NEW first \in Slots, NEW r \in Slots
    PROVE  SlotOf(r, first) \in Slots /\ Rank(SlotOf(r, first), first) = r
  BY RateThresholdAssumption DEF Slots, SlotOf, Rank

\* The ranks of the slots when the oldest becomes the newest.
LEMMA NextRank ==
    ASSUME NEW i \in Slots
    PROVE  /\ Inc(i) \in Slots /\ Rank(i, Inc(i)) = N - 1
           /\ SlotOf(0, i) = i /\ SlotOf(N - 1, Inc(i)) = i
           /\ \A r \in 1 .. N - 1 :
                  /\ SlotOf(r, i) # i /\ SlotOf(r, i) \in Slots
                  /\ SlotOf(r, i) = SlotOf(r - 1, Inc(i))
                  /\ Rank(SlotOf(r, i), Inc(i)) = r - 1
                  /\ Inc(SlotOf(r, i)) = SlotOf(r, Inc(i))
  BY RateThresholdAssumption DEF Slots, SlotOf, Rank, Inc

\* Between insertions the window is the ring, from idx on.
LEMMA KeptAtRest ==
    ASSUME holder = NoThread
    PROVE  Kept = [i \in 1 .. N |-> timestamps[SlotOf(i - 1, idx)]]
  BY DEF Kept, Before

\* During an insertion it is the ring without the hole, after the previous oldest.
LEMMA KeptInside ==
    ASSUME TypeOK, holder # NoThread, Hole \in Slots
    PROVE  /\ Kept[1] = prevOldest
           /\ \A i \in 2 .. N :
                  Kept[i] = IF i - 2 >= HoleRank THEN timestamps[SlotOf(i - 1, Inc(idx))]
                                                 ELSE timestamps[SlotOf(i - 2, Inc(idx))]
  <1>1. idx \in Slots /\ N \in Nat \ {0}
    BY RateThresholdAssumption DEF TypeOK
  <1>2. Kept[1] = prevOldest
    <2>1. 1 \in 1 .. N /\ SlotOf(1 - 1, idx) = idx
      BY <1>1, NextRank
    <2> QED  BY <2>1 DEF Kept, Before
  <1>3. ASSUME NEW i \in 2 .. N
        PROVE  Kept[i] = IF i - 2 >= HoleRank THEN timestamps[SlotOf(i - 1, Inc(idx))]
                                              ELSE timestamps[SlotOf(i - 2, Inc(idx))]
    <2>1. i - 1 \in 1 .. N - 1 /\ i \in 1 .. N /\ (i - 1) - 1 = i - 2
      BY <1>1
    <2> DEFINE p == SlotOf(i - 1, idx)
    <2>2. /\ p # idx /\ p = SlotOf(i - 2, Inc(idx)) /\ Rank(p, Inc(idx)) = i - 2
          /\ Inc(p) = SlotOf(i - 1, Inc(idx))
      BY <1>1, <2>1, NextRank
    <2>3. Kept[i] = Before(p)
      BY <2>1 DEF Kept
    <2> HIDE DEF p
    <2> QED  BY <2>2, <2>3 DEF Before, HoleRank
  <1> QED  BY <1>2, <1>3

\* The window is a sequence of numbers.
LEMMA KeptType ==
    ASSUME TypeOK, RingInv
    PROVE  Kept \in Seq(Int) /\ Len(Kept) = N /\ DOMAIN Kept = 1 .. N
  <1>1. N \in Nat \ {0} /\ idx \in Slots
    BY RateThresholdAssumption DEF TypeOK
  <1>2. \A i \in 1 .. N : Kept[i] \in Int
    <2> TAKE i \in 1 .. N
    <2> DEFINE p == SlotOf(i - 1, idx)
    <2>1. i - 1 \in Slots
      BY <1>1 DEF Slots
    <2>2. p \in Slots /\ Inc(p) \in Slots
      BY <1>1, <2>1, SlotOfRank, IncType
    <2>3. Kept[i] = Before(p)
      BY DEF Kept
    <2> HIDE DEF p
    <2> QED  BY <2>2, <2>3 DEF Before, TypeOK
  <1>3. DOMAIN Kept = 1 .. N /\ Kept = [i \in 1 .. N |-> Kept[i]]
    BY DEF Kept
  <1> QED  BY <1>1, <1>2, <1>3

\* x belongs at rank h of a window k without its oldest, ranked[r], that has a hole
\* there: either the oldest is dropped, or x itself, which is not newer.
Fits(k, ranked, x, h, value, dropped) ==
    /\ k \in Seq(Int) /\ Len(k) = N
    /\ ranked \in [Slots -> Int]
    /\ x \in Int /\ h \in Slots
    /\ \A i \in 2 .. N : k[i] = IF i - 2 >= h THEN ranked[i - 1] ELSE ranked[i - 2]
    /\ \A r \in Slots : r < h => ranked[r] <= x
    /\ \A r \in Slots : r > h => ranked[r] > x
    /\ \/ k[1] <= x /\ value = x /\ dropped = k[1]
       \/ h = 0 /\ x <= k[1] /\ value = k[1] /\ dropped = x

\* Where such a timestamp is put.
LEMMA PlacedInHole ==
    ASSUME NEW k, NEW ranked, NEW x, NEW h, NEW value, NEW dropped,
           Fits(k, ranked, x, h, value, dropped)
    PROVE  /\ Head(RW!Placed(k, x)) = dropped
           /\ Tail(RW!Placed(k, x)) = [i \in 1 .. N |-> IF i - 1 = h THEN value ELSE ranked[i - 1]]
           /\ RW!Last(RW!Placed(k, x)) = Tail(RW!Placed(k, x))[N]
  <1> DEFINE all == RW!Placed(k, x)
  <1>1. N \in Nat \ {0} /\ h \in Int /\ h \in Slots /\ Slots = 0 .. N - 1 /\ x \in Int
    BY RateThresholdAssumption DEF Slots, Fits
  <1>2. /\ \A i \in 1 .. N : k[i] \in Int
        /\ all = [i \in 1 .. N + 1 |-> IF i <= N /\ k[i] <= x THEN k[i]
                                      ELSE IF i = 1 \/ k[i - 1] <= x THEN x ELSE k[i - 1]]
    BY DEF RW!Placed, Fits
  <1>3. all \in Seq(Int) /\ Len(all) = N + 1 /\ all # <<>>
    <2>1. \A i \in 1 .. N + 1 : i <= N \/ i - 1 \in 1 .. N
      BY <1>1
    <2>2. \A i \in 1 .. N + 1 : all[i] \in Int
      BY <1>1, <1>2, <2>1
    <2> HIDE DEF all
    <2> QED  BY <1>1, <1>2, <2>2
  <1>4. \A i \in 1 .. N + 1 : all[i] = IF i <= N /\ k[i] <= x THEN k[i]
                                     ELSE IF i = 1 \/ k[i - 1] <= x THEN x ELSE k[i - 1]
    BY <1>2
  <1> HIDE DEF all
  \* The first h of those after the oldest are not newer than x.
  <1>5. \A i \in 2 .. N : /\ i <= h + 1 => k[i] <= x /\ k[i] = ranked[i - 2]
                          /\ i > h + 1 => k[i] > x /\ k[i] = ranked[i - 1]
    <2> TAKE i \in 2 .. N
    <2>1. i - 1 \in Slots /\ i - 2 \in Slots /\ i \in Int
      BY <1>1
    <2>2. CASE i > h + 1
      <3>1. i - 2 >= h /\ i - 1 > h /\ ~(i <= h + 1)
        BY <1>1, <2>1, <2>2
      <3> QED  BY <2>1, <3>1 DEF Fits
    <2>3. CASE i <= h + 1
      <3>1. ~(i - 2 >= h) /\ i - 2 < h /\ ~(i > h + 1)
        BY <1>1, <2>1, <2>3
      <3> QED  BY <2>1, <3>1 DEF Fits
    <2> QED  BY <1>1, <2>1, <2>2, <2>3
  <1>6. \/ k[1] <= x /\ value = x /\ dropped = k[1]
        \/ h = 0 /\ x <= k[1] /\ value = k[1] /\ dropped = x
    BY DEF Fits
  <1>7. all[1] = dropped
    BY <1>1, <1>2, <1>4, <1>6
  <1>8. ASSUME NEW i \in 1 .. N PROVE all[i + 1] = IF i - 1 = h THEN value ELSE ranked[i - 1]
    <2>1. /\ i + 1 \in 1 .. N + 1 /\ (i + 1) - 1 = i /\ i + 1 # 1 /\ i \in Int
          /\ (i + 1) - 2 = i - 1
      BY <1>1
    <2>2. all[i + 1] = IF i + 1 <= N /\ k[i + 1] <= x THEN k[i + 1]
                       ELSE IF k[i] <= x THEN x ELSE k[i]
      BY <1>4, <2>1
    <2>3. CASE i - 1 < h
      <3>1. i + 1 \in 2 .. N /\ i + 1 <= h + 1 /\ i + 1 <= N /\ i - 1 # h
        BY <1>1, <2>1, <2>3
      <3>2. k[i + 1] <= x /\ k[i + 1] = ranked[i - 1]
        BY <1>5, <2>1, <3>1
      <3> QED  BY <2>2, <3>1, <3>2
    <2>4. CASE i - 1 = h
      <3>1. i + 1 <= N => k[i + 1] \in Int /\ k[i + 1] > x
        BY <1>1, <1>2, <1>5, <2>1, <2>4
      <3>2. CASE i = 1
        BY <1>1, <1>2, <1>6, <2>2, <2>4, <3>1, <3>2
      <3>3. CASE i # 1
        <4>1. h # 0 /\ k[i] <= x
          BY <1>1, <1>5, <2>4, <3>3
        <4> QED  BY <1>1, <1>2, <1>6, <2>2, <2>4, <3>1, <4>1
      <3> QED  BY <3>2, <3>3
    <2>5. CASE i - 1 > h
      <3>1. i \in 2 .. N /\ i > h + 1 /\ i + 1 > h + 1 /\ i - 1 # h
        BY <1>1, <2>1, <2>5
      <3>2. k[i] > x /\ k[i] = ranked[i - 1] /\ k[i] \in Int
        BY <1>2, <1>5, <3>1
      <3>3. i + 1 <= N => k[i + 1] > x /\ k[i + 1] \in Int
        BY <1>1, <1>2, <1>5, <2>1, <3>1
      <3> QED  BY <1>1, <2>2, <3>1, <3>2, <3>3
    <2> QED  BY <1>1, <2>1, <2>3, <2>4, <2>5
  <1>9. Tail(all) = [i \in 1 .. N |-> IF i - 1 = h THEN value ELSE ranked[i - 1]]
    <2>1. Tail(all) \in Seq(Int) /\ Len(Tail(all)) = N /\ \A i \in 1 .. N : Tail(all)[i] = all[i + 1]
      BY <1>1, <1>3
    <2>2. \A s \in Seq(Int) : s = [i \in 1 .. Len(s) |-> s[i]]
      OBVIOUS
    <2>3. Tail(all) = [i \in 1 .. N |-> Tail(all)[i]]
      BY <2>1, <2>2
    <2> QED  BY <1>8, <2>1, <2>3
  <1>10. Head(all) = all[1] /\ RW!Last(all) = all[N + 1] /\ Tail(all)[N] = all[N + 1]
    BY <1>1, <1>3 DEF RW!Last
  <1> QED  BY <1>7, <1>9, <1>10 DEF all

\* What Settle does to the entries, by the rank they have when it advances idx.
LEMMA SettledRanks ==
    ASSUME TypeOK, NEW t \in Threads, NEW f \in Slots, NEW hole \in Slots,
           NEW value \in Int, NEW dropped, Settle(t, hole, value, dropped)
    PROVE  \A r \in Slots :
             /\ SlotOf(r, f) \in Slots
             /\ SlotOf(r, f) = hole <=> r = Rank(hole, f)
             /\ timestamps'[SlotOf(r, f)] = IF r = Rank(hole, f) THEN value
                                            ELSE timestamps[SlotOf(r, f)]
  <1> TAKE r \in Slots
  <1>1. SlotOf(r, f) \in Slots /\ Rank(SlotOf(r, f), f) = r
    BY SlotOfRank
  <1>2. SlotOf(r, f) = hole <=> r = Rank(hole, f)
    BY <1>1, RankInjective
  <1>3. \A a \in Slots : timestamps'[a] = IF a = hole THEN value ELSE timestamps[a]
    BY DEF Settle, TypeOK
  <1> QED  BY <1>1, <1>2, <1>3

\* The end of an insertion puts the new timestamp into the window.
LEMMA SettleTakes ==
    ASSUME TypeOK, RingInv, NEW t \in Threads, pc[t] = "insert", Hole \in Slots,
           NEW value \in Int, NEW dropped \in Int, Settle(t, Hole, value, dropped),
           \A a \in Slots \ {Hole} : Rank(a, Inc(idx)) < HoleRank => timestamps[a] <= new[t],
           \A a \in Slots \ {Hole} : Rank(a, Inc(idx)) > HoleRank => timestamps[a] > new[t],
           \/ prevOldest <= new[t] /\ value = new[t] /\ dropped = prevOldest
           \/ HoleRank = 0 /\ new[t] <= prevOldest /\ value = prevOldest /\ dropped = new[t]
    PROVE  RW!Take(t)
  <1>1. /\ N \in Nat \ {0} /\ idx \in Slots /\ Inc(idx) \in Slots /\ new[t] \in Int
        /\ timestamps \in [Slots -> Int] /\ holder # NoThread
    BY RateThresholdAssumption, EnvironmentAssumption, IncType DEF TypeOK, RingInv, MutexOK
  <1>2. HoleRank \in Slots
    BY <1>1, RankType DEF HoleRank
  <1> PICK f \in Slots : f = Inc(idx)
    BY <1>1
  <1> PICK x \in Int : x = new[t]
    BY <1>1
  <1> PICK h \in Slots : h = HoleRank
    BY <1>2
  <1> PICK hole \in Slots : hole = Hole
    OBVIOUS
  <1> PICK ranked : ranked = [r \in Slots |-> timestamps[SlotOf(r, f)]]
    OBVIOUS
  <1> PICK k : k = Kept
    OBVIOUS
  <1>3. /\ idx' = f /\ holder' = NoThread /\ new' = new
        /\ evicted' = [evicted EXCEPT ![t] = dropped]
        /\ newest' = [newest EXCEPT ![t] = timestamps'[idx]]
        /\ pc' = [pc EXCEPT ![t] = "publish"] /\ latest' = latest
    BY <1>1 DEF Settle
  <1>4. \A r \in Slots : /\ SlotOf(r, f) \in Slots /\ Rank(SlotOf(r, f), f) = r
                         /\ SlotOf(r, f) = hole <=> r = h
                         /\ timestamps'[SlotOf(r, f)] = IF r = h THEN value ELSE ranked[r]
    <2>1. h = Rank(hole, f) /\ Settle(t, hole, value, dropped)
      BY DEF HoleRank
    <2>2. \A r \in Slots : SlotOf(r, f) \in Slots /\ Rank(SlotOf(r, f), f) = r
      BY ONLY SlotOfRank, f \in Slots
    <2>3. \A r \in Slots : /\ SlotOf(r, f) = hole <=> r = h
                           /\ timestamps'[SlotOf(r, f)] = IF r = h THEN value
                                                          ELSE timestamps[SlotOf(r, f)]
      BY ONLY <2>1, SettledRanks, TypeOK, t \in Threads, f \in Slots, hole \in Slots, value \in Int
    <2>4. \A r \in Slots : ranked[r] = timestamps[SlotOf(r, f)]
      BY ONLY ranked = [r \in Slots |-> timestamps[SlotOf(r, f)]]
    <2> QED  BY ONLY <2>2, <2>3, <2>4
  <1>5. ranked \in [Slots -> Int]
    BY ONLY <1>1, <1>4, ranked = [r \in Slots |-> timestamps[SlotOf(r, f)]]
  <1>6. /\ k \in Seq(Int) /\ Len(k) = N
        /\ k[1] = prevOldest
        /\ \A i \in 2 .. N : k[i] = IF i - 2 >= h THEN ranked[i - 1] ELSE ranked[i - 2]
    <2>1. \A i \in 2 .. N : i - 1 \in Slots /\ i - 2 \in Slots
      BY <1>1 DEF Slots
    <2>2. \A i \in 2 .. N : k[i] = IF i - 2 >= h THEN timestamps[SlotOf(i - 1, f)]
                                             ELSE timestamps[SlotOf(i - 2, f)]
      BY <1>1, KeptInside
    <2>3. k \in Seq(Int) /\ Len(k) = N /\ k[1] = prevOldest
      BY <1>1, KeptType, KeptInside
    <2> QED  BY <2>1, <2>2, <2>3
  <1>7. \A r \in Slots : /\ r < h => ranked[r] <= x
                         /\ r > h => ranked[r] > x
    <2> TAKE r \in Slots
    <2>1. PICK a \in Slots : a = SlotOf(r, f)
      BY ONLY <1>4, r \in Slots
    <2>2. Rank(a, f) = r /\ (a = hole <=> r = h) /\ ranked[r] = timestamps[a]
      BY ONLY <1>4, <2>1, r \in Slots, ranked = [q \in Slots |-> timestamps[SlotOf(q, f)]]
    <2>3. CASE r < h
      <3>1. a # Hole
        BY <2>2, <2>3 DEF Slots
      <3> QED  BY <2>2, <2>3, <3>1 DEF Slots
    <2>4. CASE r > h
      <3>1. a # Hole
        BY <2>2, <2>4 DEF Slots
      <3> QED  BY <2>2, <2>4, <3>1 DEF Slots
    <2> QED  BY <2>3, <2>4 DEF Slots
  <1>8. /\ Head(RW!Placed(k, x)) = dropped
        /\ Tail(RW!Placed(k, x)) = [i \in 1 .. N |-> IF i - 1 = h THEN value ELSE ranked[i - 1]]
        /\ RW!Last(RW!Placed(k, x)) = Tail(RW!Placed(k, x))[N]
    <2>1. \/ k[1] <= x /\ value = x /\ dropped = k[1]
          \/ h = 0 /\ x <= k[1] /\ value = k[1] /\ dropped = x
      BY <1>6
    <2>2. Fits(k, ranked, x, h, value, dropped)
      BY ONLY <1>5, <1>6, <1>7, <2>1, x \in Int, h \in Slots DEF Fits
    <2> QED  BY ONLY <2>2, PlacedInHole
  <1>9. Kept' = Tail(RW!Placed(k, x))
    <2>1. Kept' = [i \in 1 .. N |-> timestamps'[SlotOf(i - 1, f)]]
      BY <1>3 DEF Kept, Before
    <2>2. \A i \in 1 .. N : i - 1 \in Slots
      BY <1>1 DEF Slots
    <2>3. \A i \in 1 .. N : timestamps'[SlotOf(i - 1, f)] = IF i - 1 = h THEN value ELSE ranked[i - 1]
      BY ONLY <1>4, <2>2
    <2> QED  BY ONLY <1>8, <2>1, <2>3
  <1>10. timestamps'[idx] = RW!Last(RW!Placed(k, x))
    <2>1. N \in 1 .. N /\ SlotOf(N - 1, f) = idx
      BY <1>1, NextRank
    <2>2. Kept'[N] = timestamps'[idx]
      BY <1>3, <2>1 DEF Kept, Before
    <2> QED  BY ONLY <1>8, <1>9, <2>2
  <1> DEFINE ans == [u \in Threads |-> <<evicted[u], newest[u]>>]
             st  == [u \in Threads |-> Stage(pc[u])]
  <1>11. ans' = [ans EXCEPT ![t] = <<Head(RW!Placed(k, x)), RW!Last(RW!Placed(k, x))>>]
    BY <1>3, <1>8, <1>10 DEF TypeOK
  <1>12. st[t] = "called" /\ st' = [st EXCEPT ![t] = "answered"]
    BY <1>3 DEF Stage, TypeOK
  <1> QED  BY <1>3, <1>9, <1>11, <1>12 DEF RW!Take, Kept

\* An entry that moves up into the hole, and a copy from the highest slot into a hole
\* at the bottom, leave what was in each slot before the insertion.
LEMMA ShiftKeepsKept ==
    ASSUME TypeOK, holder # NoThread, Hole \in Slots, NEW i \in Slots, i # Hole,
           Shift(i, Hole),
           \/ Rank(i, Inc(idx)) = HoleRank - 1 /\ Hole' = i
           \/ HoleRank = 0 /\ Hole' = Hole
    PROVE  Kept' = Kept
  <1>1. N \in Nat \ {0} /\ idx \in Slots /\ Inc(idx) \in Slots
    BY RateThresholdAssumption, IncType DEF TypeOK
  <1>2. /\ idx' = idx /\ prevOldest' = prevOldest /\ holder' = holder
        /\ timestamps'[Hole] = timestamps[i]
        /\ \A a \in Slots \ {Hole} : timestamps'[a] = timestamps[a]
    BY DEF Shift, TypeOK
  <1>3. ASSUME NEW p \in Slots PROVE Before(p)' = Before(p)
    <2>1. CASE p = idx
      BY <1>2, <2>1 DEF Before
    <2>2. CASE p # idx
      <3> PICK rp \in Slots : rp = Rank(p, Inc(idx))
        BY <1>1, RankType
      <3> PICK rh \in Slots : rh = Rank(Hole, Inc(idx))
        BY <1>1, RankType
      <3> PICK up \in Slots : up = Inc(p)
        BY IncType
      <3>1. Rank(up, Inc(idx)) = rp + 1
        BY <1>1, <2>2 DEF Rank, Inc, Slots
      <3>2. Before(p) = IF rp >= rh THEN timestamps[up] ELSE timestamps[p]
        BY <2>2 DEF Before
      <3>3. Before(p)' = IF rp >= Rank(Hole', Inc(idx)) THEN timestamps'[up] ELSE timestamps'[p]
        BY <1>2, <2>2 DEF Before, Rank, Inc
      <3>4. rp >= rh => up # Hole
        BY <3>1 DEF Slots
      <3>5. rp < rh => p # Hole
        BY DEF Slots
      <3>6. CASE Rank(i, Inc(idx)) = HoleRank - 1 /\ Hole' = i
        <4>1. Rank(Hole', Inc(idx)) = rh - 1 /\ rh \in Int /\ rp \in Int
          BY <3>6 DEF HoleRank, Slots
        <4>2. CASE rp = rh - 1
          <5>1. p = i /\ up = Hole
            <6>1. rp = Rank(i, Inc(idx)) /\ Rank(up, Inc(idx)) = rh
              BY <3>1, <3>6, <4>1, <4>2 DEF HoleRank
            <6>2. p = i
              BY <1>1, <6>1, RankInjective
            <6>3. up = Hole
              BY <1>1, <6>1, RankInjective
            <6> QED  BY <6>2, <6>3
          <5> QED  BY <1>2, <3>2, <3>3, <4>1, <4>2, <5>1
        <4>3. CASE rp >= rh
          BY <1>2, <3>2, <3>3, <3>4, <4>1, <4>3
        <4>4. CASE rp < rh - 1
          BY <1>2, <3>2, <3>3, <3>5, <4>1, <4>4
        <4> QED  BY <4>1, <4>2, <4>3, <4>4
      <3>7. CASE HoleRank = 0 /\ Hole' = Hole
        <4>1. rp >= rh /\ rh = 0 /\ Rank(Hole', Inc(idx)) = rh
          BY <3>7 DEF HoleRank, Slots
        <4> QED  BY <1>2, <3>2, <3>3, <3>4, <4>1
      <3> QED  BY <3>6, <3>7
    <2> QED  BY <2>1, <2>2
  <1>4. \A r \in 1 .. N : SlotOf(r - 1, idx) \in Slots /\ SlotOf(r - 1, idx)' = SlotOf(r - 1, idx)
    BY <1>1, <1>2 DEF SlotOf, Slots
  <1>5. Kept' = [r \in 1 .. N |-> Before(SlotOf(r - 1, idx))']
    BY DEF Kept
  <1>6. ASSUME NEW r \in 1 .. N PROVE Before(SlotOf(r - 1, idx))' = Before(SlotOf(r - 1, idx))
    <2> PICK p \in Slots : p = SlotOf(r - 1, idx)
      BY <1>4
    <2>1. Before(p)' = Before(p)
      BY <1>3
    <2>2. Before(SlotOf(r - 1, idx))' = Before(p)'
      BY <1>4 DEF Before
    <2> QED  BY <2>1, <2>2
  <1> QED  BY <1>5, <1>6 DEF Kept

\* When the mutex is acquired nothing has moved: the hole is the slot of the oldest.
LEMMA LockKeepsKept ==
    ASSUME TypeOK, NEW t \in Threads, Lock(t)
    PROVE  Kept' = Kept
  <1>1. /\ N \in Nat \ {0} /\ idx \in Slots /\ Inc(idx) \in Slots /\ t # NoThread
        /\ idx' = idx /\ timestamps' = timestamps /\ prevOldest' = timestamps[idx]
        /\ holder = NoThread /\ holder' = t
    BY RateThresholdAssumption, EnvironmentAssumption, IncType DEF TypeOK, Lock, ring
  <1>2. Hole' = idx
    BY <1>1 DEF Lock, Hole, TypeOK, Slots
  <1>3. \A p \in Slots : p # idx => Rank(p, Inc(idx)) < Rank(idx, Inc(idx))
    BY <1>1 DEF Rank, Inc, Slots
  <1>4. \A p \in Slots : ~(Rank(p, Inc(idx)) >= Rank(idx, Inc(idx))) \/ p = idx
    BY <1>1, <1>3, RankType DEF Slots
  <1>5. \A r \in 1 .. N : SlotOf(r - 1, idx) \in Slots
    BY <1>1 DEF SlotOf, Slots
  <1>6. ASSUME NEW r \in 1 .. N PROVE Before(SlotOf(r - 1, idx))' = Before(SlotOf(r - 1, idx))
    <2> PICK p \in Slots : p = SlotOf(r - 1, idx)
      BY <1>5
    <2>1. Before(p)' = timestamps[p]
      BY <1>1, <1>2, <1>4 DEF Before, Rank, Inc
    <2>2. Before(SlotOf(r - 1, idx))' = Before(p)'
      BY <1>1 DEF Before, SlotOf
    <2> QED  BY <1>1, <2>1, <2>2 DEF Before
  <1> QED  BY <1>6 DEF Kept

\* A step that leaves the window and the stages alone is no step of the window.
LEMMA KeptStutters ==
    ASSUME Kept' = Kept, \A t \in Threads : Stage(pc'[t]) = Stage(pc[t]),
           UNCHANGED <<latest, new, evicted, newest>>
    PROVE  UNCHANGED RW!vars
  BY DEF RW!vars, Kept

\* The two loops move an entry up or settle.
LEMMA IterateMaps ==
    ASSUME TypeOK, RingInv, NEW t \in Threads, Iterate(t)
    PROVE  RW!Take(t) \/ UNCHANGED RW!vars
  <1>1. /\ holder = t /\ holder # NoThread /\ pc[t] = "insert"
        /\ new[t] \in Int /\ prevOldest \in Int /\ timestamps \in [Slots -> Int]
    BY EnvironmentAssumption DEF Iterate, RingInv, MutexOK, TypeOK
  <1>2. CursorOK /\ SortedButHole(new[t])
    BY <1>1 DEF RingInv
  <1>3. /\ j \in Slots /\ Hole \in Slots /\ Hole = j + 1 /\ j # Hole
        /\ Rank(j, Inc(idx)) = Rank(Hole, Inc(idx)) - 1
    BY <1>2, HoleAboveJ DEF Iterate
  <1>4. CASE timestamps[j] <= new[t] /\ Settle(t, j + 1, new[t], prevOldest)
    <2>1. /\ \A a \in Slots \ {Hole} : Rank(a, Inc(idx)) < HoleRank => timestamps[a] <= new[t]
          /\ prevOldest <= new[t]
      BY <1>1, <1>2, <1>3, <1>4, FitsAboveSlot DEF HoleRank
    <2>2. \A a \in Slots \ {Hole} : Rank(a, Inc(idx)) > HoleRank => timestamps[a] > new[t]
      BY <1>2 DEF SortedButHole, HoleRank
    <2>3. Settle(t, Hole, new[t], prevOldest)
      BY <1>3, <1>4
    <2> QED  BY <1>1, <1>3, <2>1, <2>2, <2>3, SettleTakes
  <1>5. CASE /\ timestamps[j] > new[t] /\ Shift(j, j + 1)
             /\ j' = Below(j) /\ UNCHANGED loop
    <2>1. Hole' = j
      BY <1>2, <1>3, <1>5 DEF Iterate, CursorOK, Hole, Below, TypeOK, Slots, Shift
    <2>2. Shift(j, Hole)
      BY <1>3, <1>5
    <2>3. Kept' = Kept
      BY <1>1, <1>3, <2>1, <2>2, ShiftKeepsKept DEF HoleRank
    <2> QED  BY <2>2, <2>3, KeptStutters DEF Shift
  <1> QED  BY <1>4, <1>5 DEF Iterate

\* So does the wraparound between them.
LEMMA WrapAroundMaps ==
    ASSUME TypeOK, RingInv, NEW t \in Threads, WrapAround(t)
    PROVE  RW!Take(t) \/ UNCHANGED RW!vars
  <1>1. /\ holder = t /\ holder # NoThread /\ pc[t] = "insert"
        /\ new[t] \in Int /\ prevOldest \in Int /\ timestamps \in [Slots -> Int]
        /\ N \in Nat \ {0} /\ idx \in Slots
    BY RateThresholdAssumption, EnvironmentAssumption DEF WrapAround, RingInv, MutexOK, TypeOK
  <1>2. CursorOK /\ SortedButHole(new[t])
    BY <1>1 DEF RingInv
  <1>3. Hole = 0 /\ Hole \in Slots /\ N - 1 \in Slots /\ loop = "low"
    BY <1>1 DEF WrapAround, Hole, Slots
  <1>4. CASE N > 1 /\ timestamps[N - 1] <= new[t] /\ Settle(t, 0, new[t], prevOldest)
    \* Had idx been n - 1, that slot would hold a timestamp above the hole.
    <2>1. N - 1 # Hole
      BY <1>3, <1>4
    <2>2. ~(Rank(N - 1, Inc(idx)) > Rank(Hole, Inc(idx)))
      BY <1>1, <1>2, <1>3, <1>4, <2>1 DEF SortedButHole
    <2>3. Rank(N - 1, Inc(idx)) = Rank(Hole, Inc(idx)) - 1
      BY <1>1, <1>3, <1>4, <2>2 DEF Rank, Inc, Slots
    <2>4. /\ \A a \in Slots \ {Hole} : Rank(a, Inc(idx)) < HoleRank => timestamps[a] <= new[t]
          /\ prevOldest <= new[t]
      BY <1>1, <1>2, <1>3, <1>4, <2>1, <2>3, FitsAboveSlot DEF HoleRank
    <2>5. \A a \in Slots \ {Hole} : Rank(a, Inc(idx)) > HoleRank => timestamps[a] > new[t]
      BY <1>2 DEF SortedButHole, HoleRank
    <2>6. Settle(t, Hole, new[t], prevOldest)
      BY <1>3, <1>4
    <2> QED  BY <1>1, <1>3, <2>4, <2>5, <2>6, SettleTakes
  <1>5. CASE /\ N > 1 /\ timestamps[N - 1] > new[t]
             /\ Shift(N - 1, 0) /\ loop' = "high" /\ j' = N - 2
    <2>1. Shift(N - 1, Hole) /\ N - 1 # Hole
      BY <1>3, <1>5
    <2>2. \/ Rank(N - 1, Inc(idx)) = HoleRank - 1 /\ Hole' = N - 1
          \/ HoleRank = 0 /\ Hole' = Hole
      BY <1>1, <1>3, <1>5 DEF HoleRank, Rank, Inc, Slots, Hole, Shift
    <2>3. Kept' = Kept
      BY <1>1, <1>3, <2>1, <2>2, ShiftKeepsKept
    <2> QED  BY <2>1, <2>3, KeptStutters DEF Shift
  <1>6. CASE /\ N = 1 /\ loop' = "high" /\ j' = N - 2
             /\ UNCHANGED <<ring, latest, holder, prevOldest, pc, new, evicted, newest, seen>>
    <2>1. /\ idx = 0 /\ idx' = 0 /\ holder' = holder /\ prevOldest' = prevOldest
          /\ \A r \in 1 .. N : SlotOf(r - 1, 0) = 0
      BY <1>1, <1>6 DEF ring, Slots, SlotOf
    <2>2. Kept' = Kept
      BY <1>1, <2>1 DEF Kept, Before
    <2> QED  BY <1>6, <2>2, KeptStutters
  <1> QED  BY <1>4, <1>5, <1>6 DEF WrapAround

\* After both loops the hole is the lowest slot, and the insertion settles.
LEMMA InsertLastMaps ==
    ASSUME TypeOK, RingInv, NEW t \in Threads, InsertLast(t)
    PROVE  RW!Take(t)
  <1>1. /\ holder = t /\ holder # NoThread /\ pc[t] = "insert"
        /\ new[t] \in Int /\ prevOldest \in Int
        /\ timestamps \in [Slots -> Int] /\ idx \in Slots
    BY EnvironmentAssumption DEF InsertLast, RingInv, MutexOK, TypeOK
  <1>2. CursorOK /\ SortedButHole(new[t])
    BY <1>1 DEF RingInv
  <1>3. Hole = Inc(idx) /\ Hole \in Slots
    BY RateThresholdAssumption, <1>1, <1>2 DEF InsertLast, CursorOK, Hole, Inc, Slots, TypeOK
  <1>4. /\ HoleRank = 0
        /\ \A a \in Slots : ~(Rank(a, Inc(idx)) < HoleRank)
    BY RateThresholdAssumption, <1>1, <1>3 DEF HoleRank, Rank, Inc, Slots
  <1>5. \A a \in Slots \ {Hole} : Rank(a, Inc(idx)) > HoleRank => timestamps[a] > new[t]
    BY <1>2 DEF SortedButHole, HoleRank
  <1>6. CASE prevOldest < new[t] /\ Settle(t, Inc(idx), new[t], prevOldest)
    <2>1. Settle(t, Hole, new[t], prevOldest) /\ prevOldest <= new[t]
      BY <1>1, <1>3, <1>6
    <2> QED  BY <1>1, <1>3, <1>4, <1>5, <2>1, SettleTakes
  <1>7. CASE prevOldest >= new[t] /\ Settle(t, Inc(idx), prevOldest, new[t])
    <2>1. Settle(t, Hole, prevOldest, new[t]) /\ new[t] <= prevOldest
      BY <1>1, <1>3, <1>7
    <2> QED  BY <1>1, <1>3, <1>4, <1>5, <2>1, SettleTakes
  <1> QED  BY <1>6, <1>7 DEF InsertLast

\* Every step of the ring is a step of the window or leaves it alone.
LEMMA StepsMap == TypeOK /\ RingInv /\ [Next]_vars => [RW!Next]_(RW!vars)
  <1> SUFFICES ASSUME TypeOK, RingInv, [Next]_vars PROVE [RW!Next]_(RW!vars)
    OBVIOUS
  <1> DEFINE st == [u \in Threads |-> Stage(pc[u])]
  <1>1. ASSUME NEW t \in Threads, NEW x \in Timestamps, Call(t, x) PROVE RW!Call(t, x)
    <2>1. Kept' = Kept /\ new' = [new EXCEPT ![t] = x]
      BY <1>1 DEF Call, Kept, Before, ring, cursor, Rank, Inc, Hole, SlotOf
    <2>2. st[t] = "idle" /\ st' = [st EXCEPT ![t] = "called"]
      BY <1>1 DEF Call, Stage, TypeOK
    <2> QED  BY <1>1, <2>1, <2>2 DEF Call, RW!Call, Kept
  <1>2. ASSUME NEW t \in Threads, Lock(t) PROVE UNCHANGED RW!vars
    <2>1. \A u \in Threads : Stage(pc'[u]) = Stage(pc[u])
      BY <1>2 DEF Lock, Stage, TypeOK
    <2> QED  BY <1>2, <2>1, LockKeepsKept, KeptStutters DEF Lock
  <1>3. ASSUME NEW t \in Threads, Publish(t) PROVE RW!Publish(t)
    <2>1. Kept' = Kept
      BY <1>3 DEF Publish, Kept, Before, ring, cursor, Rank, Inc, Hole, SlotOf
    <2>2. st[t] = "answered" /\ st' = [st EXCEPT ![t] = "idle"]
      BY <1>3 DEF Publish, Stage, TypeOK
    <2> QED  BY <1>3, <2>1, <2>2 DEF Publish, RW!Publish, Kept
  <1>4. CASE UNCHANGED vars
    <2>1. Kept' = Kept
      BY <1>4 DEF vars, Kept, Before, Rank, Inc, Hole, SlotOf
    <2> QED  BY <1>4, <2>1, KeptStutters DEF vars
  <1> QED  BY <1>1, <1>2, <1>3, <1>4, IterateMaps, WrapAroundMaps, InsertLastMaps
           DEF Next, Step, RW!Next

\* The ring with its mutex and its published maximum implements the window of the N
\* newest timestamps, into which concurrent calls of evaluate put theirs one at a time
\* and which answers each with what it dropped and the newest it then has: for rings of
\* every size, any number of callers and timestamps in any order, repeated or not.
THEOREM ImplementsWindow == Spec => RW!Spec
  <1>1. Init => RW!Init
    BY RateThresholdAssumption DEF Init, RW!Init, Before, SlotOf, Slots, Stage
  <1> QED  BY <1>1, StepsMap, TypeCorrect, RingInvCorrect, PTL DEF Spec, RW!Spec
-----------------------------------------------------------------------------
(***************************************************************************)
(* What a verdict says of the events: the window's entries count them.     *)
(***************************************************************************)

\* The events since some time.
Since(v) == {e \in Inserted : e[1] >= v}

\* An entry of the window is not before v exactly if, of c events that are not, enough
\* have come to fill the window down to it.
Tallies(k, v, c) == \A i \in 1 .. N : k[i] >= v <=> c > N - i

CountInv ==
    /\ \A t \in Threads : pc[t] # "idle" => new[t] \in Timestamps
    /\ IsFiniteSet(Inserted)
    /\ \A v \in Int : v > 0 => Tallies(Kept, v, Cardinality(Since(v)))

\* What Placed does: the oldest of N + 1 timestamps, the newest, and the N newest.
LEMMA PlacedIn ==
    ASSUME NEW k \in Seq(Int), Len(k) = N, NEW x \in Int
    PROVE  /\ Head(RW!Placed(k, x)) = IF k[1] <= x THEN k[1] ELSE x
           /\ Tail(RW!Placed(k, x)) \in Seq(Int) /\ Len(Tail(RW!Placed(k, x))) = N
           /\ \A i \in 1 .. N :
                  Tail(RW!Placed(k, x))[i] = IF i < N /\ k[i + 1] <= x THEN k[i + 1]
                                             ELSE IF k[i] <= x THEN x ELSE k[i]
           /\ RW!Last(RW!Placed(k, x)) = Tail(RW!Placed(k, x))[N]
  <1> DEFINE all == RW!Placed(k, x)
  <1>1. N \in Nat \ {0} /\ \A i \in 1 .. N : k[i] \in Int
    BY RateThresholdAssumption
  <1>2. all = [i \in 1 .. N + 1 |-> IF i <= N /\ k[i] <= x THEN k[i]
                                    ELSE IF i = 1 \/ k[i - 1] <= x THEN x ELSE k[i - 1]]
    BY DEF RW!Placed
  <1>3. \A i \in 1 .. N + 1 : (i <= N => i \in 1 .. N) /\ (i # 1 => i - 1 \in 1 .. N)
    BY <1>1
  <1>4. \A i \in 1 .. N + 1 : all[i] \in Int
    BY <1>1, <1>2, <1>3
  <1> HIDE DEF all
  <1>5. all \in Seq(Int) /\ Len(all) = N + 1 /\ all # <<>>
    BY <1>1, <1>2, <1>4
  <1>6. /\ Tail(all) \in Seq(Int) /\ Len(Tail(all)) = N
        /\ \A i \in 1 .. N : Tail(all)[i] = all[i + 1]
    BY <1>1, <1>5
  <1>7. Head(all) = IF k[1] <= x THEN k[1] ELSE x
    <2>1. Head(all) = all[1] /\ 1 \in 1 .. N + 1 /\ 1 <= N
      BY <1>1, <1>5
    <2> QED  BY <1>2, <2>1
  <1>8. ASSUME NEW i \in 1 .. N
        PROVE  all[i + 1] = IF i < N /\ k[i + 1] <= x THEN k[i + 1]
                            ELSE IF k[i] <= x THEN x ELSE k[i]
    <2>1. PICK m \in 1 .. N + 1 : m = i + 1
      BY <1>1
    <2>2. all[m] = IF m <= N /\ k[m] <= x THEN k[m]
                   ELSE IF m = 1 \/ k[m - 1] <= x THEN x ELSE k[m - 1]
      BY <1>2
    <2>3. (m <= N <=> i < N) /\ m # 1 /\ m - 1 = i
      BY <1>1, <2>1
    <2> QED  BY <2>1, <2>2, <2>3
  <1>9. RW!Last(all) = all[N + 1] /\ N \in 1 .. N
    BY <1>1, <1>5 DEF RW!Last
  <1> QED  BY <1>6, <1>7, <1>8, <1>9 DEF all

\* The window goes on to stand for the events it stood for and the one that comes.
LEMMA PlacedTallies ==
    ASSUME NEW k \in Seq(Int), Len(k) = N, NEW x \in Int, NEW v \in Int, NEW c \in Nat,
           Tallies(k, v, c)
    PROVE  Tallies(Tail(RW!Placed(k, x)), v, IF x >= v THEN c + 1 ELSE c)
  <1> SUFFICES ASSUME NEW i \in 1 .. N
               PROVE  Tail(RW!Placed(k, x))[i] >= v <=> (IF x >= v THEN c + 1 ELSE c) > N - i
    BY DEF Tallies
  <1>1. N \in Nat \ {0} /\ i \in Nat /\ k[i] \in Int /\ (k[i] >= v <=> c > N - i)
    BY RateThresholdAssumption DEF Tallies
  <1>2. Tail(RW!Placed(k, x))[i] = IF i < N /\ k[i + 1] <= x THEN k[i + 1]
                                   ELSE IF k[i] <= x THEN x ELSE k[i]
    BY PlacedIn
  <1>3. CASE i < N
    <2>1. i + 1 \in 1 .. N /\ k[i + 1] \in Int
      BY <1>1, <1>3
    <2>2. k[i + 1] >= v <=> c > N - (i + 1)
      BY <2>1 DEF Tallies
    <2>3. PICK r \in Int, q \in Int, p \in Int :
              r = Tail(RW!Placed(k, x))[i] /\ q = k[i + 1] /\ p = k[i]
      BY <1>1, <1>2, <1>3, <2>1
    <2>4. r = IF q <= x THEN q ELSE IF p <= x THEN x ELSE p
      <3>1. r = IF i < N /\ q <= x THEN q ELSE IF p <= x THEN x ELSE p
        BY ONLY <1>2, <2>3
      <3> QED  BY ONLY <1>3, <3>1
    <2>5. (q >= v <=> c > N - (i + 1)) /\ (p >= v <=> c > N - i) /\ N \in Nat /\ i \in Nat
      BY <1>1, <2>2, <2>3
    <2>6. r >= v <=> (IF x >= v THEN c + 1 ELSE c) > N - i
      BY ONLY <2>4, <2>5, v \in Int, c \in Nat, x \in Int, p \in Int, q \in Int
    <2> QED  BY <2>3, <2>6
  <1>4. CASE ~ (i < N)
    <2>1. i = N
      BY <1>1, <1>4
    <2>2. PICK r \in Int, p \in Int : r = Tail(RW!Placed(k, x))[i] /\ p = k[i]
      BY <1>1, <1>2, <1>4
    <2>3. r = (IF p <= x THEN x ELSE p) /\ (p >= v <=> c > N - i) /\ N \in Nat
      BY <1>1, <1>2, <1>4, <2>2
    <2>4. r >= v <=> (IF x >= v THEN c + 1 ELSE c) > N - i
      BY ONLY <2>1, <2>3, v \in Int, c \in Nat, x \in Int, p \in Int
    <2> QED  BY <2>2, <2>4
  <1> QED  BY <1>3, <1>4

\* The events since a time that are known to be finitely many can be counted.
LEMMA SinceType ==
    ASSUME IsFiniteSet(Inserted), NEW v
    PROVE  IsFiniteSet(Since(v)) /\ Cardinality(Since(v)) \in Nat
  <1>1. Since(v) \in SUBSET Inserted
    BY DEF Since
  <1> QED  BY <1>1, FS_Subset, FS_CardinalityType

\* Settling is Take, and counts one more event of the timestamp.
CountedBy(t) ==
    /\ pc[t] = "insert" /\ pc' = [pc EXCEPT ![t] = "publish"]
    /\ RW!Take(t)
    /\ seen' = [seen EXCEPT ![new[t]] = seen[new[t]] + 1]

\* A step that settles nothing.
CountedByNone == Kept' = Kept /\ seen' = seen /\ \A t \in Threads : ~ Inserts(t)

\* A step inside an insertion settles a timestamp and is Take, or neither.
LEMMA InsideCounts ==
    ASSUME TypeOK, NEW t \in Threads, pc[t] = "insert",
           RW!Take(t) \/ UNCHANGED RW!vars, new' = new,
           \/ /\ pc' = [pc EXCEPT ![t] = "publish"]
              /\ seen' = [seen EXCEPT ![new[t]] = @ + 1]
           \/ pc' = pc /\ seen' = seen
    PROVE  (CountedBy(t) \/ CountedByNone) /\ new' = new
  <1> DEFINE st == [u \in Threads |-> Stage(pc[u])]
  <1>1. RW!Take(t) => st[t] = "called" /\ st' = [st EXCEPT ![t] = "answered"]
    BY DEF RW!Take
  <1>2. UNCHANGED RW!vars => Kept' = Kept /\ st' = st
    BY DEF RW!vars, Kept
  <1>3. st[t] = "called" /\ st'[t] = Stage(pc'[t])
    BY DEF Stage
  <1> HIDE DEF st
  <1>4. CASE /\ pc' = [pc EXCEPT ![t] = "publish"]
             /\ seen' = [seen EXCEPT ![new[t]] = @ + 1]
    <2>1. Stage(pc'[t]) = "answered"
      BY <1>4 DEF Stage, TypeOK
    <2>2. RW!Take(t)
      BY <1>2, <1>3, <2>1
    <2> QED  BY <1>4, <2>2 DEF CountedBy
  <1>5. CASE pc' = pc /\ seen' = seen
    <2>1. st'[t] = "called"
      BY <1>3, <1>5 DEF Stage
    <2>2. st \in [Threads -> {"idle", "called", "answered"}]
      BY DEF st, Stage, TypeOK
    <2>3. ~ RW!Take(t)
      BY <1>1, <2>1, <2>2
    <2> QED  BY <1>2, <1>5, <2>3 DEF CountedByNone, Inserts
  <1> QED  BY <1>4, <1>5

\* Every step settles a timestamp in Take, or changes neither the window nor the count;
\* only callers choose timestamps.
LEMMA StepsCount ==
    ASSUME TypeOK, RingInv, [Next]_vars
    PROVE  /\ (\E t \in Threads : CountedBy(t)) \/ CountedByNone
           /\ \A t \in Threads : \/ pc[t] # "idle" /\ new'[t] = new[t]
                                 \/ pc'[t] = "idle"
                                 \/ new'[t] \in Timestamps
  <1> DEFINE Goal ==
        /\ (\E t \in Threads : CountedBy(t)) \/ CountedByNone
        /\ \A t \in Threads : \/ pc[t] # "idle" /\ new'[t] = new[t]
                              \/ pc'[t] = "idle"
                              \/ new'[t] \in Timestamps
  <1> SUFFICES Goal
    OBVIOUS
  <1>1. ASSUME NEW t \in Threads, NEW x \in Timestamps, Call(t, x) PROVE Goal
    <2>1. Kept' = Kept /\ seen' = seen
      BY <1>1 DEF Call, Kept, Before, ring, cursor, Rank, Inc, Hole, SlotOf
    <2>2. \A u \in Threads : ~ Inserts(u)
      BY <1>1 DEF Call, Inserts, TypeOK
    <2>3. \A u \in Threads : \/ pc[u] # "idle" /\ new'[u] = new[u]
                             \/ pc'[u] = "idle" \/ new'[u] \in Timestamps
      BY <1>1 DEF Call, TypeOK
    <2> QED  BY <2>1, <2>2, <2>3 DEF CountedByNone
  <1>2. ASSUME NEW t \in Threads, Lock(t) PROVE Goal
    <2>1. Kept' = Kept /\ seen' = seen
      BY <1>2, LockKeepsKept DEF Lock
    <2>2. \A u \in Threads : ~ Inserts(u)
      BY <1>2 DEF Lock, Inserts, TypeOK
    <2>3. \A u \in Threads : (pc[u] # "idle" /\ new'[u] = new[u]) \/ pc'[u] = "idle"
      BY <1>2 DEF Lock, TypeOK
    <2> QED  BY <2>1, <2>2, <2>3 DEF CountedByNone
  <1>3. ASSUME NEW t \in Threads, Publish(t) PROVE Goal
    <2>1. Kept' = Kept /\ seen' = seen
      BY <1>3 DEF Publish, Kept, Before, ring, cursor, Rank, Inc, Hole, SlotOf
    <2>2. \A u \in Threads : ~ Inserts(u)
      BY <1>3 DEF Publish, Inserts, TypeOK
    <2>3. \A u \in Threads : (pc[u] # "idle" /\ new'[u] = new[u]) \/ pc'[u] = "idle"
      BY <1>3 DEF Publish, TypeOK
    <2> QED  BY <2>1, <2>2, <2>3 DEF CountedByNone
  <1>4. CASE UNCHANGED vars
    <2>1. Kept' = Kept /\ seen' = seen
      BY <1>4 DEF vars, Kept, Before, Rank, Inc, Hole, SlotOf
    <2>2. \A u \in Threads : ~ Inserts(u)
      BY <1>4 DEF vars, Inserts
    <2>3. \A u \in Threads : (pc[u] # "idle" /\ new'[u] = new[u]) \/ pc'[u] = "idle"
      BY <1>4 DEF vars
    <2> QED  BY <2>1, <2>2, <2>3 DEF CountedByNone
  <1>5. ASSUME NEW t \in Threads, pc[t] = "insert", new' = new,
               (CountedBy(t) \/ CountedByNone) /\ new' = new,
               pc' = [pc EXCEPT ![t] = "publish"] \/ pc' = pc
        PROVE  Goal
    BY <1>5 DEF TypeOK
  <1>6. ASSUME NEW t \in Threads, Iterate(t) PROVE Goal
    <2>1. pc[t] = "insert" /\ new' = new
      BY <1>6 DEF Iterate, Settle, Shift
    <2>2. \/ /\ pc' = [pc EXCEPT ![t] = "publish"]
             /\ seen' = [seen EXCEPT ![new[t]] = @ + 1]
          \/ pc' = pc /\ seen' = seen
      BY <1>6 DEF Iterate, Settle, Shift
    <2> QED  BY <1>5, <1>6, <2>1, <2>2, IterateMaps, InsideCounts
  <1>7. ASSUME NEW t \in Threads, WrapAround(t) PROVE Goal
    <2>1. pc[t] = "insert" /\ new' = new
      BY <1>7 DEF WrapAround, Settle, Shift
    <2>2. \/ /\ pc' = [pc EXCEPT ![t] = "publish"]
             /\ seen' = [seen EXCEPT ![new[t]] = @ + 1]
          \/ pc' = pc /\ seen' = seen
      BY <1>7 DEF WrapAround, Settle, Shift
    <2> QED  BY <1>5, <1>7, <2>1, <2>2, WrapAroundMaps, InsideCounts
  <1>8. ASSUME NEW t \in Threads, InsertLast(t) PROVE Goal
    <2>1. pc[t] = "insert" /\ new' = new
      BY <1>8 DEF InsertLast, Settle
    <2>2. /\ pc' = [pc EXCEPT ![t] = "publish"]
          /\ seen' = [seen EXCEPT ![new[t]] = @ + 1]
      BY <1>8 DEF InsertLast, Settle
    <2> QED  BY <1>5, <1>8, <2>1, <2>2, InsertLastMaps, InsideCounts
  <1> HIDE DEF Goal
  <1> QED  BY <1>1, <1>2, <1>3, <1>4, <1>6, <1>7, <1>8 DEF Next, Step

\* One more event of a timestamp is one more event since every time that is not later.
LEMMA OneMoreSince ==
    ASSUME TypeOK, IsFiniteSet(Inserted), NEW x \in Timestamps,
           seen' = [seen EXCEPT ![x] = seen[x] + 1], NEW v \in Int
    PROVE  /\ IsFiniteSet(Inserted')
           /\ Cardinality(Since(v)') = IF x >= v THEN Cardinality(Since(v)) + 1
                                                 ELSE Cardinality(Since(v))
  <1> DEFINE e == <<x, seen[x] + 1>>
  <1>1. seen[x] \in Nat /\ x \in Int
    BY EnvironmentAssumption DEF TypeOK
  <1>2. seen'[x] = seen[x] + 1 /\ \A y \in Timestamps : y # x => seen'[y] = seen[y]
    BY DEF TypeOK
  <1>3. \A y : y \in Inserted <=>
            \E z \in Timestamps : \E n \in 1 .. seen[z] : y = <<z, n>>
    BY DEF Inserted
  <1>4. \A y : y \in Inserted' <=>
            \E z \in Timestamps : \E n \in 1 .. seen'[z] : y = <<z, n>>
    BY DEF Inserted
  <1>5. 1 .. seen'[x] = (1 .. seen[x]) \cup {seen[x] + 1} /\ seen[x] + 1 \notin 1 .. seen[x]
    BY <1>1, <1>2
  <1>6. e \notin Inserted
    BY <1>3, <1>5
  <1>7. Inserted' = Inserted \cup {e}
    <2>1. ASSUME NEW y \in Inserted PROVE y \in Inserted'
      BY <1>2, <1>3, <1>4, <1>5, <2>1
    <2>2. e \in Inserted'
      BY <1>4, <1>5
    <2>3. ASSUME NEW y \in Inserted' PROVE y \in Inserted \/ y = e
      <3>1. PICK z \in Timestamps : \E n \in 1 .. seen'[z] : y = <<z, n>>
        BY <1>4, <2>3
      <3>2. CASE z = x
        BY <1>3, <1>5, <3>1, <3>2
      <3>3. CASE z # x
        BY <1>2, <1>3, <3>1, <3>3
      <3> QED  BY <3>2, <3>3
    <2> QED  BY <2>1, <2>2, <2>3
  <1>8. e[1] = x
    OBVIOUS
  <1> HIDE DEF e
  <1>9. Since(v)' = IF x >= v THEN Since(v) \cup {e} ELSE Since(v)
    BY <1>7, <1>8 DEF Since
  <1>10. e \notin Since(v)
    BY <1>6 DEF Since
  <1>11. IsFiniteSet(Inserted')
    BY <1>7, FS_AddElement
  <1>12. IsFiniteSet(Since(v)) /\ Cardinality(Since(v) \cup {e}) = Cardinality(Since(v)) + 1
    BY <1>10, SinceType, FS_AddElement
  <1> QED  BY <1>9, <1>11, <1>12

\* In every reachable state the window's entries count the events.
LEMMA CountInvCorrect == Spec => []CountInv
  <1>1. Init => CountInv
    <2> SUFFICES ASSUME Init PROVE CountInv
      OBVIOUS
    <2>1. Inserted = {}
      BY DEF Init, Inserted
    <2>2. \A v : Since(v) = {}
      BY <2>1 DEF Since
    <2>3. IsFiniteSet({}) /\ Cardinality({}) = 0
      BY FS_EmptySet
    <2>4. \A i \in 1 .. N : Kept[i] = 0
      BY RateThresholdAssumption DEF Init, Kept, Before, SlotOf, Slots
    <2>5. \A v \in Int : v > 0 => Tallies(Kept, v, 0)
      BY <2>4, RateThresholdAssumption DEF Tallies
    <2>6. \A t \in Threads : pc[t] = "idle"
      BY DEF Init
    <2> QED  BY <2>1, <2>2, <2>3, <2>5, <2>6 DEF CountInv
  <1>2. TypeOK /\ RingInv /\ CountInv /\ [Next]_vars => CountInv'
    <2> SUFFICES ASSUME TypeOK, RingInv, CountInv, [Next]_vars PROVE CountInv'
      OBVIOUS
    <2>1. \A t \in Threads : pc'[t] # "idle" => new'[t] \in Timestamps
      BY StepsCount DEF CountInv
    <2>2. CASE CountedByNone
      <3>1. Kept' = Kept /\ Inserted' = Inserted
        BY <2>2 DEF CountedByNone, Inserted
      <3>2. \A v : Since(v)' = Since(v)
        BY <3>1 DEF Since
      <3>3. \A v \in Int : v > 0 => Tallies(Kept', v, Cardinality(Since(v)'))
        BY <3>1, <3>2 DEF CountInv
      <3> QED  BY <2>1, <3>1, <3>3 DEF CountInv, Tallies
    <2>3. ASSUME NEW t \in Threads, CountedBy(t) PROVE CountInv'
      <3> PICK x \in Timestamps : x = new[t]
        BY <2>3 DEF CountedBy, CountInv
      <3> PICK k \in Seq(Int) : k = Kept /\ Len(k) = N
        BY KeptType
      <3>1. Kept' = Tail(RW!Placed(k, x)) /\ x \in Int
        BY <2>3, EnvironmentAssumption DEF CountedBy, RW!Take, Kept
      <3>2. IsFiniteSet(Inserted) /\ seen' = [seen EXCEPT ![x] = seen[x] + 1]
        BY <2>3 DEF CountedBy, CountInv
      <3>3. ASSUME NEW v \in Int, v > 0 PROVE Tallies(Kept', v, Cardinality(Since(v)'))
        <4> PICK c \in Nat : c = Cardinality(Since(v))
          BY <3>2, SinceType
        <4>1. Tallies(k, v, c)
          BY <3>3 DEF CountInv
        <4>2. Tallies(Tail(RW!Placed(k, x)), v, IF x >= v THEN c + 1 ELSE c)
          BY <3>1, <4>1, PlacedTallies
        <4>3. Cardinality(Since(v)') = IF x >= v THEN c + 1 ELSE c
          BY <3>2, OneMoreSince
        <4> QED  BY <3>1, <4>2, <4>3
      <3>4. IsFiniteSet(Inserted')
        <4>1. 0 \in Int
          OBVIOUS
        <4> QED  BY <3>2, <4>1, OneMoreSince
      <3> QED  BY <2>1, <3>3, <3>4 DEF CountInv, Tallies
    <2> QED  BY <2>2, <2>3, StepsCount
  <1> QED  BY <1>1, <1>2, TypeCorrect, RingInvCorrect, PTL DEF Spec

\* The events of the window that ends at the newest one.
LEMMA WindowIsSince ==
    ASSUME NEW y \in Int, \A e \in Inserted : e[1] \in Int /\ e[1] <= y
    PROVE  EventsInWindow(y) = Cardinality(Since(y - Window))
  <1>1. Window \in Int
    BY RateThresholdAssumption
  <1>2. \A e \in Inserted : (e[1] + Window >= y /\ e[1] <= y) <=> e[1] >= y - Window
    BY <1>1
  <1> QED  BY <1>2 DEF EventsInWindow, Since

\* The newest entry of the window is the newest event, if it is not before all of them.
NewestIsKept ==
    \A x \in Timestamps : seen[x] > 0 /\ Kept[N] >= x =>
        /\ Newest = Kept[N] /\ Kept[N] \in Timestamps
        /\ EventsInWindow(Newest) = Cardinality(Since(Kept[N] - Window))

\* It is so in every state that the invariants allow.
LEMMA NewestIsLast == TypeOK /\ RingInv /\ CountInv => NewestIsKept
  <1> SUFFICES ASSUME TypeOK, RingInv, CountInv,
                      NEW x \in Timestamps, seen[x] > 0, Kept[N] >= x
               PROVE  /\ Newest = Kept[N] /\ Kept[N] \in Timestamps
                      /\ EventsInWindow(Newest) = Cardinality(Since(Kept[N] - Window))
    BY DEF NewestIsKept
  <1>1. N \in 1 .. N /\ N - N = 0
    BY RateThresholdAssumption
  <1> PICK y \in Int : y = Kept[N]
    BY <1>1, KeptType
  <1>2. x > 0 /\ y > 0 /\ Timestamps \subseteq Int
    BY RateThresholdAssumption, EnvironmentAssumption, ClockAssumption
  <1>3. \A v \in Int : v > 0 => (y >= v <=> Cardinality(Since(v)) > 0)
    BY <1>1 DEF CountInv, Tallies
  <1>4. \A v : Cardinality(Since(v)) \in Nat /\ (Cardinality(Since(v)) = 0 <=> Since(v) = {})
    BY SinceType, FS_EmptySet DEF CountInv
  <1>5. \A v \in Int : v > 0 => (y >= v <=> Since(v) # {})
    BY <1>3, <1>4
  <1>6. \A e \in Inserted : e[1] \in Timestamps /\ seen[e[1]] > 0
    BY DEF Inserted, TypeOK
  <1>7. \A z \in Timestamps : seen[z] > 0 => \E e \in Inserted : e[1] = z
    <2> SUFFICES ASSUME NEW z \in Timestamps, seen[z] > 0 PROVE \E e \in Inserted : e[1] = z
      OBVIOUS
    <2>1. 1 \in 1 .. seen[z]
      BY DEF TypeOK
    <2>2. <<z, 1>> \in Inserted
      BY <2>1 DEF Inserted
    <2> QED  BY <2>2
  <1>8. \A z \in Timestamps : z > 0 /\ z \in Int
    BY RateThresholdAssumption, EnvironmentAssumption, ClockAssumption
  <1>9. \A e \in Inserted : e[1] <= y
    <2> SUFFICES ASSUME NEW e \in Inserted PROVE e[1] <= y
      OBVIOUS
    <2>1. e \in Since(e[1]) /\ e[1] \in Int /\ e[1] > 0
      BY <1>6, <1>8 DEF Since
    <2>2. y >= e[1]
      BY <1>5, <2>1
    <2> QED  BY <2>1, <2>2
  <1>10. PICK last \in Inserted : last[1] >= y
    BY <1>2, <1>5 DEF Since
  <1>11. last[1] = y
    BY <1>6, <1>8, <1>9, <1>10
  <1>12. y \in Timestamps /\ seen[y] > 0
    BY <1>6, <1>11
  <1>13. \A z \in Timestamps : seen[z] > 0 => z <= y
    BY <1>7, <1>9
  <1>14. \A z \in Timestamps :
            seen[z] > 0 /\ (\A w \in Timestamps : seen[w] > 0 => w <= z) => z = y
    BY <1>8, <1>12, <1>13
  <1>15. Newest = y
    BY <1>12, <1>13, <1>14 DEF Newest
  <1>16. \A e \in Inserted : e[1] \in Int /\ e[1] <= y
    BY <1>6, <1>8, <1>9
  <1>17. EventsInWindow(y) = Cardinality(Since(y - Window))
    BY <1>16, WindowIsSince
  <1> QED  BY <1>12, <1>15, <1>17

\* What a verdict says of the events: it compares the oldest of N + 1 timestamps with
\* the newest, and that tells whether the event is in the window that ends at the newest
\* event, and N others with it.  It holds of every size of the ring, every window, and
\* for callers that are at it at the same time, with timestamps in any order.
THEOREM VerdictsCount == Spec => VerdictCountsEvents
  <1> DEFINE Verdict(t) ==
        (Evaluate(evicted'[t], newest'[t]) = ComparatorIsGe) =
            (new[t] + Window >= Newest' /\ EventsInWindow(Newest)' > N)
  <1>0. (TypeOK /\ RingInv /\ CountInv)' => NewestIsKept'
    BY NewestIsLast, PTL
  <1>1. ASSUME TypeOK, RingInv, CountInv, TypeOK', RingInv', CountInv', [Next]_vars,
               NEW t \in Threads, Inserts(t)
        PROVE  Verdict(t)
    <2>1. CountedBy(t)
      <3>1. PICK u \in Threads : CountedBy(u)
        BY <1>1, StepsCount DEF CountedByNone
      <3>2. u = t
        BY <1>1, <3>1 DEF CountedBy, Inserts, TypeOK
      <3> QED  BY <3>1, <3>2
    <2> PICK x \in Timestamps : x = new[t]
      BY <1>1 DEF Inserts, CountInv
    <2> PICK k \in Seq(Int) : k = Kept /\ Len(k) = N
      BY <1>1, KeptType
    <2> DEFINE ans == [u \in Threads |-> <<evicted[u], newest[u]>>]
    <2>2. /\ N \in Nat \ {0} /\ Window \in Nat /\ ComparatorIsGe \in BOOLEAN
          /\ x \in Int /\ x > Window /\ k[1] \in Int /\ k[N] \in Int
      BY RateThresholdAssumption, EnvironmentAssumption, ClockAssumption
    <2>3. /\ Kept' = Tail(RW!Placed(k, x))
          /\ ans' = [ans EXCEPT ![t] = <<Head(RW!Placed(k, x)), RW!Last(RW!Placed(k, x))>>]
      BY <2>1 DEF CountedBy, RW!Take, Kept
    <2>4. evicted'[t] = Head(RW!Placed(k, x)) /\ newest'[t] = RW!Last(RW!Placed(k, x))
      <3>1. ans'[t] = <<evicted'[t], newest'[t]>>
        OBVIOUS
      <3>2. t \in DOMAIN ans
        OBVIOUS
      <3> HIDE DEF ans
      <3>3. ans'[t] = <<Head(RW!Placed(k, x)), RW!Last(RW!Placed(k, x))>>
        BY <2>3, <3>2
      <3> QED  BY <3>1, <3>3
    <2>5. N \in 1 .. N /\ Kept'[N] \in Int /\ Kept'[N] = IF k[N] <= x THEN x ELSE k[N]
      <3>1. /\ Kept' \in Seq(Int) /\ Len(Kept') = N
            /\ \A i \in 1 .. N : Kept'[i] = IF i < N /\ k[i + 1] <= x THEN k[i + 1]
                                             ELSE IF k[i] <= x THEN x ELSE k[i]
        BY ONLY <2>2, <2>3, PlacedIn, k \in Seq(Int), Len(k) = N
      <3>2. N \in 1 .. N /\ ~ (N < N)
        BY <2>2
      <3> QED  BY <2>2, <3>1, <3>2
    <2> PICK y \in Int, d \in Int : y = Kept'[N] /\ d = (IF k[1] <= x THEN k[1] ELSE x)
      BY <2>2, <2>5
    <2>6. evicted'[t] = d /\ y >= x /\ newest'[t] = y
      <3>1. /\ Head(RW!Placed(k, x)) = IF k[1] <= x THEN k[1] ELSE x
            /\ RW!Last(RW!Placed(k, x)) = Tail(RW!Placed(k, x))[N]
        BY ONLY <2>2, PlacedIn, k \in Seq(Int), Len(k) = N
      <3>2. y >= x
        BY <2>2, <2>5
      <3> QED  BY <2>3, <2>4, <3>1, <3>2
    <2>7. seen' = [seen EXCEPT ![x] = seen[x] + 1] /\ seen'[x] > 0
      <3>1. seen' = [seen EXCEPT ![x] = seen[x] + 1]
        BY ONLY <2>1, x = new[t] DEF CountedBy
      <3>2. seen \in [Timestamps -> Nat]
        BY <1>1 DEF TypeOK
      <3>3. seen'[x] = seen[x] + 1 /\ seen[x] \in Nat
        BY ONLY <3>1, <3>2, x \in Timestamps
      <3> QED  BY ONLY <3>1, <3>3
    <2> PICK v \in Int : v = y - Window
      BY <2>2
    <2>8. Newest' = y /\ y \in Timestamps /\ EventsInWindow(Newest)' = Cardinality(Since(v)')
      <3>1. /\ Newest' = Kept'[N] /\ Kept'[N] \in Timestamps
            /\ EventsInWindow(Newest)' = Cardinality(Since(Kept[N] - Window)')
        BY <1>0, <1>1, <2>6, <2>7 DEF NewestIsKept
      <3>2. Since(Kept[N] - Window)' = Since(v)'
        BY DEF Since
      <3> QED  BY <3>1, <3>2
    <2>9. v > 0
      BY <2>2, <2>8, ClockAssumption
    <2> PICK c \in Nat : c = Cardinality(Since(v))
      BY <1>1, SinceType DEF CountInv
    <2>10. Cardinality(Since(v)') = IF x >= v THEN c + 1 ELSE c
      BY <1>1, <2>7, OneMoreSince DEF CountInv
    <2>11. k[1] >= v <=> c > N - 1
      <3>1. Tallies(k, v, c) /\ 1 \in 1 .. N
        BY <1>1, <2>2, <2>9 DEF CountInv
      <3> QED  BY <3>1 DEF Tallies
    <2> PICK n \in Nat : n = EventsInWindow(Newest)' /\ n = (IF x >= v THEN c + 1 ELSE c)
      BY <2>8, <2>10
    <2>12. d + Window >= y <=> x + Window >= y /\ n > N
      <3> PICK old \in Int : old = k[1]
        BY <2>2
      <3>1. d = (IF old <= x THEN old ELSE x)
        OBVIOUS
      <3>2. d + Window >= y <=> old >= v /\ x >= v
        BY ONLY <2>2, <3>1, d \in Int, y \in Int, v \in Int, old \in Int, v = y - Window
      <3>3. x >= v <=> x + Window >= y
        BY ONLY <2>2, y \in Int, v \in Int, v = y - Window
      <3>4. old >= v <=> c > N - 1
        BY <2>11
      <3>5. old >= v /\ x >= v <=> x >= v /\ n > N
        BY <2>2, <3>4
      <3> QED  BY <3>2, <3>3, <3>5
    <2>13. Evaluate(evicted'[t], newest'[t]) = ((d + Window >= y) = ComparatorIsGe)
      BY <2>6 DEF Evaluate, ThresholdMet
    <2>14. (((d + Window >= y) = ComparatorIsGe) = ComparatorIsGe) = (d + Window >= y)
      BY ONLY <2>2, d \in Int, y \in Int
    <2>15. (Evaluate(evicted'[t], newest'[t]) = ComparatorIsGe) = (d + Window >= y)
      BY ONLY <2>13, <2>14
    <2> QED  BY ONLY <2>8, <2>12, <2>15, x = new[t], n = EventsInWindow(Newest)'
  <1>2. TypeOK /\ RingInv /\ CountInv /\ TypeOK' /\ RingInv' /\ CountInv' /\ [Next]_vars
            => [\A t \in Threads : Inserts(t) => Verdict(t)]_vars
    BY <1>1
  <1> QED  BY <1>2, TypeCorrect, RingInvCorrect, CountInvCorrect, PTL DEF Spec, VerdictCountsEvents
=============================================================================
