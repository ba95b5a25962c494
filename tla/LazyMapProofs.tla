--------------------------- MODULE LazyMapProofs ---------------------------
(***************************************************************************)
(* Proofs about LazyMap, for every set of threads and keys, every message  *)
(* time, maximal age and checkup period.                                   *)
(*                                                                         *)
(* Order of the argument: types; who holds which lock; from that, the      *)
(* length cache, the protection of values in use, and what a cleanup may   *)
(* forget.                                                                 *)
(***************************************************************************)
EXTENDS LazyMap, FiniteSetTheorems, TLAPS

\* The map's keys are a finite set: its cardinality is a number.
LEMMA PresentFinite ==
    ASSUME TypeOK PROVE IsFiniteSet(present) /\ Cardinality(present) \in Nat
<1>1. IsFiniteSet(present)
  BY FS_Subset, LazyMapAssumption DEF TypeOK
<1>2. QED
  BY <1>1, FS_CardinalityType

\* Every variable keeps its type.
THEOREM TypeCorrect == Spec => []TypeOK
<1> USE LazyMapAssumption
    DEF Getting, Cleaning, Goto, content, locks, cleaner, history
<1>1. Init => TypeOK
  BY DEF Init, TypeOK
<1>2. TypeOK /\ [Next]_vars => TypeOK'
  <2> SUFFICES ASSUME TypeOK, [Next]_vars PROVE TypeOK'
    OBVIOUS
  <2>1. ASSUME NEW t \in Threads, NEW k \in Keys, NEW x \in Times, Get(t, k, x)
       PROVE  TypeOK'
    BY <2>1 DEF TypeOK, Get
  <2>2. ASSUME NEW t \in Threads, ReadLock(t) PROVE TypeOK'
    BY <2>2 DEF TypeOK, ReadLock
  <2>3. ASSUME NEW t \in Threads, ReadHit(t) PROVE TypeOK'
    BY <2>3 DEF TypeOK, ReadHit, Access, Later
  <2>4. ASSUME NEW t \in Threads, ReadMiss(t) PROVE TypeOK'
    BY <2>4 DEF TypeOK, ReadMiss
  <2>5. ASSUME NEW t \in Threads, WriteLock(t) PROVE TypeOK'
    BY <2>5 DEF TypeOK, WriteLock, MapFree
  <2>6. ASSUME NEW t \in Threads, EntryOccupied(t) PROVE TypeOK'
    BY <2>6 DEF TypeOK, EntryOccupied
  <2>7. ASSUME NEW t \in Threads, EntryVacant(t) PROVE TypeOK'
    BY <2>7 DEF TypeOK, EntryVacant
  <2>8. ASSUME NEW t \in Threads, Create(t) PROVE TypeOK'
    BY <2>8 DEF TypeOK, Create
  <2>9. ASSUME NEW t \in Threads, WriteAccess(t) PROVE TypeOK'
    BY <2>9 DEF TypeOK, WriteAccess, Access, Later
  <2>10. ASSUME NEW t \in Threads, DropGuard(t) PROVE TypeOK'
    BY <2>10 DEF TypeOK, DropGuard
  <2>11. ASSUME NEW t \in Threads, TryLockFails(t) PROVE TypeOK'
    BY <2>11 DEF TypeOK, TryLockFails
  <2>12. ASSUME NEW t \in Threads, TryLock(t) PROVE TypeOK'
    BY <2>12 DEF TypeOK, TryLock
  <2>13. ASSUME NEW t \in Threads, Check(t) PROVE TypeOK'
    BY <2>13 DEF TypeOK, Check
  <2>14. ASSUME NEW t \in Threads, RetainLock(t) PROVE TypeOK'
    BY <2>14 DEF TypeOK, RetainLock, MapFree
  <2>15. ASSUME NEW t \in Threads, Retain(t) PROVE TypeOK'
    BY <2>15 DEF TypeOK, Retain, Later, Cutoff
  <2>16. ASSUME NEW t \in Threads, StoreLen(t) PROVE TypeOK'
    BY <2>16, PresentFinite DEF TypeOK, StoreLen
  <2>17. ASSUME NEW t \in Threads, Update(t) PROVE TypeOK'
    BY <2>17 DEF TypeOK, Update
  <2>18. CASE UNCHANGED vars
    BY <2>18 DEF TypeOK, vars
  <2>19. QED
    BY <2>1, <2>2, <2>3, <2>4, <2>5, <2>6, <2>7, <2>8, <2>9, <2>10, <2>11, <2>12, <2>13, <2>14, <2>15, <2>16, <2>17, <2>18 DEF Next, Step
<1>3. QED
  BY <1>1, <1>2, PTL DEF Spec
-----------------------------------------------------------------------------
\* The locks exclude each other: a writer excludes readers and other writers,
\* and one thread at a time cleans.
THEOREM LocksCorrect == Spec => []LockInv
<1> USE LazyMapAssumption
    DEF Getting, Cleaning, Goto, content, locks, cleaner, history
<1>1. Init => LockInv
  BY DEF Init, LockInv
<1>2. TypeOK /\ LockInv /\ [Next]_vars => LockInv'
  <2> SUFFICES ASSUME TypeOK, LockInv, [Next]_vars PROVE LockInv'
    OBVIOUS
  <2>1. ASSUME NEW t \in Threads, NEW k \in Keys, NEW x \in Times, Get(t, k, x)
       PROVE  LockInv'
    BY <2>1 DEF TypeOK, LockInv, Get
  <2>2. ASSUME NEW t \in Threads, ReadLock(t) PROVE LockInv'
    BY <2>2 DEF TypeOK, LockInv, ReadLock
  <2>3. ASSUME NEW t \in Threads, ReadHit(t) PROVE LockInv'
    BY <2>3 DEF TypeOK, LockInv, ReadHit, Access, Later
  <2>4. ASSUME NEW t \in Threads, ReadMiss(t) PROVE LockInv'
    BY <2>4 DEF TypeOK, LockInv, ReadMiss
  <2>5. ASSUME NEW t \in Threads, WriteLock(t) PROVE LockInv'
    BY <2>5 DEF TypeOK, LockInv, WriteLock, MapFree
  <2>6. ASSUME NEW t \in Threads, EntryOccupied(t) PROVE LockInv'
    BY <2>6 DEF TypeOK, LockInv, EntryOccupied
  <2>7. ASSUME NEW t \in Threads, EntryVacant(t) PROVE LockInv'
    BY <2>7 DEF TypeOK, LockInv, EntryVacant
  <2>8. ASSUME NEW t \in Threads, Create(t) PROVE LockInv'
    BY <2>8 DEF TypeOK, LockInv, Create
  <2>9. ASSUME NEW t \in Threads, WriteAccess(t) PROVE LockInv'
    BY <2>9 DEF TypeOK, LockInv, WriteAccess, Access, Later
  <2>10. ASSUME NEW t \in Threads, DropGuard(t) PROVE LockInv'
    BY <2>10 DEF TypeOK, LockInv, DropGuard
  <2>11. ASSUME NEW t \in Threads, TryLockFails(t) PROVE LockInv'
    BY <2>11 DEF TypeOK, LockInv, TryLockFails
  <2>12. ASSUME NEW t \in Threads, TryLock(t) PROVE LockInv'
    BY <2>12 DEF TypeOK, LockInv, TryLock
  <2>13. ASSUME NEW t \in Threads, Check(t) PROVE LockInv'
    BY <2>13 DEF TypeOK, LockInv, Check
  <2>14. ASSUME NEW t \in Threads, RetainLock(t) PROVE LockInv'
    BY <2>14 DEF TypeOK, LockInv, RetainLock, MapFree
  <2>15. ASSUME NEW t \in Threads, Retain(t) PROVE LockInv'
    BY <2>15 DEF TypeOK, LockInv, Retain, Later, Cutoff
  <2>16. ASSUME NEW t \in Threads, StoreLen(t) PROVE LockInv'
    BY <2>16 DEF TypeOK, LockInv, StoreLen
  <2>17. ASSUME NEW t \in Threads, Update(t) PROVE LockInv'
    BY <2>17 DEF TypeOK, LockInv, Update
  <2>18. CASE UNCHANGED vars
    BY <2>18 DEF TypeOK, LockInv, vars
  <2>19. QED
    BY <2>1, <2>2, <2>3, <2>4, <2>5, <2>6, <2>7, <2>8, <2>9, <2>10, <2>11, <2>12, <2>13, <2>14, <2>15, <2>16, <2>17, <2>18 DEF Next, Step
<1>3. QED
  BY <1>1, <1>2, TypeCorrect, PTL DEF Spec
-----------------------------------------------------------------------------
\* The length cache counts an entry just before it is created, once.
LEMMA LenInvCorrect == Spec => []LenInv
<1> USE LazyMapAssumption
    DEF Getting, Cleaning, Goto, content, locks, cleaner, history
<1>1. Init => LenInv
  BY FS_EmptySet DEF Init, LenInv
<1>2. TypeOK /\ LockInv /\ LenInv /\ [Next]_vars => LenInv'
  <2> SUFFICES ASSUME TypeOK, LockInv, LenInv, [Next]_vars PROVE LenInv'
    OBVIOUS
  <2>1. ASSUME NEW t \in Threads, NEW k \in Keys, NEW x \in Times, Get(t, k, x)
       PROVE  LenInv'
    BY <2>1 DEF TypeOK, LockInv, LenInv, Get
  <2>2. ASSUME NEW t \in Threads, ReadLock(t) PROVE LenInv'
    BY <2>2 DEF TypeOK, LockInv, LenInv, ReadLock
  <2>3. ASSUME NEW t \in Threads, ReadHit(t) PROVE LenInv'
    BY <2>3 DEF TypeOK, LockInv, LenInv, ReadHit, Access, Later
  <2>4. ASSUME NEW t \in Threads, ReadMiss(t) PROVE LenInv'
    BY <2>4 DEF TypeOK, LockInv, LenInv, ReadMiss
  <2>5. ASSUME NEW t \in Threads, WriteLock(t) PROVE LenInv'
    BY <2>5 DEF TypeOK, LockInv, LenInv, WriteLock, MapFree
  <2>6. ASSUME NEW t \in Threads, EntryOccupied(t) PROVE LenInv'
    BY <2>6 DEF TypeOK, LockInv, LenInv, EntryOccupied
  <2>7. ASSUME NEW t \in Threads, EntryVacant(t) PROVE LenInv'
    BY <2>7 DEF TypeOK, LockInv, LenInv, EntryVacant
  <2>8. ASSUME NEW t \in Threads, Create(t) PROVE LenInv'
    <3>1. key[t] \notin present /\ lenCache = Cardinality(present) + 1
      BY <2>8 DEF Create, LenInv
    <3>2. present' = present \cup {key[t]} /\ lenCache' = lenCache
      BY <2>8 DEF Create
    <3>3. Cardinality(present') = Cardinality(present) + 1
      BY <3>1, <3>2, PresentFinite, FS_AddElement
    <3>4. ASSUME NEW u \in Threads PROVE pc'[u] # "create"
      BY <2>8 DEF Create, LockInv, TypeOK
    <3>5. QED
      BY <3>1, <3>2, <3>3, <3>4 DEF LenInv
  <2>9. ASSUME NEW t \in Threads, WriteAccess(t) PROVE LenInv'
    BY <2>9 DEF TypeOK, LockInv, LenInv, WriteAccess, Access, Later
  <2>10. ASSUME NEW t \in Threads, DropGuard(t) PROVE LenInv'
    BY <2>10 DEF TypeOK, LockInv, LenInv, DropGuard
  <2>11. ASSUME NEW t \in Threads, TryLockFails(t) PROVE LenInv'
    BY <2>11 DEF TypeOK, LockInv, LenInv, TryLockFails
  <2>12. ASSUME NEW t \in Threads, TryLock(t) PROVE LenInv'
    BY <2>12 DEF TypeOK, LockInv, LenInv, TryLock
  <2>13. ASSUME NEW t \in Threads, Check(t) PROVE LenInv'
    BY <2>13 DEF TypeOK, LockInv, LenInv, Check
  <2>14. ASSUME NEW t \in Threads, RetainLock(t) PROVE LenInv'
    BY <2>14 DEF TypeOK, LockInv, LenInv, RetainLock, MapFree
  <2>15. ASSUME NEW t \in Threads, Retain(t) PROVE LenInv'
    BY <2>15 DEF TypeOK, LockInv, LenInv, Retain, Later, Cutoff
  <2>16. ASSUME NEW t \in Threads, StoreLen(t) PROVE LenInv'
    BY <2>16, PresentFinite
    DEF TypeOK, LockInv, LenInv, StoreLen
  <2>17. ASSUME NEW t \in Threads, Update(t) PROVE LenInv'
    BY <2>17 DEF TypeOK, LockInv, LenInv, Update
  <2>18. CASE UNCHANGED vars
    BY <2>18 DEF TypeOK, LockInv, LenInv, vars
  <2>19. QED
    BY <2>1, <2>2, <2>3, <2>4, <2>5, <2>6, <2>7, <2>8, <2>9, <2>10, <2>11, <2>12, <2>13, <2>14, <2>15, <2>16, <2>17, <2>18 DEF Next, Step
<1>3. QED
  BY <1>1, <1>2, TypeCorrect, LocksCorrect, PTL DEF Spec

\* len_cache is the number of entries whenever no thread holds the map for
\* writing: creations by threads that miss the same key at the same time and
\* cleanups leave it exact.
THEOREM LenCacheAlwaysExact == Spec => []LenCacheExact
<1>1. LockInv /\ LenInv => LenCacheExact
  BY LazyMapAssumption DEF LockInv, LenInv, LenCacheExact
<1>2. QED
  BY <1>1, LenInvCorrect, LocksCorrect, PTL

\* A value stays in the map while a thread has access to it.
THEOREM AccessAlwaysProtected == Spec => []AccessProtected
<1> USE LazyMapAssumption
    DEF Getting, Cleaning, Goto, content, locks, cleaner, history
<1>1. Init => AccessProtected
  BY DEF Init, AccessProtected
<1>2. TypeOK /\ LockInv /\ AccessProtected /\ [Next]_vars => AccessProtected'
  <2> SUFFICES ASSUME TypeOK, LockInv, AccessProtected, [Next]_vars
               PROVE  AccessProtected'
    OBVIOUS
  <2>1. ASSUME NEW t \in Threads, NEW k \in Keys, NEW x \in Times, Get(t, k, x)
       PROVE  AccessProtected'
    BY <2>1 DEF TypeOK, LockInv, AccessProtected, Get
  <2>2. ASSUME NEW t \in Threads, ReadLock(t) PROVE AccessProtected'
    BY <2>2 DEF TypeOK, LockInv, AccessProtected, ReadLock
  <2>3. ASSUME NEW t \in Threads, ReadHit(t) PROVE AccessProtected'
    BY <2>3 DEF TypeOK, LockInv, AccessProtected, ReadHit, Access, Later
  <2>4. ASSUME NEW t \in Threads, ReadMiss(t) PROVE AccessProtected'
    BY <2>4 DEF TypeOK, LockInv, AccessProtected, ReadMiss
  <2>5. ASSUME NEW t \in Threads, WriteLock(t) PROVE AccessProtected'
    BY <2>5 DEF TypeOK, LockInv, AccessProtected, WriteLock, MapFree
  <2>6. ASSUME NEW t \in Threads, EntryOccupied(t) PROVE AccessProtected'
    BY <2>6 DEF TypeOK, LockInv, AccessProtected, EntryOccupied
  <2>7. ASSUME NEW t \in Threads, EntryVacant(t) PROVE AccessProtected'
    BY <2>7 DEF TypeOK, LockInv, AccessProtected, EntryVacant
  <2>8. ASSUME NEW t \in Threads, Create(t) PROVE AccessProtected'
    BY <2>8 DEF TypeOK, LockInv, AccessProtected, Create
  <2>9. ASSUME NEW t \in Threads, WriteAccess(t) PROVE AccessProtected'
    BY <2>9 DEF TypeOK, LockInv, AccessProtected, WriteAccess, Access, Later
  <2>10. ASSUME NEW t \in Threads, DropGuard(t) PROVE AccessProtected'
    BY <2>10 DEF TypeOK, LockInv, AccessProtected, DropGuard
  <2>11. ASSUME NEW t \in Threads, TryLockFails(t) PROVE AccessProtected'
    BY <2>11 DEF TypeOK, LockInv, AccessProtected, TryLockFails
  <2>12. ASSUME NEW t \in Threads, TryLock(t) PROVE AccessProtected'
    BY <2>12 DEF TypeOK, LockInv, AccessProtected, TryLock
  <2>13. ASSUME NEW t \in Threads, Check(t) PROVE AccessProtected'
    BY <2>13 DEF TypeOK, LockInv, AccessProtected, Check
  <2>14. ASSUME NEW t \in Threads, RetainLock(t) PROVE AccessProtected'
    BY <2>14 DEF TypeOK, LockInv, AccessProtected, RetainLock, MapFree
  <2>15. ASSUME NEW t \in Threads, Retain(t) PROVE AccessProtected'
    BY <2>15 DEF TypeOK, LockInv, AccessProtected, Retain, Later, Cutoff
  <2>16. ASSUME NEW t \in Threads, StoreLen(t) PROVE AccessProtected'
    BY <2>16 DEF TypeOK, LockInv, AccessProtected, StoreLen
  <2>17. ASSUME NEW t \in Threads, Update(t) PROVE AccessProtected'
    BY <2>17 DEF TypeOK, LockInv, AccessProtected, Update
  <2>18. CASE UNCHANGED vars
    BY <2>18 DEF TypeOK, LockInv, AccessProtected, vars
  <2>19. QED
    BY <2>1, <2>2, <2>3, <2>4, <2>5, <2>6, <2>7, <2>8, <2>9, <2>10, <2>11, <2>12, <2>13, <2>14, <2>15, <2>16, <2>17, <2>18 DEF Next, Step
<1>3. QED
  BY <1>1, <1>2, TypeCorrect, LocksCorrect, PTL DEF Spec

\* Every time and every stamp is an integer.
LEMMA AllIntegers ==
    ASSUME TypeOK, NEW t \in Threads, NEW k \in Keys
    PROVE  /\ stamp[k] \in Int /\ touched[k] \in Int
           /\ now[t] \in Int /\ horizon \in Int
<1>1. stamp[k] \in Nat /\ horizon \in Nat
  BY DEF TypeOK
<1>2. touched[k] \in Nat \cup {-1}
  BY DEF TypeOK
<1>3. now[t] \in Nat
  BY LazyMapAssumption DEF TypeOK
<1>4. QED
  BY <1>1, <1>2, <1>3

\* An update records the same time in the value as in the history.
LEMMA AccessKeepsRecent ==
    ASSUME TypeOK, NothingRecentForgotten, NEW t \in Threads,
           key[t] \in present, Access(t), UNCHANGED <<present, horizon>>
    PROVE  NothingRecentForgotten'
<1> SUFFICES ASSUME NEW k \in Keys, touched'[k] >= horizon
             PROVE  k \in present /\ stamp'[k] >= touched'[k]
  BY DEF NothingRecentForgotten
<1>1. CASE k # key[t]
  BY <1>1 DEF Access, TypeOK, NothingRecentForgotten
<1>2. CASE k = key[t]
  <2>1. stamp'[k] = Later(stamp[k], now[t]) /\ touched'[k] = Later(touched[k], now[t])
    BY <1>2 DEF Access, TypeOK
  <2>2. stamp[k] \in Int /\ touched[k] \in Int /\ now[t] \in Int /\ horizon \in Int
    BY AllIntegers
  <2>3. touched[k] >= horizon => stamp[k] >= touched[k]
    BY DEF NothingRecentForgotten
  <2>4. QED
    BY <1>2, <2>1, <2>2, <2>3 DEF Later
<1>3. QED
  BY <1>1, <1>2

\* A key updated with a time that no cutoff has passed is in the map with that
\* time: neither a racing creation nor a cleanup forgets it.
THEOREM NothingRecentEverForgotten == Spec => []NothingRecentForgotten
<1> USE LazyMapAssumption
    DEF Getting, Cleaning, Goto, content, locks, cleaner, history
<1>1. Init => NothingRecentForgotten
  BY DEF Init, NothingRecentForgotten
<1>2. /\ TypeOK /\ LenInv /\ AccessProtected /\ NothingRecentForgotten
      /\ [Next]_vars
      => NothingRecentForgotten'
  <2> SUFFICES ASSUME TypeOK, LenInv, AccessProtected, NothingRecentForgotten,
                      [Next]_vars
               PROVE  NothingRecentForgotten'
    OBVIOUS
  <2>1. ASSUME NEW t \in Threads, NEW k \in Keys, NEW x \in Times, Get(t, k, x)
       PROVE  NothingRecentForgotten'
    BY <2>1 DEF TypeOK, AccessProtected, NothingRecentForgotten, Get
  <2>2. ASSUME NEW t \in Threads, ReadLock(t) PROVE NothingRecentForgotten'
    BY <2>2 DEF TypeOK, AccessProtected, NothingRecentForgotten, ReadLock
  <2>3. ASSUME NEW t \in Threads, ReadHit(t) PROVE NothingRecentForgotten'
    BY <2>3, AccessKeepsRecent DEF ReadHit
  <2>4. ASSUME NEW t \in Threads, ReadMiss(t) PROVE NothingRecentForgotten'
    BY <2>4 DEF TypeOK, AccessProtected, NothingRecentForgotten, ReadMiss
  <2>5. ASSUME NEW t \in Threads, WriteLock(t) PROVE NothingRecentForgotten'
    BY <2>5 DEF TypeOK, AccessProtected, NothingRecentForgotten, WriteLock, MapFree
  <2>6. ASSUME NEW t \in Threads, EntryOccupied(t) PROVE NothingRecentForgotten'
    BY <2>6 DEF TypeOK, AccessProtected, NothingRecentForgotten, EntryOccupied
  <2>7. ASSUME NEW t \in Threads, EntryVacant(t) PROVE NothingRecentForgotten'
    BY <2>7 DEF TypeOK, AccessProtected, NothingRecentForgotten, EntryVacant
  <2>8. ASSUME NEW t \in Threads, Create(t) PROVE NothingRecentForgotten'
    <3> SUFFICES ASSUME NEW k \in Keys, touched'[k] >= horizon'
                 PROVE  k \in present' /\ stamp'[k] >= touched'[k]
      BY DEF NothingRecentForgotten
    <3>1. touched[k] >= horizon
      BY <2>8 DEF Create
    <3>2. k \in present /\ stamp[k] >= touched[k]
      BY <3>1 DEF NothingRecentForgotten
    <3>3. key[t] \notin present
      BY <2>8 DEF Create, LenInv
    <3>4. QED
      BY <2>8, <3>2, <3>3 DEF Create, TypeOK
  <2>9. ASSUME NEW t \in Threads, WriteAccess(t) PROVE NothingRecentForgotten'
    BY <2>9, AccessKeepsRecent DEF WriteAccess, AccessProtected
  <2>10. ASSUME NEW t \in Threads, DropGuard(t) PROVE NothingRecentForgotten'
    BY <2>10 DEF TypeOK, AccessProtected, NothingRecentForgotten, DropGuard
  <2>11. ASSUME NEW t \in Threads, TryLockFails(t) PROVE NothingRecentForgotten'
    BY <2>11 DEF TypeOK, AccessProtected, NothingRecentForgotten, TryLockFails
  <2>12. ASSUME NEW t \in Threads, TryLock(t) PROVE NothingRecentForgotten'
    BY <2>12 DEF TypeOK, AccessProtected, NothingRecentForgotten, TryLock
  <2>13. ASSUME NEW t \in Threads, Check(t) PROVE NothingRecentForgotten'
    BY <2>13 DEF TypeOK, AccessProtected, NothingRecentForgotten, Check
  <2>14. ASSUME NEW t \in Threads, RetainLock(t) PROVE NothingRecentForgotten'
    BY <2>14 DEF TypeOK, AccessProtected, NothingRecentForgotten, RetainLock, MapFree
  <2>15. ASSUME NEW t \in Threads, Retain(t) PROVE NothingRecentForgotten'
    <3> SUFFICES ASSUME NEW k \in Keys, touched'[k] >= horizon'
                 PROVE  k \in present' /\ stamp'[k] >= touched'[k]
      BY DEF NothingRecentForgotten
    <3>1. Cutoff(t) \in Int /\ horizon \in Int /\ touched[k] \in Int /\ stamp[k] \in Int
      BY AllIntegers DEF Cutoff
    <3>2. touched[k] >= horizon /\ touched[k] >= Cutoff(t)
      BY <2>15, <3>1 DEF Retain, Later
    <3>3. k \in present /\ stamp[k] >= touched[k]
      BY <3>2 DEF NothingRecentForgotten
    <3>4. stamp[k] >= Cutoff(t)
      BY <3>1, <3>2, <3>3
    <3>5. QED
      BY <2>15, <3>3, <3>4 DEF Retain
  <2>16. ASSUME NEW t \in Threads, StoreLen(t) PROVE NothingRecentForgotten'
    BY <2>16 DEF TypeOK, AccessProtected, NothingRecentForgotten, StoreLen
  <2>17. ASSUME NEW t \in Threads, Update(t) PROVE NothingRecentForgotten'
    BY <2>17 DEF TypeOK, AccessProtected, NothingRecentForgotten, Update
  <2>18. CASE UNCHANGED vars
    BY <2>18 DEF TypeOK, AccessProtected, NothingRecentForgotten, vars
  <2>19. QED
    BY <2>1, <2>2, <2>3, <2>4, <2>5, <2>6, <2>7, <2>8, <2>9, <2>10, <2>11, <2>12, <2>13, <2>14, <2>15, <2>16, <2>17, <2>18 DEF Next, Step
<1>3. QED
  BY <1>1, <1>2, TypeCorrect, LenInvCorrect, AccessAlwaysProtected, PTL DEF Spec
=============================================================================
