------------------------------ MODULE LazyMap ------------------------------
(***************************************************************************)
(* LazyMap / ConcurrentMap (signal-gateway/src/concurrent_map.rs) and the  *)
(* LazyMapCleaner that prunes it (lazy_map_cleaner.rs), as every client    *)
(* uses the two: a thread that handles a log message gets the value of a   *)
(* key, creating it if need be, updates it under the map's lock, and then  *)
(* calls maybe_clean with the message's time.                              *)
(*                                                                         *)
(* A value is abstracted to what the cleaner asks of it, its ts_secs: the  *)
(* newest time it has been updated with, 0 when it is new.  Updates are    *)
(* atomic (fetch_max), so readers may make them concurrently.              *)
(***************************************************************************)
EXTENDS Integers, FiniteSets

CONSTANTS Threads, NoThread,
          Keys,
          Times,             \* times of the log messages
          MaxAge,            \* LazyMapCleaner.max_age
          CheckupPeriod      \* LazyMapCleaner.min_checkup_period

ASSUME LazyMapAssumption ==
    /\ NoThread \notin Threads
    /\ IsFiniteSet(Keys)
    /\ Times \subseteq Nat
    /\ MaxAge \in Nat
    /\ CheckupPeriod \in Nat

VARIABLES
    present,      \* the keys of the HashMap
    stamp,        \* ts_secs of the value of each key that is present
    lenCache,     \* ConcurrentMap.len_cache, an AtomicUsize
    readers,      \* threads that hold ConcurrentMap.inner for reading
    writer,       \* the thread that holds it for writing
    cleaning,     \* the thread that holds LazyMapCleaner.state
    lastSize,     \* CleanerState.last_cleanup_size
    lastCheckup,  \* CleanerState.last_checkup
    newSize,      \* maybe_clean's new_cleanup_size, of the thread that cleans
    pc, key, now, \* each thread's position, key and message time
    touched,      \* history: the newest time each key was updated with, or -1
    horizon       \* history: the newest cutoff a cleanup has used

content == <<present, stamp, lenCache>>
locks == <<readers, writer>>
cleaner == <<cleaning, lastSize, lastCheckup, newSize>>
history == <<touched, horizon>>
vars == <<present, stamp, lenCache, readers, writer, cleaning, lastSize,
          lastCheckup, newSize, pc, key, now, touched, horizon>>

Getting == {"read", "lookup", "write", "entry", "create", "access"}
Cleaning == {"check", "retainLock", "retain", "storeLen", "update"}

TypeOK ==
    /\ present \subseteq Keys
    /\ stamp \in [Keys -> Nat]
    /\ lenCache \in Nat
    /\ readers \subseteq Threads
    /\ writer \in Threads \cup {NoThread}
    /\ cleaning \in Threads \cup {NoThread}
    /\ lastSize \in Nat
    /\ lastCheckup \in Nat
    /\ newSize \in Nat
    /\ pc \in [Threads -> {"idle", "drop", "tryClean"} \cup Getting \cup Cleaning]
    /\ key \in [Threads -> Keys]
    /\ now \in [Threads -> Times]
    /\ touched \in [Keys -> Nat \cup {-1}]
    /\ horizon \in Nat

Init ==
    /\ present = {}
    /\ stamp = [k \in Keys |-> 0]
    /\ lenCache = 0
    /\ readers = {} /\ writer = NoThread
    /\ cleaning = NoThread /\ lastSize = 0 /\ lastCheckup = 0 /\ newSize = 0
    /\ pc = [t \in Threads |-> "idle"]
    /\ key \in [Threads -> Keys]
    /\ now \in [Threads -> Times]
    /\ touched = [k \in Keys |-> -1]
    /\ horizon = 0

Goto(t, label) == pc' = [pc EXCEPT ![t] = label]
Later(a, b) == IF a >= b THEN a ELSE b
-----------------------------------------------------------------------------
(* get_or_insert_with                                                      *)

Get(t, k, x) ==
    /\ pc[t] = "idle"
    /\ key' = [key EXCEPT ![t] = k]
    /\ now' = [now EXCEPT ![t] = x]
    /\ Goto(t, "read")
    /\ UNCHANGED <<content, locks, cleaner, history>>

ReadLock(t) ==
    /\ pc[t] = "read"
    /\ writer = NoThread
    /\ readers' = readers \cup {t}
    /\ Goto(t, "lookup")
    /\ UNCHANGED <<content, writer, cleaner, key, now, history>>

\* The access function updates the value of t's key.
Access(t) ==
    /\ stamp' = [stamp EXCEPT ![key[t]] = Later(@, now[t])]
    /\ touched' = [touched EXCEPT ![key[t]] = Later(@, now[t])]

ReadHit(t) ==
    /\ pc[t] = "lookup"
    /\ key[t] \in present
    /\ Access(t)
    /\ Goto(t, "drop")
    /\ UNCHANGED <<present, lenCache, locks, cleaner, key, now, horizon>>

\* A mutant of ReadMiss: the read guard lives until get returns.
ReadMissKeepsGuard(t) ==
    /\ pc[t] = "lookup"
    /\ key[t] \notin present
    /\ Goto(t, "write")
    /\ UNCHANGED <<content, locks, cleaner, key, now, history>>

\* The read guard is dropped before the write lock is requested: another
\* thread may create the key in between.
ReadMiss(t) ==
    /\ pc[t] = "lookup"
    /\ key[t] \notin present
    /\ readers' = readers \ {t}
    /\ Goto(t, "write")
    /\ UNCHANGED <<content, writer, cleaner, key, now, history>>

\* A mutant of MapFree: a writer does not wait for the readers.
MapFreeOfWriters == writer = NoThread

\* No thread holds the map's lock.
MapFree == writer = NoThread /\ readers = {}

WriteLock(t) ==
    /\ pc[t] = "write"
    /\ MapFree
    /\ writer' = t
    /\ Goto(t, "entry")
    /\ UNCHANGED <<content, readers, cleaner, key, now, history>>

\* entry(key) looks the key up again, now under the write lock.
EntryOccupied(t) ==
    /\ pc[t] = "entry"
    /\ key[t] \in present
    /\ Goto(t, "access")
    /\ UNCHANGED <<content, locks, cleaner, key, now, history>>

\* A mutant of EntryVacant: the second lookup is left out.
EntryVacantUnchecked(t) ==
    /\ pc[t] = "entry"
    /\ lenCache' = lenCache + 1
    /\ Goto(t, "create")
    /\ UNCHANGED <<present, stamp, locks, cleaner, key, now, history>>

EntryVacant(t) ==
    /\ pc[t] = "entry"
    /\ key[t] \notin present
    /\ lenCache' = lenCache + 1
    /\ Goto(t, "create")
    /\ UNCHANGED <<present, stamp, locks, cleaner, key, now, history>>

Create(t) ==
    /\ pc[t] = "create"
    /\ present' = present \cup {key[t]}
    /\ stamp' = [stamp EXCEPT ![key[t]] = 0]
    /\ Goto(t, "access")
    /\ UNCHANGED <<lenCache, locks, cleaner, key, now, history>>

WriteAccess(t) ==
    /\ pc[t] = "access"
    /\ Access(t)
    /\ Goto(t, "drop")
    /\ UNCHANGED <<present, lenCache, locks, cleaner, key, now, horizon>>

\* The guard, of either kind, is dropped and get returns.
DropGuard(t) ==
    /\ pc[t] = "drop"
    /\ readers' = readers \ {t}
    /\ writer' = IF writer = t THEN NoThread ELSE writer
    /\ Goto(t, "tryClean")
    /\ UNCHANGED <<content, cleaner, key, now, history>>
-----------------------------------------------------------------------------
(* maybe_clean                                                             *)

\* Another thread is checking: this one does not.
TryLockFails(t) ==
    /\ pc[t] = "tryClean"
    /\ cleaning # NoThread
    /\ Goto(t, "idle")
    /\ UNCHANGED <<content, locks, cleaner, key, now, history>>

TryLock(t) ==
    /\ pc[t] = "tryClean"
    /\ cleaning = NoThread
    /\ cleaning' = t
    /\ Goto(t, "check")
    /\ UNCHANGED <<content, locks, lastSize, lastCheckup, newSize, key, now, history>>

\* The map has doubled since the last cleanup, or that is too long ago.
Due(t) == \/ lenCache >= 2 * Later(lastSize, 1)
          \/ lastCheckup + CheckupPeriod < now[t]

Check(t) ==
    /\ pc[t] = "check"
    /\ \/ /\ Due(t)
          /\ Goto(t, "retainLock")
          /\ UNCHANGED cleaning
       \/ /\ ~Due(t)
          /\ Goto(t, "idle")
          /\ cleaning' = NoThread
    /\ UNCHANGED <<content, locks, lastSize, lastCheckup, newSize, key, now, history>>

RetainLock(t) ==
    /\ pc[t] = "retainLock"
    /\ MapFree
    /\ writer' = t
    /\ Goto(t, "retain")
    /\ UNCHANGED <<content, readers, cleaner, key, now, history>>

Cutoff(t) == now[t] - MaxAge

Retain(t) ==
    /\ pc[t] = "retain"
    /\ present' = {k \in present : stamp[k] >= Cutoff(t)}
    /\ horizon' = Later(horizon, Cutoff(t))
    /\ Goto(t, "storeLen")
    /\ UNCHANGED <<stamp, lenCache, locks, cleaner, key, now, touched>>

StoreLen(t) ==
    /\ pc[t] = "storeLen"
    /\ lenCache' = Cardinality(present)
    /\ newSize' = Cardinality(present)
    /\ writer' = NoThread
    /\ Goto(t, "update")
    /\ UNCHANGED <<present, stamp, readers, cleaning, lastSize, lastCheckup,
                   key, now, history>>

\* The cleaner's state is updated and unlocked.
Update(t) ==
    /\ pc[t] = "update"
    /\ lastSize' = newSize
    /\ lastCheckup' = now[t]
    /\ cleaning' = NoThread
    /\ Goto(t, "idle")
    /\ UNCHANGED <<content, locks, newSize, key, now, history>>
-----------------------------------------------------------------------------
Step(t) ==
    \/ ReadLock(t) \/ ReadHit(t) \/ ReadMiss(t)
    \/ WriteLock(t) \/ EntryOccupied(t) \/ EntryVacant(t) \/ Create(t)
    \/ WriteAccess(t) \/ DropGuard(t)
    \/ TryLockFails(t) \/ TryLock(t) \/ Check(t)
    \/ RetainLock(t) \/ Retain(t) \/ StoreLen(t) \/ Update(t)

Next == \E t \in Threads : (\E k \in Keys, x \in Times : Get(t, k, x)) \/ Step(t)

Spec == Init /\ [][Next]_vars

\* A thread keeps running, and the RwLock does not starve one that waits.
FairSpec ==
    /\ Spec
    /\ \A t \in Threads : /\ WF_vars(Step(t))
                          /\ SF_vars(ReadLock(t) \/ WriteLock(t) \/ RetainLock(t))
-----------------------------------------------------------------------------
(* Properties.                                                             *)

\* len, which decides about cleanups and is read without the map's lock, is
\* the number of entries whenever no thread holds the map for writing: two threads
\* that miss the same key count it once, and a cleanup sets it right.
LenCacheExact == writer = NoThread => lenCache = Cardinality(present)

\* The value a thread is given access to is in the map as long as it holds its
\* guard: no cleanup removes it and no other thread replaces it meanwhile.
AccessProtected ==
    \A t \in Threads : pc[t] \in {"access", "drop"} => key[t] \in present

\* Nothing recent is forgotten: whichever threads create, update and clean at
\* the same time, a key that was updated with a time that no cleanup has yet
\* called too old is in the map, with that time.
NothingRecentForgotten ==
    \A k \in Keys :
        touched[k] >= horizon => k \in present /\ stamp[k] >= touched[k]

\* Every call of get and maybe_clean returns: neither waiting for the write
\* lock after a miss nor cleaning under both locks blocks forever.
EveryCallReturns == \A t \in Threads : (pc[t] = "read") ~> (pc[t] = "idle")
-----------------------------------------------------------------------------
(* The invariants behind the properties.                                   *)

\* Who holds which lock follows from where the threads are.
LockInv ==
    /\ \A t \in Threads :
           /\ t \in readers <=> pc[t] = "lookup" \/ (pc[t] = "drop" /\ writer # t)
           /\ pc[t] \in {"entry", "create", "access", "retain", "storeLen"} => writer = t
           /\ writer = t => pc[t] \in {"entry", "create", "access", "drop",
                                       "retain", "storeLen"}
           /\ pc[t] \in Cleaning <=> cleaning = t
    /\ writer # NoThread => readers = {}

\* len_cache is off by one only while the writer creates an entry.
LenInv ==
    /\ \A t \in Threads : pc[t] = "create" =>
           key[t] \notin present /\ lenCache = Cardinality(present) + 1
    /\ (\A t \in Threads : pc[t] \notin {"create", "storeLen"}) =>
           lenCache = Cardinality(present)
=============================================================================
