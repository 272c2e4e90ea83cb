-------------------------- MODULE KSCrashCachedData ------------------------
(***************************************************************************)
(* KSCrashCachedData.c: a thread of its own keeps a list of the process's   *)
(* threads and of their names, because neither can be asked for in a crash. *)
(* The lists are exchanged one pointer at a time, without a lock; a report  *)
(* asks the thread to pause (freeze), and a crash suspends it wherever it   *)
(* happens to be.                                                           *)
(***************************************************************************)
EXTENDS Integers, Sequences, SequencesExt, FiniteSets

CONSTANTS
  ThreadLists,   \* the lists of threads the kernel may answer with
  NoName,        \* NULL
  MaxUpdates     \* bound: updates of the cache

\* The kernel names a thread once.
ASSUME ThreadListsAssumption ==
  \A list \in ThreadLists :
    /\ list \in Seq(Range(list))
    /\ \A i, j \in DOMAIN list : list[i] = list[j] => i = j

VARIABLES
  live,       \* the threads of the process
  cache,      \* g_allMachThreads, g_allThreadNames, g_allThreadsCount
  update,     \* the locals of updateThreadList, and where it is
  semaphore,  \* g_semaphoreCount
  freed,      \* the updates whose names have been freed
  suspended   \* the cache's thread is suspended by a crash

cacheVars == <<live, cache, update, semaphore, freed, suspended>>

Idle == [pc |-> "idle", mach |-> <<>>, names |-> <<>>, oldCount |-> 0, number |-> 0]

CacheInit ==
  /\ live \in ThreadLists
  /\ cache = [mach |-> <<>>, names |-> <<>>, count |-> 0]
  /\ update = Idle /\ semaphore = 0 /\ freed = {} /\ suspended = FALSE

\* A thread starts or ends.
ThreadsChange(list) ==
  /\ ~suspended /\ list # live
  /\ live' = list
  /\ UNCHANGED <<cache, update, semaphore, freed, suspended>>

\* monitorCachedData looks at the semaphore once, before an update.
monitorCachedData ==
  /\ update.number < MaxUpdates /\ semaphore <= 0
  /\ ~suspended /\ update.pc = "idle"
  /\ update' = [update EXCEPT !.pc = "list", !.oldCount = cache.count, !.number = @ + 1]
  /\ UNCHANGED <<live, cache, semaphore, freed, suspended>>

\* The kernel's list is copied; a name belongs to the thread it was asked of.
CopyThreads ==
  /\ ~suspended /\ update.pc = "list"
  /\ update' = [update EXCEPT !.pc = "shrink", !.mach = live,
                  !.names = [i \in DOMAIN live |-> [of |-> live[i], number |-> update.number]]]
  /\ UNCHANGED <<live, cache, semaphore, freed, suspended>>

\* Mutant: the count is the new one from the start.
ShrinkCount_Grows ==
  /\ ~suspended /\ update.pc = "shrink"
  /\ cache' = [cache EXCEPT !.count = Len(update.mach)]
  /\ update' = [update EXCEPT !.pc = "mach"]
  /\ UNCHANGED <<live, semaphore, freed, suspended>>

\* While the pointers are exchanged, the count is the smaller of the two.
ShrinkCount ==
  /\ ~suspended /\ update.pc = "shrink"
  /\ cache' = [cache EXCEPT !.count = IF @ < Len(update.mach) THEN @ ELSE Len(update.mach)]
  /\ update' = [update EXCEPT !.pc = "mach"]
  /\ UNCHANGED <<live, semaphore, freed, suspended>>

SwapThreads ==
  /\ ~suspended /\ update.pc = "mach"
  /\ cache' = [cache EXCEPT !.mach = update.mach]
  /\ update' = [update EXCEPT !.mach = cache.mach, !.pc = "names"]
  /\ UNCHANGED <<live, semaphore, freed, suspended>>

SwapNames ==
  /\ ~suspended /\ update.pc = "names"
  /\ cache' = [cache EXCEPT !.names = update.names]
  /\ update' = [update EXCEPT !.names = cache.names, !.pc = "count"]
  /\ UNCHANGED <<live, semaphore, freed, suspended>>

SetCount ==
  /\ ~suspended /\ update.pc = "count"
  /\ cache' = [cache EXCEPT !.count = Len(cache.mach)]
  /\ update' = [update EXCEPT !.pc = "free"]
  /\ UNCHANGED <<live, semaphore, freed, suspended>>

\* The old names go, as many as there were when the update began.
FreeOld ==
  /\ ~suspended /\ update.pc = "free"
  /\ freed' = freed \cup {update.names[i].number : i \in 1 .. update.oldCount}
  /\ update' = [Idle EXCEPT !.number = update.number]
  /\ UNCHANGED <<live, cache, semaphore, suspended>>

updateThreadList ==
  CopyThreads \/ ShrinkCount \/ SwapThreads \/ SwapNames \/ SetCount \/ FreeOld

CacheNext ==
  \/ \E list \in ThreadLists : ThreadsChange(list)
  \/ monitorCachedData \/ updateThreadList

\* What the lookup of a name finds: the first index with the thread, the name at
\* that index of the other list, and the indexes that were read.
ksccd_getThreadName(thread) ==
  LET hits == {i \in 1 .. cache.count : i \in DOMAIN cache.mach /\ cache.mach[i] = thread}
      hit == CHOOSE i \in hits : \A j \in hits : i <= j
  IN IF hits = {} THEN [name |-> NoName, read |-> 1 .. cache.count, index |-> 0]
     ELSE [name |-> IF hit \in DOMAIN cache.names THEN cache.names[hit] ELSE NoName,
           read |-> 1 .. hit, index |-> hit]
=============================================================================
