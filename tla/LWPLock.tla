------------------------------- MODULE LWPLock -------------------------------
(***************************************************************************)
(* The read/write/shared lock of the LWP package (lwp/src/lock.c), on which *)
(* Venus, Vice and RPC2 build their exclusion.  LWPs are coroutines, so a   *)
(* routine runs without interruption up to its LWP_WaitProcess: every       *)
(* obtain, every retry after a wakeup and every release is one step.        *)
(***************************************************************************)
EXTENDS Integers, FiniteSets

CONSTANTS Threads,
          Uses,      \* for each way a lock is used, the kinds requested on it
          NULL

\* The counters of struct Lock are unsigned chars: with fewer than 256 threads
\* they do not wrap, and are natural numbers here.
ASSUME LWPAssumption ==
  /\ IsFiniteSet(Threads) /\ Cardinality(Threads) < 256 /\ NULL \notin Threads
  /\ Uses \subseteq SUBSET {"READ", "WRITE", "SHARED"}

VARIABLES
  kinds,  \* the kinds of request that the users of this lock make
  readers_reading, excl_locked, wait_states, num_waiting, excl_locker, \* struct Lock
  pc,     \* idle, waiting on an event, signalled, or holding the lock
  how,    \* the kind the thread requested
  aborted \* the assertion in Lock_ReleaseR or Lock_ReleaseW has failed

vars == <<kinds, readers_reading, excl_locked, wait_states, num_waiting, excl_locker, pc, how,
          aborted>>

EXCL_LOCKS == {"WRITE", "SHARED"}

Init ==
  /\ kinds \in Uses
  /\ readers_reading = 0 /\ excl_locked = {} /\ wait_states = {}
  /\ num_waiting = 0 /\ excl_locker = NULL
  /\ pc = [t \in Threads |-> "idle"]
  /\ how = [t \in Threads |-> "NONE"]
  /\ aborted = FALSE

------------------------------------------------------------------------------
\* READ_LOCK waits on readers_reading, the others on excl_locked; a signal makes
\* every thread that waits on the event runnable.
Waiting(k) == {t \in Threads : pc[t] = "waiting" /\ how[t] \in k}
Signalled(k) ==
  [t \in Threads |-> IF pc[t] = "waiting" /\ how[t] \in k THEN "signalled" ELSE pc[t]]

\* What a thread does when it gets the lock.
Grant(t, k) ==
  /\ pc' = [pc EXCEPT ![t] = "holding"]
  /\ how' = [how EXCEPT ![t] = k]
  /\ readers_reading' = IF k = "READ" THEN readers_reading + 1 ELSE readers_reading
  /\ excl_locked' = IF k = "READ" THEN excl_locked ELSE {k}
  /\ excl_locker' = IF k = "WRITE" THEN t ELSE excl_locker
  /\ UNCHANGED kinds

\* Lock_Obtain, one turn of its loop: LWP_WaitProcess.
Wait(t, k) ==
  /\ pc' = [pc EXCEPT ![t] = "waiting"]
  /\ how' = [how EXCEPT ![t] = k]
  /\ wait_states' = wait_states \cup {k}
  /\ UNCHANGED <<readers_reading, excl_locked, excl_locker, kinds>>

\* Mutant: a reader passes a writer that holds the lock.
FastPath_ReadPassesWriter(t, k) ==
  CASE k = "READ"   -> wait_states = {}
    [] k = "WRITE"  -> excl_locked = {} /\ readers_reading = 0
    [] k = "SHARED" -> excl_locked = {} /\ wait_states = {}

\* The tests of ObtainReadLock, ObtainWriteLock and ObtainSharedLock.
FastPath(t, k) ==
  CASE k = "READ"   -> \/ "WRITE" \notin excl_locked /\ wait_states = {}
                       \/ "WRITE" \in excl_locked /\ excl_locker = t
    [] k = "WRITE"  -> excl_locked = {} /\ readers_reading = 0
    [] k = "SHARED" -> excl_locked = {} /\ wait_states = {}

\* Mutant: a woken writer does not look for readers.
MustWait_WriterIgnoresReaders(t, k) ==
  CASE k = "READ"   -> excl_locker # t /\ "WRITE" \in excl_locked
    [] k = "WRITE"  -> excl_locked # {} /\ excl_locker # t
    [] k = "SHARED" -> excl_locked # {}

\* The loop conditions of Lock_Obtain.
MustWait(t, k) ==
  CASE k = "READ"   -> excl_locker # t /\ "WRITE" \in excl_locked
    [] k = "WRITE"  -> (excl_locked # {} /\ excl_locker # t) \/ readers_reading # 0
    [] k = "SHARED" -> excl_locked # {}

\* ObtainReadLock, ObtainWriteLock, ObtainSharedLock.  A thread does not request
\* a lock it holds.
Obtain(t, k) ==
  /\ ~aborted /\ pc[t] = "idle"
  /\ \/ FastPath(t, k) /\ Grant(t, k) /\ UNCHANGED <<wait_states, num_waiting>>
     \/ ~FastPath(t, k) /\ Wait(t, k) /\ num_waiting' = num_waiting + 1
  /\ UNCHANGED aborted

\* Lock_Obtain after a wakeup.
Retry(t) ==
  /\ ~aborted /\ pc[t] = "signalled"
  /\ \/ MustWait(t, how[t]) /\ Wait(t, how[t]) /\ UNCHANGED num_waiting
     \/ /\ ~MustWait(t, how[t]) /\ Grant(t, how[t])
        /\ num_waiting' = num_waiting - 1 /\ UNCHANGED wait_states
  /\ UNCHANGED aborted

------------------------------------------------------------------------------
\* Lock_ReleaseR signals readers before writers, Lock_ReleaseW writers before
\* readers.  Both check who holds a write lock and forget it.
Signal(t, k) ==
  /\ pc' = [Signalled(k) EXCEPT ![t] = "idle"]
  /\ wait_states' = wait_states \ k
Asserted(t) == "WRITE" \in excl_locked => excl_locker = t

Lock_ReleaseR(t) == Signal(t, IF "READ" \in wait_states THEN {"READ"} ELSE EXCL_LOCKS)

\* Mutant: all flags are cleared although only the writers are signalled.
Lock_ReleaseW_ClearsAll(t) ==
  /\ pc' = [Signalled(EXCL_LOCKS) EXCEPT ![t] = "idle"]
  /\ wait_states' = {}

Lock_ReleaseW(t) == Signal(t, IF wait_states \cap EXCL_LOCKS # {} THEN EXCL_LOCKS ELSE {"READ"})

Forget == excl_locker' = IF "WRITE" \in excl_locked THEN NULL ELSE excl_locker

\* Mutant: the last reader does not look for waiting threads.
ReleaseReadLock_NoSignal(t) ==
  /\ ~aborted /\ pc[t] = "holding" /\ how[t] = "READ"
  /\ readers_reading' = readers_reading - 1
  /\ how' = [how EXCEPT ![t] = "NONE"] /\ pc' = [pc EXCEPT ![t] = "idle"]
  /\ UNCHANGED <<excl_locked, num_waiting, wait_states, excl_locker, aborted, kinds>>

ReleaseReadLock(t) ==
  /\ ~aborted /\ pc[t] = "holding" /\ how[t] = "READ"
  /\ readers_reading' = readers_reading - 1
  /\ how' = [how EXCEPT ![t] = "NONE"]
  /\ IF readers_reading = 1 /\ wait_states # {}
     THEN Lock_ReleaseW(t) /\ Forget /\ aborted' = ~Asserted(t)
     ELSE /\ pc' = [pc EXCEPT ![t] = "idle"]
          /\ UNCHANGED <<wait_states, excl_locker, aborted>>
  /\ UNCHANGED <<excl_locked, num_waiting, kinds>>

\* ReleaseWriteLock and ReleaseSharedLock differ in the flags they clear.
ReleaseExcl(t, k, cleared) ==
  /\ ~aborted /\ pc[t] = "holding" /\ how[t] = k
  /\ how' = [how EXCEPT ![t] = "NONE"]
  /\ IF wait_states # {}
     THEN Lock_ReleaseR(t) /\ Forget /\ aborted' = ~Asserted(t)
     ELSE /\ pc' = [pc EXCEPT ![t] = "idle"]
          /\ UNCHANGED <<wait_states, excl_locker, aborted>>
  /\ excl_locked' = excl_locked \ cleared
  /\ UNCHANGED <<readers_reading, num_waiting, kinds>>

ReleaseWriteLock(t) == ReleaseExcl(t, "WRITE", {"WRITE"})
ReleaseSharedLock(t) == ReleaseExcl(t, "SHARED", EXCL_LOCKS)

Release(t) == ReleaseReadLock(t) \/ ReleaseWriteLock(t) \/ ReleaseSharedLock(t)

Next == \E t \in Threads : (\E k \in kinds : Obtain(t, k)) \/ Retry(t) \/ Release(t)

Spec == Init /\ [][Next]_vars

\* LWP runs every signalled thread, and a thread that holds the lock releases it.
FairSpec == Spec /\ \A t \in Threads : WF_vars(Retry(t)) /\ WF_vars(Release(t))

------------------------------------------------------------------------------
Holding(k) == {t \in Threads : pc[t] = "holding" /\ how[t] = k}

\* Every field has its type and the counters never go below zero.
TypeOK ==
  /\ kinds \in Uses
  /\ readers_reading \in Nat /\ num_waiting \in Nat
  /\ excl_locked \subseteq EXCL_LOCKS
  /\ wait_states \subseteq {"READ"} \cup EXCL_LOCKS
  /\ excl_locker \in Threads \cup {NULL}
  /\ pc \in [Threads -> {"idle", "waiting", "signalled", "holding"}]
  /\ how \in [Threads -> {"NONE", "READ"} \cup EXCL_LOCKS]
  /\ aborted \in BOOLEAN

\* lock.md: "only a single writer (and no readers) may hold the lock at any
\* time".  Two threads hold the lock together only when both read, or when one
\* of them has the shared lock and the other reads.
Compatible ==
  \A t, u \in Threads :
     pc[t] = "holding" /\ pc[u] = "holding" /\ t # u =>
        "READ" \in {how[t], how[u]} /\ "WRITE" \notin {how[t], how[u]}

\* No wakeup is lost: whoever waits, somebody who will signal holds the lock or
\* somebody who was signalled is about to take it.
NoLostWakeup ==
  (\E t \in Threads : pc[t] = "waiting") =>
     \E t \in Threads : pc[t] \in {"holding", "signalled"}

\* The flags and counters of struct Lock agree with the threads: CheckLock and
\* WriteLocked tell the truth, and the assertions on excl_locker hold.
FieldsAgree ==
  /\ ~aborted
  /\ readers_reading = Cardinality(Holding("READ"))
  /\ \A k \in EXCL_LOCKS : k \in excl_locked <=> Holding(k) # {}
  /\ \A t \in Holding("WRITE") : excl_locker = t
  /\ num_waiting = Cardinality({t \in Threads : pc[t] \in {"waiting", "signalled"}})
  /\ ("READ" \in wait_states <=> Waiting({"READ"}) # {})
  /\ (wait_states \cap EXCL_LOCKS # {} <=> Waiting(EXCL_LOCKS) # {})

\* lock.md: "The lock package guarantees fairness: each reader and writer will
\* eventually have a chance to obtain a given lock."
LockFairness ==
  \A t \in Threads : pc[t] \in {"waiting", "signalled"} ~> pc[t] = "holding"

\* The lock implements the abstract read/write lock.
RW == INSTANCE RWLock WITH readers <- Holding("READ"), writers <- Holding("WRITE")
ImplementsRWLock == RW!RWSpec
==============================================================================
