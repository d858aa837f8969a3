---------------------------- MODULE LWPLockProofs ----------------------------
(***************************************************************************)
(* Proofs about LWPLock for any set of up to 255 threads, as long as the    *)
(* threads do not use write locks and shared locks on the same lock (with   *)
(* both, Compatible is violated).                                           *)
(***************************************************************************)
EXTENDS LWPLock, FiniteSetTheorems, TLAPS

\* The lock is used for reading and writing, or for reading and sharing.
OneExcl == \A K \in Uses : ~(EXCL_LOCKS \subseteq K)

\* A thread has asked for a kind of lock exactly while it is not idle.
HowAgrees ==
  \A t \in Threads : /\ pc[t] = "idle" <=> how[t] = "NONE"
                     /\ how[t] \in kinds \cup {"NONE"}

\* The inductive invariant.
IInv == TypeOK /\ FieldsAgree /\ NoLostWakeup /\ Compatible /\ HowAgrees

\* The threads num_waiting counts.
Queue == {t \in Threads : pc[t] \in {"waiting", "signalled"}}

\* The kinds that are requested, of which at most one is exclusive.
LEMMA RequestedKinds ==
  ASSUME TypeOK
  PROVE  /\ kinds \subseteq {"READ", "WRITE", "SHARED"}
         /\ OneExcl => ~(EXCL_LOCKS \subseteq kinds)
  BY LWPAssumption DEF TypeOK, OneExcl

\* Sets of threads are finite, so they can be counted.
LEMMA Counting ==
  ASSUME NEW S, NEW t \in Threads, S \subseteq Threads
  PROVE  /\ Cardinality(S) \in Nat
         /\ Cardinality(S) = 0 <=> S = {}
         /\ t \notin S => Cardinality(S \cup {t}) = Cardinality(S) + 1
         /\ t \in S => Cardinality(S \ {t}) = Cardinality(S) - 1
  <1>1. IsFiniteSet(S)
    BY LWPAssumption, FS_Subset
  <1> QED
    BY <1>1, FS_CardinalityType, FS_EmptySet, FS_AddElement, FS_RemoveElement

\* The initial state satisfies the invariant.
LEMMA InitIInv == Init => IInv
  <1> SUFFICES ASSUME Init PROVE IInv
    OBVIOUS
  <1>1. Holding("READ") = {} /\ Holding("WRITE") = {} /\ Holding("SHARED") = {}
    BY DEF Init, Holding
  <1>2. Queue = {} /\ Waiting({"READ"}) = {} /\ Waiting(EXCL_LOCKS) = {}
    BY DEF Init, Queue, Waiting
  <1>3. TypeOK /\ NoLostWakeup /\ Compatible /\ HowAgrees
    BY DEF Init, TypeOK, NoLostWakeup, Compatible, HowAgrees
  <1>4. FieldsAgree
    BY <1>1, <1>2, FS_EmptySet DEF Init, FieldsAgree, Queue, EXCL_LOCKS
  <1> QED
    BY <1>3, <1>4 DEF IInv

\* A thread that takes a compatible lock preserves the invariant.
LEMMA GrantIInv ==
  ASSUME IInv, OneExcl, NEW t \in Threads, NEW k \in kinds,
         pc[t] \in {"idle", "signalled"},
         "WRITE" \notin excl_locked,
         k # "READ" => excl_locked = {},
         k = "WRITE" => readers_reading = 0,
         Grant(t, k), wait_states' = wait_states, aborted' = aborted,
         num_waiting' = IF pc[t] = "idle" THEN num_waiting ELSE num_waiting - 1
  PROVE  IInv'
  <1> USE DEF IInv, EXCL_LOCKS
  <1>k. k \in {"READ", "WRITE", "SHARED"}
    BY RequestedKinds
  <1>pc. /\ pc'[t] = "holding" /\ how'[t] = k
         /\ \A u \in Threads : u # t => pc'[u] = pc[u] /\ how'[u] = how[u]
    BY DEF Grant, TypeOK
  <1>hold. \A j : Holding(j)' = IF j = k THEN Holding(j) \cup {t} ELSE Holding(j)
    BY <1>pc DEF Holding
  <1>queue. Queue' = Queue \ {t} /\ (t \in Queue <=> pc[t] = "signalled")
    BY <1>pc DEF Queue
  <1>wait. \A j : Waiting(j)' = Waiting(j)
    BY <1>pc DEF Waiting
  <1>count. /\ readers_reading = Cardinality(Holding("READ"))
            /\ num_waiting = Cardinality(Queue)
    BY DEF FieldsAgree, Queue
  <1>num. num_waiting' = Cardinality(Queue')
    <2>1. CASE t \in Queue
      <3>1. Queue \subseteq Threads /\ pc[t] # "idle"
        BY <2>1 DEF Queue
      <3>2. Cardinality(Queue \ {t}) = Cardinality(Queue) - 1
        BY <2>1, <3>1, Counting
      <3> QED
        BY <3>1, <3>2, <1>queue, <1>count
    <2>2. CASE t \notin Queue
      BY <2>2, <1>queue, <1>count
    <2> QED
      BY <2>1, <2>2
  <1>readers. readers_reading' = Cardinality(Holding("READ")')
    <2>1. t \notin Holding("READ") /\ Holding("READ") \subseteq Threads
      BY DEF Holding
    <2> QED
      BY <1>hold, <1>count, <2>1, Counting DEF Grant
  <1>free. \A u \in Threads : pc[u] = "holding" =>
              how[u] # "WRITE" /\ (k # "READ" => how[u] = "READ") /\ k # "WRITE"
    <2> SUFFICES ASSUME NEW u \in Threads, pc[u] = "holding"
                 PROVE  how[u] # "WRITE" /\ (k # "READ" => how[u] = "READ") /\ k # "WRITE"
      OBVIOUS
    <2>1. how[u] \in {"READ", "WRITE", "SHARED"} /\ u \in Holding(how[u])
      BY RequestedKinds DEF HowAgrees, Holding
    <2>2. how[u] # "WRITE" /\ (k # "READ" => how[u] = "READ")
      BY <2>1 DEF FieldsAgree
    <2>3. k = "WRITE" => Holding("READ") = {}
      BY <1>count, Counting DEF Holding
    <2> QED
      BY <2>1, <2>2, <2>3
  <1>1. TypeOK'
    <2>1. readers_reading' \in Nat
      BY DEF TypeOK, Grant
    <2>2. num_waiting' \in Nat
      BY <1>num, Counting DEF Queue
    <2> QED
      BY <1>k, <2>1, <2>2 DEF TypeOK, Grant
  <1>2. FieldsAgree'
    <2>1. \A j \in EXCL_LOCKS : j \in excl_locked' <=> Holding(j)' # {}
      BY <1>hold, <1>k DEF FieldsAgree, Grant
    <2>2. \A u \in Holding("WRITE")' : excl_locker' = u
      BY <1>hold, <1>free, <1>pc DEF Grant, Holding, FieldsAgree
    <2> QED
      BY <1>num, <1>readers, <1>wait, <2>1, <2>2 DEF FieldsAgree, Queue
  <1>3. NoLostWakeup'
    BY <1>pc DEF NoLostWakeup
  <1>4. Compatible'
    BY <1>pc, <1>free, <1>k DEF Compatible
  <1>5. HowAgrees'
    BY <1>pc, <1>k DEF HowAgrees, Grant
  <1> QED
    BY <1>1, <1>2, <1>3, <1>4, <1>5

\* A thread that has to wait preserves the invariant: somebody else holds the
\* lock or has been signalled.
LEMMA WaitIInv ==
  ASSUME IInv, NEW t \in Threads, NEW k \in kinds,
         pc[t] = "idle" \/ (pc[t] = "signalled" /\ how[t] = k),
         \E u \in Threads \ {t} : pc[u] \in {"holding", "signalled"},
         Wait(t, k), aborted' = aborted,
         num_waiting' = IF pc[t] = "idle" THEN num_waiting + 1 ELSE num_waiting
  PROVE  IInv'
  <1> USE DEF IInv, EXCL_LOCKS
  <1>k. k \in {"READ", "WRITE", "SHARED"}
    BY RequestedKinds
  <1>pc. /\ pc'[t] = "waiting" /\ how'[t] = k
         /\ \A u \in Threads : u # t => pc'[u] = pc[u] /\ how'[u] = how[u]
    BY DEF Wait, TypeOK
  <1>hold. \A j : Holding(j)' = Holding(j)
    BY <1>pc DEF Holding
  <1>queue. Queue' = Queue \cup {t} /\ (t \in Queue <=> pc[t] = "signalled")
    BY <1>pc DEF Queue
  <1>wait. \A j : Waiting(j)' = IF k \in j THEN Waiting(j) \cup {t} ELSE Waiting(j)
    BY <1>pc DEF Waiting
  <1>num. num_waiting' = Cardinality(Queue')
    <2>1. num_waiting = Cardinality(Queue)
      BY DEF FieldsAgree, Queue
    <2>2. CASE t \in Queue
      BY <2>1, <2>2, <1>queue
    <2>3. CASE t \notin Queue
      <3>1. Queue \subseteq Threads /\ pc[t] = "idle"
        BY <2>3 DEF Queue
      <3>2. Cardinality(Queue \cup {t}) = Cardinality(Queue) + 1
        BY <2>3, <3>1, Counting
      <3> QED
        BY <2>1, <3>1, <3>2, <1>queue
    <2> QED
      BY <2>2, <2>3
  <1>1. TypeOK'
    <2>1. num_waiting' \in Nat
      BY <1>num, Counting DEF Queue
    <2> QED
      BY <1>k, <2>1 DEF TypeOK, Wait
  <1>2. FieldsAgree'
    <2>1. \A j \in EXCL_LOCKS : j \in excl_locked' <=> Holding(j)' # {}
      BY <1>hold DEF FieldsAgree, Wait
    <2>2. readers_reading' = Cardinality(Holding("READ")')
      BY <1>hold DEF FieldsAgree, Wait
    <2>3. \A u \in Holding("WRITE")' : excl_locker' = u
      BY <1>hold DEF FieldsAgree, Wait
    <2>4. "READ" \in wait_states' <=> Waiting({"READ"})' # {}
      BY <1>wait DEF FieldsAgree, Wait
    <2>5. wait_states' \cap EXCL_LOCKS # {} <=> Waiting(EXCL_LOCKS)' # {}
      BY <1>wait, <1>k DEF FieldsAgree, Wait
    <2> QED
      BY <1>num, <2>1, <2>2, <2>3, <2>4, <2>5 DEF FieldsAgree, Queue
  <1>3. NoLostWakeup'
    BY <1>pc DEF NoLostWakeup
  <1>4. Compatible'
    BY <1>pc DEF Compatible
  <1>5. HowAgrees'
    BY <1>pc, <1>k DEF HowAgrees, Wait
  <1> QED
    BY <1>1, <1>2, <1>3, <1>4, <1>5

\* Signalling one class of waiting threads, or none, while t gives the lock up.
\* Unless nobody waits or somebody else still holds the lock, the class is one
\* that some thread belongs to.
LEMMA ReleaseIInv ==
  ASSUME IInv, NEW t \in Threads, pc[t] = "holding",
         NEW c, c \in {{}, {"READ"}, EXCL_LOCKS},
         pc' = [Signalled(c) EXCEPT ![t] = "idle"],
         how' = [how EXCEPT ![t] = "NONE"],
         wait_states' = wait_states \ c,
         readers_reading' = IF how[t] = "READ" THEN readers_reading - 1 ELSE readers_reading,
         excl_locked' = excl_locked \ {how[t]},
         how[t] # "WRITE" => excl_locker' = excl_locker,
         excl_locker' \in Threads \cup {NULL},
         wait_states # {} => \/ \E u \in Threads \ {t} : pc[u] = "holding"
                             \/ Waiting(c) # {},
         num_waiting' = num_waiting, aborted' = aborted, kinds' = kinds
  PROVE  IInv'
  <1> USE DEF IInv, EXCL_LOCKS
  <1>how. how[t] \in {"READ", "WRITE", "SHARED"}
    BY RequestedKinds DEF HowAgrees
  <1>pc. /\ pc'[t] = "idle" /\ how'[t] = "NONE"
         /\ \A u \in Threads : u # t =>
              /\ pc'[u] = IF u \in Waiting(c) THEN "signalled" ELSE pc[u]
              /\ how'[u] = how[u]
    BY DEF Signalled, Waiting, TypeOK
  <1>not. t \notin Waiting(c)
    BY DEF Waiting
  <1>hold. \A j \in {"READ", "WRITE", "SHARED"} : Holding(j)' = Holding(j) \ {t}
    BY <1>pc, <1>not DEF Holding, Waiting
  <1>queue. Queue' = Queue
    BY <1>pc DEF Queue, Waiting
  <1>wait. \A j : Waiting(j)' = {u \in Waiting(j) : u \notin Waiting(c)}
    BY <1>pc DEF Waiting
  <1>1. TypeOK'
    <2>1. readers_reading' \in Nat
      <3>1. CASE how[t] = "READ"
        <4>1. t \in Holding("READ") /\ Holding("READ") \subseteq Threads
          BY <3>1 DEF Holding
        <4>2. Cardinality(Holding("READ")) \in Nat \ {0}
          BY <4>1, Counting
        <4>3. readers_reading = Cardinality(Holding("READ"))
          BY DEF FieldsAgree
        <4> QED
          BY <3>1, <4>2, <4>3
      <3> QED
        BY <3>1 DEF TypeOK
    <2>2. pc' \in [Threads -> {"idle", "waiting", "signalled", "holding"}]
      BY DEF TypeOK, Signalled
    <2> QED
      BY <2>1, <2>2 DEF TypeOK
  <1>2. FieldsAgree'
    <2>1. \A j \in EXCL_LOCKS : j \in excl_locked' <=> Holding(j)' # {}
      <3> SUFFICES ASSUME NEW j \in EXCL_LOCKS
                   PROVE  j \in excl_locked' <=> Holding(j)' # {}
        OBVIOUS
      <3>1. j \in excl_locked <=> Holding(j) # {}
        BY DEF FieldsAgree
      <3>2. CASE how[t] = j
        <4>1. \A u \in Holding(j) : u = t
          BY <3>2 DEF Compatible, Holding
        <4> QED
          BY <3>2, <4>1, <1>hold
      <3>3. CASE how[t] # j
        <4>1. t \notin Holding(j)
          BY <3>3 DEF Holding
        <4> QED
          BY <3>1, <3>3, <4>1, <1>hold
      <3> QED
        BY <3>2, <3>3
    <2>2. readers_reading' = Cardinality(Holding("READ")')
      <3>1. readers_reading = Cardinality(Holding("READ"))
        BY DEF FieldsAgree
      <3>2. Holding("READ") \subseteq Threads /\ (t \in Holding("READ") <=> how[t] = "READ")
        BY DEF Holding
      <3>3. CASE how[t] = "READ"
        BY <3>1, <3>2, <3>3, <1>hold, Counting
      <3>4. CASE how[t] # "READ"
        <4>1. Holding("READ")' = Holding("READ")
          BY <3>2, <3>4, <1>hold
        <4> QED
          BY <3>1, <3>4, <4>1
      <3> QED
        BY <3>3, <3>4
    <2>3. \A u \in Holding("WRITE")' : excl_locker' = u
      <3> SUFFICES ASSUME NEW u \in Holding("WRITE")'
                   PROVE  excl_locker' = u
        OBVIOUS
      <3>1. u \in Holding("WRITE") /\ u # t
        BY <1>hold
      <3>2. FALSE
        BY <3>1 DEF Compatible, Holding
      <3> QED
        BY <3>2
    <2>4. "READ" \in wait_states' <=> Waiting({"READ"})' # {}
      <3>1. "READ" \in wait_states <=> Waiting({"READ"}) # {}
        BY DEF FieldsAgree
      <3>2. CASE c = {"READ"}
        BY <3>2, <1>wait
      <3>3. CASE c # {"READ"}
        <4>1. "READ" \notin c /\ \A u \in Waiting({"READ"}) : u \notin Waiting(c)
          BY <3>3 DEF Waiting
        <4> QED
          BY <3>1, <4>1, <1>wait
      <3> QED
        BY <3>2, <3>3
    <2>5. wait_states' \cap EXCL_LOCKS # {} <=> Waiting(EXCL_LOCKS)' # {}
      BY <1>wait DEF FieldsAgree, Waiting
    <2>6. num_waiting' = Cardinality(Queue')
      BY <1>queue DEF FieldsAgree, Queue
    <2> QED
      BY <2>1, <2>2, <2>3, <2>4, <2>5, <2>6 DEF FieldsAgree, Queue
  <1>3. NoLostWakeup'
    <2> SUFFICES ASSUME NEW w \in Threads, pc'[w] = "waiting"
                 PROVE  \E u \in Threads : pc'[u] \in {"holding", "signalled"}
      BY DEF NoLostWakeup
    <2>1. w # t /\ pc[w] = "waiting"
      BY <1>pc
    <2>2. how[w] \in {"READ", "WRITE", "SHARED"}
      BY <2>1, RequestedKinds DEF HowAgrees
    <2>3. w \in Waiting({"READ"}) \cup Waiting(EXCL_LOCKS)
      BY <2>1, <2>2 DEF Waiting
    <2>4. wait_states # {}
      BY <2>3 DEF FieldsAgree
    <2>5. CASE \E u \in Threads \ {t} : pc[u] = "holding"
      BY <2>5, <1>pc DEF Waiting
    <2>6. CASE Waiting(c) # {}
      <3>1. PICK u \in Waiting(c) : TRUE
        BY <2>6
      <3>2. u \in Threads /\ u # t
        BY <1>not DEF Waiting
      <3> QED
        BY <3>1, <3>2, <1>pc
    <2> QED
      BY <2>4, <2>5, <2>6
  <1>4. Compatible'
    BY <1>pc DEF Compatible, Waiting
  <1>5. HowAgrees'
    BY <1>pc DEF HowAgrees, Waiting
  <1> QED
    BY <1>1, <1>2, <1>3, <1>4, <1>5

\* What the fields of the lock tell a thread about the other threads.
LEMMA Fields ==
  ASSUME IInv, OneExcl
  PROVE  /\ \A k \in excl_locked : \E u \in Threads :
              pc[u] = "holding" /\ how[u] = k /\ k \in kinds
         /\ readers_reading # 0 => \E u \in Threads : pc[u] = "holding" /\ how[u] = "READ"
         /\ wait_states # {} => \E u \in Threads : pc[u] \in {"holding", "signalled"}
         /\ "WRITE" \in excl_locked => excl_locked = {"WRITE"} /\ pc[excl_locker] = "holding"
  <1> USE DEF IInv, EXCL_LOCKS
  <1>1. \A k \in excl_locked : \E u \in Threads : pc[u] = "holding" /\ how[u] = k /\ k \in kinds
    BY DEF FieldsAgree, TypeOK, Holding, HowAgrees
  <1>2. readers_reading # 0 => \E u \in Threads : pc[u] = "holding" /\ how[u] = "READ"
    <2>1. Holding("READ") = {} => Cardinality(Holding("READ")) = 0
      BY FS_EmptySet
    <2> QED
      BY <2>1 DEF FieldsAgree, Holding
  <1>3. wait_states # {} => \E u \in Threads : pc[u] = "waiting"
    BY ZenonT(60) DEF FieldsAgree, TypeOK, Waiting
  <1>4. "WRITE" \in excl_locked => pc[excl_locker] = "holding"
    BY DEF FieldsAgree, Holding
  <1>5. "WRITE" \in excl_locked => excl_locked = {"WRITE"}
    <2>1. ~("WRITE" \in excl_locked /\ "SHARED" \in excl_locked)
      BY <1>1, RequestedKinds
    <2>2. excl_locked \subseteq {"WRITE", "SHARED"}
      BY DEF TypeOK
    <2> QED
      BY <2>1, <2>2
  <1> QED
    BY <1>1, <1>2, <1>3, <1>4, <1>5 DEF NoLostWakeup

\* Every request preserves the invariant.
LEMMA ObtainIInv ==
  ASSUME IInv, OneExcl, NEW t \in Threads, NEW k \in kinds, Obtain(t, k)
  PROVE  IInv'
  <1>k. k \in {"READ", "WRITE", "SHARED"}
    BY RequestedKinds DEF IInv
  <1>1. CASE FastPath(t, k)
    <2>1. "WRITE" \notin excl_locked
      BY <1>1, <1>k, Fields DEF FastPath, Obtain
    <2>2. (k # "READ" => excl_locked = {}) /\ (k = "WRITE" => readers_reading = 0)
      BY <1>1, <1>k DEF FastPath
    <2> QED
      BY <1>1, <2>1, <2>2, GrantIInv DEF Obtain
  <1>2. CASE ~FastPath(t, k)
    <2>1. \E u \in Threads : pc[u] \in {"holding", "signalled"}
      BY <1>2, <1>k, Fields DEF FastPath
    <2>2. \E u \in Threads \ {t} : pc[u] \in {"holding", "signalled"}
      BY <2>1 DEF Obtain
    <2> QED
      BY <1>2, <2>2, WaitIInv DEF Obtain
  <1> QED
    BY <1>1, <1>2

\* A thread that looks again after a wakeup preserves the invariant.
LEMMA RetryIInv ==
  ASSUME IInv, OneExcl, NEW t \in Threads, Retry(t)
  PROVE  IInv'
  <1>k. how[t] \in kinds /\ how[t] \in {"READ", "WRITE", "SHARED"}
    BY RequestedKinds DEF IInv, HowAgrees, Retry
  <1>1. CASE MustWait(t, how[t])
    <2>1. \E u \in Threads \ {t} : pc[u] = "holding"
      <3>1. excl_locked # {} \/ readers_reading # 0
        BY <1>1, <1>k DEF MustWait
      <3> QED
        BY <3>1, Fields DEF Retry
    <2> QED
      BY <1>1, <1>k, <2>1, WaitIInv DEF Retry
  <1>2. CASE ~MustWait(t, how[t])
    <2>1. "WRITE" \in excl_locked => excl_locker # t
      BY Fields DEF Retry
    <2>2. how[t] = "WRITE" => "SHARED" \notin excl_locked
      BY <1>k, Fields, RequestedKinds DEF IInv, EXCL_LOCKS
    <2>3. excl_locked \subseteq {"WRITE", "SHARED"}
      BY DEF IInv, TypeOK, EXCL_LOCKS
    <2>4. "WRITE" \notin excl_locked
      BY <1>2, <1>k, <2>1 DEF MustWait
    <2>5. how[t] # "READ" => excl_locked = {}
      BY <1>2, <1>k, <2>2, <2>3, <2>4 DEF MustWait
    <2>6. how[t] = "WRITE" => readers_reading = 0
      BY <1>2 DEF MustWait
    <2> QED
      BY <1>2, <1>k, <2>4, <2>5, <2>6, GrantIInv DEF Retry
  <1> QED
    BY <1>1, <1>2

\* Every release preserves the invariant, and no assertion fails.
LEMMA ReleaseStepIInv ==
  ASSUME IInv, OneExcl, NEW t \in Threads, Release(t)
  PROVE  IInv'
  <1> USE DEF EXCL_LOCKS
  <1>0. /\ pc[t] = "holding" /\ ~aborted /\ t \notin Waiting({})
        /\ pc \in [Threads -> {"idle", "waiting", "signalled", "holding"}]
        /\ aborted = FALSE
    BY DEF Release, ReleaseReadLock, ReleaseWriteLock, ReleaseSharedLock, ReleaseExcl, IInv,
           TypeOK, Waiting
  <1>1. Signalled({}) = pc
    BY <1>0 DEF Signalled
  <1>2. wait_states \ {} = wait_states
    OBVIOUS
  <1>3. /\ "READ" \in wait_states <=> Waiting({"READ"}) # {}
        /\ wait_states \cap EXCL_LOCKS # {} <=> Waiting(EXCL_LOCKS) # {}
        /\ wait_states \subseteq {"READ"} \cup EXCL_LOCKS
        /\ excl_locker \in Threads \cup {NULL}
        /\ \A u \in Threads : pc[u] = "holding" /\ how[u] = "WRITE" => excl_locker = u
    BY DEF IInv, FieldsAgree, TypeOK, Holding
  <1>4. CASE ReleaseReadLock(t)
    <2>1. "WRITE" \notin excl_locked
      BY <1>4, Fields DEF IInv, Compatible, ReleaseReadLock
    <2>2. excl_locked \ {how[t]} = excl_locked
      BY <1>4 DEF ReleaseReadLock, IInv, TypeOK
    <2>3. CASE readers_reading = 1 /\ wait_states # {}
      <3> DEFINE c == IF wait_states \cap EXCL_LOCKS # {} THEN EXCL_LOCKS ELSE {"READ"}
      <3>1. Waiting(c) # {} /\ c \in {{}, {"READ"}, EXCL_LOCKS}
        BY <1>3, <2>3
      <3>2. pc' = [Signalled(c) EXCEPT ![t] = "idle"] /\ wait_states' = wait_states \ c
        BY <1>4, <2>3 DEF ReleaseReadLock, Lock_ReleaseW, Signal
      <3>3. excl_locker' = excl_locker /\ aborted' = aborted
        <4>1. Asserted(t)
          BY <2>1 DEF Asserted
        <4>2. aborted' = FALSE
          BY <1>4, <2>3, <4>1, Zenon DEF ReleaseReadLock
        <4>3. excl_locker' = excl_locker
          BY <1>4, <2>1, <2>3 DEF ReleaseReadLock, Forget
        <4> QED
          BY <1>0, <4>2, <4>3
      <3> HIDE DEF c
      <3> QED
        BY <1>0, <1>3, <1>4, <2>2, <3>1, <3>2, <3>3, ReleaseIInv DEF ReleaseReadLock
    <2>4. CASE ~(readers_reading = 1 /\ wait_states # {})
      <3>1. wait_states # {} => \E u \in Threads \ {t} : pc[u] = "holding"
        <4> SUFFICES ASSUME wait_states # {}
                     PROVE  \E u \in Threads \ {t} : pc[u] = "holding"
          OBVIOUS
        <4>1. Cardinality(Holding("READ")) # 1
          BY <2>4 DEF IInv, FieldsAgree
        <4>2. Holding("READ") # {t}
          BY <4>1, FS_Singleton
        <4> QED
          BY <1>0, <1>4, <4>2 DEF Holding, ReleaseReadLock
      <3> QED
        BY <1>0, <1>1, <1>2, <1>3, <1>4, <2>2, <2>4, <3>1, ReleaseIInv DEF ReleaseReadLock
    <2> QED
      BY <2>3, <2>4
  <1>5. ASSUME NEW k \in EXCL_LOCKS, NEW d, k \in d, d \subseteq EXCL_LOCKS,
               ReleaseExcl(t, k, d)
        PROVE  IInv'
    <2>1. how[t] = k
      BY <1>5 DEF ReleaseExcl
    <2>2. excl_locked' = excl_locked \ {how[t]}
      <3>1. excl_locked \subseteq {k}
        BY <1>0, <2>1, Fields DEF IInv, TypeOK, Compatible
      <3> QED
        BY <1>5, <2>1, <3>1 DEF ReleaseExcl
    <2>3. "WRITE" \in excl_locked => how[t] = "WRITE" /\ excl_locker = t
      BY <1>0, <1>3, <2>1, Fields DEF IInv, Compatible
    <2>4. CASE wait_states # {}
      <3> DEFINE c == IF "READ" \in wait_states THEN {"READ"} ELSE EXCL_LOCKS
      <3>1. Waiting(c) # {} /\ c \in {{}, {"READ"}, EXCL_LOCKS}
        BY <1>3, <2>4
      <3>2. pc' = [Signalled(c) EXCEPT ![t] = "idle"] /\ wait_states' = wait_states \ c
        BY <1>5, <2>4 DEF ReleaseExcl, Lock_ReleaseR, Signal
      <3>3. /\ how[t] # "WRITE" => excl_locker' = excl_locker
            /\ excl_locker' \in Threads \cup {NULL}
            /\ aborted' = aborted
        <4>1. Asserted(t)
          BY <2>3 DEF Asserted
        <4>2. aborted' = FALSE
          BY <1>5, <2>4, <4>1, Zenon DEF ReleaseExcl
        <4>3. excl_locker' = IF "WRITE" \in excl_locked THEN NULL ELSE excl_locker
          BY <1>5, <2>4 DEF ReleaseExcl, Forget
        <4> QED
          BY <1>0, <1>3, <2>3, <4>2, <4>3
      <3> HIDE DEF c
      <3> QED
        BY <1>0, <1>5, <2>1, <2>2, <3>1, <3>2, <3>3, ReleaseIInv DEF ReleaseExcl
    <2>5. CASE wait_states = {}
      BY <1>0, <1>1, <1>2, <1>3, <1>5, <2>1, <2>2, <2>5, ReleaseIInv DEF ReleaseExcl
    <2> QED
      BY <2>4, <2>5
  <1>6. CASE ReleaseWriteLock(t)
    BY <1>5, <1>6 DEF ReleaseWriteLock
  <1>7. CASE ReleaseSharedLock(t)
    BY <1>5, <1>7 DEF ReleaseSharedLock
  <1> QED
    BY <1>4, <1>6, <1>7 DEF Release

\* The invariant is inductive.
LEMMA NextIInv ==
  ASSUME IInv, OneExcl, [Next]_vars
  PROVE  IInv'
  <1>1. CASE UNCHANGED vars
    BY <1>1 DEF vars, IInv, TypeOK, FieldsAgree, NoLostWakeup, Compatible, HowAgrees,
                Holding, Waiting
  <1>2. CASE Next
    BY <1>2, ObtainIInv, RetryIInv, ReleaseStepIInv DEF Next
  <1> QED
    BY <1>1, <1>2

LEMMA AlwaysIInv == ASSUME OneExcl PROVE Spec => []IInv
  <1>1. Init => IInv
    BY InitIInv
  <1>2. IInv /\ [Next]_vars => IInv'
    BY NextIInv
  <1> QED
    BY <1>1, <1>2, PTL DEF Spec

\* Two threads never hold the lock in kinds that exclude each other.
THEOREM LockExcludes == ASSUME OneExcl PROVE Spec => []Compatible
  <1>1. IInv => Compatible
    BY DEF IInv
  <1> QED
    BY <1>1, AlwaysIInv, PTL

\* A waiting thread is never forgotten.
THEOREM LockWakesUp == ASSUME OneExcl PROVE Spec => []NoLostWakeup
  <1>1. IInv => NoLostWakeup
    BY DEF IInv
  <1> QED
    BY <1>1, AlwaysIInv, PTL

\* The fields of struct Lock tell the truth and its assertions never fail.
THEOREM LockFieldsAgree == ASSUME OneExcl PROVE Spec => [](TypeOK /\ FieldsAgree)
  <1>1. IInv => TypeOK /\ FieldsAgree
    BY DEF IInv
  <1> QED
    BY <1>1, AlwaysIInv, PTL

\* How the sets of holders change when one thread obtains, waits or releases.
LEMMA HoldersChange ==
  ASSUME TypeOK, NEW t \in Threads, NEW p, NEW k,
         pc' \in [Threads -> {"idle", "waiting", "signalled", "holding"}],
         pc'[t] = p, how' = [how EXCEPT ![t] = k],
         \A u \in Threads \ {t} : pc'[u] = "holding" <=> pc[u] = "holding"
  PROVE  \A j : Holding(j)' = IF p = "holding" /\ j = k THEN Holding(j) \cup {t}
                              ELSE Holding(j) \ {t}
  BY DEF Holding, TypeOK

\* Every step of the lock is a step of the abstract read/write lock or leaves
\* its holders alone.
LEMMA StepRefines ==
  ASSUME IInv, IInv', OneExcl, [Next]_vars
  PROVE  [RW!RWNext]_<<Holding("READ"), Holding("WRITE")>>
  <1> USE DEF IInv
  <1>1. CASE UNCHANGED vars
    BY <1>1 DEF vars, Holding
  <1>grant. ASSUME NEW t \in Threads, NEW k, k \in {"READ", "WRITE", "SHARED"},
                   pc[t] # "holding", Grant(t, k)
            PROVE  [RW!RWNext]_<<Holding("READ"), Holding("WRITE")>>
    <2>1. \A j : Holding(j)' = IF j = k THEN Holding(j) \cup {t} ELSE Holding(j) \ {t}
      BY <1>grant, HoldersChange DEF Grant, TypeOK
    <2>2. \A j : t \notin Holding(j)
      BY <1>grant DEF Holding
    <2>3. CASE k = "READ"
      <3>1. Holding("WRITE") = {}
        BY <1>grant, <2>3 DEF Grant, Holding, Compatible, TypeOK
      <3>2. RW!AcquireRead(t)
        BY <2>1, <2>2, <2>3, <3>1 DEF RW!AcquireRead
      <3> QED
        BY <3>2 DEF RW!RWNext
    <2>4. CASE k = "WRITE"
      <3>1. Holding("READ") = {} /\ Holding("WRITE") = {}
        BY <1>grant, <2>4 DEF Grant, Holding, Compatible, TypeOK
      <3>2. RW!AcquireWrite(t)
        BY <2>1, <2>2, <2>4, <3>1 DEF RW!AcquireWrite
      <3> QED
        BY <3>2 DEF RW!RWNext
    <2>5. CASE k = "SHARED"
      <3>1. Holding("READ")' = Holding("READ") /\ Holding("WRITE")' = Holding("WRITE")
        BY <2>1, <2>2, <2>5
      <3> QED
        BY <3>1
    <2> QED
      BY <1>grant, <2>3, <2>4, <2>5
  <1>wait. ASSUME NEW t \in Threads, NEW k, pc[t] # "holding", Wait(t, k)
           PROVE  [RW!RWNext]_<<Holding("READ"), Holding("WRITE")>>
    <2>1. \A j : Holding(j)' = Holding(j) \ {t} /\ t \notin Holding(j)
      BY <1>wait, HoldersChange DEF Wait, TypeOK, Holding
    <2>2. Holding("READ")' = Holding("READ") /\ Holding("WRITE")' = Holding("WRITE")
      BY <2>1
    <2> QED
      BY <2>2
  <1>release. ASSUME NEW t \in Threads, Release(t)
              PROVE  [RW!RWNext]_<<Holding("READ"), Holding("WRITE")>>
    <2>1. pc[t] = "holding" /\ how' = [how EXCEPT ![t] = "NONE"]
      BY <1>release DEF Release, ReleaseReadLock, ReleaseWriteLock, ReleaseSharedLock,
                        ReleaseExcl
    <2>2. /\ pc'[t] = "idle"
          /\ \A u \in Threads \ {t} : pc'[u] = "holding" <=> pc[u] = "holding"
      BY ZenonT(60), <1>release DEF Release, ReleaseReadLock, ReleaseWriteLock, ReleaseSharedLock,
                        ReleaseExcl, Lock_ReleaseR, Lock_ReleaseW, Signal, Signalled, TypeOK
    <2>3. \A j : Holding(j)' = Holding(j) \ {t}
      BY <2>1, <2>2, HoldersChange DEF TypeOK
    <2>4. CASE how[t] \in {"READ", "WRITE"}
      <3>1. t \in Holding("READ") \cup Holding("WRITE")
        BY <2>1, <2>4 DEF Holding
      <3>2. RW!Release(t)
        BY <2>3, <3>1 DEF RW!Release
      <3> QED
        BY <3>2 DEF RW!RWNext
    <2>5. CASE how[t] \notin {"READ", "WRITE"}
      <3>1. t \notin Holding("READ") /\ t \notin Holding("WRITE")
        BY <2>5 DEF Holding
      <3>2. Holding("READ")' = Holding("READ") /\ Holding("WRITE")' = Holding("WRITE")
        BY <2>3, <3>1
      <3> QED
        BY <3>2
    <2> QED
      BY <2>4, <2>5
  <1>2. ASSUME NEW t \in Threads, NEW k \in kinds, Obtain(t, k)
        PROVE  [RW!RWNext]_<<Holding("READ"), Holding("WRITE")>>
    BY <1>2, <1>grant, <1>wait, RequestedKinds DEF Obtain
  <1>3. ASSUME NEW t \in Threads, Retry(t)
        PROVE  [RW!RWNext]_<<Holding("READ"), Holding("WRITE")>>
    <2>1. how[t] \in {"READ", "WRITE", "SHARED"}
      BY <1>3, RequestedKinds DEF HowAgrees, Retry
    <2> QED
      BY <1>3, <2>1, <1>grant, <1>wait DEF Retry
  <1> QED
    BY <1>1, <1>2, <1>3, <1>release DEF Next

\* The lock implements the abstract read/write lock of lock.md.
THEOREM LockRefinesRW == ASSUME OneExcl PROVE Spec => ImplementsRWLock
  <1>1. Init => RW!RWInit
    BY DEF Init, RW!RWInit, Holding
  <1>2. IInv /\ IInv' /\ [Next]_vars => [RW!RWNext]_<<Holding("READ"), Holding("WRITE")>>
    BY StepRefines
  <1> QED
    BY <1>1, <1>2, AlwaysIInv, PTL DEF Spec, ImplementsRWLock, RW!RWSpec

==============================================================================
