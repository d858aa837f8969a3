----------------------------- MODULE VolumeState -----------------------------
(***************************************************************************)
(* The state machine of one read/write replicated volume in Venus:         *)
(* volent::Enter, Exit and TakeTransition (venusvol.cc), the vproc calls    *)
(* Begin_VFS and End_VFS around them (vproc.cc), the resolver threads       *)
(* (vol_resolve.cc), the reintegrator threads (vol_reintegrate.cc), the     *)
(* volume daemon (vol_daemon.cc) and the events that ask for a transition.  *)
(*                                                                         *)
(* Venus threads are LWP coroutines: one runs until it waits, sleeps or     *)
(* makes an RPC.  cpu names the thread that runs; a step that ends in a     *)
(* yield sets it to NoThread, and only then may another thread run.         *)
(***************************************************************************)
EXTENDS Integers, Sequences, FiniteSets

CONSTANTS Users,         \* worker threads that serve VFS calls
          Uids,          \* the uids they act for
          Daemon,        \* the VolDaemon thread
          Resolvers,     \* the pool of resolver threads
          Reintegrators, \* the pool of reintegrator threads
          Servers,       \* the VSG
          Fids,          \* objects that may be submitted for resolution
          NoThread, UNSET_UID, NoFid,
          UidOf,         \* [Users -> Uids]
          Parent,        \* [Fids -> Fids \cup {NoFid}], the cached parents
          MAX_REQUEUE,
          ReintLimitZero,\* TRUE: ReintLimit = 0, the volume is always IsSync
          SyncCalls,     \* TRUE: users may issue VIOC_SYNCCACHE
          DaemonOps,     \* what the volume daemon does on its visits
          MaxCML, RedZone, YellowZone, \* bounds on the log
          MaxNest,       \* bound on nested synchronous reintegrations
          MaxEvents,     \* bound on server, token and VSG events
          MaxCrashes     \* bound on Venus crashes

Threads == Users \cup {Daemon} \cup Resolvers \cup Reintegrators

ASSUME ThreadAssumption ==
  /\ Daemon \notin Users \cup Resolvers \cup Reintegrators
  /\ Users \cap Resolvers = {} /\ Users \cap Reintegrators = {}
  /\ Resolvers \cap Reintegrators = {}
  /\ NoThread \notin Threads /\ IsFiniteSet(Threads)
ASSUME UidAssumption == UidOf \in [Users -> Uids] /\ UNSET_UID \notin Uids
ASSUME FidAssumption == Parent \in [Fids -> Fids \cup {NoFid}] /\ NoFid \notin Fids
ASSUME BoundAssumption ==
  /\ {MAX_REQUEUE, MaxCML, MaxNest, MaxEvents, MaxCrashes, RedZone, YellowZone} \subseteq Nat
  /\ {ReintLimitZero, SyncCalls} \subseteq BOOLEAN
  /\ DaemonOps \subseteq {"transition", "trickle", "flush", "checkpoint"}

VARIABLES
  state, transition_pending, demotion_pending,
  mutator_count, observer_count, resolver_count, shrd_count, excl_count,
  cml,                \* the uids of the logged records, oldest first
  owner,              \* CML.owner
  conflict,           \* the head of the log is flagged to_be_repaired
  reintegrating, sync_reintegrate,
  readers, writer,    \* who holds CML_lock
  res_list,           \* the resents waiting for a resolver
  cur,                \* the resent the active resolver works on
  resblk,             \* the resent a user waits for, NoFid when it has its result
  avsg, tokens,
  pc, mode, op, nest, u_vol,
  cpu, choked, crashes, events

volVars   == <<state, transition_pending, demotion_pending>>
countVars == <<mutator_count, observer_count, resolver_count, shrd_count, excl_count>>
logVars   == <<cml, owner, conflict, reintegrating, sync_reintegrate>>
lockVars  == <<readers, writer>>
resVars   == <<res_list, cur, resblk>>
envVars   == <<avsg, tokens>>
callVars  == <<mode, op, nest, u_vol>>
vars == <<volVars, countVars, logVars, lockVars, resVars, envVars, callVars,
          pc, cpu, choked, crashes, events>>

(***************************************************************************)
(* Predicates of the code.                                                 *)
(***************************************************************************)
VOLBUSY == resolver_count # 0 \/ mutator_count # 0 \/ observer_count # 0

IsSync == sync_reintegrate \/ ReintLimitZero

\* The thread may run, and is at the given point of the code.
At(t, p) == choked = "" /\ cpu \in {NoThread, t} /\ pc[t] = p

\* Only a worker carries the process group of a kernel caller; the resolver
\* that holds the volume exclusively, and the daemons, have pgid 0.
ForeignPgid(t) == t \in Users

\* The mode of the Enter or Exit that t executes now: a nested call comes from
\* Reintegrate, which observes.
CurMode(t) == IF nest[t] # <<>> THEN "OBSERVING" ELSE mode[t]

\* Mutant: Signal wakes nobody.
Woken_Lost == pc

\* volent::Wait puts the thread on vol_sync, volent::Signal releases them all.
Woken == [t \in Threads |-> IF pc[t] = "wait" THEN "woken" ELSE pc[t]]

\* A call that returns leaves nothing behind in the thread's user area.
Returned(t) ==
  IF pc'[t] = "idle" /\ t \notin Resolvers
  THEN mode' = [mode EXCEPT ![t] = "OBSERVING"] /\ op' = [op EXCEPT ![t] = "none"]
  ELSE UNCHANGED <<mode, op>>

Idle(pool) == {t \in pool : pc[t] = "idle"}

\* Mutant: a reintegration in progress is not noticed.
Ready_Twice(aged) ==
  cml # <<>> /\ owner \in tokens /\ (IsSync \/ (~conflict /\ aged))

\* reintvol::ReadyToReintegrate once the volume is Reachable with no transition
\* pending; cmlent::Aged is a matter of time unless the volume is IsSync.
Ready(aged) ==
  /\ ~reintegrating /\ cml # <<>>
  /\ owner \in tokens
  /\ IsSync \/ (~conflict /\ aged)

ReadyToReintegrate(aged) ==
  state = "Reachable" /\ ~transition_pending /\ Ready(aged)

\* The next-state table of TakeTransition.
NextState == IF avsg = {} THEN "Unreachable"
             ELSE IF res_list # <<>> THEN "Resolving" ELSE "Reachable"

\* vproc::Begin_VFS: how the length of the log slows writers down.
Zone(p) == IF Len(cml) >= RedZone THEN "stall"
           ELSE IF Len(cml) >= YellowZone THEN "slow" ELSE p

\* ObtainReadLock queues behind a writer that holds CML_lock or waits for it.
LockWaiters == {t \in Threads : pc[t] \in {"rlock", "cmlock", "relock", "wlock"}}
CanRead == writer = NoThread /\ LockWaiters = {}

\* Mutant: a checkpoint does not wait for the readers of the log.
CanWrite_IgnoresReaders == writer = NoThread

\* ObtainWriteLock waits for every holder.
CanWrite == writer = NoThread /\ readers = {}

------------------------------------------------------------------------------
(***************************************************************************)
(* volent::TakeTransition, called by thread t which continues at ret.  A    *)
(* synchronous reintegration runs inside the call: ret is pushed on nest    *)
(* and the waiters are only signalled when it is over (SyncReturn).         *)
(***************************************************************************)
TakeTransition(t, ret) ==
  /\ state' = NextState
  /\ transition_pending' = FALSE
  /\ cpu' = t
  /\ \/ /\ NextState = "Resolving"
        /\ \E r \in Idle(Resolvers) :
             pc' = [pc EXCEPT ![t] = ret, ![r] = "dispatched"]
        /\ UNCHANGED nest
     \/ /\ NextState = "Unreachable"
        /\ pc' = [Woken EXCEPT ![t] = ret]
        /\ UNCHANGED nest
     \/ /\ NextState = "Reachable" /\ IsSync /\ Ready(TRUE)
        /\ Len(nest[t]) < MaxNest
        /\ nest' = [nest EXCEPT ![t] = <<ret>> \o @]
        /\ pc' = [pc EXCEPT ![t] = "reint"]
     \/ /\ NextState = "Reachable"
        /\ ~(IsSync /\ Ready(TRUE) /\ Len(nest[t]) < MaxNest)
        /\ \/ pc' = [Woken EXCEPT ![t] = ret]
           \/ /\ ~IsSync /\ Ready(TRUE)
              /\ \E r \in Idle(Reintegrators) :
                   pc' = [Woken EXCEPT ![t] = ret, ![r] = "dispatched"]
        /\ UNCHANGED nest

\* The end of TakeTransition after a nested Reintegrate: Signal and return.
SyncReturn(t) ==
  /\ At(t, "return")
  /\ pc' = [Woken EXCEPT ![t] = Head(nest[t])]
  /\ nest' = [nest EXCEPT ![t] = Tail(@)]
  /\ cpu' = t
  /\ UNCHANGED <<volVars, countVars, logVars, lockVars, resVars, envVars, mode, op,
                 u_vol, choked, crashes, events>>


------------------------------------------------------------------------------
(***************************************************************************)
(* vproc::Begin_VFS and the callers that enter the volume directly.         *)
(***************************************************************************)

\* A VFS call of worker t.  A writer in a connected volume is slowed down when
\* the log is long; the caller's VDB->Get keeps the volume in u.u_vol.
BeginVFS(t, m) ==
  /\ t \in Users /\ At(t, "idle")
  /\ mode' = [mode EXCEPT ![t] = m]
  /\ op' = [op EXCEPT ![t] = "vfs"]
  /\ u_vol' = [u_vol EXCEPT ![t] = TRUE]
  /\ LET p == IF m = "MUTATING" /\ state # "Unreachable" THEN Zone("demote") ELSE "demote"
     IN  /\ pc' = [pc EXCEPT ![t] = p]
         /\ cpu' = IF p = "demote" THEN t ELSE NoThread
  /\ UNCHANGED <<volVars, countVars, logVars, lockVars, resVars, envVars, nest,
                 choked, crashes, events>>

\* wait_for_reintegration: a writer in the red zone sleeps and looks again, one
\* in the yellow zone sleeps once.
WaitForReintegration(t) ==
  /\ \/ At(t, "stall") /\ Len(cml) < RedZone /\ pc' = [pc EXCEPT ![t] = Zone("demote")]
     \/ At(t, "slow") /\ pc' = [pc EXCEPT ![t] = "demote"]
  /\ cpu' = IF pc'[t] = "demote" THEN t ELSE NoThread
  /\ UNCHANGED <<volVars, countVars, logVars, lockVars, resVars, envVars, callVars,
                 choked, crashes, events>>

\* pioctl VIOC_SYNCCACHE enters and leaves as an observer before SyncCache.
BeginSync(t) ==
  /\ SyncCalls /\ t \in Users /\ At(t, "idle")
  /\ mode' = [mode EXCEPT ![t] = "OBSERVING"]
  /\ op' = [op EXCEPT ![t] = "sync"]
  /\ pc' = [pc EXCEPT ![t] = "demote"]
  /\ cpu' = t
  /\ UNCHANGED <<volVars, countVars, logVars, lockVars, resVars, envVars, nest,
                 u_vol, choked, crashes, events>>

\* One visit of the volume daemon: TakeTransition, TrickleReintegrate, FlushCOP2
\* or CheckPoint, the last only when the log is not empty, not under repair and
\* CML_lock is free.
DaemonVisit(o) ==
  /\ At(Daemon, "idle")
  /\ o = "checkpoint" =>
       cml # <<>> /\ ~conflict /\ readers = {} /\ writer = NoThread
  /\ op' = [op EXCEPT ![Daemon] = o]
  /\ pc' = [pc EXCEPT ![Daemon] = "demote"]
  /\ cpu' = Daemon
  /\ UNCHANGED <<volVars, countVars, logVars, lockVars, resVars, envVars, mode, nest,
                 u_vol, choked, crashes, events>>

\* A dispatched resolver or reintegrator runs: repvol::Resolve enters at once,
\* reintvol::Reintegrate checks again that there is something to do.
Dispatched(t) ==
  /\ At(t, "dispatched")
  /\ \/ t \in Resolvers /\ pc' = [pc EXCEPT ![t] = "demote"]
     \/ t \in Reintegrators /\ ReadyToReintegrate(TRUE) /\ pc' = [pc EXCEPT ![t] = "reint"]
     \/ t \in Reintegrators /\ ~ReadyToReintegrate(TRUE) /\ pc' = [pc EXCEPT ![t] = "idle"]
  /\ cpu' = IF pc'[t] = "idle" THEN NoThread ELSE t
  /\ UNCHANGED <<volVars, countVars, logVars, lockVars, resVars, envVars, callVars,
                 choked, crashes, events>>

\* The start of reintvol::Reintegrate, up to its Begin_VFS.
StartReintegrate(t) ==
  /\ At(t, "reint")
  /\ reintegrating' = TRUE
  /\ u_vol' = [u_vol EXCEPT ![t] = TRUE]
  /\ pc' = [pc EXCEPT ![t] = "demote"]
  /\ cpu' = t
  /\ UNCHANGED <<volVars, countVars, cml, owner, conflict, sync_reintegrate, lockVars,
                 resVars, envVars, mode, op, nest, choked, crashes, events>>

------------------------------------------------------------------------------
(***************************************************************************)
(* volent::Enter.                                                          *)
(***************************************************************************)

\* Step 1: objects of a volume whose AVSG grew lose their callback status.
EnterDemote(t) ==
  /\ At(t, "demote")
  /\ demotion_pending' = FALSE
  /\ pc' = [pc EXCEPT ![t] = "transition"]
  /\ cpu' = t
  /\ UNCHANGED <<state, transition_pending, countVars, logVars, lockVars, resVars,
                 envVars, callVars, choked, crashes, events>>

\* Step 2: take pending transitions while no thread is active in the volume.
EnterTransition(t) ==
  /\ At(t, "transition")
  /\ transition_pending /\ ~VOLBUSY
  /\ TakeTransition(t, "transition")
  /\ UNCHANGED <<demotion_pending, countVars, logVars, lockVars, resVars, envVars,
                 mode, op, u_vol, choked, crashes, events>>

\* Step 3: in a Reachable volume GetVolAttr may be called, an RPC.
EnterCallBack(t) ==
  /\ At(t, "transition")
  /\ ~(transition_pending /\ ~VOLBUSY)
  /\ pc' = [pc EXCEPT ![t] = "admit"]
  /\ \/ cpu' = t
     \/ state = "Reachable" /\ cpu' = NoThread
  /\ UNCHANGED <<volVars, countVars, logVars, lockVars, resVars, envVars, callVars,
                 choked, crashes, events>>

\* Mutant: a resolver does not wait for the threads in the volume.
Blocked_ResolverRushes(t) ==
  \/ transition_pending
  \/ excl_count > 0 /\ ForeignPgid(t)
  \/ CurMode(t) # "RESOLVING" /\ state = "Resolving"
  \/ CurMode(t) = "MUTATING" /\ writer # NoThread

\* Step 4, the conditions under which the caller has to wait.
Blocked(t) ==
  \/ transition_pending
  \/ excl_count > 0 /\ ForeignPgid(t)
  \/ CurMode(t) # "RESOLVING" /\ state = "Resolving"
  \/ CurMode(t) = "MUTATING" /\ writer # NoThread
  \/ CurMode(t) = "RESOLVING" /\ (VOLBUSY \/ shrd_count > 0)

\* Mutant: any user may write.
OwnedByOther_Never(t) == FALSE

\* A mutator must own the modify log.
OwnedByOther(t) ==
  CurMode(t) = "MUTATING" /\ owner \notin {UNSET_UID, UidOf[t]}

\* Where a thread goes on when Enter has returned 0.
Entered(t) == IF nest[t] # <<>> \/ t \in Reintegrators THEN "cmlock"
              ELSE IF t \in Resolvers THEN "resolve" ELSE "inside"

\* Wait, or give up at once: the daemon passes VM_NDELAY.
EnterWait(t) ==
  /\ At(t, "admit")
  /\ Blocked(t) \/ OwnedByOther(t)
  /\ pc' = [pc EXCEPT ![t] = IF t = Daemon /\ nest[t] = <<>> THEN "idle" ELSE "wait"]
  /\ cpu' = NoThread /\ Returned(t)
  /\ UNCHANGED <<volVars, countVars, logVars, lockVars, resVars, envVars, nest, u_vol,
                 choked, crashes, events>>

\* Signalled: an interrupted worker returns EINTR, others look again.  EINTR
\* from the Begin_VFS of Reintegrate fails its VOL_ASSERT.
EnterWoken(t) ==
  /\ At(t, "woken")
  /\ \/ pc' = [pc EXCEPT ![t] = "admit"] /\ cpu' = t /\ UNCHANGED <<u_vol, choked>>
     \/ /\ t \in Users /\ nest[t] = <<>>
        /\ pc' = [pc EXCEPT ![t] = "idle"] /\ cpu' = NoThread
        /\ u_vol' = [u_vol EXCEPT ![t] = FALSE]
        /\ UNCHANGED choked
     \/ /\ t \in Users /\ nest[t] # <<>>
        /\ choked' = "Reintegrate: interrupted"
        /\ UNCHANGED <<pc, cpu, u_vol>>
  /\ Returned(t)
  /\ UNCHANGED <<volVars, countVars, logVars, lockVars, resVars, envVars, nest, crashes,
                 events>>

\* A mutator claims the log, or joins its owner.  The two CHOKEs fire when the
\* ownership disagrees with the use of the log.
EnterMutating(t) ==
  /\ At(t, "admit") /\ CurMode(t) = "MUTATING"
  /\ ~Blocked(t) /\ ~OwnedByOther(t)
  /\ LET inUse == mutator_count # 0 \/ cml # <<>> \/ reintegrating
     IN  IF inUse # (owner # UNSET_UID)
         THEN /\ choked' = "Enter: mutating"
              /\ UNCHANGED <<owner, mutator_count, shrd_count, readers, pc, cpu>>
         ELSE /\ owner' = UidOf[t]
              /\ mutator_count' = mutator_count + 1
              /\ shrd_count' = shrd_count + 1
              /\ readers' = IF CanRead THEN readers \cup {t} ELSE readers
              /\ pc' = [pc EXCEPT ![t] = IF CanRead THEN Entered(t) ELSE "rlock"]
              /\ cpu' = IF CanRead THEN t ELSE NoThread
              /\ UNCHANGED choked
  /\ UNCHANGED <<volVars, observer_count, resolver_count, excl_count, cml, conflict,
                 reintegrating, sync_reintegrate, writer, resVars, envVars, callVars,
                 crashes, events>>

EnterObserving(t) ==
  /\ At(t, "admit") /\ CurMode(t) = "OBSERVING" /\ ~Blocked(t)
  /\ observer_count' = observer_count + 1
  /\ shrd_count' = shrd_count + 1
  /\ pc' = [pc EXCEPT ![t] = Entered(t)]
  /\ cpu' = IF Entered(t) = "cmlock" /\ ~CanRead THEN NoThread ELSE t
  /\ UNCHANGED <<volVars, mutator_count, resolver_count, excl_count, logVars, lockVars,
                 resVars, envVars, callVars, choked, crashes, events>>

EnterResolving(t) ==
  /\ At(t, "admit") /\ CurMode(t) = "RESOLVING" /\ ~Blocked(t)
  /\ excl_count' = excl_count + 1
  /\ resolver_count' = resolver_count + 1
  /\ pc' = [pc EXCEPT ![t] = Entered(t)]
  /\ cpu' = t
  /\ UNCHANGED <<volVars, mutator_count, observer_count, shrd_count, logVars, lockVars,
                 resVars, envVars, callVars, choked, crashes, events>>

\* Obtaining CML_lock after a wait: shared by a mutator in Enter and by a
\* reintegrator, exclusively by a checkpoint.
LockGranted(t) ==
  /\ \/ /\ At(t, "rlock") /\ writer = NoThread
        /\ pc' = [pc EXCEPT ![t] = Entered(t)]
        /\ readers' = readers \cup {t} /\ UNCHANGED <<writer, conflict>>
     \/ /\ At(t, "cmlock") /\ writer = NoThread
        /\ pc' = [pc EXCEPT ![t] = "work"]
        /\ readers' = readers \cup {t} /\ UNCHANGED <<writer, conflict>>
     \/ /\ At(t, "relock") /\ writer = NoThread
        /\ pc' = [pc EXCEPT ![t] = "reintend"]
        /\ readers' = readers \cup {t} /\ UNCHANGED writer
        /\ conflict' = (cml # <<>>)
     \/ /\ At(t, "wlock") /\ CanWrite
        /\ pc' = [pc EXCEPT ![t] = "ckpt"]
        /\ writer' = t /\ UNCHANGED <<readers, conflict>>
  /\ cpu' = IF pc'[t] \in {"work", "ckpt"} THEN NoThread ELSE t
  /\ UNCHANGED <<volVars, countVars, cml, owner, reintegrating, sync_reintegrate,
                 resVars, envVars, callVars, choked, crashes, events>>

------------------------------------------------------------------------------
(***************************************************************************)
(* What a thread does in the volume.                                       *)
(***************************************************************************)

\* A resent is appended unless the fid is already queued; a submission from
\* outside a resolution asks for a transition.
NoResent == [fid |-> NoFid, requeues |-> 0]
Queued(f) == \E i \in DOMAIN res_list : res_list[i].fid = f
Submitted(f) == IF Queued(f) THEN res_list
                ELSE Append(res_list, [fid |-> f, requeues |-> MAX_REQUEUE])

\* A mutating call logs one record, cancels one that is not being reintegrated,
\* or changes nothing.
Mutate(t) ==
  /\ t \in Users /\ At(t, "inside") /\ mode[t] = "MUTATING"
  /\ \/ Len(cml) < MaxCML /\ cml' = Append(cml, UidOf[t])
     \/ /\ Len(cml) > IF \E r \in Threads : pc[r] = "work" THEN 1 ELSE 0
        /\ cml' = SubSeq(cml, 1, Len(cml) - 1)
     \/ UNCHANGED cml
  /\ conflict' = (conflict /\ cml' # <<>>)
  /\ pc' = [pc EXCEPT ![t] = "done"]
  /\ cpu' = NoThread
  /\ UNCHANGED <<volVars, countVars, owner, reintegrating, sync_reintegrate, lockVars,
                 resVars, envVars, callVars, choked, crashes, events>>

\* pioctl VIOC_PURGEML, issued by the owner of the log while nothing of it is
\* being reintegrated: PurgeMLEs.
PurgeMLEs(t) ==
  /\ t \in Users /\ At(t, "inside") /\ mode[t] = "MUTATING"
  /\ cml # <<>> /\ owner = UidOf[t] /\ ~reintegrating
  /\ cml' = <<>> /\ conflict' = FALSE
  /\ transition_pending' = TRUE
  /\ pc' = [pc EXCEPT ![t] = "done"]
  /\ cpu' = NoThread
  /\ UNCHANGED <<state, demotion_pending, countVars, owner, reintegrating,
                 sync_reintegrate, lockVars, resVars, envVars, callVars, choked, crashes, events>>

\* A call finds replicas that differ: ResSubmit, and the call will end with
\* ESYNRESOLVE.  The pool bounds how many resolvers can be on their way.
ResSubmit(t, f) ==
  /\ t \in Users /\ At(t, "inside") /\ op[t] = "vfs"
  /\ state = "Reachable" /\ avsg # {} /\ Idle(Resolvers) # {}
  /\ res_list' = Submitted(f)
  /\ resblk' = [resblk EXCEPT ![t] = f]
  /\ transition_pending' = TRUE
  /\ pc' = [pc EXCEPT ![t] = "done"]
  /\ op' = [op EXCEPT ![t] = "synresolve"]
  /\ cpu' = NoThread
  /\ UNCHANGED <<state, demotion_pending, countVars, logVars, lockVars, cur, envVars,
                 mode, nest, u_vol, choked, crashes, events>>

\* pioctl VIOC_CHECKPOINTML of the owner, and the daemon's CheckPoint: the log
\* is locked exclusively while it is written out.
CheckPoint(t) ==
  /\ At(t, "inside") /\ cml # <<>> /\ mode[t] = "OBSERVING"
  /\ \/ t = Daemon /\ op[t] = "checkpoint"
     \/ t \in Users /\ op[t] = "vfs" /\ owner = UidOf[t]
  /\ pc' = [pc EXCEPT ![t] = "wlock"]
  /\ cpu' = IF CanWrite THEN t ELSE NoThread
  /\ UNCHANGED <<volVars, countVars, logVars, lockVars, resVars, envVars, callVars,
                 choked, crashes, events>>

CheckPointed(t) ==
  /\ At(t, "ckpt")
  /\ writer' = NoThread
  /\ pc' = [pc EXCEPT ![t] = IF nest[t] # <<>> \/ t \in Reintegrators
                             THEN "relock" ELSE "done"]
  /\ cpu' = IF LockWaiters = {} THEN t ELSE NoThread
  /\ UNCHANGED <<volVars, countVars, logVars, readers, resVars, envVars, callVars,
                 choked, crashes, events>>

\* An observing call, the pioctl before SyncCache and the daemon's visits leave
\* the volume as it is; TrickleReintegrate may dispatch a reintegrator.
Observe(t) ==
  /\ At(t, "inside") /\ mode[t] = "OBSERVING"
  /\ \/ /\ t \in Users \/ op[t] = "flush" \/ (op[t] = "checkpoint" /\ cml = <<>>)
        /\ pc' = [pc EXCEPT ![t] = "done"] /\ cpu' = NoThread
     \/ /\ t = Daemon /\ op[t] \in {"transition", "trickle"}
        /\ pc' = [pc EXCEPT ![t] = "done"] /\ cpu' = t
     \/ /\ t = Daemon /\ op[t] = "trickle" /\ ReadyToReintegrate(TRUE)
        /\ \E r \in Idle(Reintegrators) :
             pc' = [pc EXCEPT ![t] = "done", ![r] = "dispatched"]
        /\ cpu' = t
  /\ UNCHANGED <<volVars, countVars, logVars, lockVars, resVars, envVars, callVars,
                 choked, crashes, events>>

\* vproc::End_VFS: a successful mutation of a synchronous volume asks for a
\* transition.  A call whose u.u_vol is 0 returns without Exit.
EndVFS(t) ==
  /\ At(t, "done")
  /\ IF t \in Users /\ op[t] # "sync" /\ ~u_vol[t]
     THEN /\ pc' = [pc EXCEPT ![t] = "idle"]
          /\ UNCHANGED transition_pending
     ELSE /\ pc' = [pc EXCEPT ![t] = "exit"]
          /\ \/ UNCHANGED transition_pending
             \/ /\ op[t] = "vfs" /\ mode[t] = "MUTATING" /\ IsSync
                /\ transition_pending' = TRUE
  /\ cpu' = IF pc'[t] = "idle" THEN NoThread ELSE t
  /\ Returned(t)
  /\ UNCHANGED <<state, demotion_pending, countVars, logVars, lockVars, resVars,
                 envVars, nest, u_vol, choked, crashes, events>>

------------------------------------------------------------------------------
(***************************************************************************)
(* volent::Exit.                                                           *)
(***************************************************************************)

\* Steps 1 and 2.  The last mutator of an empty log gives up its ownership.
ExitMutating(t) ==
  /\ At(t, "exit") /\ CurMode(t) = "MUTATING"
  /\ demotion_pending' = FALSE
  /\ IF state = "Resolving" \/ mutator_count <= 0
     THEN /\ choked' = "Exit: mutating"
          /\ UNCHANGED <<mutator_count, shrd_count, readers, owner, transition_pending, pc, cpu>>
     ELSE /\ mutator_count' = mutator_count - 1
          /\ shrd_count' = shrd_count - 1
          /\ readers' = readers \ {t}
          /\ IF mutator_count = 1 /\ cml = <<>> /\ ~reintegrating
             THEN /\ owner' = UNSET_UID
                  /\ transition_pending' = (transition_pending \/ state = "Unreachable")
             ELSE UNCHANGED <<owner, transition_pending>>
          /\ pc' = [pc EXCEPT ![t] = "leave"] /\ cpu' = t
          /\ UNCHANGED choked
  /\ UNCHANGED <<state, observer_count, resolver_count, excl_count, cml, conflict,
                 reintegrating, sync_reintegrate, writer, resVars, envVars, callVars,
                 crashes, events>>

\* Mutant: an observer leaves without being counted out.
ExitObserving_Leaks(t) ==
  /\ At(t, "exit") /\ CurMode(t) = "OBSERVING"
  /\ pc' = [pc EXCEPT ![t] = "leave"] /\ cpu' = t
  /\ UNCHANGED <<volVars, countVars, logVars, lockVars, resVars, envVars, callVars, choked,
                 crashes, events>>

ExitObserving(t) ==
  /\ At(t, "exit") /\ CurMode(t) = "OBSERVING"
  /\ demotion_pending' = FALSE
  /\ IF state = "Resolving" \/ observer_count <= 0
     THEN /\ choked' = "Exit: observing"
          /\ UNCHANGED <<observer_count, shrd_count, pc, cpu>>
     ELSE /\ observer_count' = observer_count - 1
          /\ shrd_count' = shrd_count - 1
          /\ pc' = [pc EXCEPT ![t] = "leave"] /\ cpu' = t
          /\ UNCHANGED choked
  /\ UNCHANGED <<state, transition_pending, mutator_count, resolver_count, excl_count,
                 logVars, lockVars, resVars, envVars, callVars, crashes, events>>

ExitResolving(t) ==
  /\ At(t, "exit") /\ CurMode(t) = "RESOLVING"
  /\ demotion_pending' = FALSE
  /\ IF state # "Resolving" \/ resolver_count = 0 \/ ~transition_pending
     THEN /\ choked' = "Exit: resolving"
          /\ UNCHANGED <<resolver_count, excl_count, pc, cpu>>
     ELSE /\ resolver_count' = resolver_count - 1
          /\ excl_count' = excl_count - 1
          /\ pc' = [pc EXCEPT ![t] = "leave"] /\ cpu' = t
          /\ UNCHANGED choked
  /\ UNCHANGED <<state, transition_pending, mutator_count, observer_count, shrd_count,
                 logVars, lockVars, resVars, envVars, callVars, crashes, events>>

\* Step 3: the last thread takes a pending transition; without one, waiters
\* are signalled.
ExitTransition(t) ==
  /\ At(t, "leave")
  /\ transition_pending /\ ~VOLBUSY
  /\ TakeTransition(t, "exited")
  /\ UNCHANGED <<demotion_pending, countVars, logVars, lockVars, resVars, envVars,
                 mode, op, u_vol, choked, crashes, events>>

ExitSignal(t) ==
  /\ At(t, "leave")
  /\ ~(transition_pending /\ ~VOLBUSY)
  /\ pc' = [(IF transition_pending THEN pc ELSE Woken) EXCEPT ![t] = "exited"]
  /\ cpu' = t
  /\ UNCHANGED <<volVars, countVars, logVars, lockVars, resVars, envVars, callVars,
                 choked, crashes, events>>

\* The end of Exit signals the threads in SyncCache once the volume is not
\* busy; then the caller goes on.
Exited(t) ==
  /\ At(t, "exited")
  /\ LET next == IF nest[t] # <<>> THEN "return"
                 ELSE IF op[t] = "sync" THEN "sync"
                 ELSE IF op[t] = "synresolve" THEN "await" ELSE "idle"
     IN  /\ pc' = [u \in Threads |->
                     IF u = t THEN next
                     ELSE IF pc[u] = "syncwait" /\ ~VOLBUSY THEN "syncwoken" ELSE pc[u]]
         /\ cpu' = IF next \in {"return", "sync"} THEN t ELSE NoThread
  /\ u_vol' = [u_vol EXCEPT ![t] = FALSE]
  /\ Returned(t)
  /\ UNCHANGED <<volVars, countVars, logVars, lockVars, resVars, envVars, nest, choked,
                 crashes, events>>

\* repvol::ResAwait returns when the resent has its result.
ResAwait(t) ==
  /\ At(t, "await") /\ resblk[t] = NoFid
  /\ pc' = [pc EXCEPT ![t] = "idle"]
  /\ cpu' = NoThread /\ Returned(t)
  /\ UNCHANGED <<volVars, countVars, logVars, lockVars, resVars, envVars, nest, u_vol,
                 choked, crashes, events>>

------------------------------------------------------------------------------
(***************************************************************************)
(* repvol::Resolve.                                                        *)
(***************************************************************************)

\* The threads that wait for the resents of a set of fids get their result.
Released(fs) == [t \in Users |-> IF resblk[t] \in fs THEN NoFid ELSE resblk[t]]

\* The volume has been entered.  Another resolver may have done the work, and
\* FlushCOP2 may fail: then the resents are released unresolved.
ResolveStart(t) ==
  /\ At(t, "resolve")
  /\ \/ /\ state # "Resolving"
        /\ pc' = [pc EXCEPT ![t] = "release"] /\ cpu' = t
     \/ /\ state = "Resolving"
        /\ \/ pc' = [pc EXCEPT ![t] = "next"] \/ pc' = [pc EXCEPT ![t] = "release"]
        /\ cpu' = NoThread
  /\ UNCHANGED <<volVars, countVars, logVars, lockVars, resVars, envVars, callVars,
                 choked, crashes, events>>

\* Mutant: a resent that gets no mgrp is dropped without a result.
ResolveNext_Drops(t) ==
  /\ At(t, "next") /\ res_list # <<>>
  /\ res_list' = Tail(res_list)
  /\ IF transition_pending
     THEN pc' = pc /\ cpu' = t /\ UNCHANGED cur
     ELSE /\ cur' = Head(res_list)
          /\ pc' = [pc EXCEPT ![t] = "rpc"] /\ cpu' = NoThread
  /\ UNCHANGED <<volVars, countVars, logVars, lockVars, resblk, envVars, callVars, choked,
                 crashes, events>>

\* Take the next resent.  Without a transition pending GetMgrp succeeds and
\* ViceResolve is called; with one it returns ERETRY, the result of the resent.
ResolveNext(t) ==
  /\ At(t, "next") /\ res_list # <<>>
  /\ res_list' = Tail(res_list)
  /\ \/ /\ transition_pending
        /\ resblk' = Released({Head(res_list).fid})
        /\ pc' = pc /\ cpu' = t /\ UNCHANGED cur
     \/ /\ ~transition_pending
        /\ cur' = Head(res_list)
        /\ pc' = [pc EXCEPT ![t] = "rpc"] /\ cpu' = NoThread
        /\ UNCHANGED resblk
  /\ UNCHANGED <<volVars, countVars, logVars, lockVars, envVars, callVars, choked,
                 crashes, events>>

\* The reply to ViceResolve.  On VNOVNODE the parent of the object is submitted
\* and the resent goes to the end of the list, MAX_REQUEUE times at most, and
\* never again once the parent is no other object of this volume.
ResolveReply(t) ==
  /\ At(t, "rpc")
  /\ \/ /\ resblk' = Released({cur.fid})
        /\ UNCHANGED res_list
     \/ /\ cur.requeues > 0 /\ ~transition_pending
        /\ LET p == Parent[cur.fid]
               again == [cur EXCEPT !.requeues = IF p \in {NoFid, cur.fid} THEN 0 ELSE @ - 1]
           IN  res_list' = Append(IF p \in {NoFid, cur.fid} THEN res_list ELSE Submitted(p),
                                  again)
        /\ UNCHANGED resblk
  /\ cur' = NoResent
  /\ pc' = [pc EXCEPT ![t] = "next"]
  /\ cpu' = t
  /\ UNCHANGED <<volVars, countVars, logVars, lockVars, envVars, callVars, choked,
                 crashes, events>>

\* Release what is left, ask for a transition and leave through End_VFS.
ResolveEnd(t) ==
  /\ \/ At(t, "release")
     \/ At(t, "next") /\ res_list = <<>>
  /\ res_list' = <<>>
  /\ resblk' = Released({res_list[i].fid : i \in DOMAIN res_list})
  /\ transition_pending' = TRUE
  /\ pc' = [pc EXCEPT ![t] = "exit"]
  /\ cpu' = t
  /\ UNCHANGED <<state, demotion_pending, countVars, logVars, lockVars, cur, envVars,
                 callVars, choked, crashes, events>>

------------------------------------------------------------------------------
(***************************************************************************)
(* reintvol::Reintegrate and IncReintegrate, in a reintegrator thread or    *)
(* nested in the TakeTransition of any thread.                             *)
(***************************************************************************)

\* The reply to a Reintegrate RPC.  k records are committed and the loop goes
\* on or stops; after a timeout, or with nothing ready, it stops; after a
\* failure that cannot be retried the log is checkpointed first, which takes
\* the lock exclusively.
Reintegrate(t) ==
  /\ At(t, "work")
  /\ \/ \E k \in 1 .. Len(cml) :
          /\ state = "Reachable"
          /\ cml' = SubSeq(cml, k + 1, Len(cml))
          /\ \/ pc' = [pc EXCEPT ![t] = "work"] /\ cpu' = NoThread
             \/ pc' = [pc EXCEPT ![t] = "reintend"] /\ cpu' = t
          /\ UNCHANGED readers
     \/ /\ pc' = [pc EXCEPT ![t] = "reintend"] /\ cpu' = t
        /\ UNCHANGED <<cml, readers>>
     \/ /\ cml # <<>> /\ state = "Reachable"
        /\ readers' = readers \ {t}
        /\ pc' = [pc EXCEPT ![t] = "wlock"]
        /\ cpu' = IF readers = {t} /\ writer = NoThread THEN t ELSE NoThread
        /\ UNCHANGED cml
  /\ conflict' = (conflict /\ cml' # <<>>)
  /\ UNCHANGED <<volVars, countVars, owner, reintegrating, sync_reintegrate, writer,
                 resVars, envVars, callVars, choked, crashes, events>>

\* Mutant: the owner is kept when the log has become empty.
ReintegrateEnd_KeepsOwner(t) ==
  /\ At(t, "reintend")
  /\ reintegrating' = FALSE /\ sync_reintegrate' = FALSE
  /\ readers' = readers \ {t}
  /\ pc' = [pc EXCEPT ![t] = "exit"]
  /\ cpu' = t
  /\ UNCHANGED <<volVars, countVars, cml, owner, conflict, writer, resVars, envVars,
                 callVars, choked, crashes, events>>

\* The end of Reintegrate, up to its End_VFS.
ReintegrateEnd(t) ==
  /\ At(t, "reintend")
  /\ reintegrating' = FALSE /\ sync_reintegrate' = FALSE
  /\ owner' = IF cml = <<>> /\ mutator_count = 0 THEN UNSET_UID ELSE owner
  /\ readers' = readers \ {t}
  /\ pc' = [pc EXCEPT ![t] = "exit"]
  /\ cpu' = t
  /\ UNCHANGED <<volVars, countVars, cml, conflict, writer, resVars, envVars, callVars,
                 choked, crashes, events>>

------------------------------------------------------------------------------
(***************************************************************************)
(* reintvol::SyncCache, after the pioctl has left the volume.               *)
(***************************************************************************)

\* Ask for a transition until the volume is not busy.
SyncCache(t) ==
  /\ At(t, "sync") \/ At(t, "syncwoken")
  /\ transition_pending' = TRUE
  /\ sync_reintegrate' = (sync_reintegrate \/ ~VOLBUSY)
  /\ pc' = [pc EXCEPT ![t] = IF VOLBUSY THEN "syncwait" ELSE "syncloop"]
  /\ cpu' = IF VOLBUSY THEN NoThread ELSE t
  /\ UNCHANGED <<state, demotion_pending, countVars, cml, owner, conflict, reintegrating,
                 lockVars, resVars, envVars, callVars, choked, crashes, events>>

SyncTransition(t) ==
  /\ At(t, "syncloop") /\ transition_pending /\ ~VOLBUSY
  /\ TakeTransition(t, "syncloop")
  /\ UNCHANGED <<demotion_pending, countVars, logVars, lockVars, resVars, envVars,
                 mode, op, u_vol, choked, crashes, events>>

SyncEnd(t) ==
  /\ At(t, "syncloop") /\ ~(transition_pending /\ ~VOLBUSY)
  /\ pc' = [pc EXCEPT ![t] = "idle"]
  /\ cpu' = NoThread /\ Returned(t)
  /\ UNCHANGED <<volVars, countVars, logVars, lockVars, resVars, envVars, nest, u_vol,
                 choked, crashes, events>>

------------------------------------------------------------------------------
(***************************************************************************)
(* Events, raised by other threads of Venus.                               *)
(***************************************************************************)
Event ==
  /\ choked = "" /\ cpu = NoThread /\ Idle(Resolvers) # {}
  /\ events < MaxEvents /\ events' = events + 1

\* volrep::DownMember and repvol::DownMember.
DownMember(s) ==
  /\ Event /\ s \in avsg
  /\ avsg' = avsg \ {s}
  /\ transition_pending' = (transition_pending \/ avsg' = {})
  /\ UNCHANGED <<state, demotion_pending, countVars, logVars, lockVars, resVars, tokens,
                 callVars, pc, cpu, choked, crashes>>

\* volrep::UpMember and repvol::UpMember.
UpMember(s) ==
  /\ Event /\ s \notin avsg
  /\ avsg' = avsg \cup {s}
  /\ transition_pending' = (transition_pending \/ avsg' = {s})
  /\ demotion_pending' = TRUE
  /\ UNCHANGED <<state, countVars, logVars, lockVars, resVars, tokens, callVars, pc, cpu,
                 choked, crashes>>

\* userent::SetTokens: the user's dirty volumes may be reintegrated now.
SetTokens(u) ==
  /\ Event /\ u \notin tokens
  /\ tokens' = tokens \cup {u}
  /\ transition_pending' = (transition_pending \/ (owner = u /\ cml # <<>>))
  /\ UNCHANGED <<state, demotion_pending, countVars, logVars, lockVars, resVars, avsg,
                 callVars, pc, cpu, choked, crashes>>

TokensExpire(u) ==
  /\ Event /\ u \in tokens
  /\ tokens' = tokens \ {u}
  /\ UNCHANGED <<volVars, countVars, logVars, lockVars, resVars, avsg, callVars, pc, cpu,
                 choked, crashes>>

\* repvol::Reconfigure: the VSG of the volume has changed.
Reconfigure ==
  /\ Event
  /\ transition_pending' = TRUE /\ demotion_pending' = TRUE
  /\ UNCHANGED <<state, countVars, logVars, lockVars, resVars, envVars, callVars, pc, cpu,
                 choked, crashes>>

\* Venus dies, by itself or by a CHOKE, and starts again: ResetVolTransients
\* and ClientModifyLog::ResetTransient.  Only the log is in RVM; its owner is
\* read off the records.
Restart ==
  /\ crashes < MaxCrashes
  /\ crashes' = crashes + 1
  /\ state' = "Reachable" /\ transition_pending' = TRUE /\ demotion_pending' = FALSE
  /\ mutator_count' = 0 /\ observer_count' = 0 /\ resolver_count' = 0
  /\ shrd_count' = 0 /\ excl_count' = 0
  /\ owner' = IF cml = <<>> THEN UNSET_UID ELSE Head(cml)
  /\ reintegrating' = FALSE /\ sync_reintegrate' = FALSE
  /\ readers' = {} /\ writer' = NoThread
  /\ res_list' = <<>> /\ resblk' = [t \in Users |-> NoFid]
  /\ avsg' = Servers /\ tokens' = {}
  /\ nest' = [t \in Threads |-> <<>>] /\ u_vol' = [t \in Threads |-> FALSE]
  /\ pc' = [t \in Threads |-> "idle"] /\ cpu' = NoThread
  /\ choked' = IF \A i \in DOMAIN cml : cml[i] = owner' THEN "" ELSE "ResetTransient"
  /\ cur' = NoResent
  /\ mode' = [t \in Threads |-> IF t \in Resolvers THEN "RESOLVING" ELSE "OBSERVING"]
  /\ op' = [t \in Threads |-> "none"]
  /\ UNCHANGED <<cml, conflict, events>>

\* After a CHOKE nothing runs any more.
Dead == choked # "" /\ UNCHANGED vars

------------------------------------------------------------------------------
Init ==
  /\ state = "Reachable" /\ transition_pending = TRUE /\ demotion_pending = FALSE
  /\ mutator_count = 0 /\ observer_count = 0 /\ resolver_count = 0
  /\ shrd_count = 0 /\ excl_count = 0
  /\ cml = <<>> /\ owner = UNSET_UID /\ conflict = FALSE
  /\ reintegrating = FALSE /\ sync_reintegrate = FALSE
  /\ readers = {} /\ writer = NoThread
  /\ res_list = <<>> /\ cur = NoResent
  /\ resblk = [t \in Users |-> NoFid]
  /\ avsg = Servers /\ tokens = {}
  /\ pc = [t \in Threads |-> "idle"]
  /\ mode = [t \in Threads |-> IF t \in Resolvers THEN "RESOLVING" ELSE "OBSERVING"]
  /\ op = [t \in Threads |-> "none"]
  /\ nest = [t \in Threads |-> <<>>]
  /\ u_vol = [t \in Threads |-> FALSE]
  /\ cpu = NoThread /\ choked = "" /\ crashes = 0 /\ events = 0

\* The steps of a thread that has something to do.
Step(t) ==
  \/ WaitForReintegration(t) \/ Dispatched(t) \/ StartReintegrate(t)
  \/ EnterDemote(t) \/ EnterTransition(t) \/ EnterCallBack(t)
  \/ EnterWait(t) \/ EnterWoken(t)
  \/ EnterMutating(t) \/ EnterObserving(t) \/ EnterResolving(t) \/ LockGranted(t)
  \/ Mutate(t) \/ PurgeMLEs(t) \/ (\E f \in Fids : ResSubmit(t, f))
  \/ CheckPoint(t) \/ CheckPointed(t) \/ Observe(t) \/ EndVFS(t)
  \/ ExitMutating(t) \/ ExitObserving(t) \/ ExitResolving(t)
  \/ ExitTransition(t) \/ ExitSignal(t) \/ Exited(t) \/ ResAwait(t) \/ SyncReturn(t)
  \/ ResolveStart(t) \/ ResolveNext(t) \/ ResolveReply(t) \/ ResolveEnd(t)
  \/ Reintegrate(t) \/ ReintegrateEnd(t)
  \/ SyncCache(t) \/ SyncTransition(t) \/ SyncEnd(t)

Call(t) == (\E m \in {"MUTATING", "OBSERVING"} : BeginVFS(t, m)) \/ BeginSync(t)

Visit == \E o \in DaemonOps : DaemonVisit(o)

Next ==
  \/ \E t \in Threads : Step(t)
  \/ \E t \in Users : Call(t)
  \/ Visit
  \/ \E s \in Servers : DownMember(s) \/ UpMember(s)
  \/ \E u \in Uids : SetTokens(u) \/ TokensExpire(u)
  \/ Reconfigure \/ Restart \/ Dead

Spec == Init /\ [][Next]_vars

------------------------------------------------------------------------------
(***************************************************************************)
(* Properties.                                                             *)
(***************************************************************************)
Modes == {"MUTATING", "OBSERVING", "RESOLVING"}

Pcs == {"idle", "stall", "slow", "dispatched", "reint", "demote", "transition",
        "admit", "wait", "woken", "rlock", "cmlock", "relock", "wlock", "inside",
        "done", "ckpt", "work", "reintend", "resolve", "next", "rpc", "release",
        "exit", "leave", "exited", "return", "await", "sync", "syncwait",
        "syncwoken", "syncloop"}

\* Every variable has its type.
TypeOK ==
  /\ state \in {"Reachable", "Unreachable", "Resolving"}
  /\ {transition_pending, demotion_pending, conflict, reintegrating,
      sync_reintegrate} \subseteq BOOLEAN
  /\ {mutator_count, observer_count, resolver_count, shrd_count, excl_count} \subseteq Nat
  /\ cml \in Seq(Uids) /\ Len(cml) <= MaxCML
  /\ owner \in Uids \cup {UNSET_UID}
  /\ readers \subseteq Threads /\ writer \in Threads \cup {NoThread}
  /\ res_list \in Seq([fid : Fids, requeues : 0 .. MAX_REQUEUE])
  /\ cur \in [fid : Fids \cup {NoFid}, requeues : 0 .. MAX_REQUEUE]
  /\ resblk \in [Users -> Fids \cup {NoFid}]
  /\ avsg \subseteq Servers /\ tokens \subseteq Uids
  /\ pc \in [Threads -> Pcs] /\ mode \in [Threads -> Modes]
  /\ op \in [Threads -> {"none", "vfs", "sync", "synresolve"} \cup DaemonOps]
  /\ nest \in [Threads -> Seq({"transition", "exited", "syncloop"})]
  /\ \A t \in Threads : Len(nest[t]) <= MaxNest
  /\ u_vol \in [Threads -> BOOLEAN]
  /\ cpu \in Threads \cup {NoThread}
  /\ crashes \in 0 .. MaxCrashes /\ events \in 0 .. MaxEvents

\* The thread is between the increment in Enter and the decrement in Exit.
InVolume(t) == pc[t] \in {"rlock", "cmlock", "relock", "wlock", "inside", "done", "ckpt",
                          "work", "reintend", "resolve", "next", "rpc", "release", "exit"}
In(m) == {t \in Threads : InVolume(t) /\ CurMode(t) = m}

\* volent counts its active users exactly: every Enter that returned 0 is
\* matched by one Exit, so VOLBUSY, shrd_count and excl_count never lie about
\* who is in the volume.
ActiveUsers ==
  choked = "" =>
    /\ mutator_count = Cardinality(In("MUTATING"))
    /\ observer_count = Cardinality(In("OBSERVING"))
    /\ resolver_count = Cardinality(In("RESOLVING"))
    /\ shrd_count = mutator_count + observer_count
    /\ excl_count = resolver_count

\* The volent is in order: the types, and ActiveUsers.
CountsOK == TypeOK /\ ActiveUsers

\* Resolution excludes read and write activity: no user thread is in a volume
\* whose state is Resolving, and a resolver is in the volume alone.
ResolutionExclusive ==
  /\ state = "Resolving" => In("MUTATING") \cup In("OBSERVING") = {}
  /\ \A t \in In("RESOLVING") : \A u \in Threads : InVolume(u) => u = t

\* There is one mutating user at a time: every mutator in the volume, and every
\* record of the log, is the owner's, and the log has an owner exactly while a
\* mutator, a record or a reintegration needs one.
OneMutatingUser ==
  /\ \A t \in In("MUTATING") : UidOf[t] = owner
  /\ \A i \in DOMAIN cml : cml[i] = owner
  /\ choked = "" =>
       (owner # UNSET_UID <=> mutator_count > 0 \/ cml # <<>> \/ reintegrating)

\* At most one reintegration works on the log, whether it runs in a
\* reintegrator thread or nested in a transition, and reintegrating says so.
OneReintegration ==
  LET active == {t \in Threads : (nest[t] # <<>> \/ t \in Reintegrators)
                                 /\ pc[t] \notin {"idle", "dispatched", "reint", "leave",
                                                  "exited", "return", "exit"}}
  IN  choked = "" => Cardinality(active) <= 1 /\ (active # {} => reintegrating)

\* A thread that waits for a resolution is waited upon: its resent is queued or
\* is the one the resolver works on, so no result is ever lost.
NoLostWaiter ==
  choked = "" => \A t \in Users : resblk[t] # NoFid =>
                   Queued(resblk[t]) \/ cur.fid = resblk[t]

\* The log does not change while a checkpoint writes it out.
CheckPointStable == [][writer # NoThread /\ writer' = writer => cml' = cml]_vars

\* Enter and Exit never find the volume in a state they cannot explain, apart
\* from the resolver's Exit, and recovery finds one owner of the log.
NoChoke == choked \notin {"Enter: mutating", "Exit: mutating", "Exit: observing",
                          "ResetTransient"}

\* A resolver that finds its work already done leaves the volume like any
\* other: its Exit does not CHOKE.
ResolverLeaves == choked # "Exit: resolving"

\* LWP runs every thread that stays runnable, and the daemon visits the volume
\* periodically.
Fairness == (\A t \in Threads : SF_vars(Step(t))) /\ SF_vars(DaemonVisit("transition"))

FairSpec == Spec /\ Fairness

\* A pending transition is taken: the threads in the volume leave, no others
\* come in, and the daemon or the last of them takes it.
TransitionTaken == transition_pending ~> (~transition_pending \/ choked # "")

\* A call that waits to observe the volume is let in, or returns.
ObserverServed ==
  \A t \in Users : (pc[t] \in {"wait", "woken"} /\ CurMode(t) = "OBSERVING")
                   ~> (pc[t] \in {"inside", "cmlock", "idle"} \/ choked # "")

==============================================================================
