# A verification development for Coda

Coda is a distributed file system. A client cache manager, **Venus**, serves the
files of replicated volumes from its cache; the file servers, **Vice**, promise
to call a client back before an object it has cached changes; a client that
loses its servers goes on with its cache and logs its updates. Both sides are
built from coroutines (**LWP**), remote procedure calls over datagrams
(**RPC2**, with the bulk transfer protocol SFTP) and recoverable virtual memory
(**RVM**).

This directory models parts of that system in TLA+, checks the models with TLC
and proves theorems about them with TLAPS. `PROJECT.json` gives for every
definition the source lines it stands for, for every run its properties, and
for every property a mutated definition (named `Definition_WhatIsWrong`, beside
the definition it mutates) that the property rejects. Paths below are relative
to `src/`.

Contents: [inventory](#1-inventory), [plan](#2-plan),
[modules and code](#3-modules-and-the-code), [runs](#4-runs),
[proofs](#5-proofs), [findings and observations](#6-findings-and-observations),
[limits](#7-what-is-not-modelled).

## 1. Inventory

| component | source | state | operations | interacts with |
|---|---|---|---|---|
| version vectors | `coda-src/vv` | per replica: update counts, last store id, inconsistency flag | compare, check a set of replicas, merge | every server call of Venus, COP1/COP2, resolution |
| LWP locks | `subprojects/lwp/src/lock.c` | holders' flags, counters, waiter classes | obtain and release read, write, shared and dual locks | everything |
| LWP scheduler | `subprojects/lwp/src/lwp.c` | run queues, events | dispatch, wait, signal | everything |
| volume state machine | `coda-src/venus/venusvol.cc`, `vproc.cc`, `vol_daemon.cc` | reachability state, pending transition, user counts | Enter, Exit, TakeTransition, Begin_VFS, End_VFS | resolvers, reintegrators, server events, tokens |
| client resolution | `coda-src/venus/vol_resolve.cc` | list of objects to resolve | submit, await, resolve | volume state machine, server resolution |
| client modify log | `coda-src/venus/vol_cml.cc` | logged updates, owner | append, cancel, checkpoint, pack | reintegration, RVM |
| reintegration | `coda-src/venus/vol_reintegrate.cc`, `coda-src/vice/codaproc.cc` | log prefix under transfer, store ids replayed | pack, send, replay, commit | modify log, callbacks |
| client cache | `coda-src/venus/fso*.cc` | objects with status, data and rights | Get, GetAttr, Fetch, Store, flush, demote | callbacks, volume callbacks, workers |
| volume callbacks | `coda-src/venus/vol_vcb.cc` | volume version stamp, callback flag | GetVolAttr, ValidateFSOs | client cache, server callbacks |
| server callbacks | `coda-src/vice/vicecb.cc` | fid to hosts table, per-entry lock | add, break, delete | every update, host table |
| server host table | `coda-src/vice/clientproc.cc` | callback connections, host locks | connect, clean up, check liveness | callbacks |
| COP1/COP2 | `coda-src/vice/codaproc.cc`, `coppend.cc`, `coda-src/venus/mgrp.cc` | vectors, pending second phases | COP1 update, COP2, time out | version vectors, server resolution |
| server resolution | `coda-src/resolution`, `coda-src/vol/lockqueue.cc` | volume locks, what the coordinator collected | lock and fetch, compare, force, mark, unlock | vnodes, version vectors |
| volume package | `coda-src/vol` | vnodes, locks, bitmaps | attach, get, put | all handlers |
| RPC2, SFTP, MultiRPC | `subprojects/rpc2/rpc2-src` | connection state machines, windows | call, retry, BUSY, reply, transfer | everything remote |
| RVM, RDS | `subprojects/rvm` | log, segments, free lists | begin, set range, commit, flush, truncate, recover | Venus and Vice recovery |
| the rest | hoarding, users and realms, directories, access lists, authentication, repair and ASRs, update daemon, norton, partitions, volume utilities, kernel interface | | | see section 7 |

What makes it hard to get right, and to test:

* a coroutine yields at every lock wait and RPC, and what it read before is used after;
* counters, flags and ownership in Venus' volumes are kept by hand, on paths that nest;
* break messages and the answers that grant callbacks travel on different connections;
* hosts, connections and files disappear while a break that concerns them is under way;
* clients, servers and their connections fail and come back independently;
* replicas see different subsets of the updates, and one pass over their version
  vectors has to decide whether one of them covers all the others.

The hazards are listed with their lines in `PROJECT.json`.

The properties that make the system correct, in one line each: a volume's user
counts are exact and a resolver is alone in it; one user at a time owns the
modify log; pending transitions are taken; a lock excludes and loses no wakeup;
the callback table never loses, leaks or confuses an entry and no callback
survives an update; an object the client takes for valid is the server's; the
set of dominant replicas is computed right; a version vector counts every update
once, so that a dominant replica may overwrite another; a logged update reaches
the server once or is reported as a conflict; and a committed transaction
survives a crash.

## 2. Plan

Modules, in order; a component's abstract specification comes with it.

1. `VersionVectors`, `VVCheck`: comparison, and the in-place dominance check. **Proved.**
2. `VolumeState`: the volume state machine with its users. **Safety proved**, liveness model-checked.
3. `LWPLock`, implementing `RWLock`: the lock package. **Proved.**
4. `ViceCB`: the server's callback table; `Coherence`: client cache and server
   composed, with the table abstracted to the client's set of fids. **Safety proved.**
5. `ReplicationData`, `Replication`: COP1, COP2, the cop-pending table and the
   resolution of files. **Proved**, except for the assertion of section 6.
6. `CML`, `Reint`: the modify log with its optimisations, composed with the
   server's replay. **Model-checked.**
7. `RVMRecords`, `RVMLog`, implementing `RVMStore`: the log as a circular buffer,
   with truncation and crashes at every write. **Model-checked.**
8. RPC2 calls over a lossy network; abstractly, at-most-once execution. Then the SFTP window.
9. Dual locks, resolution of directories, bitmaps and partial cache files.

Theorems planned next: an invariant of `Reint` for each environment, once the
operators of `CML` are restated without sequences that shrink by recursion.

## 3. Modules and the code

**VersionVectors, VVCheck** (`coda-src/vv/inconsist.cc`). A vector is a record
of counts, a store id and the inconsistency flag; `VV_Cmp` and
`VV_Cmp_IgnoreInc` are operators. `VVCheck` takes one step per iteration of the
scan of `VV_Check_Real` and of the two loops of `VV_BruteForceCheck`, which
edit the caller's array `vvp` in place. `Init` ranges over all arrays and flags.

**VolumeState** (`coda-src/venus/venusvol.cc`, `vproc.cc`, `vol_resolve.cc`,
`vol_reintegrate.cc`, `vol_daemon.cc`, parts of `vol_cml.cc`). One read/write
replicated volume. A thread's `pc` is the point where it is in `Begin_VFS`,
`Enter`, the body of its call, `Exit` and `End_VFS`; `cpu` names the coroutine
that runs, so that code between two yields is not interleaved. The log is a
sequence of the uids of its records. `nest` is the stack of returns of
synchronous reintegrations that `TakeTransition` runs inline. Server, token and
reconfiguration events set `transition_pending` as the code does; `Restart`
keeps only what is in RVM. A `CHOKE` sets `choked` and stops the model.

**LWPLock**, implementing **RWLock** (`subprojects/lwp/src/lock.c`). The fields of
`struct Lock` keep their names; every obtain, retry after a wakeup and release
is a step, as no coroutine is preempted. The counters are unsigned chars in the
code and natural numbers here, under the assumption that there are fewer than
256 threads. `RWLock` says what `lock.md` promises of readers and writers; its
`readers` and `writers` are mapped to the threads that hold the lock.

**ViceCB** (`coda-src/vice/vicecb.cc`, parts of `clientproc.cc`, `codaproc.cc`).
`hashTable`, `FEFree`, and for each FileEntry the hosts on its list, the list
cells whose `conn` has been cleared, `users` and `cblock`. `BreakCallBack` is
cut at its waits: for `cblock`, for each host lock, and for the MultiRPC. The
break of a file is followed by that of its volume. The liveness check and
`NewConnectFS` lock a host, wait for an RPC, and keep or forget the host. When
several entries are freed at once they go to the free list in the order of the
hash buckets, which may be any order of the fids.

**Coherence** (`coda-src/venus/fso_cfscalls0.cc`, `fso0.cc`, `fso1.cc`,
`vol_vcb.cc`, `venuscb.cc`, `comm.cc`, and the handlers of
`coda-src/vice`). One client with several workers, and one server. Each call is
sent, served and applied in separate steps. A worker record holds what the call
keeps across its RPC: whether `cbbreaks` changed (`susp`, `vsusp`; the counter
itself only matters by this comparison), what it asked for, and the reply. The
variable `env` says which behaviours of the surroundings a run of the system has;
it is one of the constant `Envs` and never changes.

**ReplicationData, Replication** (`coda-src/vice/codaproc.cc`, `codaproc2.cc`,
`srvproc.cc`, `coppend.cc`; `rescoord.cc`, `resfile.cc`, `rescomm.cc`, `reslock.cc`,
`resutil.cc`, `weres.cc` of `coda-src/resolution`; `coda-src/vol/lockqueue.cc`;
`mgrp.cc`, `vol_COP2.cc` and parts of the cache of `coda-src/venus`). One file of a replicated volume, its servers, and clients that
update it by reintegrated stores. `ReplicationData` has what is computed:
`COP2Update`, `NewCOP1Update`, what a client learns from the answers, and the
group test of the coordinator (`AddAnswer` is one step of `IncVVGroup`). In
`Replication` a call is one step at each server, so that any of them is lost on
the way or on the way back; a coordinator locks, forces and unlocks server by
server, and other clients and COP2s come between. `hist`, `perf` and `fresh` are
history variables: the updates contained in a version, the updates a server
performed, and the one it has counted for itself only. A behaviour carries a
configuration `cf` that says which faults its environment has.

**CML, Reint** (`coda-src/venus/vol_cml.cc`, `vol_reintegrate.cc`,
`coda-src/vice/codaproc2.cc`, `coda-src/vol/volume.cc`). `CML` has the records of
one volume's files and what logging an operation does to the ones already there;
its operators are those of `cmlent` and `ClientModifyLog` (cancellation, freezing,
threading, commit, failure). `Reint` composes it with users, the reintegrator's
rounds (partial transfer through a handle, or a batch), the calls in flight and
the server's replay with its list of reintegrators. A value is the number of the
operation that wrote it.

**RVMRecords, RVMLog**, implementing **RVMStore** (`subprojects/rvm/rvm`: `rvm_trans.c`,
`rvm_logflush.c`, `rvm_logstatus.c`, `rvm_logrecovr.c`). The log device is a
sequence of cells, the unit a crash keeps or loses; `RVMRecords` has the records
and the two scans recovery makes over them. `RVMLog` has the transactions, the
flush list, wraps and splits at the physical end, the truncation by epochs and
recovery, which is itself a truncation and can crash. `RVMStore` is the promise:
a crash leaves the effect of a prefix of the committed transactions that has
every flushed one.

Notes on faithfulness:

* `ResAwait` waits as long as the AVSG is empty; a writer stalled in the red zone
  looks at the length of the log only. Both are in the model.
* `reintvol::IncAbort` and `volent::Lock`/`UnLock` are dead code and left out, as
  is the path of `End_VFS` after more than five resolutions.
* There is no yield between the return of `CodaBreakCallBack` and the change of
  the version and the stamp, so they are one step.
* A handler that is being served when `CLIENT_CleanUpHost` runs still answers,
  and the connection is unbound later.
* A thread that holds the write lock and asks for a read lock is admitted by the
  code; `lock.md` forbids releasing in that state and the model has no nested requests.

## 4. Runs

| run | module, cfg | checks | instance |
|---|---|---|---|
| vv_check | MCVVCheck.cfg | `VerdictOK`, `DominantSetOK`, `Terminates` | 3 slots, counts 0 and 1, both flags |
| volume_main | VolumeMain.cfg | `CountsOK`, `OneMutatingUser`, `CheckPointStable` | 2 users with different uids, 1 resolver, 1 reintegrator, daemon, 1 object, 1 event, log of 1 |
| volume_resolve | VolumeResolve.cfg | `ResolutionExclusive`, `NoLostWaiter`, `TransitionTaken`, `ObserverServed` | 1 user, 2 resolvers, daemon, 2 objects (parent and child), 2 events, fair |
| volume_sync | VolumeSync.cfg | `OneReintegration`, `NoChoke` | 1 user, 1 resolver, 1 reintegrator, daemon, `ReintLimit` 0, SyncCache, log of 2, 2 events, 1 crash |
| lwp_lock | LWPLock.cfg | `Compatible`, `NoLostWakeup`, `FieldsAgree`, `ImplementsRWLock` | 4 threads; read and write, or read and shared requests |
| vice_cb | ViceCB.cfg | `TablesOK`, `BreakerOwnsEntry`, `NoSilentDrop`, `FileBroken`, `NoWaitCycle` | 2 threads, 2 hosts, 2 files and the volume, 3 entries |
| coherence | Coherence.cfg | `CacheOK`, `StatusCurrent`, `RightsBacked`, `DataFresh` | 2 files, 2 workers, one of them a hoard daemon, 2 updates; three environments: failures with slow and overtaking breaks, volume callbacks with piggybacked validations, and both with flushes and open files for one update |
| rvm_log | RVMLog.cfg | `LogOK`, `StoreSpec`, `FlushCompletes` | 2 ranges, 2 transactions, 1 crash; a server's log that wraps, a Venus log that coalesces, torn writes after a power failure |
| reint | Reint.cfg | `LogOK`, `NoLostUpdate`, `LogAgrees`, `ConflictIsReal`, `NoTornData`, `NoBlindUpdate`, `Drains` | 2 files, 3 to 5 operations, and per configuration no fault, a lost call, a late one, a busy volume, another client, a restart of the server or of Venus |
| replication | Replication.cfg | `TypeOK`, `SlotsCounted`, `DominanceIsNewer`, `DataOfSid`, `UpdatesKept` | 2 or 3 servers, 1 or 2 clients, up to 3 updates, up to 2 resolutions, 1 fault |
| vice_cb_volume | ViceCBVolume.cfg | `VolumeBroken`, violated | finding, section 6 |
| replication_assert | ReplicationAssert.cfg | `AssertHolds`, violated | finding, section 6 |

`CountsOK`, `TablesOK`, `CacheOK`, `LogOK` and `LogAgrees` are each a type
invariant together with the consistency of the component's tables. The
configurations `CoherenceCold`, `VolumeSyncLeak`, `VolumeResolver`, `RVMFull`,
`RVMSegment`, `RVMPartition`, `ReintTimeout` and `ReplicationLate` are not runs:
each reproduces with TLC an observation of section 6. `ReintProduct` is the run
reint, without the temporal properties, for the product of five kinds of volume, every
single fault and five sets of operations (3.4 million states, three minutes).

**Why the bounds are enough.** *VVCheck:* two counts make every pair of
vectors equal, ordered or incomparable, and three slots are the fewest in which
a late vector covers two incomparable ones; the theorems of section 5 remove
the bound. *VolumeState:* two users compete for the log, two resolvers are what
it takes for one to come too late, one server makes the AVSG empty and
non-empty; `MAX_REQUEUE` is 1 instead of 3, so that both a requeue and its
refusal occur; `MaxEvents` bounds how often the surroundings change, and two
suffice to lose a server and get it back or to get tokens and lose them. With
`MaxNest` 1 one synchronous reintegration runs inside a call. *LWPLock:* four
threads are a holder, waiters of both classes and a newcomer. *ViceCB:* two
threads are a break and whatever disturbs it, two hosts make lock orders
differ; there are as many entries as fids, since the code allocates more when
the free list is empty. *Coherence:* two workers, so that a call of one is
applied while another's is under way; two files, so that validating one
piggybacks the other; two updates, so that a break can concern the answer to an
earlier break's refetch. *RVMLog:* the log is as short as lets two transactions
wrap, split and wait for a truncation; one crash falls on every step, those of a
recovery after a restart included. *Reint:* each fault has its own
configurations, with the operations it interferes with; two operations on one
file are what cancellation needs, and a second file shows what a round leaves
out. The configurations include those in which each exception that a property
names really happens (section 6), and `ReintProduct` shows that nothing hangs on
the choice of volume and operations. *Replication:* three updates of two replicas are the fewest in which an
update is counted through a resolution and then compared; two clients make the
vectors diverge; three servers are what the group test of the coordinator needs.
The theorems of section 5 remove these bounds for the properties that say most.
Symmetry is used on sets whose members are alike: the
server's threads and FileEntries, the files of `Coherence`, and the two users of
`VolumeState` together with their uids.

**Deadlock** is checked except where the system may stop: in `MCVVCheck` the
routine returns; in `RVMLog`, `Reint` and `Replication` the operations are used
up; and in the run with synchronous reintegration the volume daemon itself may wait in
`Enter` inside a nested reintegration, and at the bounds of the run nobody is
left to wake it. In `VolumeState` a `CHOKE` stops everything.

**Fairness.** `VVCheck` is a sequential routine: weak fairness of its steps.
`VolumeState.FairSpec`: each thread's steps and the daemon's visits are
strongly fair. A thread that can run becomes disabled whenever another
coroutine holds the processor, so weak fairness would say nothing; LWP's run
queues are FIFO and every coroutine yields, which gives each of them its turn
again and again, and `VolDaemon` wakes up periodically. Nothing is assumed
of users, servers or tokens. `RVMLog`: the flusher and the truncation, once
started, run on (weak fairness), and a crashed process is started again.
`Reint`: the volume daemon keeps starting reintegrations, and a call that is not
lost is executed and answered; faults are bounded and not fair.

**What the properties say** is written above each of them. Where a property is
checked only in part of the behaviours, that is because it does not hold in the
others; section 6 says where and why. In `Coherence`, the object of the promise
is an honest connection: `StatusCurrent` and `RightsBacked` are claimed while
client and server both regard the callback connection as up and no demotion is
pending, which is when Venus uses its cache without asking.

## 5. Proofs

`VVCheckProofs` proves, for every number of slots and every set of vectors,
`VVCheckTypeCorrect`, `VVCheckVerdict` and `VVCheckDominantSet`: the verdict is
1 exactly when some vector covers all others (with `EqReq`, when all are
equal), and then the array keeps exactly the dominant set and `HowMany` is its
size. Assumptions: the array has a natural number of slots, and a null pointer
is not a vector. The two properties say something only at the end, so the
inductive invariant describes the array in the middle of each pass: what is
struck out was struck out by a vector that is still there (`Struck`,
`ScanInv`); before the brute-force pass every entry that is missing is covered
by one that is present (`BruteInv`); and within it, the candidates before `i`
are decided (`OuterInv`) and the comparisons before `j` made (`InnerInv`). The
lemmas are that comparison is symmetric and transitive, one lemma for each pass
and one for the start.

`LWPLockProofs` proves, for up to 255 threads, `LockExcludes`, `LockWakesUp`,
`LockFieldsAgree` and `LockRefinesRW`, from one inductive invariant: the types,
the agreement of the fields with the threads, that whoever waits has a holder or
a signalled thread, that holders are compatible, and that a thread has requested
a kind exactly while it is not idle. The conjuncts need one another: a grant is
compatible because the fields agree, and the fields stay in agreement because
the holders were compatible. The assumption `OneExcl` says that no lock is
used both for writing and for sharing; without it `Compatible` fails (section 6).

`VolumeSteps` and `VolumeProofs` prove every safety property of `VolumeState` that a
run checks, for any sets of threads, uids, servers and objects, any bounds, with and without
synchronous reintegration, and across crashes of Venus: `VolumeTypeCorrect`,
`VolumeOwner`, `VolumeResolution`, `VolumeReintegration`, `VolumeWaiters`,
`VolumeNoChoke` and the action property `VolumeCheckPoint`. `VolumeCounts`, that
the counts are exact, is proved for volumes without synchronous reintegration,
since it is false in the others (section 6); there the invariant still says that
a count is never below the number of threads it counts, which is what
exclusion rests on. Assumptions: the groups of threads are disjoint, there are
finitely many threads, the null values are not members of their sets. The
inductive invariant `Inv` has, besides the types:

* `ShapeInv`: where a thread can be, given what it is and what it was called for; a
  nested call returns to Exit, except the outermost one; an asynchronous volume
  never nests, and `End_VFS` finds `u_vol`.
* `CountInv`: the counts cover the threads between Enter and Exit.
* `OwnerInv`: mutators and records are the owner's, and there is an owner exactly
  while one is needed.
* `ResInv`: the resolver is alone; one that found its work done keeps the processor
  until it has left, so that nobody can enter beside it.
* `ReintInv`: at most one thread works on the log, and it has set `reintegrating`;
  one about to start still has what it tested, because it has not yielded.
* `WaitInv`: a waiter's object is queued or is the one under way, and one is
  under way only while a resolver is in its call.
* `LockInv`: who may change the log holds the read lock, and a writer excludes readers.

They need one another: Enter finds no resolver because the counts cover, the
counts are kept because the shape says who is inside, and a reintegration starts
with an owner because the log and the owner agree. The argument is one lemma per
step. `Local` says what a step of thread t does to the others (it may wake or
dispatch them) and to the counts (t stays, enters or leaves); `Quiet` is the
class of steps that leave the log, its owner, the resents and the lock alone,
which `QuietRest` treats once; each remaining step has a lemma of its own.

`ReplicationProofs` proves, for any number of servers, clients, updates, resolutions
and faults, `ReplicationTypeCorrect`, `ReplicationCounts`, `ReplicationDominance`,
`ReplicationContents` and the action property `ReplicationKeeps`. The counts, dominance and preservation are claimed,
as their properties are, where no COP2 arrives after its update was counted
otherwise (section 6 shows what happens there). None of them is inductive.
Dominance is a statement about numbers, and that a replica has the updates of
another a statement about histories; the invariant connects them slot by slot.
`Bounded`: a slot counts at most the updates its server performed among those the
contents include. `Witnessed`: for the latest update of the contents some server
that performed it is counted in full. `HistOK`: the updates one server performed
form a chain. Then, if a vector with `Bounded` is at least one with `Witnessed`,
its slot for the witness counts every update up to the other's latest, and by the
chain its contents include them: lemma `Dominance`. To keep `Bounded` through a
COP2, `Fresh` says that only the latest update of a server can have its COP2
outstanding, and that no other slot has counted it. The rest says that what
clients and coordinators carry between two calls was once true of a replica and is
still bounded by its history: `Cached` and `Listed` for a client's vector and its
COP2 list, `Found` and `Coordinates` for a coordinator's answers.

For `ReplicationContents`, the contents of a replica are those of the update its
StoreId names. It holds with late COP2s too, and fails where a coordinator
outlasts its volume locks, which the property leaves out. What has to be known of
a coordinator between its calls is `Sure`: as long as it is to fetch, the dominant
server has answered, its volume is locked by this coordinator, and its StoreId is
still the one that will be forced; once it has fetched, the file is that of the
StoreId. A COP1 or another coordinator cannot come between because it needs the
lock (`SureKept`), and a COP2, which takes none, changes counts and not the StoreId.

`ViceCBProofs` proves every property that the run `vice_cb` checks, for any number
of threads, hosts, files and entries: `ViceCBTables`, `ViceCBOwner`,
`ViceCBNoSilentDrop`, `ViceCBFileBroken` and `ViceCBNoWaitCycle`. Assumptions: the
sets are finite, the null value is not a member of any, hosts are compared by
their addresses (natural numbers), and there are more entries than files, since
the code allocates further ones. The table invariant `TablesOK` is not inductive,
because what a thread does after a wait relies on what it found before it. The
invariant adds what a thread's record holds at each point (`WellFormed`, with the
order in which host locks are taken), which thread has which lock (`CBLocks`,
`HostLocks`, `VnodeLocks`), that the entry of a break stays hashed and locked
(`Owns`), that every host on its list is still to be locked, locked, told, gone or
the writer's (`Listed`), and for the first break of an update that nobody gets a
callback on the file after it (`Broken`). The last is where the vnode lock matters:
a fetch, which adds callbacks, excludes the update. `NoWaitCycle` needs no
stronger invariant: whoever of a set of waiting threads waits for another waits for a
break that is locking hosts, and such a break has locked hosts below its next one
only; so the one whose next host is the highest waits for nobody in the set.
`VolumeBroken` is not proved: it is false (section 6).

`CoherenceSteps` and `CoherenceProofs` prove what the run `coherence` checks, for any
number of files, workers, hoard daemons and updates: `CoherenceCache` and `CoherenceData` in every
environment, `CoherenceStatus` and `CoherenceRights` in those that are `Orderly`.
Assumptions: the null values differ from versions, files and workers, and there is
at least one update. `Orderly` leaves out exactly what refutes `StatusCurrent`: TLC
has a counterexample for each of its conditions (section 6). The environments of
the run are orderly. The invariant `IInv` has two parts.

* `Basics` holds in every environment: what the fields of a call have to do with
  each other and with the object the call is about (`WellFormed`, `CallOK`,
  `ObjectOK`), who holds an object's write lock (`Locks`), and that no version, on
  the client or on its way, is ahead of the server's (`Bounded`, `Packed`). The
  order of versions is what `DataFresh` needs: a transfer that is resumed asks for
  the version whose data it has, so that it cannot mix two.
* `Coherent` holds in the orderly ones. `Rights`: an object with rights has a
  callback and the server's version, and its break is not behind it. That is kept
  because the same is true of an answer that will be believed (`Answers`,
  `Piggies`): an answer that is not suspect was given after the last break. With
  volume callbacks it must be true of the whole cache: `VolumeOK` says that a client
  that has, or is about to get, the volume's callback for the current stamp has
  the current version of every object, and that `ValidateFSOs` leaves behind it
  only objects that are current and have callbacks (`Collected`). `Silent` and
  `Refused` are about the end of a connection.

`StepBasics` and `StepKeeps` show once that a step of a worker keeps the two parts,
provided it changes only the worker's record, the objects it may change and the
callbacks it may add; `ServerBasics` and `ServerCurrent` do the same for the steps of
an update. Each action has a lemma that it is such a step.

**Only model-checked.** Liveness (`Terminates`, `TransitionTaken`, `ObserverServed`,
`FlushCompletes`, `Drains`), which needs fairness and is outside the reach of
the proof system used here. `LogOK` and `StoreSpec` of `RVMLog`: what a scan of the
log returns (`LocateTail`, `ScanReverse`) is defined by recursion over the device,
and that a fold over data computes what it should needs induction over data. The
invariants of `Reint` (`LogOK`, `NoLostUpdate`, `LogAgrees`, `ConflictIsReal`,
`NoTornData`, `NoBlindUpdate`): its log operators take operators as arguments and
filter sequences by recursion, with the same consequence. They are checked for one
fault at a time (and hold for every pair of different faults in the product of
`ReintProduct` without open files); the exceptions are part of their statements.

## 6. Findings and observations

Findings, each with a run whose counterexample shows it:

* **vice_cb_volume** (`vice/vicecb.cc:387`). A break of the volume fid that waited
  for the entry returns when the entry has been replaced, without breaking the
  callbacks on the new one.
* **replication_assert** (`resolution/resfile.cc:183`). `IncVVGroup` compares each
  vector with the dominant one found so far and takes one with the same StoreId
  for equal. Server 0 has `[1,0,0]` of update u, server 1 `[0,1,0]` of u, server 2
  `[1,0,2]` of w: the third dominates the first and not the second, neither
  `VV_Check` nor `IsWeaklyEqual` holds of what is left, and the `CODA_ASSERT` that
  one of them does stops the coordinator. No fault is needed but servers that
  missed updates and COP2s.

Observations that a configuration of this directory reproduces with TLC:

| configuration | property | what happens |
|---|---|---|
| VolumeResolver | `ResolverLeaves` | two resolvers are dispatched for a volume; the second enters when the first has finished and the volume is Reachable. `Resolve` tests for that ("check if someone else already resolved the volume", `vol_resolve.cc:82`), but the `Exit` it then calls CHOKEs, because it expects the state to be Resolving (`venusvol.cc:1330`) |
| VolumeSyncLeak | `ActiveUsers` | `TakeTransition` reintegrates inline in a synchronous volume; the nested `End_VFS` clears the thread's `u_vol`, so the outer one returns early and never calls `Exit` (`venusvol.cc:1410`, `vproc.cc:820`): the active user count stays up |
| CoherenceCold | `StatusCurrent` | a break that finds neither an object with status nor a volume callback is not counted in `cbbreaks` (`fso0.cc:1190`), contrary to the comment in `venuscb.cc:185`; if it overtakes the first `GetAttr` of the object, the old answer is believed |
| RVMFull | `StoreSpec` | `queue_tid` and `merge_tid` count only the ranges of a coalesced transaction (`rvm_trans.c:820`), not its header, end and wrap markers ("with overhead, including possible wrap & split", line 501); the log is filled completely, head = tail then means empty, and recovery drops flushed transactions |
| RVMSegment | `SegDefined` | `log_tid` writes the special records before it waits for space (`rvm_logflush.c:434`); a truncation during the wait starts an epoch whose segment definition is only queued (`rvm_logrecovr.c:2476`), and the transaction is logged into it without one. The run rvm_log reaches this too (configuration `vice("proc", 14, 2)`): the process ends in `noseg` with a flushed transaction that can no longer be recovered, and `StoreSpec`, which speaks of recoveries that end, is silent from there on |
| RVMPartition | `NoDamage` | `status_update` writes the status block without flushing a raw partition's write buffer first (`rvm_logrecovr.c:2424`; compare `rvm_logstatus.c:864`, "sync file buffers before status write"), so the block can name a tail behind records that are not on the disk |
| ReintTimeout | `CancelSafe` | `PartialReintegrate` calls `CancelPending` on ETIMEDOUT (`vol_reintegrate.cc:597`), when the server may have performed the store, though the routine is for failures whose "outcome is known" (`vol_cml.cc:163`); the store that replaced it is then refused |
| ReplicationLate | `CountedOnce` | `COP2Update` does not compare StoreIds and a forced vector leaves the COP pending entry in place: a late COP2 of u1 is counted for u2, and a later update that should be in conflict is dominated and overwritten (`codaproc.cc:2400`); `RS_ForceFile` leaves the pending flag set as well |

Properties that hold in the runs above and that TLC refutes under the constants
named here (for `Coherence`: `Files = {f, g}`,
two workers, no hoard daemon and `MaxUpdates` 1 unless said otherwise).

| property | constants | what happens |
|---|---|---|
| `StatusCurrent` | `env = {"fail", "reconnect"}` | the callback connection is lost and made again during a call; `GetAttr` compares `cbbreaks` only, not the connection (`venuscb.cc:179` says it should) |
| `StatusCurrent` | `env = {"slow", "vcb", "flush"}` | a host answers a break early and is granted a new volume callback, which the end of the break deletes (`vicecb.cc:440`) |
| `StatusCurrent` | `env = {"slow", "vcb"}`, `Hoarders = {w1}`, `MaxUpdates` 2 | the same without a flush |
| `StatusCurrent` | `env = {"overtake", "readers", "resize"}`, `MaxUpdates` 2 | `ReplaceStatus` grants status rights when the length changes, also for a suspect answer (`fso1.cc:823`) |
| `StatusCurrent` | `env = {"piggy", "readers", "resize"}`, `MaxUpdates` 2 | as before, the answer being suspect because a break came between `GetAttr` and the piggybacked validation |
| `StatusCurrent` | `env = {"overtake", "vcb"}` | a break of the volume overtakes the answer that grants its callback; as it finds none it is not counted, and the answer is believed (`venuscb.cc:218`) |
| `StatusCurrent` | `env = {"overtake", "piggy"}`, `Hoarders = {w1}`, `MaxUpdates` 2 | a validation kills an object, and then as in CoherenceCold |
| `StatusCurrent` | `env = {"fail", "vcb"}`, `Hoarders = {w1}` | the volume becomes Unreachable in `ValidateFSOs`, which then takes every object for valid (`vol_vcb.cc:527`) |
| `DataFresh` | `env = {"readers"}` | stale data of an open file are kept and get rights (`fso_cfscalls0.cc:1055`) |
| `FetchKeepsData` | `env = {"piggy", "flush"}` | a piggybacked validation discards the data another worker is fetching (`fso_cfscalls0.cc:896`) |
| `RuntOwned` | `env = {"fail", "flush"}` | an object whose first `GetAttr` failed stays without status, unlocked, and later calls wait for it (`fso0.cc:650`) |
| `Compatible` | `Uses = {{"READ", "WRITE", "SHARED"}}` | `excl_locker` still names a former writer, which then passes the test of `Lock_Obtain` beside a shared holder (`lock.c:78`) |
| `LockFairness` | `FairSpec`, 3 threads | the fast path of `ObtainWriteLock` overtakes a waiting writer for ever (`lock.c:251`) |

The properties of `Reint` name their exceptions. Each happens in the run reint, with
at most one fault:

| property | exception | how it comes about |
|---|---|---|
| `LogOK` | pc = "empty", after a refused call | create y, remove y during the call: EWOULDBLOCK lets `CancelPending` drop both records, the retry (`vol_reintegrate.cc:403`) sends an empty batch and does not look again whether the round has elements, and `CODA_ASSERT(count() > 0)` of `IncCommit` fails (`vol_cml.cc:2403`) |
| `LogOK`, `Drains` | pc = "choked", after a crash of Venus | a frozen store has lost its shadow copy, and without backfetch `WriteReintegrationHandle` CHOKEs (`vol_cml.cc:3008`) at every attempt |
| `NoLostUpdate`, `LogAgrees` | `CancelledInDoubt`: a call was given up, and stores go through a handle, or the server executes it late, refuses the retry or restarts | `CancelPending` follows ETIMEDOUT (ReintTimeout), EWOULDBLOCK (`vol_reintegrate.cc:403`) or the conflict a forgetful server reports, though the server has performed the records. A create and its remove are dropped and the file stays. Or EALREADY names a record that is no longer there, and `IncCommit` commits the whole round (`vol_cml.cc:2397`), a store that was never sent included |
| `LogAgrees`, `ConflictIsReal` | `Missed`: the cached version is not the one this client's record made | as before; or, in a replicated volume, chmod x, chown x with a lost reply: EALREADY commits the first of them, and `FinalCmlent` leaves the StoreId of the file as it was |
| `ConflictIsReal` | `Replaced` | store, chown, store keeps the first store for the chown, with a length its data no longer have (no fault needed) |
| `ConflictIsReal`, `NoTornData` | `exposed` | without backfetch, chmod x, store x: x is opened again during the call for the chmod, `CancelStores` (`vol_reintegrate.cc:111`) is not run again before the next round, and `MakeShadow` (`fso1.cc:2423`) copies the open file (no fault needed). Or a frozen store has lost its shadow copy, in a crash of Venus or because a late call outlived its record, and `CallBackFetch` copies the open file |

`ConflictIsReal` is stated for behaviours without restarts, and not for a loss and a
refusal together: a restarted server has forgotten what it has reintegrated and finds
its own versions in conflict; the other two can cancel a replaced store out of a batch
it has failed.

Seen while modelling, and outside what the models decide:

*Reintegration.* EALREADY from part of a replicated volume leaves those servers out
of the update set (`PartialReintegrate` does not initialise it); after a crash of Venus
a store id whose record was not flushed is used again; `CheckCOP1` masks ENOSPC and
EDQUOT by their host values.
*Resolution.* Hosts that are undominated but below the maximum get OMITSE, which
is reported as a conflict; a `Res_FetchFile` that fails marks the file
inconsistent; a COP2 takes no volume lock and can change a vector between
LockAndFetch and Force; after an error of `RS_ForceFile` the host that erred is not
marked; a resolution that outlasts its locks can fetch data newer than the
vector it forces. *RVM.* A transaction nearly as large as the log may wait for
space for ever; the status block is assumed to be written atomically.
*Others.* The early return of a reintegrator leaks a hold on its volume;
`NewConnectFS` tears a refused connection down without `DeleteVenus`, which costs
spurious breaks only; a callback can be added for a host that is cleaned up
during a bulk transfer.

## 7. What is not modelled

The map names 15,300 lines of 47 source files, 29% of the lines of those files and
some 6% of the whole tree (246,000 lines of C and C++). Most of Coda is therefore
outside the models; the parts below are the nearest ones.

* `VolumeState`: ASRs, non-replicated volumes, advice, and the contents of the log.
* `Coherence`: the client's own updates, directories and lookaside, several
  replicas per volume, and weakly connected operation. Timeouts, slow breaks and
  volume callbacks are not combined in one passing run, since together they
  refute `StatusCurrent` (section 6).
* `ViceCB`: the allocation of further blocks of entries when a free list is empty.
* `Replication`: directories and their log-based resolution, several files per
  volume, repair, the volume's own version vector, a reintegration that holds the
  volume lock while a resolution asks for it (a COP1 is one step), resource limits.
* `Reint`: directories, reallocated fids, records put back after a failed repair
  (OutOfOrder), ERETRY from several replicas, a Venus crash that loses unflushed
  transactions, truncation at open.
* `RVMLog`: unmapping, closing the log, several segments; the race of preemptive
  threads at an empty log; a wrap whose first part survives a power failure
  without its marker. In the passing run the Venus log never fills (section 6).
* Planned components (section 2): RPC2 and SFTP, resolution of directories, dual locks.
* Not planned. The LWP scheduler's stack switching, the tunnel, cryptography and
  authentication, partitions and inode storage: byte-level code or pure I/O.
  Volume utilities, update daemon, norton, repair tools: administrative commands.
  Directories, access lists and containers: sequential data structures that unit
  tests reach. The kernel interface: translation of messages.
