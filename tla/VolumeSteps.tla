---------------------------- MODULE VolumeSteps ----------------------------
(***************************************************************************)
(* Lemmas about the steps of VolumeState: the inductive invariant, what a   *)
(* step of a thread does to the other threads and to the counts, which      *)
(* steps leave the invariant's state alone, and the types.                  *)
(***************************************************************************)
EXTENDS VolumeState, TLAPS

\* Leaves that cite no prover need no arithmetic and are left to Zenon.
USE Zenon

-----------------------------------------------------------------------------
(* The inductive invariant.                                                *)

\* No reintegration runs inside a transition.
Async == ~SyncCalls /\ ~ReintLimitZero

CallPcs == {"stall", "slow", "rlock", "inside", "done", "await", "sync", "syncwait",
            "syncwoken"}
ResolvePcs == {"resolve", "next", "rpc", "release"}
ReintPcs == {"reint", "cmlock", "work", "relock", "reintend"}
OuterPcs == {"idle", "dispatched", "syncloop"} \cup CallPcs \cup ResolvePcs

\* The thread executes reintvol::Reintegrate, if it executes anything.
Reintegrates(t) == nest[t] # <<>> \/ t \in Reintegrators

\* Where a thread can be, given what it is and what it has been called for.
Shape(t) ==
  /\ mode[t] = "MUTATING" => t \in Users
  /\ mode[t] = "RESOLVING" <=> t \in Resolvers
  /\ op[t] \in {"sync", "synresolve"} => t \in Users
  /\ pc[t] \in OuterPcs => nest[t] = <<>>
  /\ pc[t] \in CallPcs => t \in Users \cup {Daemon}
  /\ pc[t] \in ResolvePcs => t \in Resolvers
  /\ pc[t] \in ReintPcs => Reintegrates(t)
  /\ pc[t] \in {"wlock", "ckpt"} => Reintegrates(t) \/ t \in Users \cup {Daemon}
  /\ pc[t] = "syncloop" => t \notin Reintegrators
  /\ pc[t] = "return" => nest[t] # <<>>
  /\ pc[t] = "rlock" => mode[t] = "MUTATING"
  /\ \A i \in 1 .. Len(nest[t]) :
       nest[t][i] # "exited" => i = Len(nest[t]) /\ t \notin Reintegrators

\* In an asynchronous volume nothing nests, and End_VFS knows the volume.
AsyncShape(t) ==
  /\ nest[t] = <<>> /\ op[t] # "sync"
  /\ pc[t] \notin {"sync", "syncwait", "syncwoken", "syncloop"}
  /\ t \in Users /\ pc[t] \notin {"idle", "await"} => u_vol[t]

ShapeInv ==
  /\ \A t \in Threads : Shape(t)
  /\ Async => ~sync_reintegrate /\ \A t \in Threads : AsyncShape(t)

\* A count covers the threads it counts, and in an asynchronous volume is exact.
Counts(c, S) == Cardinality(S) <= c /\ (Async => Cardinality(S) = c)

CountInv ==
  /\ Counts(mutator_count, In("MUTATING"))
  /\ Counts(observer_count, In("OBSERVING"))
  /\ Counts(resolver_count, In("RESOLVING"))
  /\ shrd_count = mutator_count + observer_count
  /\ excl_count = resolver_count

OwnerInv ==
  /\ \A t \in In("MUTATING") : UidOf[t] = owner
  /\ \A i \in DOMAIN cml : cml[i] = owner
  /\ owner # UNSET_UID <=> mutator_count > 0 \/ cml # <<>> \/ reintegrating

\* A resolver that found the volume not Resolving keeps the processor until it
\* has left.
ResInv ==
  /\ state = "Resolving" => In("MUTATING") = {} /\ In("OBSERVING") = {}
  /\ \A t \in In("RESOLVING") : \A u \in Threads : InVolume(u) => u = t
  /\ \A t \in In("RESOLVING") : state = "Resolving" \/ cpu = t
  /\ \A t \in Threads : pc[t] \in {"next", "rpc"} => state = "Resolving"

\* The thread works on the log, or is on its way to it.
Active(t) ==
  Reintegrates(t) /\ pc[t] \notin {"idle", "dispatched", "reint", "leave", "exited",
                                   "return", "exit"}

ReintInv ==
  /\ \A t, u \in Threads : Active(t) /\ Active(u) => t = u
  /\ \A t \in Threads : Active(t) => reintegrating
  /\ \A t \in Threads : pc[t] = "reint" =>
       cpu = t /\ ~reintegrating /\ cml # <<>> /\ owner # UNSET_UID

WaitInv ==
  /\ \A t \in Users : resblk[t] # NoFid => Queued(resblk[t]) \/ cur.fid = resblk[t]
  /\ cur.fid # NoFid => \E r \in Threads : pc[r] = "rpc"
  /\ \A r \in Threads : pc[r] = "rpc" => cur.fid \in Fids

\* The thread may change the log.
Writes(t) == pc[t] = "work" \/ (pc[t] = "inside" /\ mode[t] = "MUTATING")

LockInv ==
  /\ writer # NoThread => readers = {}
  /\ \A t \in Threads : Writes(t) => t \in readers

Reasons == {"Enter: mutating", "Exit: mutating", "Exit: observing", "ResetTransient"}

Inv == /\ TypeOK /\ ShapeInv /\ CountInv /\ OwnerInv /\ ResInv /\ ReintInv /\ WaitInv
       /\ LockInv /\ NoChoke

-----------------------------------------------------------------------------
(* What a step of thread t does to the other threads and to the counts.    *)

\* A thread that does not run may be woken up or dispatched.
PcMoved(u) ==
  \/ pc'[u] = pc[u]
  \/ pc[u] = "wait" /\ pc'[u] = "woken"
  \/ pc[u] = "idle" /\ pc'[u] = "dispatched" /\ u \in Resolvers \cup Reintegrators
  \/ pc[u] = "syncwait" /\ pc'[u] = "syncwoken"

SameCall(u) == nest'[u] = nest[u] /\ mode'[u] = mode[u] /\ op'[u] = op[u]

Others(t) ==
  \A u \in Threads \ {t} : PcMoved(u) /\ SameCall(u) /\ u_vol'[u] = u_vol[u]

\* t stays inside or outside the volume; End_VFS may forget to leave it in a
\* synchronous one.
Stays(t) ==
  /\ UNCHANGED countVars
  /\ InVolume(t)' => InVolume(t) /\ CurMode(t)' = CurMode(t)
  /\ Async /\ InVolume(t) => InVolume(t)'

Enters(t, m) ==
  /\ ~InVolume(t) /\ CurMode(t) = m /\ ~Blocked(t)
  /\ InVolume(t)' /\ CurMode(t)' = m
  /\ \/ /\ m = "MUTATING" /\ mutator_count' = mutator_count + 1
        /\ shrd_count' = shrd_count + 1
        /\ UNCHANGED <<observer_count, resolver_count, excl_count>>
     \/ /\ m = "OBSERVING" /\ observer_count' = observer_count + 1
        /\ shrd_count' = shrd_count + 1
        /\ UNCHANGED <<mutator_count, resolver_count, excl_count>>
     \/ /\ m = "RESOLVING" /\ resolver_count' = resolver_count + 1
        /\ excl_count' = excl_count + 1
        /\ UNCHANGED <<mutator_count, observer_count, shrd_count>>

Leaves(t, m) ==
  /\ InVolume(t) /\ CurMode(t) = m /\ ~InVolume(t)'
  /\ \/ /\ m = "MUTATING" /\ mutator_count' = mutator_count - 1
        /\ shrd_count' = shrd_count - 1
        /\ UNCHANGED <<observer_count, resolver_count, excl_count>>
     \/ /\ m = "OBSERVING" /\ observer_count' = observer_count - 1
        /\ shrd_count' = shrd_count - 1
        /\ UNCHANGED <<mutator_count, resolver_count, excl_count>>
     \/ /\ m = "RESOLVING" /\ resolver_count' = resolver_count - 1
        /\ excl_count' = excl_count - 1
        /\ UNCHANGED <<mutator_count, observer_count, shrd_count>>

\* What every step of t does.
Local(t) ==
  /\ Others(t) /\ Shape(t)'
  /\ Async => AsyncShape(t)' /\ ~sync_reintegrate'
  /\ Stays(t) \/ \E m \in Modes : Enters(t, m) \/ Leaves(t, m)

-----------------------------------------------------------------------------
(* Every step is local.                                                    *)

SyncPcs == {"sync", "syncwait", "syncwoken", "syncloop"}

\* The points of the code where any thread can be, nested or not.
FreePcs == {"demote", "transition", "admit", "wait", "woken", "exit", "leave", "exited"}

\* A step to a point where any thread can be keeps the shape.
LEMMA ShapeKept ==
  ASSUME NEW t \in Threads, Shape(t), SameCall(t), pc'[t] \in FreePcs
  PROVE  Shape(t)'
  <1>1. /\ pc'[t] \notin OuterPcs /\ pc'[t] \notin CallPcs /\ pc'[t] \notin ResolvePcs
        /\ pc'[t] \notin ReintPcs /\ pc'[t] \notin {"wlock", "ckpt"}
        /\ pc'[t] # "syncloop" /\ pc'[t] # "return" /\ pc'[t] # "rlock"
    BY DEF FreePcs, OuterPcs, CallPcs, ResolvePcs, ReintPcs
  <1> QED
    BY <1>1 DEF Shape, SameCall, Reintegrates

\* A step in the middle of a call that neither enters nor leaves the volume.
LEMMA QuietLocal ==
  ASSUME ShapeInv, NEW t \in Threads, Others(t), SameCall(t), u_vol[t] => u_vol'[t],
         UNCHANGED <<sync_reintegrate, countVars>>, pc[t] \notin {"idle", "await"},
         Async => pc'[t] \notin SyncPcs, Shape(t)', InVolume(t)' <=> InVolume(t)
  PROVE  Local(t)
  <1>1. Stays(t)
    BY DEF Stays, SameCall, CurMode, countVars
  <1>2. ASSUME Async
        PROVE  AsyncShape(t)' /\ ~sync_reintegrate'
    BY <1>2 DEF ShapeInv, AsyncShape, SameCall, SyncPcs
  <1> QED
    BY <1>1, <1>2 DEF Local

\* The end of a call.
LEMMA ReturnedEffect ==
  ASSUME TypeOK, NEW t \in Threads, Returned(t)
  PROVE  /\ \A u \in Threads \ {t} : mode'[u] = mode[u] /\ op'[u] = op[u]
         /\ pc'[t] # "idle" => mode'[t] = mode[t] /\ op'[t] = op[t]
         /\ pc'[t] = "idle" =>
              \/ t \in Resolvers /\ mode'[t] = mode[t] /\ op'[t] = op[t]
              \/ t \notin Resolvers /\ mode'[t] = "OBSERVING" /\ op'[t] = "none"
  BY DEF TypeOK, Returned

\* So does the end of a call or of a job.
LEMMA ShapeIdle ==
  ASSUME TypeOK, NEW t \in Threads, Shape(t), Returned(t), pc'[t] = "idle",
         nest[t] = <<>>, nest'[t] = <<>>
  PROVE  Shape(t)'
  <1>1. \/ t \in Resolvers /\ mode'[t] = mode[t] /\ op'[t] = op[t]
        \/ t \notin Resolvers /\ mode'[t] = "OBSERVING" /\ op'[t] = "none"
    BY ReturnedEffect
  <1>2. /\ pc'[t] \notin CallPcs /\ pc'[t] \notin ResolvePcs
        /\ pc'[t] \notin ReintPcs /\ pc'[t] \notin {"wlock", "ckpt"}
        /\ pc'[t] # "syncloop" /\ pc'[t] # "return" /\ pc'[t] # "rlock"
    BY DEF CallPcs, ResolvePcs, ReintPcs
  <1> QED
    BY <1>1, <1>2 DEF Shape

\* A step that ends a call, from outside the volume.
LEMMA IdleLocal ==
  ASSUME TypeOK, ShapeInv, NEW t \in Threads, Others(t), Returned(t),
         UNCHANGED <<sync_reintegrate, countVars>>, pc'[t] = "idle",
         nest[t] = <<>>, nest'[t] = <<>>, ~InVolume(t) \/ ~Async
  PROVE  Local(t)
  <1>1. Shape(t)'
    BY ShapeIdle DEF ShapeInv
  <1>2. ~InVolume(t)'
    BY DEF InVolume
  <1>3. Stays(t)
    BY <1>2 DEF Stays
  <1>4. ASSUME Async
        PROVE  AsyncShape(t)' /\ ~sync_reintegrate'
    <2>1. op'[t] = op[t] \/ op'[t] = "none"
      BY ReturnedEffect
    <2> QED
      BY <1>4, <2>1 DEF ShapeInv, AsyncShape
  <1> QED
    BY <1>1, <1>3, <1>4 DEF Local

\* What TakeTransition does to its caller and to the other threads.
LEMMA TransitionEffect ==
  ASSUME TypeOK, NEW t \in Threads, NEW ret, pc[t] # "idle", TakeTransition(t, ret)
  PROVE  /\ state' = NextState /\ transition_pending' = FALSE /\ cpu' = t
         /\ \A u \in Threads \ {t} : PcMoved(u) /\ nest'[u] = nest[u]
         /\ \/ pc'[t] = ret /\ nest'[t] = nest[t]
            \/ /\ pc'[t] = "reint" /\ nest'[t] = <<ret>> \o nest[t]
               /\ IsSync /\ Ready(TRUE)
  <1>0. pc \in [Threads -> Pcs] /\ nest \in [Threads -> Seq({"transition", "exited", "syncloop"})]
    BY DEF TypeOK
  <1>1. state' = NextState /\ transition_pending' = FALSE /\ cpu' = t
    BY DEF TakeTransition
  <1>2. ASSUME NEW r \in Idle(Resolvers),
               pc' = [pc EXCEPT ![t] = ret, ![r] = "dispatched"], UNCHANGED nest
        PROVE  /\ \A u \in Threads \ {t} : PcMoved(u) /\ nest'[u] = nest[u]
               /\ pc'[t] = ret /\ nest'[t] = nest[t]
    <2>1. r \in Threads /\ r \in Resolvers /\ pc[r] = "idle" /\ r # t
      BY <1>2 DEF Idle, Threads
    <2> QED
      BY <1>0, <1>2, <2>1 DEF PcMoved
  <1>3. ASSUME pc' = [Woken EXCEPT ![t] = ret], UNCHANGED nest
        PROVE  /\ \A u \in Threads \ {t} : PcMoved(u) /\ nest'[u] = nest[u]
               /\ pc'[t] = ret /\ nest'[t] = nest[t]
    BY <1>0, <1>3 DEF PcMoved, Woken
  <1>4. ASSUME nest' = [nest EXCEPT ![t] = <<ret>> \o @], pc' = [pc EXCEPT ![t] = "reint"]
        PROVE  /\ \A u \in Threads \ {t} : PcMoved(u) /\ nest'[u] = nest[u]
               /\ pc'[t] = "reint" /\ nest'[t] = <<ret>> \o nest[t]
    BY <1>0, <1>4 DEF PcMoved
  <1>5. ASSUME NEW r \in Idle(Reintegrators),
               pc' = [Woken EXCEPT ![t] = ret, ![r] = "dispatched"], UNCHANGED nest
        PROVE  /\ \A u \in Threads \ {t} : PcMoved(u) /\ nest'[u] = nest[u]
               /\ pc'[t] = ret /\ nest'[t] = nest[t]
    <2>1. r \in Threads /\ r \in Reintegrators /\ pc[r] = "idle" /\ r # t
      BY <1>5 DEF Idle, Threads
    <2> QED
      BY <1>0, <1>5, <2>1 DEF PcMoved, Woken
  <1> QED
    BY <1>1, <1>2, <1>3, <1>4, <1>5 DEF TakeTransition

\* Sequences of returns.
Returns == {"transition", "exited", "syncloop"}

\* Nothing is nested when the stack of returns has length 0.
LEMMA NoReturns ==
  ASSUME NEW s \in Seq(Returns), Len(s) = 0
  PROVE  s = <<>>
  BY SMTT(60)

\* The top of the stack of returns, and what is below it.
LEMMA Pop ==
  ASSUME NEW s \in Seq(Returns), s # <<>>
  PROVE  /\ Head(s) = s[1] /\ Head(s) \in Returns /\ 1 \in 1 .. Len(s)
         /\ Tail(s) \in Seq(Returns) /\ Len(Tail(s)) = Len(s) - 1
         /\ Len(s) = 1 => Tail(s) = <<>>
         /\ \A i \in 1 .. Len(s) - 1 : i + 1 \in 1 .. Len(s) /\ Tail(s)[i] = s[i + 1]
  <1>1. Len(s) \in Nat /\ Len(s) > 0
    BY SMTT(60)
  <1>2. Head(s) = s[1] /\ Head(s) \in Returns /\ 1 \in 1 .. Len(s)
    BY SMTT(60), <1>1
  <1>3. Tail(s) \in Seq(Returns) /\ Len(Tail(s)) = Len(s) - 1
    BY SMTT(60), <1>1
  <1>4. ASSUME Len(s) = 1
        PROVE  Tail(s) = <<>>
    <2>1. Len(Tail(s)) = 0
      BY SMTT(60), <1>3, <1>4
    <2> QED
      BY <1>3, <2>1, NoReturns
  <1>5. \A i \in 1 .. Len(s) - 1 : i + 1 \in 1 .. Len(s) /\ Tail(s)[i] = s[i + 1]
    BY SMTT(60), <1>1
  <1> QED
    BY <1>2, <1>3, <1>4, <1>5

\* TakeTransition starts a synchronous reintegration: only Exited may be
\* nested in a nested call.
LEMMA PushShape ==
  ASSUME TypeOK, NEW t \in Threads, Shape(t), NEW ret \in Returns, pc'[t] = "reint",
         nest'[t] = <<ret>> \o nest[t], mode'[t] = mode[t], op'[t] = op[t],
         ret # "exited" => nest[t] = <<>> /\ t \notin Reintegrators
  PROVE  Shape(t)'
  <1>0. nest[t] \in Seq(Returns)
    BY DEF TypeOK, Returns
  <1>1. nest'[t] # <<>>
    BY SMTT(60), <1>0
  <1>2. /\ pc'[t] \notin OuterPcs /\ pc'[t] \notin CallPcs /\ pc'[t] \notin ResolvePcs
        /\ pc'[t] \notin {"wlock", "ckpt"}
        /\ pc'[t] # "syncloop" /\ pc'[t] # "rlock"
    BY DEF OuterPcs, CallPcs, ResolvePcs
  <1>3. ASSUME NEW i \in 1 .. Len(nest'[t]), nest'[t][i] # "exited"
        PROVE  i = Len(nest'[t]) /\ t \notin Reintegrators
    <2>1. CASE ret # "exited"
      <3>1. Len(nest[t]) = 0 /\ Len(nest'[t]) = Len(nest[t]) + 1
        BY SMTT(60), <1>0, <2>1
      <3> QED
        BY SMTT(60), <1>3, <2>1, <3>1
    <2>2. CASE ret = "exited"
      <3>1. i # 1 /\ Len(nest'[t]) = Len(nest[t]) + 1
        BY SMTT(60), <1>0, <1>3, <2>2
      <3>2. i - 1 \in 1 .. Len(nest[t]) /\ nest'[t][i] = nest[t][i - 1]
        BY SMTT(60), <1>0, <1>3, <3>1
      <3>3. i - 1 = Len(nest[t]) /\ t \notin Reintegrators
        BY <1>3, <3>2 DEF Shape
      <3>4. i \in Int /\ Len(nest[t]) \in Nat
        BY SMTT(60), <1>0, <1>3, <3>1
      <3> QED
        BY SMTT(60), <3>1, <3>3, <3>4
    <2> QED
      BY <2>1, <2>2
  <1> QED
    BY <1>1, <1>2, <1>3 DEF Shape, Reintegrates

\* The synchronous reintegration is over, and TakeTransition returns.
LEMMA PopShape ==
  ASSUME TypeOK, NEW t \in Threads, Shape(t), nest[t] # <<>>, pc'[t] = Head(nest[t]),
         nest'[t] = Tail(nest[t]), mode'[t] = mode[t], op'[t] = op[t]
  PROVE  /\ Shape(t)' /\ pc'[t] \in Returns
         /\ pc'[t] # "exited" => nest'[t] = <<>> /\ t \notin Reintegrators
  <1>0. nest[t] \in Seq(Returns)
    BY DEF TypeOK, Returns
  <1>1. /\ pc'[t] = nest[t][1] /\ pc'[t] \in Returns /\ 1 \in 1 .. Len(nest[t])
        /\ Len(nest'[t]) = Len(nest[t]) - 1
        /\ Len(nest[t]) = 1 => nest'[t] = <<>>
        /\ \A i \in 1 .. Len(nest[t]) - 1 :
             i + 1 \in 1 .. Len(nest[t]) /\ nest'[t][i] = nest[t][i + 1]
    BY <1>0, Pop
  <1>2. pc'[t] # "exited" => nest'[t] = <<>> /\ t \notin Reintegrators
    BY <1>1 DEF Shape
  <1>3. ASSUME NEW i \in 1 .. Len(nest'[t]), nest'[t][i] # "exited"
        PROVE  i = Len(nest'[t]) /\ t \notin Reintegrators
    <2>1. i + 1 = Len(nest[t]) /\ t \notin Reintegrators
      BY <1>1, <1>3 DEF Shape
    <2>2. i \in Int /\ Len(nest[t]) \in Nat
      BY SMTT(60), <1>0, <1>3
    <2> QED
      BY SMTT(60), <1>1, <2>1, <2>2
  <1>4. /\ pc'[t] \notin CallPcs /\ pc'[t] \notin ResolvePcs /\ pc'[t] \notin ReintPcs
        /\ pc'[t] \notin {"wlock", "ckpt"} /\ pc'[t] # "return" /\ pc'[t] # "rlock"
        /\ pc'[t] \in OuterPcs => pc'[t] # "exited"
    BY <1>1 DEF Returns, OuterPcs, CallPcs, ResolvePcs, ReintPcs
  <1> QED
    BY <1>1, <1>2, <1>3, <1>4 DEF Shape

\* The start of a VFS call or of a SyncCache.
LEMMA CallLocal ==
  ASSUME TypeOK, ShapeInv, NEW t \in Users, Call(t)
  PROVE  Local(t)
  <1>0. t \in Threads /\ t \notin Resolvers /\ t \notin Reintegrators
    BY ThreadAssumption DEF Threads
  <1>1. ASSUME NEW m \in {"MUTATING", "OBSERVING"}, BeginVFS(t, m)
        PROVE  Local(t)
    <2>1. /\ pc[t] = "idle" /\ pc'[t] \in {"demote", "stall", "slow"}
          /\ nest'[t] = nest[t] /\ mode'[t] = m /\ op'[t] = "vfs" /\ u_vol'[t] = TRUE
      BY <1>0, <1>1 DEF BeginVFS, At, TypeOK, Zone
    <2>2. Others(t) /\ UNCHANGED <<sync_reintegrate, countVars>>
      BY <1>0, <1>1 DEF BeginVFS, TypeOK, Others, PcMoved, SameCall, logVars
    <2>3. nest[t] = <<>>
      BY <1>0, <2>1 DEF ShapeInv, Shape, OuterPcs
    <2>4. Shape(t)'
      <3>1. /\ pc'[t] \notin ResolvePcs
            /\ pc'[t] \notin ReintPcs /\ pc'[t] \notin {"wlock", "ckpt"}
            /\ pc'[t] # "syncloop" /\ pc'[t] # "return" /\ pc'[t] # "rlock"
        BY <2>1 DEF ResolvePcs, ReintPcs
      <3>2. Shape(t)
        BY <1>0 DEF ShapeInv
      <3> QED
        BY <1>0, <2>1, <2>3, <3>1, <3>2 DEF Shape
    <2>5. ~InVolume(t)'
      BY <2>1 DEF InVolume
    <2>6. ~InVolume(t)
      BY <2>1 DEF InVolume
    <2>7. ASSUME Async
          PROVE  AsyncShape(t)' /\ ~sync_reintegrate'
      BY <1>0, <2>1, <2>2, <2>3, <2>7 DEF ShapeInv, AsyncShape
    <2> QED
      BY <2>2, <2>4, <2>5, <2>6, <2>7 DEF Local, Stays
  <1>2. CASE BeginSync(t)
    <2>1. /\ pc[t] = "idle" /\ pc'[t] = "demote" /\ ~Async
          /\ nest'[t] = nest[t] /\ mode'[t] = "OBSERVING" /\ op'[t] = "sync"
      BY <1>0, <1>2 DEF BeginSync, At, TypeOK, Async
    <2>2. Others(t) /\ UNCHANGED <<sync_reintegrate, countVars>>
      BY <1>0, <1>2 DEF BeginSync, TypeOK, Others, PcMoved, SameCall, logVars
    <2>4. Shape(t)'
      <3>1. /\ pc'[t] \notin OuterPcs /\ pc'[t] \notin CallPcs /\ pc'[t] \notin ResolvePcs
            /\ pc'[t] \notin ReintPcs /\ pc'[t] \notin {"wlock", "ckpt"}
            /\ pc'[t] # "syncloop" /\ pc'[t] # "return" /\ pc'[t] # "rlock"
        BY <2>1 DEF OuterPcs, CallPcs, ResolvePcs, ReintPcs
      <3>2. Shape(t)
        BY <1>0 DEF ShapeInv
      <3> QED
        BY <1>0, <2>1, <3>1, <3>2 DEF Shape
    <2>5. ~InVolume(t)'
      BY <2>1 DEF InVolume
    <2> QED
      BY <2>1, <2>2, <2>4, <2>5 DEF Local, Stays
  <1> QED
    BY <1>1, <1>2 DEF Call

\* The start of a visit of the volume daemon.
LEMMA VisitLocal ==
  ASSUME TypeOK, ShapeInv, Visit
  PROVE  Local(Daemon)
  <1>0. Daemon \in Threads /\ Daemon \notin Users /\ Daemon \notin Resolvers
    BY ThreadAssumption DEF Threads
  <1>1. PICK o \in DaemonOps : DaemonVisit(o)
    BY DEF Visit
  <1>2. /\ pc[Daemon] = "idle" /\ pc'[Daemon] = "demote" /\ op'[Daemon] = o
        /\ nest'[Daemon] = nest[Daemon] /\ mode'[Daemon] = mode[Daemon]
    BY <1>0, <1>1 DEF DaemonVisit, At, TypeOK
  <1>3. Others(Daemon) /\ UNCHANGED <<sync_reintegrate, countVars>>
    BY <1>0, <1>1 DEF DaemonVisit, TypeOK, Others, PcMoved, SameCall, logVars
  <1>4. o \notin {"sync", "synresolve"}
    BY BoundAssumption
  <1>5. Shape(Daemon)'
    <2>1. /\ pc'[Daemon] \notin OuterPcs /\ pc'[Daemon] \notin CallPcs
          /\ pc'[Daemon] \notin ResolvePcs
          /\ pc'[Daemon] \notin ReintPcs /\ pc'[Daemon] \notin {"wlock", "ckpt"}
          /\ pc'[Daemon] # "syncloop" /\ pc'[Daemon] # "return" /\ pc'[Daemon] # "rlock"
      BY <1>2 DEF OuterPcs, CallPcs, ResolvePcs, ReintPcs
    <2>2. Shape(Daemon)
      BY <1>0 DEF ShapeInv
    <2> QED
      BY <1>2, <1>4, <2>1, <2>2 DEF Shape
  <1>6. ~InVolume(Daemon)'
    BY <1>2 DEF InVolume
  <1>7. ~InVolume(Daemon)
    BY <1>2 DEF InVolume
  <1>8. ASSUME Async
        PROVE  AsyncShape(Daemon)' /\ ~sync_reintegrate'
    BY <1>0, <1>2, <1>3, <1>4, <1>8 DEF ShapeInv, AsyncShape
  <1> QED
    BY <1>3, <1>5, <1>6, <1>7, <1>8 DEF Local, Stays

\* Begin_VFS, and the start of the resolvers and reintegrators.
LEMMA StartLocal ==
  ASSUME TypeOK, ShapeInv, NEW t \in Threads,
         WaitForReintegration(t) \/ Dispatched(t) \/ StartReintegrate(t)
  PROVE  Local(t)
  <1>0. Shape(t)
    BY DEF ShapeInv
  <1>1. CASE WaitForReintegration(t)
    <2>1. /\ pc[t] \in {"stall", "slow"} /\ pc'[t] \in {"demote", "stall", "slow"}
          /\ SameCall(t) /\ u_vol'[t] = u_vol[t] /\ Others(t)
          /\ UNCHANGED <<sync_reintegrate, countVars>>
      BY <1>1 DEF WaitForReintegration, At, TypeOK, Zone, Others, PcMoved, SameCall, logVars,
                  callVars
    <2>2. nest[t] = <<>> /\ t \in Users \cup {Daemon}
      BY <1>0, <2>1 DEF Shape, OuterPcs, CallPcs
    <2>3. Shape(t)'
      <3>1. /\ pc'[t] \notin ResolvePcs
            /\ pc'[t] \notin ReintPcs /\ pc'[t] \notin {"wlock", "ckpt"}
            /\ pc'[t] # "syncloop" /\ pc'[t] # "return" /\ pc'[t] # "rlock"
        BY <2>1 DEF ResolvePcs, ReintPcs
      <3> QED
        BY <1>0, <2>1, <2>2, <3>1 DEF Shape, SameCall
    <2>4. (InVolume(t)' <=> InVolume(t)) /\ pc'[t] \notin SyncPcs /\ pc[t] \notin {"idle", "await"}
      BY <2>1 DEF InVolume, SyncPcs
    <2> QED
      BY <2>1, <2>3, <2>4, QuietLocal
  <1>2. CASE Dispatched(t)
    <2>1. /\ pc[t] = "dispatched" /\ pc'[t] \in {"demote", "reint", "idle"}
          /\ pc'[t] = "reint" => t \in Reintegrators
          /\ SameCall(t) /\ u_vol'[t] = u_vol[t] /\ Others(t)
          /\ UNCHANGED <<sync_reintegrate, countVars>>
      BY <1>2 DEF Dispatched, At, TypeOK, Others, PcMoved, SameCall, logVars, callVars
    <2>2. nest[t] = <<>>
      BY <1>0, <2>1 DEF Shape, OuterPcs
    <2>3. Shape(t)'
      <3>1. /\ pc'[t] \notin CallPcs /\ pc'[t] \notin ResolvePcs
            /\ pc'[t] \in ReintPcs => pc'[t] = "reint" /\ pc'[t] \notin {"wlock", "ckpt"}
            /\ pc'[t] # "syncloop" /\ pc'[t] # "return" /\ pc'[t] # "rlock"
            /\ pc'[t] # "wlock" /\ pc'[t] # "ckpt"
        BY <2>1 DEF CallPcs, ResolvePcs, ReintPcs
      <3> QED
        BY <1>0, <2>1, <2>2, <3>1 DEF Shape, SameCall, Reintegrates
    <2>4. (InVolume(t)' <=> InVolume(t)) /\ pc'[t] \notin SyncPcs /\ pc[t] \notin {"idle", "await"}
      BY <2>1 DEF InVolume, SyncPcs
    <2> QED
      BY <2>1, <2>3, <2>4, QuietLocal
  <1>3. CASE StartReintegrate(t)
    <2>1. /\ pc[t] = "reint" /\ pc'[t] = "demote"
          /\ SameCall(t) /\ u_vol'[t] = TRUE /\ Others(t)
          /\ UNCHANGED <<sync_reintegrate, countVars>>
      BY <1>3 DEF StartReintegrate, At, TypeOK, Others, PcMoved, SameCall
    <2>2. Shape(t)'
      BY <1>0, <2>1, ShapeKept DEF FreePcs
    <2>3. (InVolume(t)' <=> InVolume(t)) /\ pc'[t] \notin SyncPcs /\ pc[t] \notin {"idle", "await"}
      BY <2>1 DEF InVolume, SyncPcs
    <2> QED
      BY <2>1, <2>2, <2>3, QuietLocal
  <1> QED
    BY <1>1, <1>2, <1>3

\* The actions that call TakeTransition.  A thread that reintegrates does not
\* start another reintegration before the first is over.
LEMMA TransitionLocal ==
  ASSUME TypeOK, ShapeInv, ReintInv, NEW t \in Threads,
         EnterTransition(t) \/ ExitTransition(t) \/ SyncTransition(t)
  PROVE  Local(t)
  <1>0. Shape(t)
    BY DEF ShapeInv
  <1>1. PICK ret \in Returns : /\ TakeTransition(t, ret)
                            /\ \/ pc[t] = "transition" /\ ret = "transition"
                               \/ pc[t] = "leave" /\ ret = "exited"
                               \/ pc[t] = "syncloop" /\ ret = "syncloop"
    BY DEF EnterTransition, ExitTransition, SyncTransition, At, Returns
  <1>2. UNCHANGED <<countVars, sync_reintegrate, mode, op, u_vol, reintegrating>>
    BY DEF EnterTransition, ExitTransition, SyncTransition, logVars
  <1>3. /\ \A u \in Threads \ {t} : PcMoved(u) /\ nest'[u] = nest[u]
        /\ \/ pc'[t] = ret /\ nest'[t] = nest[t]
           \/ /\ pc'[t] = "reint" /\ nest'[t] = <<ret>> \o nest[t]
              /\ IsSync /\ Ready(TRUE)
    BY <1>1, TransitionEffect
  <1>4. Others(t)
    BY <1>2, <1>3 DEF Others, SameCall
  <1>5. CASE pc'[t] = ret /\ nest'[t] = nest[t]
    <2>1. SameCall(t)
      BY <1>2, <1>5 DEF SameCall
    <2>2. Shape(t)'
      <3>1. CASE ret = "syncloop"
        <4>1. pc[t] = "syncloop" /\ pc'[t] = "syncloop"
          BY <1>1, <1>5, <3>1
        <4> QED
          BY <1>0, <2>1, <4>1 DEF Shape, SameCall, Reintegrates
      <3>2. CASE ret # "syncloop"
        BY <1>0, <1>1, <1>5, <2>1, <3>2, ShapeKept DEF FreePcs
      <3> QED
        BY <3>1, <3>2
    <2>3. (InVolume(t)' <=> InVolume(t)) /\ pc[t] \notin {"idle", "await"}
      BY <1>1, <1>5 DEF InVolume
    <2>4. Async => pc'[t] \notin SyncPcs
      BY <1>1, <1>5 DEF SyncPcs, ShapeInv, AsyncShape
    <2> QED
      BY <1>2, <1>4, <2>1, <2>2, <2>3, <2>4, QuietLocal
  <1>6. CASE pc'[t] = "reint" /\ nest'[t] = <<ret>> \o nest[t] /\ IsSync /\ Ready(TRUE)
    <2>1. ~Async
      BY <1>6 DEF IsSync, Async, ShapeInv
    <2>2. ret # "exited" => nest[t] = <<>> /\ t \notin Reintegrators
      <3>1. CASE pc[t] = "syncloop"
        BY <1>0, <3>1 DEF Shape, OuterPcs
      <3>2. CASE pc[t] = "transition"
        <4>1. ~reintegrating
          BY <1>6 DEF Ready
        <4> QED
          BY <3>2, <4>1 DEF ReintInv, Active, Reintegrates
      <3> QED
        BY <1>1, <3>1, <3>2
    <2>3. Shape(t)'
      BY <1>0, <1>2, <1>6, <2>2, PushShape
    <2>4. ~InVolume(t)'
      BY <1>6 DEF InVolume
    <2> QED
      BY <1>2, <1>4, <2>1, <2>3, <2>4 DEF Local, Stays
  <1> QED
    BY <1>3, <1>5, <1>6

\* volent::Enter, apart from its transitions.
LEMMA EnterLocal ==
  ASSUME TypeOK, ShapeInv, NEW t \in Threads,
         \/ EnterDemote(t) \/ EnterCallBack(t) \/ EnterWait(t) \/ EnterWoken(t)
         \/ EnterMutating(t) \/ EnterObserving(t) \/ EnterResolving(t)
  PROVE  Local(t)
  <1>0. Shape(t)
    BY DEF ShapeInv
  <1>1. CASE EnterDemote(t) \/ EnterCallBack(t)
    <2>1. /\ pc[t] \in {"demote", "transition"} /\ pc'[t] \in {"transition", "admit"}
          /\ SameCall(t) /\ u_vol'[t] = u_vol[t] /\ Others(t)
          /\ UNCHANGED <<sync_reintegrate, countVars>>
      BY <1>1 DEF EnterDemote, EnterCallBack, At, TypeOK, Others, PcMoved, SameCall, logVars,
                  callVars
    <2>2. Shape(t)'
      BY <1>0, <2>1, ShapeKept DEF FreePcs
    <2>3. (InVolume(t)' <=> InVolume(t)) /\ pc'[t] \notin SyncPcs /\ pc[t] \notin {"idle", "await"}
      BY <2>1 DEF InVolume, SyncPcs
    <2> QED
      BY <2>1, <2>2, <2>3, QuietLocal
  <1>2. CASE EnterWait(t)
    <2>1. /\ pc[t] = "admit" /\ Returned(t) /\ nest' = nest /\ u_vol' = u_vol
          /\ UNCHANGED <<sync_reintegrate, countVars>>
          /\ \/ pc'[t] = "idle" /\ nest[t] = <<>>
             \/ pc'[t] = "wait"
          /\ \A u \in Threads \ {t} : pc'[u] = pc[u]
      BY <1>2 DEF EnterWait, At, TypeOK, logVars
    <2>2. Others(t)
      BY <2>1, ReturnedEffect DEF Others, PcMoved, SameCall
    <2>3. CASE pc'[t] = "idle" /\ nest[t] = <<>>
      <3>1. ~InVolume(t)
        BY <2>1 DEF InVolume
      <3> QED
        BY <2>1, <2>2, <2>3, <3>1, IdleLocal
    <2>4. CASE pc'[t] = "wait"
      <3>1. SameCall(t)
        BY <2>1, <2>4, ReturnedEffect DEF SameCall
      <3>2. Shape(t)'
        BY <1>0, <2>4, <3>1, ShapeKept DEF FreePcs
      <3>3. /\ InVolume(t)' <=> InVolume(t)
            /\ pc'[t] \notin SyncPcs /\ pc[t] \notin {"idle", "await"}
        BY <2>1, <2>4 DEF InVolume, SyncPcs
      <3> QED
        BY <2>1, <2>2, <3>1, <3>2, <3>3, QuietLocal
    <2> QED
      BY <2>1, <2>3, <2>4
  <1>3. CASE EnterWoken(t)
    <2>1. /\ pc[t] = "woken" /\ Returned(t) /\ nest' = nest
          /\ UNCHANGED <<sync_reintegrate, countVars>>
          /\ \/ pc'[t] = "idle" /\ nest[t] = <<>>
             \/ pc'[t] \in {"admit", "woken"} /\ u_vol' = u_vol
          /\ \A u \in Threads \ {t} : pc'[u] = pc[u] /\ u_vol'[u] = u_vol[u]
      BY <1>3 DEF EnterWoken, At, TypeOK, logVars
    <2>2. Others(t)
      BY <2>1, ReturnedEffect DEF Others, PcMoved, SameCall
    <2>3. CASE pc'[t] = "idle" /\ nest[t] = <<>>
      <3>1. ~InVolume(t)
        BY <2>1 DEF InVolume
      <3> QED
        BY <2>1, <2>2, <2>3, <3>1, IdleLocal
    <2>4. CASE pc'[t] \in {"admit", "woken"} /\ u_vol' = u_vol
      <3>1. SameCall(t)
        BY <2>1, <2>4, ReturnedEffect DEF SameCall
      <3>2. Shape(t)'
        BY <1>0, <2>4, <3>1, ShapeKept DEF FreePcs
      <3>3. /\ InVolume(t)' <=> InVolume(t)
            /\ pc'[t] \notin SyncPcs /\ pc[t] \notin {"idle", "await"}
        BY <2>1, <2>4 DEF InVolume, SyncPcs
      <3> QED
        BY <2>1, <2>2, <2>4, <3>1, <3>2, <3>3, QuietLocal
    <2> QED
      BY <2>1, <2>3, <2>4
  <1>4. CASE EnterMutating(t)
    <2>1. /\ pc[t] = "admit" /\ CurMode(t) = "MUTATING" /\ ~Blocked(t)
          /\ SameCall(t) /\ u_vol'[t] = u_vol[t]
          /\ UNCHANGED <<sync_reintegrate, observer_count, resolver_count, excl_count>>
      BY <1>4 DEF EnterMutating, At, SameCall, callVars
    <2>2. nest[t] = <<>> /\ mode[t] = "MUTATING" /\ t \in Users
      BY <1>0, <2>1 DEF CurMode, Shape
    <2>3. t \notin Resolvers /\ t \notin Reintegrators /\ Entered(t) = "inside"
      BY <2>2, ThreadAssumption DEF Entered
    <2>4. \/ UNCHANGED <<mutator_count, shrd_count, pc>>
          \/ /\ mutator_count' = mutator_count + 1 /\ shrd_count' = shrd_count + 1
             /\ pc' = [pc EXCEPT ![t] = IF CanRead THEN Entered(t) ELSE "rlock"]
      BY <1>4 DEF EnterMutating
    <2>5. \A u \in Threads \ {t} : pc'[u] = pc[u]
      BY <2>4 DEF TypeOK
    <2>6. Others(t)
      BY <1>4, <2>5 DEF EnterMutating, callVars, Others, PcMoved, SameCall
    <2>7. CASE UNCHANGED <<mutator_count, shrd_count, pc>>
      <3>1. Shape(t)'
        BY <1>0, <2>1, <2>7, ShapeKept DEF FreePcs
      <3>2. /\ InVolume(t)' <=> InVolume(t)
            /\ pc'[t] \notin SyncPcs /\ pc[t] \notin {"idle", "await"}
        BY <2>1, <2>7 DEF InVolume, SyncPcs
      <3>3. UNCHANGED countVars
        BY <2>1, <2>7 DEF countVars
      <3> QED
        BY <2>1, <2>6, <3>1, <3>2, <3>3, QuietLocal
    <2>8. CASE /\ mutator_count' = mutator_count + 1 /\ shrd_count' = shrd_count + 1
               /\ pc' = [pc EXCEPT ![t] = IF CanRead THEN Entered(t) ELSE "rlock"]
      <3>1. pc'[t] \in {"inside", "rlock"}
        BY <2>3, <2>8 DEF TypeOK
      <3>2. Shape(t)'
        <4>1. /\ pc'[t] \notin ResolvePcs
              /\ pc'[t] \notin ReintPcs /\ pc'[t] \notin {"wlock", "ckpt"}
              /\ pc'[t] # "syncloop" /\ pc'[t] # "return"
          BY <3>1 DEF ResolvePcs, ReintPcs
        <4> QED
          BY <1>0, <2>1, <2>2, <4>1 DEF Shape, SameCall
      <3>3. /\ ~InVolume(t) /\ InVolume(t)' /\ CurMode(t)' = "MUTATING"
        BY <2>1, <2>2, <3>1 DEF InVolume, CurMode, SameCall
      <3>4. Enters(t, "MUTATING")
        BY <2>1, <2>8, <3>3 DEF Enters
      <3>5. ASSUME Async
            PROVE  AsyncShape(t)' /\ ~sync_reintegrate'
        BY <2>1, <3>1, <3>5 DEF ShapeInv, AsyncShape, SameCall
      <3> QED
        BY <2>6, <3>2, <3>4, <3>5 DEF Local, Modes
    <2> QED
      BY <2>4, <2>7, <2>8
  <1>5. CASE EnterObserving(t)
    <2>1. /\ pc[t] = "admit" /\ CurMode(t) = "OBSERVING" /\ ~Blocked(t)
          /\ SameCall(t) /\ u_vol'[t] = u_vol[t] /\ Others(t) /\ pc'[t] = Entered(t)
          /\ UNCHANGED <<sync_reintegrate, mutator_count, resolver_count, excl_count>>
          /\ observer_count' = observer_count + 1 /\ shrd_count' = shrd_count + 1
      BY <1>5 DEF EnterObserving, At, SameCall, callVars, TypeOK, Others, PcMoved, logVars
    <2>2. \/ Reintegrates(t) /\ pc'[t] = "cmlock"
          \/ nest[t] = <<>> /\ t \in Users \cup {Daemon} /\ pc'[t] = "inside"
      BY <1>0, <2>1 DEF Shape, CurMode, Entered, Reintegrates, Threads
    <2>3. Shape(t)'
      <3>1. /\ pc'[t] \notin ResolvePcs /\ pc'[t] \notin {"wlock", "ckpt"}
            /\ pc'[t] # "syncloop" /\ pc'[t] # "return" /\ pc'[t] # "rlock"
            /\ pc'[t] \in ReintPcs => pc'[t] # "inside"
            /\ pc'[t] \in OuterPcs => pc'[t] # "cmlock"
            /\ pc'[t] \in CallPcs => pc'[t] # "cmlock"
        BY <2>2 DEF OuterPcs, CallPcs, ResolvePcs, ReintPcs
      <3> QED
        BY <1>0, <2>1, <2>2, <3>1 DEF Shape, SameCall, Reintegrates
    <2>4. /\ ~InVolume(t) /\ InVolume(t)' /\ CurMode(t)' = "OBSERVING"
      BY <2>1, <2>2 DEF InVolume, CurMode, SameCall
    <2>5. Enters(t, "OBSERVING")
      BY <2>1, <2>4 DEF Enters
    <2>6. ASSUME Async
          PROVE  AsyncShape(t)' /\ ~sync_reintegrate'
      BY <2>1, <2>2, <2>6 DEF ShapeInv, AsyncShape, SameCall
    <2> QED
      BY <2>1, <2>3, <2>5, <2>6 DEF Local, Modes
  <1>6. CASE EnterResolving(t)
    <2>1. /\ pc[t] = "admit" /\ CurMode(t) = "RESOLVING" /\ ~Blocked(t)
          /\ SameCall(t) /\ u_vol'[t] = u_vol[t] /\ Others(t) /\ pc'[t] = Entered(t)
          /\ UNCHANGED <<sync_reintegrate, mutator_count, observer_count, shrd_count>>
          /\ resolver_count' = resolver_count + 1 /\ excl_count' = excl_count + 1
      BY <1>6 DEF EnterResolving, At, SameCall, callVars, TypeOK, Others, PcMoved, logVars
    <2>2. nest[t] = <<>> /\ t \in Resolvers /\ pc'[t] = "resolve"
      BY <1>0, <2>1, ThreadAssumption DEF Shape, CurMode, Entered
    <2>3. Shape(t)'
      <3>1. /\ pc'[t] \notin CallPcs /\ pc'[t] \notin {"wlock", "ckpt"}
            /\ pc'[t] # "syncloop" /\ pc'[t] # "return" /\ pc'[t] # "rlock"
            /\ pc'[t] \notin ReintPcs
        BY <2>2 DEF CallPcs, ReintPcs
      <3> QED
        BY <1>0, <2>1, <2>2, <3>1 DEF Shape, SameCall
    <2>4. /\ ~InVolume(t) /\ InVolume(t)' /\ CurMode(t)' = "RESOLVING"
      BY <2>1, <2>2 DEF InVolume, CurMode, SameCall
    <2>5. Enters(t, "RESOLVING")
      BY <2>1, <2>4 DEF Enters
    <2>6. ASSUME Async
          PROVE  AsyncShape(t)' /\ ~sync_reintegrate'
      BY <2>1, <2>2, <2>6 DEF ShapeInv, AsyncShape, SameCall
    <2> QED
      BY <2>1, <2>3, <2>5, <2>6 DEF Local, Modes
  <1> QED
    BY <1>1, <1>2, <1>3, <1>4, <1>5, <1>6

\* CML_lock, and what a thread does in the volume.
LEMMA InsideLocal ==
  ASSUME TypeOK, ShapeInv, NEW t \in Threads,
         \/ LockGranted(t) \/ Mutate(t) \/ PurgeMLEs(t) \/ (\E f \in Fids : ResSubmit(t, f))
         \/ CheckPoint(t) \/ CheckPointed(t) \/ Observe(t)
  PROVE  Local(t)
  <1>0. Shape(t)
    BY DEF ShapeInv
  <1>1. CASE LockGranted(t)
    <2>1. /\ SameCall(t) /\ u_vol'[t] = u_vol[t] /\ Others(t)
          /\ UNCHANGED <<sync_reintegrate, countVars>>
          /\ \/ pc[t] = "rlock" /\ pc'[t] = Entered(t)
             \/ pc[t] = "cmlock" /\ pc'[t] = "work"
             \/ pc[t] = "relock" /\ pc'[t] = "reintend"
             \/ pc[t] = "wlock" /\ pc'[t] = "ckpt"
      BY <1>1 DEF LockGranted, At, TypeOK, Others, PcMoved, SameCall, callVars
    <2>2. CASE pc[t] = "rlock" /\ pc'[t] = Entered(t)
      <3>1. nest[t] = <<>> /\ t \in Users /\ pc[t] \in CallPcs
        BY <1>0, <2>2 DEF Shape, OuterPcs, CallPcs
      <3>2. pc'[t] = "inside"
        BY <2>2, <3>1, ThreadAssumption DEF Entered
      <3>3. Shape(t)'
        <4>1. /\ pc'[t] \notin ResolvePcs /\ pc'[t] \notin {"wlock", "ckpt"}
              /\ pc'[t] # "syncloop" /\ pc'[t] # "return" /\ pc'[t] # "rlock"
              /\ pc'[t] \notin ReintPcs
          BY <3>2 DEF ResolvePcs, ReintPcs
        <4> QED
          BY <1>0, <2>1, <3>1, <4>1 DEF Shape, SameCall
      <3>4. /\ InVolume(t)' <=> InVolume(t)
            /\ pc'[t] \notin SyncPcs /\ pc[t] \notin {"idle", "await"}
        BY <2>2, <3>2 DEF InVolume, SyncPcs
      <3> QED
        BY <2>1, <3>3, <3>4, QuietLocal
    <2>3. CASE \/ pc[t] = "cmlock" /\ pc'[t] = "work"
               \/ pc[t] = "relock" /\ pc'[t] = "reintend"
               \/ pc[t] = "wlock" /\ pc'[t] = "ckpt"
      <3>1. /\ pc[t] \in ReintPcs \/ (pc[t] \in {"wlock", "ckpt"} /\ pc'[t] = "ckpt")
            /\ pc'[t] \in ReintPcs \/ pc'[t] = "ckpt"
        BY <2>3 DEF ReintPcs
      <3>2. /\ pc'[t] \notin OuterPcs /\ pc'[t] \notin CallPcs /\ pc'[t] \notin ResolvePcs
            /\ pc'[t] # "syncloop" /\ pc'[t] # "return" /\ pc'[t] # "rlock"
            /\ pc'[t] \in ReintPcs => pc'[t] # "ckpt"
        BY <2>3 DEF OuterPcs, CallPcs, ResolvePcs, ReintPcs
      <3>3. Shape(t)'
        BY <1>0, <2>1, <3>1, <3>2 DEF Shape, SameCall, Reintegrates
      <3>4. /\ InVolume(t)' <=> InVolume(t)
            /\ pc'[t] \notin SyncPcs /\ pc[t] \notin {"idle", "await"}
        BY <2>3 DEF InVolume, SyncPcs
      <3> QED
        BY <2>1, <3>3, <3>4, QuietLocal
    <2> QED
      BY <2>1, <2>2, <2>3
  <1>2. CASE Mutate(t) \/ PurgeMLEs(t) \/ CheckPoint(t) \/ Observe(t)
    <2>1. /\ pc[t] = "inside" /\ pc'[t] \in {"done", "wlock"}
          /\ SameCall(t) /\ u_vol'[t] = u_vol[t] /\ Others(t)
          /\ UNCHANGED <<sync_reintegrate, countVars>>
      <3>1. CASE Mutate(t)
        BY <3>1 DEF Mutate, At, TypeOK, Others, PcMoved, SameCall, callVars
      <3>2. CASE PurgeMLEs(t)
        BY <3>2 DEF PurgeMLEs, At, TypeOK, Others, PcMoved, SameCall, callVars
      <3>3. CASE CheckPoint(t)
        BY <3>3 DEF CheckPoint, At, TypeOK, Others, PcMoved, SameCall, callVars, logVars
      <3>4. CASE Observe(t)
        <4>1. /\ pc[t] = "inside" /\ SameCall(t) /\ u_vol'[t] = u_vol[t]
              /\ \A u \in Threads : SameCall(u) /\ u_vol'[u] = u_vol[u]
              /\ UNCHANGED <<sync_reintegrate, countVars>>
          BY <3>4 DEF Observe, At, SameCall, callVars, logVars
        <4>2. CASE pc' = [pc EXCEPT ![t] = "done"]
          BY <4>1, <4>2 DEF TypeOK, Others, PcMoved
        <4>3. ASSUME NEW r \in Idle(Reintegrators),
                     pc' = [pc EXCEPT ![t] = "done", ![r] = "dispatched"]
              PROVE  pc'[t] = "done" /\ Others(t)
          <5>1. r \in Threads /\ r \in Reintegrators /\ pc[r] = "idle" /\ r # t
            BY <4>1, <4>3 DEF Idle, Threads
          <5> QED
            BY <4>1, <4>3, <5>1 DEF TypeOK, Others, PcMoved
        <4> QED
          BY <3>4, <4>1, <4>2, <4>3 DEF Observe
      <3> QED
        BY <1>2, <3>1, <3>2, <3>3, <3>4
    <2>2. nest[t] = <<>> /\ t \in Users \cup {Daemon}
      BY <1>0, <2>1 DEF Shape, OuterPcs, CallPcs
    <2>3. Shape(t)'
      <3>1. /\ pc'[t] \notin ResolvePcs /\ pc'[t] \notin ReintPcs
            /\ pc'[t] # "syncloop" /\ pc'[t] # "return" /\ pc'[t] # "rlock"
        BY <2>1 DEF ResolvePcs, ReintPcs
      <3> QED
        BY <1>0, <2>1, <2>2, <3>1 DEF Shape, SameCall
    <2>4. /\ InVolume(t)' <=> InVolume(t)
          /\ pc'[t] \notin SyncPcs /\ pc[t] \notin {"idle", "await"}
      BY <2>1 DEF InVolume, SyncPcs
    <2> QED
      BY <2>1, <2>3, <2>4, QuietLocal
  <1>3. ASSUME NEW f \in Fids, ResSubmit(t, f)
        PROVE  Local(t)
    <2>1. /\ pc[t] = "inside" /\ pc'[t] = "done" /\ t \in Users /\ op'[t] = "synresolve"
          /\ nest'[t] = nest[t] /\ mode'[t] = mode[t] /\ u_vol'[t] = u_vol[t] /\ Others(t)
          /\ UNCHANGED <<sync_reintegrate, countVars>>
      BY <1>3 DEF ResSubmit, At, TypeOK, Others, PcMoved, SameCall, logVars
    <2>2. nest[t] = <<>>
      BY <1>0, <2>1 DEF Shape, OuterPcs, CallPcs
    <2>3. Shape(t)'
      <3>1. /\ pc'[t] \notin ResolvePcs /\ pc'[t] \notin ReintPcs
            /\ pc'[t] \notin {"wlock", "ckpt"}
            /\ pc'[t] # "syncloop" /\ pc'[t] # "return" /\ pc'[t] # "rlock"
        BY <2>1 DEF ResolvePcs, ReintPcs
      <3> QED
        BY <1>0, <2>1, <2>2, <3>1 DEF Shape
    <2>4. InVolume(t)' /\ InVolume(t) /\ CurMode(t)' = CurMode(t)
      BY <2>1 DEF InVolume, CurMode
    <2>5. ASSUME Async
          PROVE  AsyncShape(t)' /\ ~sync_reintegrate'
      BY <2>1, <2>5 DEF ShapeInv, AsyncShape
    <2> QED
      BY <2>1, <2>3, <2>4, <2>5 DEF Local, Stays
  <1>4. CASE CheckPointed(t)
    <2>1. /\ pc[t] = "ckpt" /\ SameCall(t) /\ u_vol'[t] = u_vol[t] /\ Others(t)
          /\ UNCHANGED <<sync_reintegrate, countVars>>
          /\ \/ Reintegrates(t) /\ pc'[t] = "relock"
             \/ ~Reintegrates(t) /\ pc'[t] = "done"
      BY <1>4 DEF CheckPointed, At, TypeOK, Others, PcMoved, SameCall, callVars, logVars,
                  Reintegrates
    <2>2. Shape(t)'
      <3>1. /\ pc'[t] \notin ResolvePcs
            /\ pc'[t] # "syncloop" /\ pc'[t] # "return" /\ pc'[t] # "rlock"
            /\ pc'[t] \notin {"wlock", "ckpt"}
            /\ pc'[t] = "done" => pc'[t] \notin ReintPcs
            /\ pc'[t] = "relock" => pc'[t] \notin OuterPcs /\ pc'[t] \notin CallPcs
        BY <2>1 DEF ResolvePcs, ReintPcs, OuterPcs, CallPcs
      <3> QED
        BY <1>0, <2>1, <3>1 DEF Shape, SameCall, Reintegrates
    <2>3. /\ InVolume(t)' <=> InVolume(t)
          /\ pc'[t] \notin SyncPcs /\ pc[t] \notin {"idle", "await"}
      BY <2>1 DEF InVolume, SyncPcs
    <2> QED
      BY <2>1, <2>2, <2>3, QuietLocal
  <1> QED
    BY <1>1, <1>2, <1>3, <1>4

\* End_VFS and volent::Exit, apart from its transitions.
LEMMA ExitLocal ==
  ASSUME TypeOK, ShapeInv, NEW t \in Threads,
         \/ EndVFS(t) \/ ExitMutating(t) \/ ExitObserving(t) \/ ExitResolving(t)
         \/ ExitSignal(t) \/ Exited(t) \/ ResAwait(t) \/ SyncReturn(t)
  PROVE  Local(t)
  <1>0. Shape(t)
    BY DEF ShapeInv
  <1>1. CASE EndVFS(t)
    <2>1. /\ pc[t] = "done" /\ Returned(t) /\ nest' = nest /\ u_vol' = u_vol
          /\ UNCHANGED <<sync_reintegrate, countVars>>
          /\ \/ pc'[t] = "idle" /\ t \in Users /\ op[t] # "sync" /\ ~u_vol[t]
             \/ pc'[t] = "exit"
          /\ \A u \in Threads \ {t} : pc'[u] = pc[u]
      BY <1>1 DEF EndVFS, At, TypeOK, logVars
    <2>2. Others(t)
      BY <2>1, ReturnedEffect DEF Others, PcMoved, SameCall
    <2>3. CASE pc'[t] = "idle" /\ t \in Users /\ op[t] # "sync" /\ ~u_vol[t]
      <3>1. ~Async
        BY <2>1, <2>3 DEF ShapeInv, AsyncShape
      <3>2. nest[t] = <<>>
        BY <1>0, <2>1 DEF Shape, OuterPcs, CallPcs
      <3> QED
        BY <2>1, <2>2, <2>3, <3>1, <3>2, IdleLocal
    <2>4. CASE pc'[t] = "exit"
      <3>1. SameCall(t)
        BY <2>1, <2>4, ReturnedEffect DEF SameCall
      <3>2. Shape(t)'
        BY <1>0, <2>4, <3>1, ShapeKept DEF FreePcs
      <3>3. /\ InVolume(t)' <=> InVolume(t)
            /\ pc'[t] \notin SyncPcs /\ pc[t] \notin {"idle", "await"}
        BY <2>1, <2>4 DEF InVolume, SyncPcs
      <3> QED
        BY <2>1, <2>2, <3>1, <3>2, <3>3, QuietLocal
    <2> QED
      BY <2>1, <2>3, <2>4
  <1>2. CASE ExitMutating(t) \/ ExitObserving(t) \/ ExitResolving(t)
    <2>1. /\ pc[t] = "exit" /\ SameCall(t) /\ u_vol' = u_vol
          /\ UNCHANGED sync_reintegrate
          /\ \A u \in Threads : SameCall(u)
      BY <1>2 DEF ExitMutating, ExitObserving, ExitResolving, At, callVars, logVars, SameCall
    <2>2. PICK m \in Modes :
            /\ CurMode(t) = m
            /\ \/ UNCHANGED <<pc, countVars>>
               \/ /\ pc' = [pc EXCEPT ![t] = "leave"]
                  /\ \/ /\ m = "MUTATING" /\ mutator_count' = mutator_count - 1
                        /\ shrd_count' = shrd_count - 1
                        /\ UNCHANGED <<observer_count, resolver_count, excl_count>>
                     \/ /\ m = "OBSERVING" /\ observer_count' = observer_count - 1
                        /\ shrd_count' = shrd_count - 1
                        /\ UNCHANGED <<mutator_count, resolver_count, excl_count>>
                     \/ /\ m = "RESOLVING" /\ resolver_count' = resolver_count - 1
                        /\ excl_count' = excl_count - 1
                        /\ UNCHANGED <<mutator_count, observer_count, shrd_count>>
      <3>1. CASE ExitMutating(t)
        BY <3>1 DEF ExitMutating, Modes, countVars
      <3>2. CASE ExitObserving(t)
        BY <3>2 DEF ExitObserving, Modes, countVars
      <3>3. CASE ExitResolving(t)
        BY <3>3 DEF ExitResolving, Modes, countVars
      <3> QED
        BY <1>2, <3>1, <3>2, <3>3
    <2>3. CASE UNCHANGED <<pc, countVars>>
      <3>1. Others(t)
        BY <2>1, <2>3 DEF Others, PcMoved
      <3>2. Shape(t)'
        BY <1>0, <2>1, <2>3, ShapeKept DEF FreePcs
      <3>3. /\ InVolume(t)' <=> InVolume(t)
            /\ pc'[t] \notin SyncPcs /\ pc[t] \notin {"idle", "await"}
        BY <2>1, <2>3 DEF InVolume, SyncPcs
      <3> QED
        BY <2>1, <2>3, <3>1, <3>2, <3>3, QuietLocal
    <2>4. CASE pc' = [pc EXCEPT ![t] = "leave"]
      <3>1. Others(t) /\ pc'[t] = "leave"
        BY <2>1, <2>4 DEF TypeOK, Others, PcMoved
      <3>2. Shape(t)'
        BY <1>0, <2>1, <3>1, ShapeKept DEF FreePcs
      <3>3. InVolume(t) /\ ~InVolume(t)'
        BY <2>1, <3>1 DEF InVolume
      <3>4. pc' # pc
        BY <2>1, <3>1
      <3>5. Leaves(t, m)
        BY <2>2, <3>3, <3>4 DEF Leaves
      <3>6. ASSUME Async
            PROVE  AsyncShape(t)' /\ ~sync_reintegrate'
        BY <2>1, <3>1, <3>6 DEF ShapeInv, AsyncShape, SameCall
      <3> QED
        BY <3>1, <3>2, <3>5, <3>6 DEF Local
    <2> QED
      BY <2>2, <2>3, <2>4
  <1>3. CASE ExitSignal(t)
    <2>1. /\ pc[t] = "leave" /\ pc'[t] = "exited" /\ SameCall(t) /\ u_vol'[t] = u_vol[t]
          /\ Others(t) /\ UNCHANGED <<sync_reintegrate, countVars>>
      BY <1>3 DEF ExitSignal, At, TypeOK, Others, PcMoved, SameCall, callVars, logVars, Woken
    <2>2. Shape(t)'
      BY <1>0, <2>1, ShapeKept DEF FreePcs
    <2>3. /\ InVolume(t)' <=> InVolume(t)
          /\ pc'[t] \notin SyncPcs /\ pc[t] \notin {"idle", "await"}
      BY <2>1 DEF InVolume, SyncPcs
    <2> QED
      BY <2>1, <2>2, <2>3, QuietLocal
  <1>4. CASE Exited(t)
    <2>1. /\ pc[t] = "exited" /\ Returned(t) /\ nest' = nest
          /\ UNCHANGED <<sync_reintegrate, countVars>>
          /\ \A u \in Threads \ {t} : PcMoved(u) /\ u_vol'[u] = u_vol[u]
      BY <1>4 DEF Exited, At, TypeOK, logVars, PcMoved
    <2>2. \/ nest[t] # <<>> /\ pc'[t] = "return"
          \/ nest[t] = <<>> /\ op[t] = "sync" /\ pc'[t] = "sync"
          \/ nest[t] = <<>> /\ op[t] = "synresolve" /\ pc'[t] = "await"
          \/ nest[t] = <<>> /\ pc'[t] = "idle"
      BY <1>4 DEF Exited
    <2>3. Others(t)
      BY <2>1, ReturnedEffect DEF Others, SameCall
    <2>4. ~InVolume(t)
      BY <2>1 DEF InVolume
    <2>5. CASE nest[t] = <<>> /\ pc'[t] = "idle"
      BY <2>1, <2>3, <2>4, <2>5, IdleLocal
    <2>6. CASE \/ nest[t] # <<>> /\ pc'[t] = "return"
               \/ nest[t] = <<>> /\ op[t] = "sync" /\ pc'[t] = "sync"
               \/ nest[t] = <<>> /\ op[t] = "synresolve" /\ pc'[t] = "await"
      <3>1. SameCall(t)
        BY <2>1, <2>6, ReturnedEffect DEF SameCall
      <3>2. Shape(t)'
        <4>1. /\ pc'[t] \notin ResolvePcs /\ pc'[t] \notin ReintPcs
              /\ pc'[t] \notin {"wlock", "ckpt"} /\ pc'[t] # "syncloop" /\ pc'[t] # "rlock"
              /\ pc'[t] = "return" => pc'[t] \notin OuterPcs /\ pc'[t] \notin CallPcs
          BY <2>6 DEF ResolvePcs, ReintPcs, OuterPcs, CallPcs
        <4> QED
          BY <1>0, <2>6, <3>1, <4>1 DEF Shape, SameCall
      <3>3. ~InVolume(t)'
        BY <2>6 DEF InVolume
      <3>4. ASSUME Async
            PROVE  AsyncShape(t)' /\ ~sync_reintegrate'
        BY <2>1, <2>6, <3>1, <3>4 DEF ShapeInv, AsyncShape, SameCall
      <3> QED
        BY <2>1, <2>3, <2>4, <3>2, <3>3, <3>4 DEF Local, Stays
    <2> QED
      BY <2>2, <2>5, <2>6
  <1>5. CASE ResAwait(t)
    <2>1. /\ pc[t] = "await" /\ pc'[t] = "idle" /\ Returned(t) /\ nest' = nest /\ u_vol' = u_vol
          /\ UNCHANGED <<sync_reintegrate, countVars>>
          /\ \A u \in Threads \ {t} : pc'[u] = pc[u]
      BY <1>5 DEF ResAwait, At, TypeOK, logVars
    <2>2. Others(t)
      BY <2>1, ReturnedEffect DEF Others, PcMoved, SameCall
    <2>3. nest[t] = <<>> /\ ~InVolume(t)
      BY <1>0, <2>1 DEF Shape, OuterPcs, CallPcs, InVolume
    <2> QED
      BY <2>1, <2>2, <2>3, IdleLocal
  <1>6. CASE SyncReturn(t)
    <2>1. /\ pc[t] = "return" /\ pc'[t] = Head(nest[t]) /\ nest'[t] = Tail(nest[t])
          /\ mode'[t] = mode[t] /\ op'[t] = op[t] /\ u_vol'[t] = u_vol[t]
          /\ UNCHANGED <<sync_reintegrate, countVars>> /\ Others(t)
      BY <1>6 DEF SyncReturn, At, TypeOK, Others, PcMoved, SameCall, logVars, Woken
    <2>2. nest[t] # <<>>
      BY <1>0, <2>1 DEF Shape
    <2>3. Shape(t)' /\ pc'[t] \in Returns
      BY <1>0, <2>1, <2>2, PopShape
    <2>4. ~InVolume(t)'
      BY <2>3 DEF InVolume, Returns
    <2>5. ~Async
      BY <2>2 DEF ShapeInv, AsyncShape
    <2> QED
      BY <2>1, <2>3, <2>4, <2>5 DEF Local, Stays
  <1> QED
    BY <1>1, <1>2, <1>3, <1>4, <1>5, <1>6

\* repvol::Resolve, reintvol::Reintegrate and SyncCache.
LEMMA WorkLocal ==
  ASSUME TypeOK, ShapeInv, NEW t \in Threads,
         \/ ResolveStart(t) \/ ResolveNext(t) \/ ResolveReply(t) \/ ResolveEnd(t)
         \/ Reintegrate(t) \/ ReintegrateEnd(t) \/ SyncCache(t) \/ SyncEnd(t)
  PROVE  Local(t)
  <1>0. Shape(t)
    BY DEF ShapeInv
  <1>1. CASE ResolveStart(t) \/ ResolveNext(t) \/ ResolveReply(t) \/ ResolveEnd(t)
    <2>1. /\ pc[t] \in ResolvePcs /\ pc'[t] \in ResolvePcs \cup {"exit"}
          /\ SameCall(t) /\ u_vol'[t] = u_vol[t] /\ Others(t)
          /\ UNCHANGED <<sync_reintegrate, countVars>>
      <3>1. CASE ResolveStart(t)
        BY <3>1 DEF ResolveStart, At, TypeOK, Others, PcMoved, SameCall, callVars, logVars,
                    ResolvePcs
      <3>2. CASE ResolveNext(t)
        BY <3>2 DEF ResolveNext, At, TypeOK, Others, PcMoved, SameCall, callVars, logVars,
                    ResolvePcs
      <3>3. CASE ResolveReply(t)
        BY <3>3 DEF ResolveReply, At, TypeOK, Others, PcMoved, SameCall, callVars, logVars,
                    ResolvePcs
      <3>4. CASE ResolveEnd(t)
        BY <3>4 DEF ResolveEnd, At, TypeOK, Others, PcMoved, SameCall, callVars, logVars,
                    ResolvePcs
      <3> QED
        BY <1>1, <3>1, <3>2, <3>3, <3>4
    <2>2. t \in Resolvers /\ nest[t] = <<>>
      BY <1>0, <2>1 DEF Shape, OuterPcs
    <2>3. Shape(t)'
      <3>1. /\ pc'[t] \notin CallPcs /\ pc'[t] \notin ReintPcs
            /\ pc'[t] \notin {"wlock", "ckpt"}
            /\ pc'[t] # "syncloop" /\ pc'[t] # "return" /\ pc'[t] # "rlock"
        BY <2>1 DEF ResolvePcs, ReintPcs, CallPcs
      <3> QED
        BY <1>0, <2>1, <2>2, <3>1 DEF Shape, SameCall
    <2>4. /\ InVolume(t)' <=> InVolume(t)
          /\ pc'[t] \notin SyncPcs /\ pc[t] \notin {"idle", "await"}
      BY <2>1 DEF InVolume, SyncPcs, ResolvePcs
    <2> QED
      BY <2>1, <2>3, <2>4, QuietLocal
  <1>2. CASE Reintegrate(t) \/ ReintegrateEnd(t)
    <2>0. CASE Reintegrate(t)
      <3>1. /\ pc[t] = "work" /\ pc'[t] \in {"work", "reintend", "wlock"}
            /\ SameCall(t) /\ u_vol'[t] = u_vol[t] /\ Others(t)
            /\ UNCHANGED <<sync_reintegrate, countVars>>
        BY <2>0 DEF Reintegrate, At, TypeOK, Others, PcMoved, SameCall, callVars
      <3>2. Reintegrates(t)
        BY <1>0, <3>1 DEF Shape, ReintPcs
      <3>3. Shape(t)'
        <4>1. /\ pc'[t] \notin OuterPcs /\ pc'[t] \notin CallPcs /\ pc'[t] \notin ResolvePcs
              /\ pc'[t] # "syncloop" /\ pc'[t] # "return" /\ pc'[t] # "rlock"
          BY <3>1 DEF ResolvePcs, CallPcs, OuterPcs
        <4> QED
          BY <1>0, <3>1, <3>2, <4>1 DEF Shape, SameCall, Reintegrates
      <3>4. /\ InVolume(t)' <=> InVolume(t)
            /\ pc'[t] \notin SyncPcs /\ pc[t] \notin {"idle", "await"}
        BY <3>1 DEF InVolume, SyncPcs
      <3> QED
        BY <3>1, <3>3, <3>4, QuietLocal
    <2>1. CASE ReintegrateEnd(t)
      <3>1. /\ pc[t] = "reintend" /\ pc'[t] = "exit"
            /\ SameCall(t) /\ u_vol'[t] = u_vol[t] /\ Others(t)
            /\ UNCHANGED countVars /\ sync_reintegrate' = FALSE
        BY <2>1 DEF ReintegrateEnd, At, TypeOK, Others, PcMoved, SameCall, callVars
      <3>2. Shape(t)'
        BY <1>0, <3>1, ShapeKept DEF FreePcs
      <3>3. InVolume(t)' /\ InVolume(t) /\ CurMode(t)' = CurMode(t)
        BY <3>1 DEF InVolume, CurMode, SameCall
      <3>4. ASSUME Async
            PROVE  AsyncShape(t)' /\ ~sync_reintegrate'
        BY <3>1, <3>4 DEF ShapeInv, AsyncShape, SameCall
      <3> QED
        BY <3>1, <3>2, <3>3, <3>4 DEF Local, Stays
    <2> QED
      BY <1>2, <2>0, <2>1
  <1>3. CASE SyncCache(t)
    <2>1. /\ pc[t] \in {"sync", "syncwoken"} /\ pc'[t] \in {"syncwait", "syncloop"}
          /\ SameCall(t) /\ u_vol'[t] = u_vol[t] /\ Others(t) /\ UNCHANGED countVars
      BY <1>3 DEF SyncCache, At, TypeOK, Others, PcMoved, SameCall, callVars
    <2>2. ~Async
      BY <2>1 DEF ShapeInv, AsyncShape
    <2>3. nest[t] = <<>> /\ t \in Users \cup {Daemon} /\ t \notin Reintegrators
      BY <1>0, <2>1, ThreadAssumption DEF Shape, OuterPcs, CallPcs
    <2>4. Shape(t)'
      <3>1. /\ pc'[t] \notin ResolvePcs /\ pc'[t] \notin ReintPcs
            /\ pc'[t] \notin {"wlock", "ckpt"} /\ pc'[t] # "return" /\ pc'[t] # "rlock"
        BY <2>1 DEF ResolvePcs, ReintPcs
      <3> QED
        BY <1>0, <2>1, <2>3, <3>1 DEF Shape, SameCall
    <2>5. ~InVolume(t)'
      BY <2>1 DEF InVolume
    <2> QED
      BY <2>1, <2>2, <2>4, <2>5 DEF Local, Stays
  <1>4. CASE SyncEnd(t)
    <2>1. /\ pc[t] = "syncloop" /\ pc'[t] = "idle" /\ Returned(t) /\ nest' = nest /\ u_vol' = u_vol
          /\ UNCHANGED <<sync_reintegrate, countVars>>
          /\ \A u \in Threads \ {t} : pc'[u] = pc[u]
      BY <1>4 DEF SyncEnd, At, TypeOK, logVars
    <2>2. Others(t)
      BY <2>1, ReturnedEffect DEF Others, PcMoved, SameCall
    <2>3. nest[t] = <<>> /\ ~InVolume(t)
      BY <1>0, <2>1 DEF Shape, OuterPcs, InVolume
    <2> QED
      BY <2>1, <2>2, <2>3, IdleLocal
  <1> QED
    BY <1>1, <1>2, <1>3, <1>4

-----------------------------------------------------------------------------
(* The steps that leave the state, the log, its owner, the resents and      *)
(* CML_lock alone.                                                         *)

Quiet(t) ==
  /\ UNCHANGED <<state, cml, owner, reintegrating, mutator_count, res_list, cur, resblk,
                 readers, writer>>
  /\ pc[t] # "rpc" /\ pc'[t] # "rpc" /\ pc'[t] # "work"
  /\ pc'[t] = "next" => state = "Resolving"
  /\ pc'[t] = "inside" => CurMode(t)' # "MUTATING"
  /\ Active(t)' => Active(t)
  /\ pc'[t] = "reint" => cpu' = t /\ ~reintegrating /\ cml # <<>> /\ owner # UNSET_UID
  /\ t \in In("RESOLVING")' => state = "Resolving" \/ cpu' = t

\* The start of a call, and the wait of a writer for a shorter log.
LEMMA QuietCalls ==
  ASSUME TypeOK, ShapeInv, NEW t \in Threads,
         (t \in Users /\ Call(t)) \/ (t = Daemon /\ Visit) \/ WaitForReintegration(t)
  PROVE  Quiet(t)
  <1>0. Shape(t)
    BY DEF ShapeInv
  <1> DEFINE G == /\ UNCHANGED <<state, cml, owner, reintegrating, mutator_count, res_list, cur,
                                 resblk, readers, writer>>
                  /\ pc[t] \in {"idle", "stall", "slow"} /\ pc'[t] \in {"demote", "stall", "slow"}
                  /\ nest'[t] = nest[t] /\ t \in Users \cup {Daemon}
  <1>1. G
    <2>1. ASSUME t \in Users, Call(t)
          PROVE  G
      <3>1. ASSUME NEW m \in {"MUTATING", "OBSERVING"}, BeginVFS(t, m)
            PROVE  G
        BY <3>1 DEF BeginVFS, At, TypeOK, Zone, volVars, logVars, countVars, resVars, lockVars
      <3>2. CASE BeginSync(t)
        BY <3>2 DEF BeginSync, At, TypeOK, volVars, logVars, countVars, resVars, lockVars
      <3> QED
        BY <2>1, <3>1, <3>2 DEF Call
    <2>2. ASSUME t = Daemon, Visit
          PROVE  G
      BY <2>2 DEF Visit, DaemonVisit, At, TypeOK, volVars, logVars, countVars, resVars, lockVars
    <2>3. CASE WaitForReintegration(t)
      <3>1. /\ UNCHANGED <<state, cml, owner, reintegrating, mutator_count, res_list, cur,
                           resblk, readers, writer>>
            /\ pc[t] \in {"stall", "slow"} /\ pc'[t] \in {"demote", "stall", "slow"}
            /\ nest'[t] = nest[t]
        BY <2>3 DEF WaitForReintegration, At, TypeOK, Zone, volVars, logVars, countVars,
                    resVars, lockVars, callVars
      <3> QED
        BY <1>0, <3>1 DEF Shape, CallPcs
    <2> QED
      BY <2>1, <2>2, <2>3
  <1>2. nest[t] = <<>> /\ t \notin Reintegrators
    BY <1>0, <1>1, ThreadAssumption DEF Shape, OuterPcs, CallPcs
  <1>3. ~Active(t)'
    BY <1>1, <1>2 DEF Active, Reintegrates
  <1>4. t \notin In("RESOLVING")'
    BY <1>1 DEF In, InVolume
  <1> QED
    BY <1>1, <1>3, <1>4 DEF Quiet

\* A dispatched daemon thread; a reintegrator goes on only if nobody
\* reintegrates and the log has records, whose owner is set.
LEMMA QuietDispatched ==
  ASSUME TypeOK, ShapeInv, NEW t \in Threads, Dispatched(t)
  PROVE  Quiet(t)
  <1>0. Shape(t)
    BY DEF ShapeInv
  <1>1. /\ UNCHANGED <<state, cml, owner, reintegrating, mutator_count, res_list, cur, resblk,
                       readers, writer>>
        /\ pc[t] = "dispatched" /\ nest'[t] = nest[t]
    BY DEF Dispatched, At, volVars, logVars, countVars, resVars, lockVars, callVars
  <1>2. \/ t \in Resolvers /\ pc'[t] = "demote"
        \/ pc'[t] = "reint" /\ cpu' = t /\ ReadyToReintegrate(TRUE)
        \/ pc'[t] = "idle"
    BY DEF Dispatched, TypeOK
  <1>3. nest[t] = <<>>
    BY <1>0, <1>1 DEF Shape, OuterPcs
  <1>4. pc'[t] = "reint" => cpu' = t /\ ~reintegrating /\ cml # <<>> /\ owner # UNSET_UID
    BY <1>2, UidAssumption DEF ReadyToReintegrate, Ready, TypeOK
  <1>5. ~Active(t)'
    BY <1>1, <1>2, <1>3, ThreadAssumption DEF Active, Reintegrates
  <1>6. t \notin In("RESOLVING")'
    BY <1>2 DEF In, InVolume
  <1> QED
    BY <1>1, <1>2, <1>4, <1>5, <1>6 DEF Quiet

\* A helper: from one point of a call to another, outside the volume.
LEMMA QuietOutside ==
  ASSUME NEW t \in Threads,
         UNCHANGED <<state, cml, owner, reintegrating, mutator_count, res_list, cur, resblk,
                     readers, writer>>,
         pc[t] \in {"demote", "transition", "admit", "woken", "done", "exit", "leave",
                    "exited", "await", "syncloop"},
         pc'[t] \in {"transition", "admit", "wait", "woken", "idle", "leave", "exited", "return"},
         nest'[t] = nest[t],
         pc[t] \in {"demote", "transition", "admit", "woken"} \/
         pc'[t] \in {"idle", "leave", "exited", "return"}
  PROVE  Quiet(t)
  <1>1. Active(t)' => Active(t)
    BY DEF Active, Reintegrates
  <1>2. t \notin In("RESOLVING")'
    BY DEF In, InVolume
  <1> QED
    BY <1>1, <1>2 DEF Quiet

\* The steps of Enter before the thread is admitted.
LEMMA QuietEnter ==
  ASSUME TypeOK, ShapeInv, NEW t \in Threads,
         EnterDemote(t) \/ EnterCallBack(t) \/ EnterWait(t) \/ EnterWoken(t)
  PROVE  Quiet(t)
  <1>1. UNCHANGED <<state, cml, owner, reintegrating, mutator_count, res_list, cur, resblk,
                    readers, writer>>
    BY DEF EnterDemote, EnterCallBack, EnterWait, EnterWoken, volVars, logVars, countVars,
           resVars, lockVars
  <1>2. /\ pc[t] \in {"demote", "transition", "admit", "woken"}
        /\ pc'[t] \in {"transition", "admit", "wait", "idle", "woken"}
        /\ nest'[t] = nest[t]
    BY DEF EnterDemote, EnterCallBack, EnterWait, EnterWoken, At, TypeOK, callVars
  <1> QED
    BY <1>1, <1>2, QuietOutside

\* The admission of observers and resolvers.
LEMMA QuietEntered ==
  ASSUME TypeOK, ShapeInv, NEW t \in Threads, EnterObserving(t) \/ EnterResolving(t)
  PROVE  Quiet(t)
  <1>0. Shape(t)
    BY DEF ShapeInv
  <1>1. /\ UNCHANGED <<state, cml, owner, reintegrating, mutator_count, res_list, cur, resblk,
                       readers, writer>>
        /\ pc[t] = "admit" /\ nest'[t] = nest[t] /\ mode'[t] = mode[t]
        /\ pc'[t] = Entered(t)
    BY DEF EnterObserving, EnterResolving, At, TypeOK, volVars, logVars, resVars, lockVars,
           callVars
  <1>2. pc'[t] \in {"cmlock", "resolve", "inside"}
    BY <1>1 DEF Entered
  <1>3. CurMode(t)' # "MUTATING" /\ (CurMode(t)' = "RESOLVING" => cpu' = t)
    BY <1>1 DEF EnterObserving, EnterResolving, CurMode
  <1>4. Active(t)' => Active(t)
    BY <1>1 DEF Active, Reintegrates
  <1> QED
    BY <1>1, <1>2, <1>3, <1>4 DEF Quiet, In

\* The checkpoint's request for CML_lock, and the body of an observer.
LEMMA QuietInside ==
  ASSUME TypeOK, ShapeInv, NEW t \in Threads, CheckPoint(t) \/ Observe(t)
  PROVE  Quiet(t)
  <1>0. Shape(t)
    BY DEF ShapeInv
  <1>1. /\ UNCHANGED <<state, cml, owner, reintegrating, mutator_count, res_list, cur, resblk,
                       readers, writer>>
        /\ pc[t] = "inside" /\ nest'[t] = nest[t] /\ mode'[t] = mode[t]
    BY DEF CheckPoint, Observe, At, volVars, logVars, countVars, resVars, lockVars, callVars
  <1>2. pc'[t] \in {"done", "wlock"}
    <2>1. CASE CheckPoint(t)
      BY <2>1 DEF CheckPoint, TypeOK
    <2>2. CASE Observe(t)
      <3>1. ASSUME NEW r \in Idle(Reintegrators),
                   pc' = [pc EXCEPT ![t] = "done", ![r] = "dispatched"]
            PROVE  pc'[t] = "done"
        <4>1. r # t
          BY <1>1, <3>1 DEF Idle
        <4> QED
          BY <3>1, <4>1 DEF TypeOK
      <3> QED
        BY <2>2, <3>1 DEF Observe, TypeOK
    <2> QED
      BY <2>1, <2>2
  <1>3. nest[t] = <<>> /\ t \notin Reintegrators /\ t \notin Resolvers
    BY <1>0, <1>1, ThreadAssumption DEF Shape, OuterPcs, CallPcs
  <1>4. ~Active(t)' /\ t \notin In("RESOLVING")'
    BY <1>0, <1>1, <1>3 DEF Active, Reintegrates, In, CurMode, Shape
  <1> QED
    BY <1>1, <1>2, <1>4 DEF Quiet

\* The steps of End_VFS and Exit, except for mutators.
LEMMA QuietExit ==
  ASSUME TypeOK, ShapeInv, ResInv, NEW t \in Threads,
         \/ EndVFS(t) \/ ExitObserving(t) \/ ExitResolving(t)
         \/ ExitSignal(t) \/ Exited(t) \/ ResAwait(t) \/ SyncReturn(t)
  PROVE  Quiet(t)
  <1>0. Shape(t)
    BY DEF ShapeInv
  <1>1. UNCHANGED <<state, cml, owner, reintegrating, mutator_count, res_list, cur, resblk,
                    readers, writer>>
    <2>1. CASE EndVFS(t) \/ ExitObserving(t) \/ ExitResolving(t)
      BY <2>1 DEF EndVFS, ExitObserving, ExitResolving, volVars, logVars, countVars, resVars,
                  lockVars
    <2>2. CASE ExitSignal(t) \/ Exited(t) \/ ResAwait(t) \/ SyncReturn(t)
      BY <2>2 DEF ExitSignal, Exited, ResAwait, SyncReturn, volVars, logVars, countVars,
                  resVars, lockVars
    <2> QED
      BY <2>1, <2>2
  <1>2. CASE EndVFS(t)
    <2>1. pc[t] = "done" /\ pc'[t] \in {"idle", "exit"} /\ nest'[t] = nest[t]
          /\ cpu' = IF pc'[t] = "idle" THEN NoThread ELSE t
      BY <1>2 DEF EndVFS, At, TypeOK
    <2>2. ~Active(t)' /\ (t \in In("RESOLVING")' => cpu' = t)
      BY <2>1 DEF Active, In, InVolume
    <2> QED
      BY <1>1, <2>1, <2>2 DEF Quiet
  <1>3. CASE ExitObserving(t) \/ ExitResolving(t)
    <2>1. /\ pc[t] = "exit" /\ nest'[t] = nest[t] /\ mode'[t] = mode[t]
          /\ (pc' = pc /\ cpu' = cpu) \/ pc'[t] = "leave"
      BY <1>3 DEF ExitObserving, ExitResolving, At, TypeOK, callVars
    <2>2. CASE pc'[t] = "leave"
      BY <1>1, <2>1, <2>2, QuietOutside
    <2>3. CASE pc' = pc /\ cpu' = cpu
      <3>1. ~Active(t)'
        BY <2>1, <2>3 DEF Active
      <3>2. t \in In("RESOLVING")' => t \in In("RESOLVING")
        BY <2>1, <2>3 DEF In, InVolume, CurMode
      <3> QED
        BY <1>1, <2>1, <2>3, <3>1, <3>2 DEF Quiet, ResInv
    <2> QED
      BY <2>1, <2>2, <2>3
  <1>4. CASE ExitSignal(t)
    <2>1. pc[t] = "leave" /\ pc'[t] = "exited" /\ nest'[t] = nest[t]
      BY <1>4 DEF ExitSignal, At, TypeOK, callVars, Woken
    <2> QED
      BY <1>1, <2>1, QuietOutside
  <1>5. CASE Exited(t)
    <2>1. /\ pc[t] = "exited" /\ nest'[t] = nest[t]
          /\ \/ pc'[t] \in {"idle", "return"}
             \/ pc'[t] \in {"sync", "await"} /\ op[t] \in {"sync", "synresolve"} /\ nest[t] = <<>>
      BY <1>5 DEF Exited, At, TypeOK
    <2>2. CASE pc'[t] \in {"idle", "return"}
      BY <1>1, <2>1, <2>2, QuietOutside
    <2>3. CASE pc'[t] \in {"sync", "await"} /\ op[t] \in {"sync", "synresolve"} /\ nest[t] = <<>>
      <3>1. t \notin Reintegrators
        BY <1>0, <2>3, ThreadAssumption DEF Shape
      <3>2. ~Active(t)' /\ t \notin In("RESOLVING")'
        BY <2>1, <2>3, <3>1 DEF Active, Reintegrates, In, InVolume
      <3> QED
        BY <1>1, <2>1, <2>3, <3>2 DEF Quiet
    <2> QED
      BY <2>1, <2>2, <2>3
  <1>6. CASE ResAwait(t)
    <2>1. pc[t] = "await" /\ pc'[t] = "idle" /\ nest'[t] = nest[t]
      BY <1>6 DEF ResAwait, At, TypeOK
    <2> QED
      BY <1>1, <2>1, QuietOutside
  <1>7. CASE SyncReturn(t)
    <2>1. /\ pc[t] = "return" /\ pc'[t] = Head(nest[t]) /\ nest'[t] = Tail(nest[t])
          /\ mode'[t] = mode[t] /\ op'[t] = op[t]
      BY <1>7 DEF SyncReturn, At, TypeOK, Woken
    <2>2. nest[t] # <<>>
      BY <1>0, <2>1 DEF Shape
    <2>3. /\ pc'[t] \in Returns
          /\ pc'[t] # "exited" => nest'[t] = <<>> /\ t \notin Reintegrators
      BY <1>0, <2>1, <2>2, PopShape
    <2>4. ~Active(t)' /\ t \notin In("RESOLVING")'
      BY <2>3 DEF Active, Reintegrates, In, InVolume, Returns
    <2> QED
      BY <1>1, <2>1, <2>3, <2>4 DEF Quiet, Returns
  <1> QED
    BY <1>2, <1>3, <1>4, <1>5, <1>6, <1>7

\* The steps of a resolver and of SyncCache that change no list.
LEMMA QuietWork ==
  ASSUME TypeOK, ShapeInv, NEW t \in Threads,
         ResolveStart(t) \/ SyncCache(t) \/ SyncEnd(t)
  PROVE  Quiet(t)
  <1>0. Shape(t)
    BY DEF ShapeInv
  <1>1. UNCHANGED <<state, cml, owner, reintegrating, mutator_count, res_list, cur, resblk,
                    readers, writer>>
    BY DEF ResolveStart, SyncCache, SyncEnd, volVars, logVars, countVars, resVars, lockVars
  <1>2. CASE ResolveStart(t)
    <2>1. /\ pc[t] = "resolve" /\ nest'[t] = nest[t]
          /\ \/ pc'[t] = "release" /\ cpu' = t
             \/ pc'[t] \in {"next", "release"} /\ state = "Resolving"
      BY <1>2 DEF ResolveStart, At, TypeOK, callVars
    <2>2. nest[t] = <<>> /\ t \notin Reintegrators
      BY <1>0, <2>1, ThreadAssumption DEF Shape, OuterPcs, ResolvePcs
    <2>3. ~Active(t)'
      BY <2>1, <2>2 DEF Active, Reintegrates
    <2> QED
      BY <1>1, <2>1, <2>3 DEF Quiet
  <1>3. CASE SyncCache(t)
    <2>1. /\ pc[t] \in {"sync", "syncwoken"} /\ pc'[t] \in {"syncwait", "syncloop"}
          /\ nest'[t] = nest[t]
      BY <1>3 DEF SyncCache, At, TypeOK, callVars
    <2>2. nest[t] = <<>> /\ t \notin Reintegrators
      BY <1>0, <2>1, ThreadAssumption DEF Shape, OuterPcs, CallPcs
    <2>3. ~Active(t)' /\ t \notin In("RESOLVING")'
      BY <2>1, <2>2 DEF Active, Reintegrates, In, InVolume
    <2> QED
      BY <1>1, <2>1, <2>3 DEF Quiet
  <1>4. CASE SyncEnd(t)
    <2>1. pc[t] = "syncloop" /\ pc'[t] = "idle" /\ nest'[t] = nest[t]
      BY <1>4 DEF SyncEnd, At, TypeOK
    <2> QED
      BY <1>1, <2>1, QuietOutside
  <1> QED
    BY <1>2, <1>3, <1>4

-----------------------------------------------------------------------------
(* Types, a group of variables at a time.                                  *)

VolType == /\ state \in {"Reachable", "Unreachable", "Resolving"}
           /\ transition_pending \in BOOLEAN /\ demotion_pending \in BOOLEAN
CountType == /\ mutator_count \in Nat /\ observer_count \in Nat /\ resolver_count \in Nat
             /\ shrd_count \in Nat /\ excl_count \in Nat
LogType == /\ cml \in Seq(Uids) /\ Len(cml) <= MaxCML /\ owner \in Uids \cup {UNSET_UID}
           /\ conflict \in BOOLEAN /\ reintegrating \in BOOLEAN /\ sync_reintegrate \in BOOLEAN
LockType == readers \subseteq Threads /\ writer \in Threads \cup {NoThread}
Resents == [fid : Fids, requeues : 0 .. MAX_REQUEUE]
ListType == /\ res_list \in Seq(Resents) /\ resblk \in [Users -> Fids \cup {NoFid}]
            /\ cur \in [fid : Fids \cup {NoFid}, requeues : 0 .. MAX_REQUEUE]
EnvType == /\ avsg \subseteq Servers /\ tokens \subseteq Uids
           /\ crashes \in 0 .. MaxCrashes /\ events \in 0 .. MaxEvents
Ops == {"none", "vfs", "sync", "synresolve"} \cup DaemonOps
CallType == /\ mode \in [Threads -> Modes] /\ op \in [Threads -> Ops]
            /\ u_vol \in [Threads -> BOOLEAN]
NestType == /\ nest \in [Threads -> Seq(Returns)]
            /\ \A t \in Threads : Len(nest[t]) <= MaxNest
PcType == pc \in [Threads -> Pcs] /\ cpu \in Threads \cup {NoThread}

\* TypeOK, group by group,
LEMMA TypeParts ==
  TypeOK <=> /\ VolType /\ CountType /\ LogType /\ LockType /\ ListType /\ EnvType /\ CallType
             /\ NestType /\ PcType
  BY DEF TypeOK, VolType, CountType, LogType, LockType, ListType, EnvType, CallType, NestType,
         PcType, Resents, Ops, Returns

\* and in the next state.
LEMMA TypeParts2 ==
  TypeOK' <=> /\ VolType' /\ CountType' /\ LogType' /\ LockType' /\ ListType' /\ EnvType'
              /\ CallType' /\ NestType' /\ PcType'
  BY DEF TypeOK, VolType, CountType, LogType, LockType, ListType, EnvType, CallType, NestType,
         PcType, Resents, Ops, Returns

\* A function with another value at one point.
LEMMA Updated ==
  ASSUME NEW S, NEW R, NEW f \in [S -> R], NEW x, NEW y \in R
  PROVE  [f EXCEPT ![x] = y] \in [S -> R]
  OBVIOUS

\* The volume's state and flags.
LEMMA VolTypeStep ==
  ASSUME VolType, NEW t \in Threads, Step(t) \/ Call(t) \/ Visit
  PROVE  VolType'
  <1>1. ASSUME NEW ret, TakeTransition(t, ret), demotion_pending' = demotion_pending
        PROVE  VolType'
    BY <1>1 DEF TakeTransition, NextState, VolType
  <1>2. CASE EnterTransition(t) \/ ExitTransition(t) \/ SyncTransition(t)
    BY <1>1, <1>2 DEF EnterTransition, ExitTransition, SyncTransition
  <1>3. CASE WaitForReintegration(t) \/ Dispatched(t) \/ StartReintegrate(t) \/ EnterDemote(t)
             \/ EnterCallBack(t) \/ EnterWait(t) \/ EnterWoken(t)
    BY <1>3 DEF WaitForReintegration, Dispatched, StartReintegrate, EnterDemote,
                EnterCallBack, EnterWait, EnterWoken, volVars, VolType
  <1>4. CASE EnterMutating(t) \/ EnterObserving(t) \/ EnterResolving(t) \/ LockGranted(t)
             \/ Mutate(t) \/ PurgeMLEs(t) \/ (\E f \in Fids : ResSubmit(t, f))
             \/ CheckPoint(t) \/ CheckPointed(t) \/ Observe(t) \/ EndVFS(t)
    BY <1>4 DEF EnterMutating, EnterObserving, EnterResolving, LockGranted, Mutate, PurgeMLEs,
                ResSubmit, CheckPoint, CheckPointed, Observe, EndVFS, volVars, VolType
  <1>5. CASE ExitMutating(t) \/ ExitObserving(t) \/ ExitResolving(t) \/ ExitSignal(t)
             \/ Exited(t) \/ ResAwait(t) \/ SyncReturn(t)
    BY <1>5 DEF ExitMutating, ExitObserving, ExitResolving, ExitSignal, Exited,
                ResAwait, SyncReturn, volVars, VolType
  <1>6. CASE ResolveStart(t) \/ ResolveNext(t) \/ ResolveReply(t) \/ ResolveEnd(t)
             \/ Reintegrate(t) \/ ReintegrateEnd(t) \/ SyncCache(t) \/ SyncEnd(t)
    BY <1>6 DEF ResolveStart, ResolveNext, ResolveReply, ResolveEnd, Reintegrate,
                ReintegrateEnd, SyncCache, SyncEnd, volVars, VolType
  <1>7. CASE Call(t) \/ Visit
    BY <1>7 DEF Call, BeginVFS, BeginSync, Visit, DaemonVisit, volVars, VolType
  <1> QED
    BY <1>2, <1>3, <1>4, <1>5, <1>6, <1>7 DEF Step

\* The log, its owner and its flags: Mutate appends only below the limit.
LEMMA LogTypeStep ==
  ASSUME TypeOK, NEW t \in Threads, Shape(t), Step(t) \/ Call(t) \/ Visit
  PROVE  LogType'
  <1>0. LogType
    BY TypeParts
  <1>1. CASE UNCHANGED logVars
    BY <1>0, <1>1 DEF logVars, LogType
  <1>2. CASE WaitForReintegration(t) \/ Dispatched(t) \/ EnterDemote(t) \/ EnterTransition(t)
             \/ EnterCallBack(t) \/ EnterWait(t) \/ EnterWoken(t)
             \/ EnterObserving(t) \/ EnterResolving(t) \/ (\E f \in Fids : ResSubmit(t, f))
             \/ CheckPoint(t) \/ CheckPointed(t) \/ Observe(t) \/ EndVFS(t)
    BY <1>1, <1>2 DEF WaitForReintegration, Dispatched, EnterDemote, EnterTransition,
                EnterCallBack, EnterWait, EnterWoken, EnterObserving, EnterResolving,
                ResSubmit, CheckPoint, CheckPointed, Observe, EndVFS
  <1>3. CASE ExitObserving(t) \/ ExitResolving(t) \/ ExitTransition(t) \/ ExitSignal(t)
             \/ Exited(t) \/ ResAwait(t) \/ SyncReturn(t)
             \/ ResolveStart(t) \/ ResolveNext(t) \/ ResolveReply(t) \/ ResolveEnd(t)
             \/ SyncTransition(t) \/ SyncEnd(t)
    BY <1>1, <1>3 DEF ExitObserving, ExitResolving, ExitTransition, ExitSignal, Exited,
                ResAwait, SyncReturn, ResolveStart, ResolveNext, ResolveReply, ResolveEnd,
                SyncTransition, SyncEnd
  <1>4. CASE Call(t) \/ Visit
    BY <1>1, <1>4 DEF Call, BeginVFS, BeginSync, Visit, DaemonVisit
  <1>5. CASE StartReintegrate(t) \/ LockGranted(t) \/ SyncCache(t)
    BY <1>0, <1>5 DEF StartReintegrate, LockGranted, SyncCache, LogType, logVars
  <1>6. CASE EnterMutating(t) \/ ExitMutating(t) \/ ReintegrateEnd(t)
    <2>1. EnterMutating(t) => UidOf[t] \in Uids
      BY UidAssumption DEF EnterMutating, CurMode, Shape
    <2> QED
      BY <1>0, <1>6, <2>1 DEF EnterMutating, ExitMutating, ReintegrateEnd, LogType
  <1>7. ASSUME cml' \in Seq(Uids), Len(cml') <= MaxCML, conflict' \in BOOLEAN,
               UNCHANGED <<owner, reintegrating, sync_reintegrate>>
        PROVE  LogType'
    BY <1>0, <1>7 DEF LogType
  <1>8. /\ cml \in Seq(Uids) /\ Len(cml) <= MaxCML /\ Len(cml) \in Nat /\ MaxCML \in Nat
        /\ conflict \in BOOLEAN
    <2>1. cml \in Seq(Uids) /\ Len(cml) <= MaxCML /\ conflict \in BOOLEAN /\ MaxCML \in Nat
      BY <1>0, BoundAssumption DEF LogType
    <2> QED
      BY SMTT(60), <2>1
  <1>9. CASE Mutate(t)
    <2>1. UidOf[t] \in Uids
      BY <1>9, UidAssumption DEF Mutate
    <2>2. CASE Len(cml) < MaxCML /\ cml' = Append(cml, UidOf[t])
      <3>1. cml' \in Seq(Uids) /\ Len(cml') <= MaxCML
        BY SMTT(60), <1>8, <2>1, <2>2
      <3> QED
        BY <1>7, <1>8, <1>9, <3>1 DEF Mutate
    <2>3. CASE Len(cml) > 0 /\ cml' = SubSeq(cml, 1, Len(cml) - 1)
      <3>1. cml' \in Seq(Uids) /\ Len(cml') <= MaxCML
        BY SMTT(60), <1>8, <2>3
      <3> QED
        BY <1>7, <1>8, <1>9, <3>1 DEF Mutate
    <2>4. CASE UNCHANGED cml
      BY <1>7, <1>8, <1>9, <2>4 DEF Mutate
    <2>5. Len(cml) > (IF \E r \in Threads : pc[r] = "work" THEN 1 ELSE 0) => Len(cml) > 0
      BY SMTT(60), <1>8
    <2> QED
      BY <1>9, <2>2, <2>3, <2>4, <2>5 DEF Mutate
  <1>10. CASE PurgeMLEs(t)
    <2>1. cml' \in Seq(Uids) /\ Len(cml') <= MaxCML
      BY SMTT(60), <1>8, <1>10 DEF PurgeMLEs
    <2> QED
      BY <1>7, <1>10, <2>1 DEF PurgeMLEs
  <1>11. CASE Reintegrate(t)
    <2>1. ASSUME NEW k \in 1 .. Len(cml), cml' = SubSeq(cml, k + 1, Len(cml))
          PROVE  cml' \in Seq(Uids) /\ Len(cml') <= MaxCML
      BY SMTT(60), <1>8, <2>1
    <2>2. cml' \in Seq(Uids) /\ Len(cml') <= MaxCML
      BY <1>8, <1>11, <2>1 DEF Reintegrate
    <2> QED
      BY <1>7, <1>8, <1>11, <2>2 DEF Reintegrate
  <1> QED
    BY <1>2, <1>3, <1>4, <1>5, <1>6, <1>9, <1>10, <1>11 DEF Step

\* The holders of CML_lock.
LEMMA LockTypeStep ==
  ASSUME LockType, NEW t \in Threads, Step(t) \/ Call(t) \/ Visit
  PROVE  LockType'
  <1>1. CASE UNCHANGED lockVars
    BY <1>1 DEF lockVars, LockType
  <1>2. CASE WaitForReintegration(t) \/ Dispatched(t) \/ StartReintegrate(t) \/ EnterDemote(t)
             \/ EnterTransition(t) \/ EnterCallBack(t) \/ EnterWait(t) \/ EnterWoken(t)
             \/ EnterObserving(t) \/ EnterResolving(t) \/ (\E f \in Fids : ResSubmit(t, f))
             \/ Mutate(t) \/ PurgeMLEs(t) \/ CheckPoint(t) \/ Observe(t) \/ EndVFS(t)
    BY <1>1, <1>2 DEF WaitForReintegration, Dispatched, StartReintegrate, EnterDemote,
                EnterTransition, EnterCallBack, EnterWait, EnterWoken, EnterObserving,
                EnterResolving, ResSubmit, Mutate, PurgeMLEs, CheckPoint, Observe, EndVFS
  <1>3. CASE ExitObserving(t) \/ ExitResolving(t) \/ ExitTransition(t) \/ ExitSignal(t)
             \/ Exited(t) \/ ResAwait(t) \/ SyncReturn(t)
             \/ ResolveStart(t) \/ ResolveNext(t) \/ ResolveReply(t) \/ ResolveEnd(t)
             \/ SyncCache(t) \/ SyncTransition(t) \/ SyncEnd(t)
    BY <1>1, <1>3 DEF ExitObserving, ExitResolving, ExitTransition, ExitSignal, Exited,
                ResAwait, SyncReturn, ResolveStart, ResolveNext, ResolveReply, ResolveEnd,
                SyncCache, SyncTransition, SyncEnd
  <1>4. CASE Call(t) \/ Visit
    BY <1>1, <1>4 DEF Call, BeginVFS, BeginSync, Visit, DaemonVisit
  <1>5. CASE EnterMutating(t) \/ LockGranted(t) \/ CheckPointed(t)
    BY <1>5 DEF EnterMutating, LockGranted, CheckPointed, LockType
  <1>6. CASE ExitMutating(t) \/ Reintegrate(t) \/ ReintegrateEnd(t)
    BY <1>6 DEF ExitMutating, Reintegrate, ReintegrateEnd, LockType
  <1> QED
    BY <1>2, <1>3, <1>4, <1>5, <1>6 DEF Step

\* What a thread has been called for.
LEMMA CallTypeStep ==
  ASSUME CallType, NEW t \in Threads, Step(t) \/ Call(t) \/ Visit
  PROVE  CallType'
  <1>1. CASE UNCHANGED <<mode, op, u_vol>>
    BY <1>1 DEF CallType
  <1>2. CASE UNCHANGED callVars
    BY <1>1, <1>2 DEF callVars
  <1>3. ASSUME Returned(t), \/ u_vol' = u_vol
                            \/ u_vol' = [u_vol EXCEPT ![t] = FALSE]
        PROVE  CallType'
    <2>1. "OBSERVING" \in Modes /\ "none" \in Ops
      BY DEF Modes, Ops
    <2>2. /\ [mode EXCEPT ![t] = "OBSERVING"] \in [Threads -> Modes]
          /\ [op EXCEPT ![t] = "none"] \in [Threads -> Ops]
      BY <2>1, Updated DEF CallType
    <2>3. [u_vol EXCEPT ![t] = FALSE] \in [Threads -> BOOLEAN]
      BY Updated DEF CallType
    <2> QED
      BY <1>3, <2>2, <2>3 DEF Returned, CallType
  <1>4. CASE WaitForReintegration(t) \/ Dispatched(t) \/ EnterDemote(t) \/ EnterTransition(t)
             \/ EnterCallBack(t) \/ EnterMutating(t)
             \/ EnterObserving(t) \/ EnterResolving(t) \/ LockGranted(t)
             \/ Mutate(t) \/ PurgeMLEs(t) \/ CheckPoint(t) \/ CheckPointed(t) \/ Observe(t)
    BY <1>1, <1>2, <1>4 DEF WaitForReintegration, Dispatched, EnterDemote,
                EnterTransition, EnterCallBack, EnterMutating, EnterObserving,
                EnterResolving, LockGranted, Mutate, PurgeMLEs, CheckPoint, CheckPointed, Observe
  <1>5. CASE ExitMutating(t) \/ ExitObserving(t) \/ ExitResolving(t) \/ ExitTransition(t)
             \/ ExitSignal(t) \/ SyncReturn(t)
             \/ ResolveStart(t) \/ ResolveNext(t) \/ ResolveReply(t) \/ ResolveEnd(t)
             \/ Reintegrate(t) \/ ReintegrateEnd(t) \/ SyncCache(t) \/ SyncTransition(t)
    BY <1>1, <1>2, <1>5 DEF ExitMutating, ExitObserving, ExitResolving, ExitTransition,
                ExitSignal, SyncReturn, ResolveStart, ResolveNext, ResolveReply, ResolveEnd,
                Reintegrate, ReintegrateEnd, SyncCache, SyncTransition
  <1>6. CASE EnterWait(t) \/ EnterWoken(t) \/ EndVFS(t) \/ Exited(t) \/ ResAwait(t) \/ SyncEnd(t)
    BY <1>3, <1>6 DEF EnterWait, EnterWoken, EndVFS, Exited, ResAwait, SyncEnd
  <1>7. CASE StartReintegrate(t)
    BY <1>7, Updated DEF StartReintegrate, CallType
  <1>8. ASSUME NEW f \in Fids, ResSubmit(t, f)
        PROVE  CallType'
    <2>1. "synresolve" \in Ops
      BY DEF Ops
    <2> QED
      BY <1>8, <2>1, Updated DEF ResSubmit, CallType
  <1>9. CASE Call(t)
    <2>1. "OBSERVING" \in Modes /\ "MUTATING" \in Modes /\ "vfs" \in Ops /\ "sync" \in Ops
      BY DEF Modes, Ops
    <2>2. \A m \in Modes : [mode EXCEPT ![t] = m] \in [Threads -> Modes]
      BY Updated DEF CallType
    <2>3. \A o \in Ops : [op EXCEPT ![t] = o] \in [Threads -> Ops]
      BY Updated DEF CallType
    <2>4. [u_vol EXCEPT ![t] = TRUE] \in [Threads -> BOOLEAN]
      BY Updated DEF CallType
    <2>5. ASSUME NEW m \in {"MUTATING", "OBSERVING"}, BeginVFS(t, m)
          PROVE  CallType'
      BY <2>1, <2>2, <2>3, <2>4, <2>5 DEF BeginVFS, CallType
    <2>6. CASE BeginSync(t)
      BY <2>1, <2>2, <2>3, <2>6 DEF BeginSync, CallType
    <2> QED
      BY <1>9, <2>5, <2>6 DEF Call
  <1>10. CASE Visit
    <2>1. \A o \in DaemonOps : o \in Ops
      BY DEF Ops
    <2>2. \A o \in Ops : [op EXCEPT ![Daemon] = o] \in [Threads -> Ops]
      BY Updated DEF CallType
    <2>3. PICK o \in DaemonOps : DaemonVisit(o)
      BY <1>10 DEF Visit
    <2> QED
      BY <2>1, <2>2, <2>3 DEF DaemonVisit, CallType
  <1> QED
    BY <1>4, <1>5, <1>6, <1>7, <1>8, <1>9, <1>10 DEF Step

\* The stacks of returns stay within their bound.
LEMMA NestTypeStep ==
  ASSUME NestType, NEW t \in Threads, Shape(t), Step(t) \/ Call(t) \/ Visit
  PROVE  NestType'
  <1>0. nest[t] \in Seq(Returns) /\ Len(nest[t]) <= MaxNest /\ MaxNest \in Nat
    BY BoundAssumption DEF NestType
  <1>1. CASE UNCHANGED nest
    BY <1>1 DEF NestType
  <1>2. CASE UNCHANGED callVars
    BY <1>1, <1>2 DEF callVars
  <1>3. ASSUME NEW s \in Seq(Returns), Len(s) <= MaxNest, nest' = [nest EXCEPT ![t] = s]
        PROVE  NestType'
    BY <1>3, Updated DEF NestType
  <1>4. ASSUME NEW ret \in Returns, TakeTransition(t, ret)
        PROVE  NestType'
    <2>1. CASE Len(nest[t]) < MaxNest /\ nest' = [nest EXCEPT ![t] = <<ret>> \o @]
      <3>1. <<ret>> \o nest[t] \in Seq(Returns) /\ Len(<<ret>> \o nest[t]) <= MaxNest
        BY SMTT(60), <1>0, <2>1
      <3>2. nest' = [nest EXCEPT ![t] = <<ret>> \o nest[t]]
        BY <2>1 DEF NestType
      <3> QED
        BY <1>3, <3>1, <3>2
    <2> QED
      BY <1>1, <1>4, <2>1 DEF TakeTransition
  <1>5. CASE EnterTransition(t) \/ ExitTransition(t) \/ SyncTransition(t)
    BY <1>4, <1>5 DEF EnterTransition, ExitTransition, SyncTransition, Returns
  <1>6. CASE SyncReturn(t)
    <2>1. nest[t] # <<>>
      BY <1>6 DEF SyncReturn, At, Shape
    <2>2. Tail(nest[t]) \in Seq(Returns) /\ Len(Tail(nest[t])) <= MaxNest
      BY SMTT(60), <1>0, <2>1
    <2>3. nest' = [nest EXCEPT ![t] = Tail(nest[t])]
      BY <1>6 DEF SyncReturn, NestType
    <2> QED
      BY <1>3, <2>2, <2>3
  <1>7. CASE WaitForReintegration(t) \/ Dispatched(t) \/ StartReintegrate(t) \/ EnterDemote(t)
             \/ EnterCallBack(t) \/ EnterWait(t) \/ EnterWoken(t) \/ EnterMutating(t)
             \/ EnterObserving(t) \/ EnterResolving(t) \/ LockGranted(t)
             \/ Mutate(t) \/ PurgeMLEs(t) \/ (\E f \in Fids : ResSubmit(t, f))
             \/ CheckPoint(t) \/ CheckPointed(t) \/ Observe(t) \/ EndVFS(t)
    BY <1>1, <1>2, <1>7 DEF WaitForReintegration, Dispatched, StartReintegrate, EnterDemote,
                EnterCallBack, EnterWait, EnterWoken, EnterMutating, EnterObserving,
                EnterResolving, LockGranted, Mutate, PurgeMLEs, ResSubmit, CheckPoint,
                CheckPointed, Observe, EndVFS
  <1>8. CASE ExitMutating(t) \/ ExitObserving(t) \/ ExitResolving(t)
             \/ ExitSignal(t) \/ Exited(t) \/ ResAwait(t)
             \/ ResolveStart(t) \/ ResolveNext(t) \/ ResolveReply(t) \/ ResolveEnd(t)
             \/ Reintegrate(t) \/ ReintegrateEnd(t) \/ SyncCache(t) \/ SyncEnd(t)
    BY <1>1, <1>2, <1>8 DEF ExitMutating, ExitObserving, ExitResolving,
                ExitSignal, Exited, ResAwait, ResolveStart, ResolveNext, ResolveReply,
                ResolveEnd, Reintegrate, ReintegrateEnd, SyncCache, SyncEnd
  <1>9. CASE Call(t) \/ Visit
    BY <1>1, <1>9 DEF Call, BeginVFS, BeginSync, Visit, DaemonVisit
  <1> QED
    BY <1>5, <1>6, <1>7, <1>8, <1>9 DEF Step

\* A thread is at a point of the code.
LEMMA PcTypeStep ==
  ASSUME PcType, NestType, NEW t \in Threads, Shape(t),
         Step(t) \/ Call(t) \/ (t = Daemon /\ Visit)
  PROVE  PcType'
  <1>0. pc \in [Threads -> Pcs] /\ Woken \in [Threads -> Pcs]
    BY DEF PcType, Woken, Pcs
  <1>1. ASSUME NEW p \in Pcs, \/ pc' = [pc EXCEPT ![t] = p]
                              \/ pc' = [Woken EXCEPT ![t] = p],
               cpu' \in {t, NoThread}
        PROVE  PcType'
    <2>1. \A f \in [Threads -> Pcs] : [f EXCEPT ![t] = p] \in [Threads -> Pcs]
      BY Updated
    <2>2. [pc EXCEPT ![t] = p] \in [Threads -> Pcs] /\ [Woken EXCEPT ![t] = p] \in [Threads -> Pcs]
      BY <1>0, <2>1
    <2>3. pc' \in [Threads -> Pcs]
      BY <1>1, <2>2
    <2>4. cpu' \in Threads \cup {NoThread}
      BY <1>1
    <2> QED
      BY <2>3, <2>4 DEF PcType
  <1>2. CASE pc' = pc /\ cpu' \in {t, NoThread, cpu}
    BY <1>2 DEF PcType
  <1>3. ASSUME NEW p \in Pcs, NEW r, NEW f \in [Threads -> Pcs], f \in {pc, Woken},
               pc' = [f EXCEPT ![t] = p, ![r] = "dispatched"], cpu' = t
        PROVE  PcType'
    <2>1. "dispatched" \in Pcs
      BY DEF Pcs
    <2> QED
      BY <1>3, <2>1, Updated DEF PcType
  <1>4. /\ \A p \in {"idle", "stall", "slow", "dispatched", "reint", "demote", "transition",
                     "admit", "wait", "woken", "rlock", "cmlock", "relock", "wlock", "inside"} : p \in Pcs
        /\ \A p \in {"done", "ckpt", "work", "reintend", "resolve", "next", "rpc", "release",
                     "exit", "leave", "exited", "return", "await", "sync", "syncwait",
                     "syncwoken", "syncloop"} : p \in Pcs
    BY DEF Pcs
  <1>5. Entered(t) \in Pcs
    BY <1>4 DEF Entered
  <1>6. \A p \in Pcs : Zone(p) \in Pcs
    BY <1>4 DEF Zone
  <1>7. ASSUME NEW ret \in Returns, TakeTransition(t, ret)
        PROVE  PcType'
    <2>1. ret \in Pcs
      BY <1>4, <1>7 DEF Returns
    <2> QED
      BY <1>0, <1>1, <1>3, <1>4, <1>7, <2>1 DEF TakeTransition
  <1>8. CASE EnterTransition(t) \/ ExitTransition(t) \/ SyncTransition(t)
    BY <1>7, <1>8 DEF EnterTransition, ExitTransition, SyncTransition, Returns
  <1>9. CASE WaitForReintegration(t) \/ Dispatched(t) \/ StartReintegrate(t) \/ EnterDemote(t)
    BY <1>1, <1>4, <1>6, <1>9 DEF WaitForReintegration, Dispatched, StartReintegrate, EnterDemote
  <1>10. CASE EnterCallBack(t) \/ EnterWait(t) \/ EnterWoken(t)
    BY <1>1, <1>2, <1>4, <1>10 DEF EnterCallBack, EnterWait, EnterWoken
  <1>11. CASE EnterMutating(t) \/ EnterObserving(t) \/ EnterResolving(t)
    BY <1>1, <1>2, <1>4, <1>5, <1>11 DEF EnterMutating, EnterObserving, EnterResolving
  <1>12. CASE LockGranted(t) \/ Mutate(t) \/ PurgeMLEs(t) \/ (\E f \in Fids : ResSubmit(t, f))
    BY <1>1, <1>4, <1>5, <1>12 DEF LockGranted, Mutate, PurgeMLEs, ResSubmit
  <1>13. CASE CheckPoint(t) \/ CheckPointed(t) \/ EndVFS(t)
    BY <1>1, <1>4, <1>13 DEF CheckPoint, CheckPointed, EndVFS
  <1>14. CASE Observe(t)
    BY <1>0, <1>1, <1>3, <1>4, <1>14 DEF Observe
  <1>15. CASE ExitMutating(t) \/ ExitObserving(t) \/ ExitResolving(t)
    BY <1>1, <1>2, <1>4, <1>15 DEF ExitMutating, ExitObserving, ExitResolving
  <1>16. CASE ExitSignal(t) \/ ResAwait(t) \/ SyncReturn(t)
    <2>1. SyncReturn(t) => Head(nest[t]) \in Returns
      <3>1. SyncReturn(t) => nest[t] # <<>>
        BY DEF SyncReturn, At, Shape
      <3>2. nest[t] \in Seq(Returns)
        BY DEF NestType
      <3>3. nest[t] # <<>> => Head(nest[t]) \in Returns
        BY SMTT(60), <3>2
      <3> QED
        BY <3>1, <3>3
    <2>2. \A p \in Returns : p \in Pcs
      BY <1>4 DEF Returns
    <2> QED
      BY <1>1, <1>4, <1>16, <2>1, <2>2 DEF ExitSignal, ResAwait, SyncReturn
  <1>17. CASE Exited(t)
    <2>1. \A u \in Threads : pc'[u] \in Pcs
      BY <1>0, <1>4, <1>17 DEF Exited
    <2>2. pc' = [u \in Threads |-> pc'[u]] /\ cpu' \in {t, NoThread}
      BY <1>17 DEF Exited
    <2> QED
      BY <2>1, <2>2 DEF PcType
  <1>18. CASE ResolveStart(t) \/ ResolveNext(t) \/ ResolveReply(t) \/ ResolveEnd(t)
    BY <1>1, <1>2, <1>4, <1>18 DEF ResolveStart, ResolveNext, ResolveReply, ResolveEnd
  <1>19. CASE Reintegrate(t) \/ ReintegrateEnd(t) \/ SyncCache(t) \/ SyncEnd(t)
    BY <1>1, <1>4, <1>19 DEF Reintegrate, ReintegrateEnd, SyncCache, SyncEnd
  <1>20. CASE Call(t)
    BY <1>1, <1>4, <1>6, <1>20 DEF Call, BeginVFS, BeginSync
  <1>21. CASE t = Daemon /\ Visit
    BY <1>1, <1>4, <1>21 DEF Visit, DaemonVisit
  <1> QED
    BY <1>8, <1>9, <1>10, <1>11, <1>12, <1>13, <1>14, <1>15, <1>16, <1>17, <1>18, <1>19,
       <1>20, <1>21 DEF Step

\* The state after a restart, and the initial one.
Fresh ==
  /\ state = "Reachable"
  /\ mutator_count = 0 /\ observer_count = 0 /\ resolver_count = 0
  /\ shrd_count = 0 /\ excl_count = 0
  /\ reintegrating = FALSE /\ sync_reintegrate = FALSE
  /\ readers = {} /\ writer = NoThread
  /\ res_list = <<>> /\ cur = NoResent
  /\ resblk = [t \in Users |-> NoFid]
  /\ pc = [t \in Threads |-> "idle"]
  /\ mode = [t \in Threads |-> IF t \in Resolvers THEN "RESOLVING" ELSE "OBSERVING"]
  /\ op = [t \in Threads |-> "none"]
  /\ nest = [t \in Threads |-> <<>>]
  /\ (\A i \in DOMAIN cml : cml[i] = owner) /\ (owner # UNSET_UID <=> cml # <<>>)

\* ResSubmit enters a resent with all its requeues.
LEMMA SubmittedType ==
  ASSUME ListType, NEW f \in Fids
  PROVE  Submitted(f) \in Seq(Resents)
  <1>1. res_list \in Seq(Resents) /\ MAX_REQUEUE \in Nat
    BY BoundAssumption DEF ListType
  <1>2. [fid |-> f, requeues |-> MAX_REQUEUE] \in Resents
    BY SMTT(60), <1>1 DEF Resents
  <1>3. Append(res_list, [fid |-> f, requeues |-> MAX_REQUEUE]) \in Seq(Resents)
    BY SMTT(60), <1>1, <1>2
  <1> QED
    BY <1>1, <1>3 DEF Submitted

\* The resents: a requeued one has a requeue less, and its parent is an object.
LEMMA ListTypeStep ==
  ASSUME ListType, WaitInv, NEW t \in Threads, Step(t) \/ Call(t) \/ Visit
  PROVE  ListType'
  <1>0. /\ res_list \in Seq(Resents) /\ resblk \in [Users -> Fids \cup {NoFid}]
        /\ cur \in [fid : Fids \cup {NoFid}, requeues : 0 .. MAX_REQUEUE] /\ MAX_REQUEUE \in Nat
    BY BoundAssumption DEF ListType
  <1>1. CASE UNCHANGED resVars
    BY <1>1 DEF resVars, ListType
  <1>2. \A S : Released(S) \in [Users -> Fids \cup {NoFid}]
    BY <1>0 DEF Released
  <1>3. NoResent \in [fid : Fids \cup {NoFid}, requeues : 0 .. MAX_REQUEUE]
    BY SMTT(60), <1>0 DEF NoResent
  <1>4. ASSUME NEW f \in Fids, ResSubmit(t, f)
        PROVE  ListType'
    <2>1. [resblk EXCEPT ![t] = f] \in [Users -> Fids \cup {NoFid}]
      BY <1>0, Updated
    <2>2. Submitted(f) \in Seq(Resents)
      BY SubmittedType
    <2> QED
      BY <1>0, <1>4, <2>1, <2>2 DEF ResSubmit, ListType
  <1>5. CASE ResolveNext(t)
    <2>0. res_list # <<>>
      BY <1>5 DEF ResolveNext
    <2>1. Tail(res_list) \in Seq(Resents) /\ Head(res_list) \in Resents
      BY SMTT(60), <1>0, <2>0
    <2>2. Head(res_list) \in [fid : Fids \cup {NoFid}, requeues : 0 .. MAX_REQUEUE]
      BY SMTT(60), <2>1 DEF Resents
    <2> QED
      BY <1>0, <1>2, <1>5, <2>1, <2>2 DEF ResolveNext, ListType
  <1>6. CASE ResolveReply(t)
    <2>0. cur.fid \in Fids
      BY <1>6 DEF ResolveReply, At, WaitInv
    <2>1. CASE resblk' = Released({cur.fid}) /\ res_list' = res_list
      BY <1>0, <1>2, <1>3, <1>6, <2>1 DEF ResolveReply, ListType
    <2>2. ASSUME NEW q \in Seq(Resents), NEW e \in Resents, res_list' = Append(q, e),
                 resblk' = resblk
          PROVE  ListType'
      <3>1. res_list' \in Seq(Resents)
        BY SMTT(60), <2>2
      <3> QED
        BY <1>0, <1>3, <1>6, <2>2, <3>1 DEF ResolveReply, ListType
    <2>3. ASSUME cur.requeues > 0, resblk' = resblk,
                 res_list' = Append(IF Parent[cur.fid] \in {NoFid, cur.fid} THEN res_list
                                    ELSE Submitted(Parent[cur.fid]),
                                    [cur EXCEPT !.requeues = IF Parent[cur.fid] \in {NoFid, cur.fid}
                                                             THEN 0 ELSE @ - 1])
          PROVE  ListType'
      <3>1. CASE Parent[cur.fid] \in {NoFid, cur.fid}
        <4> DEFINE e == [cur EXCEPT !.requeues = 0]
        <4>1. e \in Resents
          BY SMTT(60), <1>0, <2>0 DEF Resents
        <4>2. res_list' = Append(res_list, e)
          BY <2>3, <3>1
        <4> HIDE DEF e
        <4> QED
          BY <1>0, <2>2, <2>3, <4>1, <4>2
      <3>2. CASE Parent[cur.fid] \notin {NoFid, cur.fid}
        <4> DEFINE e == [cur EXCEPT !.requeues = cur.requeues - 1]
        <4>1. e \in Resents
          BY SMTT(60), <1>0, <2>0, <2>3 DEF Resents
        <4>2. res_list' = Append(Submitted(Parent[cur.fid]), e)
          BY <1>0, <2>3, <3>2
        <4>3. Submitted(Parent[cur.fid]) \in Seq(Resents)
          BY <2>0, <3>2, FidAssumption, SubmittedType
        <4> HIDE DEF e
        <4> QED
          BY <2>2, <2>3, <4>1, <4>2, <4>3
      <3> QED
        BY <3>1, <3>2
    <2> QED
      BY <1>6, <2>1, <2>3 DEF ResolveReply
  <1>7. CASE ResolveEnd(t)
    <2>1. <<>> \in Seq(Resents)
      BY SMTT(60)
    <2> QED
      BY <1>0, <1>2, <1>7, <2>1 DEF ResolveEnd, ListType
  <1>8. CASE WaitForReintegration(t) \/ Dispatched(t) \/ StartReintegrate(t) \/ EnterDemote(t)
             \/ EnterTransition(t) \/ EnterCallBack(t) \/ EnterWait(t) \/ EnterWoken(t)
             \/ EnterMutating(t) \/ EnterObserving(t) \/ EnterResolving(t) \/ LockGranted(t)
             \/ Mutate(t) \/ PurgeMLEs(t) \/ CheckPoint(t) \/ CheckPointed(t) \/ Observe(t)
             \/ EndVFS(t)
    BY <1>1, <1>8 DEF WaitForReintegration, Dispatched, StartReintegrate, EnterDemote,
                EnterTransition, EnterCallBack, EnterWait, EnterWoken, EnterMutating,
                EnterObserving, EnterResolving, LockGranted, Mutate, PurgeMLEs, CheckPoint,
                CheckPointed, Observe, EndVFS
  <1>9. CASE ExitMutating(t) \/ ExitObserving(t) \/ ExitResolving(t) \/ ExitTransition(t)
             \/ ExitSignal(t) \/ Exited(t) \/ ResAwait(t) \/ SyncReturn(t) \/ ResolveStart(t)
             \/ Reintegrate(t) \/ ReintegrateEnd(t) \/ SyncCache(t) \/ SyncTransition(t)
             \/ SyncEnd(t)
    BY <1>1, <1>9 DEF ExitMutating, ExitObserving, ExitResolving, ExitTransition,
                ExitSignal, Exited, ResAwait, SyncReturn, ResolveStart,
                Reintegrate, ReintegrateEnd, SyncCache, SyncTransition, SyncEnd
  <1>10. CASE Call(t) \/ Visit
    BY <1>1, <1>10 DEF Call, BeginVFS, BeginSync, Visit, DaemonVisit
  <1> QED
    BY <1>4, <1>5, <1>6, <1>7, <1>8, <1>9, <1>10 DEF Step

\* No thread changes the surroundings.
LEMMA EnvTypeStep ==
  ASSUME EnvType, NEW t \in Threads, Step(t) \/ Call(t) \/ Visit
  PROVE  EnvType'
  <1>1. CASE UNCHANGED envVars /\ UNCHANGED <<crashes, events>>
    BY <1>1 DEF envVars, EnvType
  <1>2. CASE WaitForReintegration(t) \/ Dispatched(t) \/ StartReintegrate(t) \/ EnterDemote(t)
             \/ EnterTransition(t) \/ EnterCallBack(t) \/ EnterWait(t) \/ EnterWoken(t)
             \/ EnterMutating(t) \/ EnterObserving(t) \/ EnterResolving(t) \/ LockGranted(t)
             \/ Mutate(t) \/ PurgeMLEs(t) \/ CheckPoint(t) \/ CheckPointed(t) \/ Observe(t)
             \/ EndVFS(t) \/ (\E f \in Fids : ResSubmit(t, f))
    BY <1>1, <1>2 DEF WaitForReintegration, Dispatched, StartReintegrate, EnterDemote,
                EnterTransition, EnterCallBack, EnterWait, EnterWoken, EnterMutating,
                EnterObserving, EnterResolving, LockGranted, Mutate, PurgeMLEs, CheckPoint,
                CheckPointed, Observe, EndVFS, ResSubmit
  <1>3. CASE ExitMutating(t) \/ ExitObserving(t) \/ ExitResolving(t) \/ ExitTransition(t)
             \/ ExitSignal(t) \/ Exited(t) \/ ResAwait(t) \/ SyncReturn(t) \/ ResolveStart(t)
             \/ ResolveNext(t) \/ ResolveReply(t) \/ ResolveEnd(t)
             \/ Reintegrate(t) \/ ReintegrateEnd(t) \/ SyncCache(t) \/ SyncTransition(t)
             \/ SyncEnd(t)
    BY <1>1, <1>3 DEF ExitMutating, ExitObserving, ExitResolving, ExitTransition,
                ExitSignal, Exited, ResAwait, SyncReturn, ResolveStart, ResolveNext,
                ResolveReply, ResolveEnd, Reintegrate, ReintegrateEnd, SyncCache,
                SyncTransition, SyncEnd
  <1>4. CASE Call(t) \/ Visit
    BY <1>1, <1>4 DEF Call, BeginVFS, BeginSync, Visit, DaemonVisit
  <1> QED
    BY <1>2, <1>3, <1>4 DEF Step

\* Events leave the threads and the log alone.
LEMMA EventType ==
  ASSUME TypeOK,
         \/ \E s \in Servers : DownMember(s) \/ UpMember(s)
         \/ \E u \in Uids : SetTokens(u) \/ TokensExpire(u)
         \/ Reconfigure
  PROVE  TypeOK'
  <1>0. VolType /\ EnvType /\ events \in Nat /\ MaxEvents \in Nat
    <2>1. VolType /\ EnvType /\ MaxEvents \in Nat
      BY TypeParts, BoundAssumption
    <2>2. events \in Nat
      BY SMTT(60), <2>1 DEF EnvType
    <2> QED
      BY <2>1, <2>2
  <1>1. Event
    BY DEF DownMember, UpMember, SetTokens, TokensExpire, Reconfigure
  <1>2. events' \in 0 .. MaxEvents
    <2>1. events < MaxEvents /\ events' = events + 1
      BY <1>1 DEF Event
    <2> QED
      BY SMTT(60), <1>0, <2>1
  <1>3. UNCHANGED <<countVars, logVars, lockVars, resVars, callVars, pc, cpu, crashes, state>>
    BY DEF DownMember, UpMember, SetTokens, TokensExpire, Reconfigure, volVars
  <1>4. VolType'
    BY <1>0 DEF DownMember, UpMember, SetTokens, TokensExpire, Reconfigure, volVars, VolType
  <1>5. EnvType'
    BY <1>0, <1>2 DEF DownMember, UpMember, SetTokens, TokensExpire, Reconfigure, envVars,
                      EnvType
  <1>6. CountType' /\ LogType'
    BY <1>3, TypeParts DEF CountType, LogType, countVars, logVars
  <1>7. LockType' /\ ListType'
    BY <1>3, TypeParts DEF LockType, ListType, lockVars, resVars
  <1>8. CallType' /\ NestType' /\ PcType'
    BY <1>3, TypeParts DEF CallType, NestType, PcType, callVars
  <1> QED
    BY <1>4, <1>5, <1>6, <1>7, <1>8, TypeParts2

\* The types of the variables a restart and Init set in the same way.
LEMMA FreshType ==
  ASSUME Fresh, cpu = NoThread
  PROVE  CountType /\ LockType /\ ListType /\ NestType /\ PcType
  <1>0. <<>> \in Seq(Resents) /\ <<>> \in Seq(Returns) /\ Len(<<>>) = 0
    BY SMTT(60)
  <1>1. CountType
    BY SMTT(60) DEF Fresh, CountType
  <1>2. LockType
    BY DEF Fresh, LockType
  <1>3. ListType
    <2>1. MAX_REQUEUE \in Nat
      BY BoundAssumption
    <2>2. NoResent \in [fid : Fids \cup {NoFid}, requeues : 0 .. MAX_REQUEUE]
      BY SMTT(60), <2>1 DEF NoResent
    <2> QED
      BY <1>0, <2>2 DEF Fresh, ListType
  <1>4. NestType
    <2>1. MaxNest \in Nat
      BY BoundAssumption
    <2>2. 0 <= MaxNest
      BY SMTT(60), <2>1
    <2> QED
      BY <1>0, <2>2 DEF Fresh, NestType
  <1>5. PcType
    BY DEF Fresh, PcType, Pcs
  <1> QED
    BY <1>1, <1>2, <1>3, <1>4, <1>5

\* After a restart no thread has been called.
LEMMA CallTypeFresh ==
  ASSUME mode = [t \in Threads |-> IF t \in Resolvers THEN "RESOLVING" ELSE "OBSERVING"],
         op = [t \in Threads |-> "none"], u_vol = [t \in Threads |-> FALSE]
  PROVE  CallType
  BY DEF CallType, Modes, Ops

\* Init is a fresh state.
LEMMA InitType == Init => Fresh /\ TypeOK
  <1> SUFFICES ASSUME Init PROVE Fresh /\ TypeOK
    OBVIOUS
  <1>0. cml = <<>> /\ cpu = NoThread
    BY DEF Init
  <1>1. DOMAIN cml = {} /\ cml \in Seq(Uids) /\ Len(cml) = 0
    BY SMTT(60), <1>0
  <1>2. Fresh
    BY <1>1 DEF Init, Fresh
  <1>3. CountType /\ LockType /\ ListType /\ NestType /\ PcType
    BY <1>0, <1>2, FreshType
  <1>4. VolType
    BY DEF Init, VolType
  <1>5. LogType
    <2>1. MaxCML \in Nat
      BY BoundAssumption
    <2>2. Len(cml) <= MaxCML
      BY SMTT(60), <1>1, <2>1
    <2> QED
      BY <1>1, <2>2 DEF Init, LogType
  <1>6. EnvType
    <2>1. MaxCrashes \in Nat /\ MaxEvents \in Nat
      BY BoundAssumption
    <2>2. 0 \in 0 .. MaxCrashes /\ 0 \in 0 .. MaxEvents
      BY SMTT(60), <2>1
    <2> QED
      BY <2>2 DEF Init, EnvType
  <1>7. CallType
    BY CallTypeFresh DEF Init
  <1> QED
    BY <1>2, <1>3, <1>4, <1>5, <1>6, <1>7, TypeParts

\* The primed form of FreshType, and the variables that only a restart keeps.
LEMMA RestartType ==
  ASSUME TypeOK, Fresh', owner' \in Uids \cup {UNSET_UID}, Restart
  PROVE  TypeOK'
  <1>0. LogType /\ EnvType
    BY TypeParts
  <1>1. cpu' = NoThread
    BY DEF Restart
  <1>2. (Fresh /\ cpu = NoThread => CountType /\ LockType /\ ListType /\ NestType /\ PcType)'
    BY FreshType, PTL
  <1>3. CountType' /\ LockType' /\ ListType' /\ NestType' /\ PcType'
    BY <1>1, <1>2
  <1>4. VolType'
    BY DEF Restart, VolType
  <1>5. LogType'
    BY <1>0 DEF Restart, LogType
  <1>6. EnvType'
    <2>1. crashes \in 0 .. MaxCrashes /\ crashes < MaxCrashes /\ crashes' = crashes + 1
      BY <1>0 DEF EnvType, Restart
    <2>2. MaxCrashes \in Nat
      BY BoundAssumption
    <2>3. crashes' \in 0 .. MaxCrashes
      BY SMTT(60), <2>1, <2>2
    <2> QED
      BY <1>0, <2>3 DEF Restart, EnvType
  <1>7. CallType'
    BY DEF Restart, CallType, Modes, Ops
  <1> QED
    BY <1>3, <1>4, <1>5, <1>6, <1>7, TypeParts2

=============================================================================
