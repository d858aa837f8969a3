---------------------------- MODULE VolumeProofs ----------------------------
(***************************************************************************)
(* Proofs about VolumeState, for any threads, uids, servers and objects,    *)
(* for synchronous and asynchronous volumes, and across crashes.            *)
(***************************************************************************)
EXTENDS VolumeSteps, FiniteSetTheorems

\* Leaves that cite no prover need no arithmetic and are left to Zenon.
USE Zenon

-----------------------------------------------------------------------------
(* Counting.                                                               *)

\* One more.
LEMMA CountAdd ==
  ASSUME NEW S, IsFiniteSet(S), NEW c \in Nat, Counts(c, S), NEW t, t \notin S
  PROVE  Counts(c + 1, S \cup {t})
  <1>1. Cardinality(S \cup {t}) = Cardinality(S) + 1
    BY FS_AddElement
  <1>2. Cardinality(S) \in Nat
    BY FS_CardinalityType
  <1> QED
    BY SMTT(60), <1>1, <1>2 DEF Counts

\* One less; there was one.
LEMMA CountRemove ==
  ASSUME NEW S, IsFiniteSet(S), NEW c \in Nat, Counts(c, S), NEW t \in S
  PROVE  c > 0 /\ Counts(c - 1, S \ {t})
  <1>1. Cardinality(S \ {t}) = Cardinality(S) - 1 /\ IsFiniteSet(S \ {t})
    BY FS_RemoveElement
  <1>2. Cardinality(S) \in Nat /\ Cardinality(S \ {t}) \in Nat
    BY <1>1, FS_CardinalityType
  <1> QED
    BY SMTT(60), <1>1, <1>2 DEF Counts

\* Fewer than are counted.
LEMMA CountFewer ==
  ASSUME NEW S, IsFiniteSet(S), NEW c \in Nat, Counts(c, S),
         NEW T \in SUBSET S, Async => T = S
  PROVE  Counts(c, T)
  <1>1. IsFiniteSet(T) /\ Cardinality(T) <= Cardinality(S)
    BY FS_Subset
  <1>2. Cardinality(S) \in Nat /\ Cardinality(T) \in Nat
    BY <1>1, FS_CardinalityType
  <1>3. Async => Cardinality(T) = c
    BY DEF Counts
  <1> QED
    BY SMTT(60), <1>1, <1>2, <1>3 DEF Counts

\* A count of 0 says that there is nobody.
LEMMA CountZero ==
  ASSUME NEW S, IsFiniteSet(S), Counts(0, S)
  PROVE  S = {}
  <1>1. Cardinality(S) \in Nat
    BY FS_CardinalityType
  <1>2. Cardinality(S) = 0
    BY SMTT(60), <1>1 DEF Counts
  <1> QED
    BY <1>2, FS_EmptySet

\* The sets that are counted are finite.
LEMMA InFinite == \A m : IsFiniteSet(In(m)) /\ In(m) \subseteq Threads
  <1> SUFFICES ASSUME NEW m PROVE IsFiniteSet(In(m)) /\ In(m) \subseteq Threads
    OBVIOUS
  <1>1. In(m) \subseteq Threads
    BY DEF In
  <1> QED
    BY <1>1, ThreadAssumption, FS_Subset

-----------------------------------------------------------------------------
(* The counts after a step.                                                *)

\* The others are in the volume as before.
LEMMA OthersStay ==
  ASSUME NEW t \in Threads, Others(t), NEW u \in Threads \ {t}
  PROVE  /\ InVolume(u)' <=> InVolume(u)
         /\ CurMode(u)' = CurMode(u)
  <1>1. PcMoved(u) /\ SameCall(u)
    BY DEF Others
  <1> QED
    BY <1>1 DEF PcMoved, SameCall, InVolume, CurMode

\* A step of t moves only t in or out,
LEMMA InOthers ==
  ASSUME NEW t \in Threads, Others(t), NEW m
  PROVE  \A u : u # t => (u \in In(m)' <=> u \in In(m))
  BY OthersStay DEF In

\* does not bring it in when it stays where it is,
LEMMA InStays ==
  ASSUME NEW t \in Threads, Others(t), Stays(t), NEW m
  PROVE  In(m)' \subseteq In(m) /\ (Async => In(m)' = In(m))
  <1>1. t \in In(m)' => t \in In(m)
    BY DEF In, Stays
  <1>2. ASSUME Async
        PROVE  t \in In(m) => t \in In(m)'
    BY <1>2 DEF In, Stays
  <1>3. \A u : u # t => (u \in In(m)' <=> u \in In(m))
    BY InOthers
  <1> QED
    BY SMTT(60), <1>1, <1>2, <1>3

\* adds it when it enters,
LEMMA InEnters ==
  ASSUME NEW t \in Threads, Others(t), NEW n, Enters(t, n), NEW m
  PROVE  /\ m = n => In(m)' = In(m) \cup {t} /\ t \notin In(m)
         /\ m # n => In(m)' = In(m)
  <1>1. t \notin In(m) /\ (t \in In(m)' <=> m = n)
    BY DEF In, Enters
  <1>2. \A u : u # t => (u \in In(m)' <=> u \in In(m))
    BY InOthers
  <1> QED
    BY SMTT(60), <1>1, <1>2

\* and takes it out when it leaves.
LEMMA InLeaves ==
  ASSUME NEW t \in Threads, Others(t), NEW n, Leaves(t, n), NEW m
  PROVE  /\ m = n => In(m)' = In(m) \ {t} /\ t \in In(m)
         /\ m # n => In(m)' = In(m)
  <1>1. t \notin In(m)' /\ (t \in In(m) <=> m = n)
    BY DEF In, Leaves
  <1>2. \A u : u # t => (u \in In(m)' <=> u \in In(m))
    BY InOthers
  <1> QED
    BY SMTT(60), <1>1, <1>2

\* The counts stay right.
LEMMA CountStep ==
  ASSUME TypeOK, CountInv, NEW t \in Threads, Others(t),
         Stays(t) \/ \E m \in Modes : Enters(t, m) \/ Leaves(t, m)
  PROVE  CountInv'
  <1>1. /\ mutator_count \in Nat /\ observer_count \in Nat /\ resolver_count \in Nat
        /\ shrd_count \in Nat /\ excl_count \in Nat
    BY DEF TypeOK
  <1>2. CASE Stays(t)
    <2>1. \A m \in Modes : In(m)' \subseteq In(m) /\ (Async => In(m)' = In(m))
      BY <1>2, InStays
    <2>2. UNCHANGED <<mutator_count, observer_count, resolver_count, shrd_count, excl_count>>
      BY <1>2 DEF Stays, countVars
    <2>3. Counts(mutator_count, In("MUTATING")')
      BY <1>1, <2>1, InFinite, CountFewer DEF CountInv, Modes
    <2>4. Counts(observer_count, In("OBSERVING")')
      BY <1>1, <2>1, InFinite, CountFewer DEF CountInv, Modes
    <2>5. Counts(resolver_count, In("RESOLVING")')
      BY <1>1, <2>1, InFinite, CountFewer DEF CountInv, Modes
    <2> QED
      BY <2>2, <2>3, <2>4, <2>5 DEF CountInv, Counts
  <1>3. ASSUME NEW n \in Modes, Enters(t, n)
        PROVE  CountInv'
    <2>1. \A m \in Modes : /\ m = n => In(m)' = In(m) \cup {t} /\ t \notin In(m)
                           /\ m # n => In(m)' = In(m)
      BY <1>3, InEnters
    <2>2. CASE n = "MUTATING"
      <3>1. Counts(mutator_count + 1, In("MUTATING")')
        <4>1. In("MUTATING")' = In("MUTATING") \cup {t} /\ t \notin In("MUTATING")
          BY <2>1, <2>2 DEF Modes
        <4>2. IsFiniteSet(In("MUTATING")) /\ Counts(mutator_count, In("MUTATING"))
          BY InFinite DEF CountInv
        <4> QED
          BY SMTT(60), <1>1, <4>1, <4>2, CountAdd
      <3>2. In("OBSERVING")' = In("OBSERVING") /\ In("RESOLVING")' = In("RESOLVING")
        BY <2>1, <2>2 DEF Modes
      <3>3. /\ mutator_count' = mutator_count + 1 /\ shrd_count' = shrd_count + 1
            /\ UNCHANGED <<observer_count, resolver_count, excl_count>>
        BY <1>3, <2>2 DEF Enters
      <3>4. shrd_count' = mutator_count' + observer_count'
        BY SMTT(60), <1>1, <3>3 DEF CountInv
      <3> QED
        BY <3>1, <3>2, <3>3, <3>4 DEF CountInv, Counts
    <2>3. CASE n = "OBSERVING"
      <3>1. Counts(observer_count + 1, In("OBSERVING")')
        <4>1. In("OBSERVING")' = In("OBSERVING") \cup {t} /\ t \notin In("OBSERVING")
          BY <2>1, <2>3 DEF Modes
        <4>2. IsFiniteSet(In("OBSERVING")) /\ Counts(observer_count, In("OBSERVING"))
          BY InFinite DEF CountInv
        <4> QED
          BY SMTT(60), <1>1, <4>1, <4>2, CountAdd
      <3>2. In("MUTATING")' = In("MUTATING") /\ In("RESOLVING")' = In("RESOLVING")
        BY <2>1, <2>3 DEF Modes
      <3>3. /\ observer_count' = observer_count + 1 /\ shrd_count' = shrd_count + 1
            /\ UNCHANGED <<mutator_count, resolver_count, excl_count>>
        BY <1>3, <2>3 DEF Enters
      <3>4. shrd_count' = mutator_count' + observer_count'
        BY SMTT(60), <1>1, <3>3 DEF CountInv
      <3> QED
        BY <3>1, <3>2, <3>3, <3>4 DEF CountInv, Counts
    <2>4. CASE n = "RESOLVING"
      <3>1. Counts(resolver_count + 1, In("RESOLVING")')
        <4>1. In("RESOLVING")' = In("RESOLVING") \cup {t} /\ t \notin In("RESOLVING")
          BY <2>1, <2>4 DEF Modes
        <4>2. IsFiniteSet(In("RESOLVING")) /\ Counts(resolver_count, In("RESOLVING"))
          BY InFinite DEF CountInv
        <4> QED
          BY SMTT(60), <1>1, <4>1, <4>2, CountAdd
      <3>2. In("MUTATING")' = In("MUTATING") /\ In("OBSERVING")' = In("OBSERVING")
        BY <2>1, <2>4 DEF Modes
      <3>3. /\ resolver_count' = resolver_count + 1 /\ excl_count' = excl_count + 1
            /\ UNCHANGED <<mutator_count, observer_count, shrd_count>>
        BY <1>3, <2>4 DEF Enters
      <3> QED
        BY <3>1, <3>2, <3>3 DEF CountInv, Counts
    <2> QED
      BY <2>2, <2>3, <2>4 DEF Modes
  <1>4. ASSUME NEW n \in Modes, Leaves(t, n)
        PROVE  CountInv'
    <2>1. \A m \in Modes : /\ m = n => In(m)' = In(m) \ {t} /\ t \in In(m)
                           /\ m # n => In(m)' = In(m)
      BY <1>4, InLeaves
    <2>2. CASE n = "MUTATING"
      <3>1. Counts(mutator_count - 1, In("MUTATING")')
        <4>1. In("MUTATING")' = In("MUTATING") \ {t} /\ t \in In("MUTATING")
          BY <2>1, <2>2 DEF Modes
        <4>2. IsFiniteSet(In("MUTATING")) /\ Counts(mutator_count, In("MUTATING"))
          BY InFinite DEF CountInv
        <4> QED
          BY SMTT(60), <1>1, <4>1, <4>2, CountRemove
      <3>2. In("OBSERVING")' = In("OBSERVING") /\ In("RESOLVING")' = In("RESOLVING")
        BY <2>1, <2>2 DEF Modes
      <3>3. /\ mutator_count' = mutator_count - 1 /\ shrd_count' = shrd_count - 1
            /\ UNCHANGED <<observer_count, resolver_count, excl_count>>
        BY <1>4, <2>2 DEF Leaves
      <3>4. shrd_count' = mutator_count' + observer_count'
        BY SMTT(60), <1>1, <3>3 DEF CountInv
      <3> QED
        BY <3>1, <3>2, <3>3, <3>4 DEF CountInv, Counts
    <2>3. CASE n = "OBSERVING"
      <3>1. Counts(observer_count - 1, In("OBSERVING")')
        <4>1. In("OBSERVING")' = In("OBSERVING") \ {t} /\ t \in In("OBSERVING")
          BY <2>1, <2>3 DEF Modes
        <4>2. IsFiniteSet(In("OBSERVING")) /\ Counts(observer_count, In("OBSERVING"))
          BY InFinite DEF CountInv
        <4> QED
          BY SMTT(60), <1>1, <4>1, <4>2, CountRemove
      <3>2. In("MUTATING")' = In("MUTATING") /\ In("RESOLVING")' = In("RESOLVING")
        BY <2>1, <2>3 DEF Modes
      <3>3. /\ observer_count' = observer_count - 1 /\ shrd_count' = shrd_count - 1
            /\ UNCHANGED <<mutator_count, resolver_count, excl_count>>
        BY <1>4, <2>3 DEF Leaves
      <3>4. shrd_count' = mutator_count' + observer_count'
        BY SMTT(60), <1>1, <3>3 DEF CountInv
      <3> QED
        BY <3>1, <3>2, <3>3, <3>4 DEF CountInv, Counts
    <2>4. CASE n = "RESOLVING"
      <3>1. Counts(resolver_count - 1, In("RESOLVING")')
        <4>1. In("RESOLVING")' = In("RESOLVING") \ {t} /\ t \in In("RESOLVING")
          BY <2>1, <2>4 DEF Modes
        <4>2. IsFiniteSet(In("RESOLVING")) /\ Counts(resolver_count, In("RESOLVING"))
          BY InFinite DEF CountInv
        <4> QED
          BY SMTT(60), <1>1, <4>1, <4>2, CountRemove
      <3>2. In("MUTATING")' = In("MUTATING") /\ In("OBSERVING")' = In("OBSERVING")
        BY <2>1, <2>4 DEF Modes
      <3>3. /\ resolver_count' = resolver_count - 1 /\ excl_count' = excl_count - 1
            /\ UNCHANGED <<mutator_count, observer_count, shrd_count>>
        BY <1>4, <2>4 DEF Leaves
      <3> QED
        BY <3>1, <3>2, <3>3 DEF CountInv, Counts
    <2> QED
      BY <2>2, <2>3, <2>4 DEF Modes
  <1> QED
    BY <1>2, <1>3, <1>4
-----------------------------------------------------------------------------
(* How the conjuncts of the invariant survive a step.                      *)

\* The shapes of all threads, given the one of t.
LEMMA ShapeStep ==
  ASSUME ShapeInv, NEW t \in Threads, Local(t)
  PROVE  ShapeInv'
  <1>1. ASSUME NEW u \in Threads
        PROVE  Shape(u)' /\ (Async => AsyncShape(u)')
    <2>1. CASE u = t
      BY <2>1 DEF Local
    <2>2. CASE u # t
      <3>1. PcMoved(u) /\ SameCall(u) /\ u_vol'[u] = u_vol[u] /\ Shape(u)
            /\ (Async => AsyncShape(u))
        BY <2>2 DEF Local, Others, ShapeInv
      <3>2. CASE pc'[u] = pc[u]
        BY <3>1, <3>2 DEF Shape, AsyncShape, SameCall, Reintegrates
      <3>3. CASE pc[u] = "wait" /\ pc'[u] = "woken"
        <4>1. Shape(u)'
          BY <3>1, <3>3, ShapeKept DEF FreePcs
        <4> QED
          BY <3>1, <3>3, <4>1 DEF AsyncShape, SameCall
      <3>4. CASE pc[u] = "idle" /\ pc'[u] = "dispatched" /\ u \in Resolvers \cup Reintegrators
        <4>1. nest[u] = <<>> /\ u \notin Users
          BY <3>1, <3>4, ThreadAssumption DEF Shape, OuterPcs
        <4>2. /\ pc'[u] \notin CallPcs /\ pc'[u] \notin ResolvePcs
              /\ pc'[u] \notin ReintPcs /\ pc'[u] \notin {"wlock", "ckpt"}
              /\ pc'[u] # "syncloop" /\ pc'[u] # "return" /\ pc'[u] # "rlock"
          BY <3>4 DEF CallPcs, ResolvePcs, ReintPcs
        <4> QED
          BY <3>1, <3>4, <4>1, <4>2 DEF Shape, AsyncShape, SameCall
      <3>5. CASE pc[u] = "syncwait" /\ pc'[u] = "syncwoken"
        <4>1. nest[u] = <<>> /\ u \in Users \cup {Daemon} /\ ~Async
          BY <3>1, <3>5 DEF Shape, AsyncShape, OuterPcs, CallPcs
        <4>2. /\ pc'[u] \notin ResolvePcs
              /\ pc'[u] \notin ReintPcs /\ pc'[u] \notin {"wlock", "ckpt"}
              /\ pc'[u] # "syncloop" /\ pc'[u] # "return" /\ pc'[u] # "rlock"
          BY <3>5 DEF ResolvePcs, ReintPcs
        <4> QED
          BY <3>1, <4>1, <4>2 DEF Shape, SameCall
      <3> QED
        BY <3>1, <3>2, <3>3, <3>4, <3>5 DEF PcMoved
    <2> QED
      BY <2>1, <2>2
  <1> QED
    BY <1>1 DEF ShapeInv, Local

\* Steps that do not start a reintegration.
LEMMA ReintStep ==
  ASSUME ReintInv, NEW t \in Threads, Others(t), cpu \in {NoThread, t},
         reintegrating' = reintegrating, Active(t)' => Active(t),
         pc'[t] = "reint" => cpu' = t /\ ~reintegrating' /\ cml' # <<>> /\ owner' # UNSET_UID
  PROVE  ReintInv'
  <1>1. ASSUME NEW u \in Threads \ {t}
        PROVE  (Active(u)' => Active(u)) /\ pc'[u] # "reint"
    <2>1. PcMoved(u) /\ SameCall(u) /\ u # NoThread
      BY ThreadAssumption DEF Others
    <2>2. pc[u] # "reint"
      BY <2>1 DEF ReintInv
    <2> QED
      BY <2>1, <2>2 DEF PcMoved, SameCall, Active, Reintegrates
  <1>2. \A u \in Threads : Active(u)' => Active(u)
    BY <1>1
  <1>3. \A u \in Threads : pc'[u] = "reint" => u = t
    BY <1>1
  <1> QED
    BY <1>2, <1>3 DEF ReintInv

\* Without active users nobody is in the volume.
LEMMA Nobody ==
  ASSUME TypeOK, CountInv, ~VOLBUSY
  PROVE  (\A m \in Modes : In(m) = {}) /\ \A u \in Threads : ~InVolume(u)
  <1>1. resolver_count = 0 /\ mutator_count = 0 /\ observer_count = 0
    BY DEF VOLBUSY
  <1>2. /\ Counts(0, In("MUTATING")) /\ Counts(0, In("OBSERVING"))
        /\ Counts(0, In("RESOLVING"))
    BY <1>1 DEF CountInv
  <1>3. In("MUTATING") = {} /\ In("OBSERVING") = {} /\ In("RESOLVING") = {}
    BY <1>2, InFinite, CountZero
  <1>4. \A m \in Modes : In(m) = {}
    BY <1>3 DEF Modes
  <1>5. \A u \in Threads : CurMode(u) \in Modes
    BY DEF TypeOK, CurMode, Modes
  <1> QED
    BY <1>4, <1>5 DEF In

\* Steps that keep the volume's state: who enters found no resolver, and a
\* resolver enters alone.
LEMMA ResStep ==
  ASSUME TypeOK, CountInv, ResInv, NEW t \in Threads, Local(t), cpu \in {NoThread, t},
         state' = state, t \in In("RESOLVING")' => state = "Resolving" \/ cpu' = t,
         pc'[t] \in {"next", "rpc"} => state = "Resolving"
  PROVE  ResInv'
  <1>0. Others(t)
    BY DEF Local
  <1>1. ASSUME NEW u \in In("RESOLVING"), u # t
        PROVE  state = "Resolving"
    BY <1>1, ThreadAssumption DEF ResInv, In
  <1>2. ASSUME NEW u \in Threads, pc'[u] \in {"next", "rpc"}
        PROVE  state' = "Resolving"
    <2>1. CASE u = t
      BY <1>2, <2>1
    <2>2. CASE u # t
      BY <1>0, <1>2, <2>2 DEF Others, PcMoved, ResInv
    <2> QED
      BY <2>1, <2>2
  <1>3. ASSUME NEW u \in In("RESOLVING")'
        PROVE  state' = "Resolving" \/ cpu' = u
    <2>1. CASE u = t
      BY <1>3, <2>1
    <2>2. CASE u # t
      BY <1>0, <1>1, <1>3, <2>2, InOthers
    <2> QED
      BY <2>1, <2>2
  <1> DEFINE Excl == /\ state = "Resolving" => In("MUTATING")' = {} /\ In("OBSERVING")' = {}
                     /\ \A r \in In("RESOLVING")' : \A u \in Threads : InVolume(u)' => u = r
  <1>4. ASSUME \A m \in Modes : In(m)' \subseteq In(m),
               \A u \in Threads : InVolume(u)' => InVolume(u)
        PROVE  Excl
    <2>1. /\ In("MUTATING")' \subseteq In("MUTATING")
          /\ In("OBSERVING")' \subseteq In("OBSERVING")
          /\ In("RESOLVING")' \subseteq In("RESOLVING")
      BY <1>4 DEF Modes
    <2> QED
      BY <1>4, <2>1 DEF ResInv
  <1>5. ASSUME Stays(t) \/ \E n \in Modes : Leaves(t, n)
        PROVE  Excl
    <2>1. \A m \in Modes : In(m)' \subseteq In(m)
      BY <1>0, <1>5, InStays, InLeaves
    <2>2. \A u \in Threads : InVolume(u)' => InVolume(u)
      BY <1>0, <1>5, OthersStay DEF Stays, Leaves
    <2> QED
      BY <1>4, <2>1, <2>2
  <1>6. ASSUME NEW n \in Modes, Enters(t, n), n # "RESOLVING"
        PROVE  Excl
    <2>1. state # "Resolving" /\ ~InVolume(t)
      BY <1>6 DEF Enters, Blocked
    <2>2. In("RESOLVING") = {}
      BY <1>1, <2>1 DEF In
    <2>3. In("RESOLVING")' = {}
      BY <1>0, <1>6, <2>2, InEnters
    <2> QED
      BY <2>1, <2>3
  <1>7. ASSUME Enters(t, "RESOLVING")
        PROVE  Excl
    <2>1. ~VOLBUSY
      BY <1>7 DEF Enters, Blocked
    <2>2. (\A m \in Modes : In(m) = {}) /\ \A u \in Threads : ~InVolume(u)
      BY <2>1, Nobody
    <2>3. In("MUTATING")' = {} /\ In("OBSERVING")' = {} /\ In("RESOLVING")' \subseteq {t}
      <3>1. /\ In("MUTATING") = {} /\ In("OBSERVING") = {} /\ In("RESOLVING") = {}
        BY <2>2 DEF Modes
      <3>2. \A m : /\ m = "RESOLVING" => In(m)' = In(m) \cup {t}
                   /\ m # "RESOLVING" => In(m)' = In(m)
        BY <1>0, <1>7, InEnters
      <3> QED
        BY <3>1, <3>2
    <2>4. \A u \in Threads : InVolume(u)' => u = t
      BY <1>0, <2>2, OthersStay
    <2> QED
      BY <2>3, <2>4
  <1>8. Excl
    BY <1>5, <1>6, <1>7 DEF Local
  <1> QED
    BY <1>2, <1>3, <1>8 DEF ResInv

\* Steps that do not touch the resents.
LEMMA WaitStep ==
  ASSUME WaitInv, NEW t \in Threads, Others(t), UNCHANGED <<res_list, cur, resblk>>,
         pc[t] # "rpc", pc'[t] # "rpc"
  PROVE  WaitInv'
  <1>1. \A u \in Threads : pc'[u] = "rpc" <=> pc[u] = "rpc"
    BY DEF Others, PcMoved
  <1> QED
    BY <1>1 DEF WaitInv, Queued

\* Steps after which whoever may change the log holds the read lock.
LEMMA LockStep ==
  ASSUME LockInv, NEW t \in Threads, Others(t), writer' # NoThread => readers' = {},
         \A u \in Threads \ {t} : u \in readers => u \in readers',
         Writes(t)' => t \in readers'
  PROVE  LockInv'
  <1>1. \A u \in Threads \ {t} : Writes(u)' => Writes(u)
    BY DEF Others, PcMoved, SameCall, Writes
  <1> QED
    BY <1>1 DEF LockInv

\* The mutators stay the same, or become fewer.
LEMMA MutatorsStay ==
  ASSUME TypeOK, NEW t \in Threads, Local(t), mutator_count' = mutator_count
  PROVE  In("MUTATING")' \subseteq In("MUTATING")
  <1>0. Others(t)
    BY DEF Local
  <1>1. ASSUME NEW n \in Modes, Enters(t, n)
        PROVE  In("MUTATING")' \subseteq In("MUTATING")
    <2>1. n # "MUTATING"
      <3>1. mutator_count \in Nat
        BY DEF TypeOK
      <3> QED
        BY SMTT(60), <1>1, <3>1 DEF Enters
    <2> QED
      BY <1>0, <1>1, <2>1, InEnters
  <1>2. ASSUME NEW n \in Modes, Leaves(t, n)
        PROVE  In("MUTATING")' \subseteq In("MUTATING")
    BY <1>0, <1>2, InLeaves
  <1>3. CASE Stays(t)
    BY <1>0, <1>3, InStays
  <1> QED
    BY <1>1, <1>2, <1>3 DEF Local

\* Steps that keep the log, its owner and the number of mutators.
LEMMA OwnerStep ==
  ASSUME TypeOK, OwnerInv, NEW t \in Threads, Local(t),
         UNCHANGED <<cml, owner, reintegrating, mutator_count>>
  PROVE  OwnerInv'
  BY MutatorsStay DEF OwnerInv

\* The rest of the invariant.
Rest == OwnerInv /\ ResInv /\ ReintInv /\ WaitInv /\ LockInv

\* A quiet step keeps the rest of the invariant.
LEMMA QuietRest ==
  ASSUME TypeOK, CountInv, Rest, NEW t \in Threads, Local(t), Quiet(t), cpu \in {NoThread, t}
  PROVE  Rest'
  <1>0. Others(t)
    BY DEF Local
  <1>1. OwnerInv'
    BY OwnerStep DEF Rest, Quiet
  <1>2. ResInv'
    BY ResStep DEF Rest, Quiet
  <1>3. ReintInv'
    BY <1>0, ReintStep DEF Rest, Quiet
  <1>4. WaitInv'
    BY <1>0, WaitStep DEF Rest, Quiet
  <1>5. LockInv'
    <2>1. ~Writes(t)'
      <3>1. pc'[t] = "inside" => nest'[t] = <<>>
        BY DEF Local, Shape, OuterPcs, CallPcs
      <3> QED
        BY <3>1 DEF Quiet, CurMode, Writes
    <2> QED
      BY <1>0, <2>1, LockStep DEF Rest, Quiet, LockInv
  <1> QED
    BY <1>1, <1>2, <1>3, <1>4, <1>5 DEF Rest

-----------------------------------------------------------------------------
(* The other steps.                                                        *)

\* The threads that resolve.
LEMMA ResolverPcs ==
  ASSUME NEW t \in Threads, Shape(t)', t \in In("RESOLVING")'
  PROVE  t \in Resolvers /\ pc'[t] \in ResolvePcs \cup {"exit"}
  <1>1. InVolume(t)' /\ CurMode(t)' = "RESOLVING"
    BY DEF In
  <1>2. nest'[t] = <<>> /\ mode'[t] = "RESOLVING"
    BY <1>1 DEF CurMode
  <1>3. t \in Resolvers /\ t \notin Users /\ t \notin Reintegrators /\ t # Daemon
    BY <1>2, ThreadAssumption DEF Shape
  <1>4. pc'[t] \notin CallPcs /\ pc'[t] \notin ReintPcs /\ pc'[t] \notin {"wlock", "ckpt"}
    BY <1>2, <1>3 DEF Shape, Reintegrates
  <1>5. pc'[t] \in ResolvePcs \cup {"exit"}
    BY <1>1, <1>4 DEF InVolume, CallPcs, ReintPcs, ResolvePcs
  <1> QED
    BY <1>3, <1>5

\* The actions that call TakeTransition.
LEMMA TransitionRest ==
  ASSUME TypeOK, ShapeInv, CountInv, Rest, NEW t \in Threads, Local(t),
         EnterTransition(t) \/ ExitTransition(t) \/ SyncTransition(t)
  PROVE  Rest'
  <1>0. Others(t) /\ Shape(t) /\ cpu \in {NoThread, t} /\ ~VOLBUSY
    BY DEF Local, ShapeInv, EnterTransition, ExitTransition, SyncTransition, At
  <1>1. PICK ret \in Returns : /\ TakeTransition(t, ret)
                            /\ \/ pc[t] = "transition" /\ ret = "transition"
                               \/ pc[t] = "leave" /\ ret = "exited"
                               \/ pc[t] = "syncloop" /\ ret = "syncloop"
    BY DEF EnterTransition, ExitTransition, SyncTransition, At, Returns
  <1>2. UNCHANGED <<cml, owner, reintegrating, mutator_count, res_list, cur, resblk, readers,
                    writer, mode>>
    BY DEF EnterTransition, ExitTransition, SyncTransition, logVars, countVars, resVars,
           lockVars
  <1>3. /\ cpu' = t
        /\ \/ pc'[t] = ret /\ nest'[t] = nest[t]
           \/ pc'[t] = "reint" /\ Ready(TRUE)
    BY <1>1, TransitionEffect
  <1>4. OwnerInv'
    BY <1>2, OwnerStep DEF Rest
  <1>5. ReintInv'
    <2>1. Active(t)' => Active(t)
      BY <1>1, <1>3 DEF Active, Reintegrates
    <2>2. pc'[t] = "reint" => cpu' = t /\ ~reintegrating' /\ cml' # <<>> /\ owner' # UNSET_UID
      <3>1. Ready(TRUE) => ~reintegrating /\ cml # <<>> /\ owner \in Uids
        BY DEF Ready, TypeOK
      <3> QED
        BY <1>1, <1>2, <1>3, <3>1, UidAssumption
    <2> QED
      BY <1>0, <1>2, <2>1, <2>2, ReintStep DEF Rest
  <1>6. ResInv'
    <2>1. \A u \in Threads : ~InVolume(u)
      BY <1>0, Nobody
    <2>2. \A u \in Threads : ~InVolume(u)'
      <3>1. ~InVolume(t)'
        BY <1>1, <1>3 DEF InVolume
      <3> QED
        BY <1>0, <2>1, <3>1, OthersStay
    <2>3. \A m : In(m)' = {}
      BY <2>2 DEF In
    <2>4. \A u \in Threads : pc'[u] \notin {"next", "rpc"}
      BY <2>2 DEF InVolume
    <2> QED
      BY <2>3, <2>4 DEF ResInv
  <1>7. WaitInv'
    <2>1. pc[t] # "rpc" /\ pc'[t] # "rpc"
      BY <1>1, <1>3
    <2> QED
      BY <1>0, <1>2, <2>1, WaitStep DEF Rest
  <1>8. LockInv'
    <2>1. ~Writes(t)'
      BY <1>1, <1>3 DEF Writes
    <2> QED
      BY <1>0, <1>2, <2>1, LockStep DEF Rest, LockInv
  <1> QED
    BY <1>4, <1>5, <1>6, <1>7, <1>8 DEF Rest

\* Reintegrate begins: no other is under way, and the log has an owner.
LEMMA StartReintegrateRest ==
  ASSUME TypeOK, ShapeInv, CountInv, Rest, NEW t \in Threads, Local(t), StartReintegrate(t)
  PROVE  Rest'
  <1>0. Others(t) /\ cpu \in {NoThread, t} /\ pc[t] = "reint" /\ pc'[t] = "demote"
    BY DEF Local, StartReintegrate, At, TypeOK
  <1>1. /\ UNCHANGED <<state, cml, owner, mutator_count, res_list, cur, resblk, readers,
                       writer, mode>>
        /\ reintegrating' = TRUE
    BY DEF StartReintegrate, volVars, countVars, resVars, lockVars
  <1>2. ~reintegrating /\ owner # UNSET_UID
    BY <1>0 DEF Rest, ReintInv
  <1>3. OwnerInv'
    BY <1>1, <1>2, MutatorsStay DEF Rest, OwnerInv
  <1>4. ReintInv'
    <2>1. \A u \in Threads \ {t} : ~Active(u)' /\ pc'[u] # "reint"
      <3>1. \A u \in Threads : ~Active(u)
        BY <1>2 DEF Rest, ReintInv
      <3>2. \A u \in Threads \ {t} : pc[u] # "reint"
        BY <1>0, ThreadAssumption DEF Rest, ReintInv
      <3> QED
        BY <1>0, <3>1, <3>2 DEF Others, PcMoved, SameCall, Active, Reintegrates
    <2> QED
      BY <1>0, <1>1, <2>1 DEF ReintInv
  <1>5. ResInv'
    <2>1. t \notin In("RESOLVING")' /\ pc'[t] \notin {"next", "rpc"}
      BY <1>0 DEF In, InVolume
    <2> QED
      BY <1>0, <1>1, <2>1, ResStep DEF Rest
  <1>6. WaitInv'
    <2>1. pc[t] # "rpc" /\ pc'[t] # "rpc"
      BY <1>0
    <2> QED
      BY <1>0, <1>1, <2>1, WaitStep DEF Rest
  <1>7. LockInv'
    <2>1. ~Writes(t)'
      BY <1>0 DEF Writes
    <2> QED
      BY <1>0, <1>1, <2>1, LockStep DEF Rest, LockInv
  <1> QED
    BY <1>3, <1>4, <1>5, <1>6, <1>7 DEF Rest

\* A step of a thread that does not reintegrate, as far as the reintegrations
\* and the resolutions are concerned.
LEMMA UserStep ==
  ASSUME TypeOK, ShapeInv, CountInv, Rest, NEW t \in Threads, Local(t), cpu \in {NoThread, t},
         UNCHANGED <<state, reintegrating>>, t \notin Reintegrators, t \notin Resolvers,
         nest'[t] = <<>>, pc'[t] # "reint"
  PROVE  ResInv' /\ ReintInv'
  <1>0. Others(t) /\ Shape(t)'
    BY DEF Local
  <1>1. ~Active(t)'
    BY DEF Active, Reintegrates
  <1>2. ReintInv'
    BY <1>0, <1>1, ReintStep DEF Rest
  <1>3. t \notin In("RESOLVING")'
    BY <1>0, ResolverPcs
  <1>4. pc'[t] \notin {"next", "rpc"}
    BY <1>0 DEF Shape, ResolvePcs
  <1>5. ResInv'
    BY <1>3, <1>4, ResStep DEF Rest
  <1> QED
    BY <1>2, <1>5

\* A mutator enters, or Enter would CHOKE; it does not.
LEMMA EnterMutatingRest ==
  ASSUME TypeOK, ShapeInv, CountInv, Rest, NEW t \in Threads, Local(t), EnterMutating(t)
  PROVE  Rest' /\ choked' = choked
  <1>0. /\ Others(t) /\ Shape(t) /\ cpu \in {NoThread, t} /\ pc[t] = "admit"
        /\ CurMode(t) = "MUTATING" /\ ~OwnedByOther(t)
        /\ UNCHANGED <<state, cml, reintegrating, res_list, cur, resblk, writer, nest>>
    BY DEF Local, ShapeInv, EnterMutating, At, volVars, resVars, callVars
  <1>1. nest[t] = <<>> /\ mode[t] = "MUTATING" /\ t \in Users
    BY <1>0 DEF CurMode, Shape
  <1>2. t \notin Reintegrators /\ t \notin Resolvers /\ Entered(t) = "inside" /\ UidOf[t] \in Uids
    BY <1>1, ThreadAssumption, UidAssumption DEF Entered
  <1>3. /\ owner' = UidOf[t] /\ mutator_count' = mutator_count + 1 /\ choked' = choked
        /\ \/ CanRead /\ readers' = readers \cup {t} /\ pc'[t] = "inside"
           \/ readers' = readers /\ pc'[t] = "rlock"
    <2>1. owner # UNSET_UID <=> mutator_count > 0 \/ cml # <<>> \/ reintegrating
      BY DEF Rest, OwnerInv
    <2>2. mutator_count \in Nat /\ reintegrating \in BOOLEAN
      BY DEF TypeOK
    <2>3. mutator_count # 0 <=> mutator_count > 0
      BY SMTT(60), <2>2
    <2>4. (mutator_count # 0 \/ cml # <<>> \/ reintegrating) = (owner # UNSET_UID)
      BY <2>1, <2>3
    <2> QED
      BY <1>2, <2>4 DEF EnterMutating, TypeOK
  <1>4. OwnerInv'
    <2>0. mutator_count \in Nat
      BY DEF TypeOK
    <2>1. mutator_count' > 0 /\ owner' # UNSET_UID
      BY SMTT(60), <1>2, <1>3, <2>0, UidAssumption
    <2>2. CASE owner = UidOf[t]
      <3>1. \A u \in In("MUTATING")' : u = t \/ u \in In("MUTATING")
        BY <1>0, InOthers
      <3> QED
        BY <1>0, <1>3, <2>1, <2>2, <3>1 DEF Rest, OwnerInv
    <2>3. CASE owner = UNSET_UID
      <3>1. ~(mutator_count > 0) /\ cml = <<>>
        BY <2>3 DEF Rest, OwnerInv
      <3>2. mutator_count = 0
        BY SMTT(60), <2>0, <3>1
      <3>3. In("MUTATING") = {}
        BY <3>2, InFinite, CountZero DEF CountInv
      <3>4. \A u \in In("MUTATING")' : u = t
        BY <1>0, <3>3, InOthers
      <3>5. DOMAIN cml' = {}
        BY SMTT(60), <1>0, <3>1
      <3> QED
        BY <1>3, <2>1, <3>4, <3>5 DEF OwnerInv
    <2> QED
      BY <1>0, <2>2, <2>3 DEF OwnedByOther
  <1>5. ResInv' /\ ReintInv'
    <2>1. pc'[t] # "reint" /\ nest'[t] = <<>>
      BY <1>0, <1>1, <1>3
    <2> QED
      BY <1>0, <1>2, <2>1, UserStep
  <1>6. WaitInv'
    <2>1. pc[t] # "rpc" /\ pc'[t] # "rpc"
      BY <1>0, <1>3
    <2> QED
      BY <1>0, <2>1, WaitStep DEF Rest
  <1>7. LockInv'
    <2>1. writer' # NoThread => readers' = {}
      BY <1>0, <1>3 DEF CanRead, Rest, LockInv
    <2>2. Writes(t)' => t \in readers'
      BY <1>3 DEF Writes
    <2> QED
      BY <1>0, <1>3, <2>1, <2>2, LockStep DEF Rest
  <1> QED
    BY <1>3, <1>4, <1>5, <1>6, <1>7 DEF Rest

\* A mutator leaves; the last one may give the log up.
LEMMA ExitMutatingRest ==
  ASSUME TypeOK, ShapeInv, CountInv, Rest, NEW t \in Threads, Local(t), ExitMutating(t)
  PROVE  Rest' /\ choked' = choked
  <1>0. /\ Others(t) /\ Shape(t) /\ cpu \in {NoThread, t} /\ pc[t] = "exit"
        /\ CurMode(t) = "MUTATING"
        /\ UNCHANGED <<state, cml, reintegrating, res_list, cur, resblk, writer, nest>>
    BY DEF Local, ShapeInv, ExitMutating, At, resVars, callVars
  <1>1. nest[t] = <<>> /\ t \in Users /\ t \in In("MUTATING")
    BY <1>0 DEF CurMode, Shape, In, InVolume
  <1>2. t \notin Reintegrators /\ t \notin Resolvers
    BY <1>1, ThreadAssumption
  <1>3. mutator_count \in Nat
    BY DEF TypeOK
  <1>4. mutator_count > 0 /\ Counts(mutator_count - 1, In("MUTATING") \ {t})
    BY <1>1, <1>3, InFinite, CountRemove DEF CountInv
  <1>5. state # "Resolving" /\ ~(mutator_count <= 0)
    BY SMTT(60), <1>1, <1>3, <1>4 DEF Rest, ResInv
  <1>6. /\ mutator_count' = mutator_count - 1 /\ choked' = choked /\ readers' = readers \ {t}
        /\ pc'[t] = "leave"
        /\ \/ /\ mutator_count = 1 /\ cml = <<>> /\ ~reintegrating /\ owner' = UNSET_UID
           \/ ~(mutator_count = 1 /\ cml = <<>> /\ ~reintegrating) /\ owner' = owner
    BY <1>5 DEF ExitMutating, TypeOK
  <1>7. OwnerInv'
    <2>1. \A u \in In("MUTATING")' : u # t /\ u \in In("MUTATING")
      <3>1. t \notin In("MUTATING")'
        BY <1>6 DEF In, InVolume
      <3> QED
        BY <1>0, <3>1, InOthers
    <2>2. CASE mutator_count = 1 /\ cml = <<>> /\ ~reintegrating /\ owner' = UNSET_UID
      <3>1. mutator_count - 1 = 0 /\ mutator_count' = 0 /\ ~(mutator_count' > 0)
        BY SMTT(60), <1>6, <2>2
      <3>2. In("MUTATING") \ {t} = {}
        <4>1. IsFiniteSet(In("MUTATING") \ {t})
          BY InFinite, FS_Subset
        <4> QED
          BY <1>4, <3>1, <4>1, CountZero
      <3>3. DOMAIN cml' = {}
        BY SMTT(60), <1>0, <2>2
      <3> QED
        BY <1>0, <2>1, <2>2, <3>1, <3>2, <3>3 DEF OwnerInv
    <2>3. CASE ~(mutator_count = 1 /\ cml = <<>> /\ ~reintegrating) /\ owner' = owner
      <3>1. (mutator_count > 0 \/ cml # <<>> \/ reintegrating)
            <=> (mutator_count' > 0 \/ cml' # <<>> \/ reintegrating')
        BY SMTT(60), <1>0, <1>3, <1>4, <1>6, <2>3
      <3> QED
        BY <1>0, <2>1, <2>3, <3>1 DEF Rest, OwnerInv
    <2> QED
      BY <1>6, <2>2, <2>3
  <1>8. ResInv' /\ ReintInv'
    <2>1. pc'[t] # "reint" /\ nest'[t] = <<>>
      BY <1>0, <1>1, <1>6
    <2> QED
      BY <1>0, <1>2, <2>1, UserStep
  <1>9. WaitInv'
    <2>1. pc[t] # "rpc" /\ pc'[t] # "rpc"
      BY <1>0, <1>6
    <2> QED
      BY <1>0, <2>1, WaitStep DEF Rest
  <1>10. LockInv'
    <2>1. writer' # NoThread => readers' = {}
      BY <1>0, <1>6 DEF Rest, LockInv
    <2>2. ~Writes(t)'
      BY <1>6 DEF Writes
    <2> QED
      BY <1>0, <1>6, <2>1, <2>2, LockStep DEF Rest
  <1> QED
    BY <1>6, <1>7, <1>8, <1>9, <1>10 DEF Rest

\* A thread that has changed the log, or CML_lock, leaves the resents alone.
LEMMA QuietWait ==
  ASSUME WaitInv, NEW t \in Threads, Others(t), UNCHANGED resVars, pc[t] # "rpc",
         pc'[t] # "rpc"
  PROVE  WaitInv'
  BY WaitStep DEF resVars

\* The owner of the log adds, cancels or purges records.
LEMMA MutateRest ==
  ASSUME TypeOK, ShapeInv, CountInv, Rest, NEW t \in Threads, Local(t),
         Mutate(t) \/ PurgeMLEs(t)
  PROVE  Rest'
  <1>0. /\ Others(t) /\ Shape(t) /\ cpu \in {NoThread, t} /\ pc[t] = "inside" /\ t \in Users
        /\ mode[t] = "MUTATING" /\ pc'[t] = "done"
        /\ UNCHANGED <<state, owner, reintegrating, mutator_count, readers, writer, nest>>
        /\ UNCHANGED resVars
    BY DEF Local, ShapeInv, Mutate, PurgeMLEs, At, TypeOK, volVars, countVars, lockVars, callVars
  <1>1. nest[t] = <<>> /\ nest'[t] = <<>> /\ t \notin Reintegrators /\ t \notin Resolvers
    BY <1>0, ThreadAssumption DEF Shape, OuterPcs, CallPcs
  <1>2. t \in In("MUTATING")
    BY <1>0, <1>1 DEF In, InVolume, CurMode
  <1>3. mutator_count \in Nat /\ mutator_count > 0 /\ UidOf[t] = owner
    <2>1. mutator_count \in Nat
      BY DEF TypeOK
    <2> QED
      BY <1>2, <2>1, InFinite, CountRemove DEF CountInv, Rest, OwnerInv
  <1>4. OwnerInv'
    <2>1. \A i \in DOMAIN cml' : cml'[i] = owner
      <3>0. cml \in Seq(Uids) /\ \A i \in DOMAIN cml : cml[i] = owner
        BY DEF TypeOK, Rest, OwnerInv
      <3>1. CASE cml' = Append(cml, UidOf[t])
        BY SMTT(60), <1>3, <3>0, <3>1
      <3>2. CASE Len(cml) > 0 /\ cml' = SubSeq(cml, 1, Len(cml) - 1)
        BY SMTT(60), <3>0, <3>2
      <3>3. CASE cml' = cml
        BY <3>0, <3>3
      <3>4. CASE cml' = <<>>
        BY SMTT(60), <3>4
      <3>5. Len(cml) > (IF \E r \in Threads : pc[r] = "work" THEN 1 ELSE 0) => Len(cml) > 0
        BY SMTT(60), <3>0
      <3> QED
        BY <3>1, <3>2, <3>3, <3>4, <3>5 DEF Mutate, PurgeMLEs
    <2>2. owner # UNSET_UID
      BY <1>3 DEF Rest, OwnerInv
    <2>3. In("MUTATING")' \subseteq In("MUTATING")
      BY <1>0, MutatorsStay
    <2> QED
      BY <1>0, <1>3, <2>1, <2>2, <2>3 DEF Rest, OwnerInv
  <1>5. ResInv' /\ ReintInv'
    <2>1. pc'[t] # "reint"
      BY <1>0
    <2> QED
      BY <1>0, <1>1, <2>1, UserStep
  <1>6. WaitInv'
    <2>1. pc[t] # "rpc" /\ pc'[t] # "rpc"
      BY <1>0
    <2> QED
      BY <1>0, <2>1, QuietWait DEF Rest
  <1>7. LockInv'
    <2>1. ~Writes(t)'
      BY <1>0 DEF Writes
    <2> QED
      BY <1>0, <2>1, LockStep DEF Rest, LockInv
  <1> QED
    BY <1>4, <1>5, <1>6, <1>7 DEF Rest

\* The resents of a list.
In_List(q, g) == \E i \in DOMAIN q : q[i].fid = g

\* Append keeps what is queued.
LEMMA Appended ==
  ASSUME NEW R, NEW q \in Seq(R), NEW e \in R, NEW g, In_List(q, g) \/ e.fid = g
  PROVE  In_List(Append(q, e), g)
  <1>1. Append(q, e) \in Seq(R) /\ Len(Append(q, e)) = Len(q) + 1 /\ Len(q) \in Nat
    BY SMTT(60)
  <1>2. DOMAIN q = 1 .. Len(q) /\ DOMAIN Append(q, e) = 1 .. Len(q) + 1
    BY SMTT(60), <1>1
  <1>3. ASSUME NEW i \in DOMAIN q, q[i].fid = g
        PROVE  In_List(Append(q, e), g)
    <2>1. i \in DOMAIN Append(q, e) /\ Append(q, e)[i] = q[i]
      BY SMTT(60), <1>1, <1>2
    <2> QED
      BY <1>3, <2>1 DEF In_List
  <1>4. CASE e.fid = g
    <2>1. Len(q) + 1 \in DOMAIN Append(q, e) /\ Append(q, e)[Len(q) + 1] = e
      BY SMTT(60), <1>1, <1>2
    <2> QED
      BY <1>4, <2>1 DEF In_List
  <1> QED
    BY <1>3, <1>4 DEF In_List

\* Tail loses the first, if any.
LEMMA Unqueued ==
  ASSUME NEW R, NEW q \in Seq(R), q # <<>>, NEW g, In_List(q, g)
  PROVE  Head(q).fid = g \/ In_List(Tail(q), g)
  <1>1. Tail(q) \in Seq(R) /\ Len(Tail(q)) = Len(q) - 1 /\ Len(q) \in Nat
    BY SMTT(60)
  <1>2. DOMAIN q = 1 .. Len(q) /\ DOMAIN Tail(q) = 1 .. Len(q) - 1
    BY SMTT(60), <1>1
  <1>3. PICK i \in DOMAIN q : q[i].fid = g
    BY DEF In_List
  <1>4. CASE i = 1
    <2>1. Head(q) = q[i]
      BY SMTT(60), <1>4
    <2> QED
      BY <1>3, <2>1
  <1>5. CASE i # 1
    <2>1. i - 1 \in DOMAIN Tail(q) /\ Tail(q)[i - 1] = q[i]
      BY SMTT(60), <1>1, <1>2, <1>5
    <2> QED
      BY <1>3, <2>1 DEF In_List
  <1> QED
    BY <1>4, <1>5

\* ResSubmit queues the object, and keeps what is queued.
LEMMA SubmittedQueued ==
  ASSUME TypeOK, NEW f \in Fids, NEW g, Queued(g) \/ g = f
  PROVE  In_List(Submitted(f), g) /\ Submitted(f) \in Seq([fid : Fids, requeues : 0 .. MAX_REQUEUE])
  <1> DEFINE R == [fid : Fids, requeues : 0 .. MAX_REQUEUE]
             e == [fid |-> f, requeues |-> MAX_REQUEUE]
  <1>1. res_list \in Seq(R)
    BY DEF TypeOK
  <1>2. e \in R /\ e.fid = f
    BY SMTT(60), BoundAssumption
  <1> HIDE DEF R, e
  <1>3. CASE Queued(f)
    BY <1>1, <1>3 DEF Submitted, Queued, In_List, R
  <1>4. CASE ~Queued(f)
    <2>1. Submitted(f) = Append(res_list, e)
      BY <1>4 DEF Submitted, e
    <2>2. In_List(res_list, g) \/ e.fid = g
      BY <1>2 DEF Queued, In_List
    <2>3. In_List(Append(res_list, e), g)
      BY <1>1, <1>2, <2>2, Appended
    <2>4. Append(res_list, e) \in Seq(R)
      BY SMTT(60), <1>1, <1>2
    <2> QED
      BY <2>1, <2>3, <2>4 DEF R
  <1> QED
    BY <1>3, <1>4

\* A call that found replicas that differ waits for the resent it queued.
LEMMA ResSubmitRest ==
  ASSUME TypeOK, ShapeInv, CountInv, Rest, NEW t \in Threads, Local(t),
         NEW f \in Fids, ResSubmit(t, f)
  PROVE  Rest'
  <1>0. /\ Others(t) /\ Shape(t) /\ cpu \in {NoThread, t} /\ pc[t] = "inside" /\ t \in Users
        /\ pc'[t] = "done"
        /\ UNCHANGED <<state, cml, owner, reintegrating, mutator_count, readers, writer, nest, cur>>
        /\ res_list' = Submitted(f) /\ resblk' = [resblk EXCEPT ![t] = f]
    BY DEF Local, ShapeInv, ResSubmit, At, TypeOK, logVars, countVars, lockVars
  <1>1. nest'[t] = <<>> /\ t \notin Reintegrators /\ t \notin Resolvers
    BY <1>0, ThreadAssumption DEF Shape, OuterPcs, CallPcs
  <1>2. OwnerInv'
    BY <1>0, OwnerStep DEF Rest
  <1>3. ResInv' /\ ReintInv'
    <2>1. pc'[t] # "reint"
      BY <1>0
    <2> QED
      BY <1>0, <1>1, <2>1, UserStep
  <1>4. WaitInv'
    <2>1. \A r \in Threads : pc'[r] = "rpc" <=> pc[r] = "rpc"
      BY <1>0 DEF Others, PcMoved
    <2>2. ASSUME NEW u \in Users, resblk'[u] # NoFid
          PROVE  In_List(res_list', resblk'[u]) \/ cur'.fid = resblk'[u]
      <3>1. \A g : Queued(g) \/ g = f => In_List(res_list', g)
        BY <1>0, SubmittedQueued
      <3>2. CASE u = t
        <4>1. resblk'[u] = f
          BY <1>0, <3>2 DEF TypeOK
        <4> QED
          BY <3>1, <4>1
      <3>3. CASE u # t
        <4>1. resblk'[u] = resblk[u]
          BY <1>0, <3>3 DEF TypeOK
        <4>2. Queued(resblk[u]) \/ cur.fid = resblk[u]
          BY <2>2, <4>1 DEF Rest, WaitInv
        <4> QED
          BY <1>0, <3>1, <4>1, <4>2
      <3> QED
        BY <3>2, <3>3
    <2> QED
      BY <1>0, <2>1, <2>2 DEF Rest, WaitInv, Queued, In_List
  <1>5. LockInv'
    <2>1. ~Writes(t)'
      BY <1>0 DEF Writes
    <2> QED
      BY <1>0, <2>1, LockStep DEF Rest, LockInv
  <1> QED
    BY <1>2, <1>3, <1>4, <1>5 DEF Rest

\* A step that takes or drops CML_lock and works on the volume in the same way.
LEMMA LockedStep ==
  ASSUME TypeOK, ShapeInv, CountInv, Rest, NEW t \in Threads, Local(t), cpu \in {NoThread, t},
         UNCHANGED <<state, reintegrating, nest>>, UNCHANGED resVars,
         pc[t] \in {"rlock", "cmlock", "relock", "wlock", "ckpt", "work"},
         pc'[t] \in {"inside", "done", "relock", "wlock", "ckpt", "work", "reintend"}
  PROVE  ResInv' /\ ReintInv' /\ WaitInv'
  <1>0. Others(t) /\ Shape(t)'
    BY DEF Local
  <1>1. Active(t)' => Active(t)
    BY DEF Active, Reintegrates
  <1>2. pc'[t] # "reint" /\ pc[t] # "rpc" /\ pc'[t] # "rpc"
    OBVIOUS
  <1>3. ReintInv'
    BY <1>0, <1>1, <1>2, ReintStep DEF Rest
  <1>4. t \notin In("RESOLVING")' /\ pc'[t] \notin {"next", "rpc"}
    BY <1>0, ResolverPcs DEF ResolvePcs
  <1>5. ResInv'
    BY <1>4, ResStep DEF Rest
  <1>6. WaitInv'
    BY <1>0, <1>2, QuietWait DEF Rest
  <1> QED
    BY <1>3, <1>5, <1>6

\* CML_lock is granted: a writer finds no readers.
LEMMA LockGrantedRest ==
  ASSUME TypeOK, ShapeInv, CountInv, Rest, NEW t \in Threads, Local(t),
         LockGranted(t) \/ CheckPointed(t)
  PROVE  Rest'
  <1>0. /\ Others(t) /\ Shape(t) /\ cpu \in {NoThread, t}
        /\ UNCHANGED <<state, cml, owner, reintegrating, mutator_count, nest>> /\ UNCHANGED resVars
    BY DEF Local, ShapeInv, LockGranted, CheckPointed, At, volVars, logVars, countVars, callVars
  <1>1. \/ pc[t] = "rlock" /\ pc'[t] = Entered(t) /\ writer' = NoThread
           /\ readers' = readers \cup {t}
        \/ pc[t] \in {"cmlock", "relock"} /\ pc'[t] \in {"work", "reintend"}
           /\ writer' = NoThread /\ readers' = readers \cup {t}
        \/ pc[t] = "wlock" /\ pc'[t] = "ckpt" /\ readers = {} /\ readers' = readers
        \/ pc[t] = "ckpt" /\ pc'[t] \in {"relock", "done"} /\ writer' = NoThread
           /\ readers' = readers
    BY DEF LockGranted, CheckPointed, At, CanWrite, TypeOK
  <1>2. pc[t] = "rlock" => Entered(t) = "inside"
    BY <1>0, ThreadAssumption DEF Shape, OuterPcs, CallPcs, Entered
  <1>3. OwnerInv'
    BY <1>0, OwnerStep DEF Rest
  <1>4. ResInv' /\ ReintInv' /\ WaitInv'
    <2>1. /\ pc[t] \in {"rlock", "cmlock", "relock", "wlock", "ckpt", "work"}
          /\ pc'[t] \in {"inside", "done", "relock", "wlock", "ckpt", "work", "reintend"}
      BY <1>1, <1>2
    <2> QED
      BY <1>0, <2>1, LockedStep
  <1>5. LockInv'
    <2>1. writer' # NoThread => readers' = {}
      BY <1>1
    <2>2. Writes(t)' => t \in readers'
      BY <1>1 DEF Writes
    <2>3. \A u \in Threads \ {t} : u \in readers => u \in readers'
      BY <1>1
    <2> QED
      BY <1>0, <2>1, <2>2, <2>3, LockStep DEF Rest
  <1> QED
    BY <1>3, <1>4, <1>5 DEF Rest

\* The reply to a Reintegrate RPC: what is left of the log stays its owner's.
LEMMA ReintegrateRest ==
  ASSUME TypeOK, ShapeInv, CountInv, Rest, NEW t \in Threads, Local(t), Reintegrate(t)
  PROVE  Rest'
  <1>0. /\ Others(t) /\ Shape(t) /\ cpu \in {NoThread, t} /\ pc[t] = "work"
        /\ UNCHANGED <<state, owner, reintegrating, mutator_count, writer, nest>>
        /\ UNCHANGED resVars
    BY DEF Local, ShapeInv, Reintegrate, At, volVars, countVars, callVars
  <1>1. \/ pc'[t] \in {"work", "reintend"} /\ readers' = readers
        \/ pc'[t] = "wlock" /\ readers' = readers \ {t}
    BY DEF Reintegrate, TypeOK
  <1>2. Active(t) /\ reintegrating /\ t \in readers
    <2>1. Active(t)
      BY <1>0 DEF Shape, ReintPcs, Active
    <2> QED
      BY <1>0, <2>1 DEF Rest, ReintInv, LockInv, Writes
  <1>3. OwnerInv'
    <2>1. \A i \in DOMAIN cml' : cml'[i] = owner
      <3>0. cml \in Seq(Uids) /\ \A i \in DOMAIN cml : cml[i] = owner
        BY DEF TypeOK, Rest, OwnerInv
      <3>1. ASSUME NEW k \in 1 .. Len(cml), cml' = SubSeq(cml, k + 1, Len(cml))
            PROVE  \A i \in DOMAIN cml' : cml'[i] = owner
        BY SMTT(60), <3>0, <3>1
      <3>2. CASE cml' = cml
        BY <3>0, <3>2
      <3> QED
        BY <3>1, <3>2 DEF Reintegrate
    <2>2. owner # UNSET_UID
      BY <1>2 DEF Rest, OwnerInv
    <2>3. In("MUTATING")' \subseteq In("MUTATING")
      BY <1>0, MutatorsStay
    <2> QED
      BY <1>0, <1>2, <2>1, <2>2, <2>3 DEF Rest, OwnerInv
  <1>4. ResInv' /\ ReintInv' /\ WaitInv'
    <2>1. /\ pc[t] \in {"rlock", "cmlock", "relock", "wlock", "ckpt", "work"}
          /\ pc'[t] \in {"inside", "done", "relock", "wlock", "ckpt", "work", "reintend"}
      BY <1>0, <1>1
    <2> QED
      BY <1>0, <2>1, LockedStep
  <1>5. LockInv'
    <2>1. writer' # NoThread => readers' = {}
      BY <1>0, <1>2 DEF Rest, LockInv
    <2>2. Writes(t)' => t \in readers'
      BY <1>1, <1>2 DEF Writes
    <2>3. \A u \in Threads \ {t} : u \in readers => u \in readers'
      BY <1>1
    <2> QED
      BY <1>0, <2>1, <2>2, <2>3, LockStep DEF Rest
  <1> QED
    BY <1>3, <1>4, <1>5 DEF Rest

\* A reintegration ends: nothing is active, and an empty log nobody writes to
\* loses its owner.
LEMMA ReintegrateEndRest ==
  ASSUME TypeOK, ShapeInv, CountInv, Rest, NEW t \in Threads, Local(t), ReintegrateEnd(t)
  PROVE  Rest'
  <1>0. /\ Others(t) /\ Shape(t) /\ cpu \in {NoThread, t} /\ pc[t] = "reintend"
        /\ pc'[t] = "exit" /\ cpu' = t /\ reintegrating' = FALSE /\ readers' = readers \ {t}
        /\ UNCHANGED <<state, cml, mutator_count, writer, nest>> /\ UNCHANGED resVars
        /\ owner' = IF cml = <<>> /\ mutator_count = 0 THEN UNSET_UID ELSE owner
    BY DEF Local, ShapeInv, ReintegrateEnd, At, TypeOK, volVars, countVars, callVars
  <1>1. Active(t) /\ reintegrating
    <2>1. Active(t)
      BY <1>0 DEF Shape, ReintPcs, Active
    <2> QED
      BY <2>1 DEF Rest, ReintInv
  <1>2. ReintInv'
    <2>1. \A u \in Threads \ {t} : ~Active(u)' /\ pc'[u] # "reint"
      <3>1. \A u \in Threads \ {t} : ~Active(u)
        BY <1>1 DEF Rest, ReintInv
      <3>2. \A u \in Threads \ {t} : pc[u] # "reint"
        BY <1>0, ThreadAssumption DEF Rest, ReintInv
      <3> QED
        BY <1>0, <3>1, <3>2 DEF Others, PcMoved, SameCall, Active, Reintegrates
    <2>2. ~Active(t)' /\ pc'[t] # "reint"
      BY <1>0 DEF Active
    <2>3. \A u \in Threads : ~Active(u)' /\ pc'[u] # "reint"
      BY <2>1, <2>2
    <2> QED
      BY <2>3 DEF ReintInv
  <1>3. OwnerInv'
    <2>0. mutator_count \in Nat /\ In("MUTATING")' \subseteq In("MUTATING")
      BY <1>0, MutatorsStay DEF TypeOK
    <2>1. CASE cml = <<>> /\ mutator_count = 0
      <3>1. In("MUTATING") = {}
        BY <2>1, InFinite, CountZero DEF CountInv
      <3>2. DOMAIN cml' = {} /\ ~(mutator_count' > 0)
        BY SMTT(60), <1>0, <2>1
      <3> QED
        BY <1>0, <2>0, <2>1, <3>1, <3>2 DEF OwnerInv
    <2>2. CASE ~(cml = <<>> /\ mutator_count = 0)
      <3>1. cml' # <<>> \/ mutator_count' > 0
        BY SMTT(60), <1>0, <2>0, <2>2
      <3> QED
        BY <1>0, <1>1, <2>0, <2>2, <3>1 DEF Rest, OwnerInv
    <2> QED
      BY <2>1, <2>2
  <1>4. ResInv'
    <2>1. pc'[t] \notin {"next", "rpc"}
      BY <1>0
    <2> QED
      BY <1>0, <2>1, ResStep DEF Rest
  <1>5. WaitInv'
    <2>1. pc[t] # "rpc" /\ pc'[t] # "rpc"
      BY <1>0
    <2> QED
      BY <1>0, <2>1, QuietWait DEF Rest
  <1>6. LockInv'
    <2>1. ~Writes(t)'
      BY <1>0 DEF Writes
    <2>2. writer' # NoThread => readers' = {}
      BY <1>0 DEF Rest, LockInv
    <2> QED
      BY <1>0, <2>1, <2>2, LockStep DEF Rest
  <1> QED
    BY <1>2, <1>3, <1>4, <1>5, <1>6 DEF Rest

\* A resolver is in the volume alone, so there is at most one at work.
LEMMA ResolverAlone ==
  ASSUME ShapeInv, ResInv, NEW t \in Threads, pc[t] \in {"next", "rpc", "release"}
  PROVE  /\ nest[t] = <<>> /\ t \notin Reintegrators
         /\ \A u \in Threads : pc[u] = "rpc" => u = t
  <1>1. t \in Resolvers /\ nest[t] = <<>> /\ mode[t] = "RESOLVING"
    BY DEF ShapeInv, Shape, OuterPcs, ResolvePcs
  <1>2. t \in In("RESOLVING")
    BY <1>1 DEF In, InVolume, CurMode
  <1> QED
    BY <1>1, <1>2, ThreadAssumption DEF ResInv, InVolume

\* The part of the invariant that does not depend on the resents.
LEMMA ResolveStep ==
  ASSUME TypeOK, ShapeInv, CountInv, Rest, NEW t \in Threads, Local(t),
         ResolveNext(t) \/ ResolveReply(t) \/ ResolveEnd(t)
  PROVE  OwnerInv' /\ ResInv' /\ ReintInv' /\ LockInv'
  <1>0. /\ Others(t) /\ cpu \in {NoThread, t} /\ pc[t] \in {"next", "rpc", "release"}
        /\ UNCHANGED <<state, cml, owner, reintegrating, mutator_count, readers, writer, nest>>
        /\ \/ pc[t] \in {"next", "rpc"} /\ pc'[t] \in {"next", "rpc"}
           \/ pc'[t] = "exit" /\ cpu' = t
    BY DEF Local, ResolveNext, ResolveReply, ResolveEnd, At, TypeOK, volVars, countVars,
           logVars, lockVars, callVars
  <1>1. OwnerInv'
    BY <1>0, OwnerStep DEF Rest
  <1>2. ResInv'
    <2>1. pc[t] \in {"next", "rpc"} => state = "Resolving"
      BY DEF Rest, ResInv
    <2>2. /\ t \in In("RESOLVING")' => state = "Resolving" \/ cpu' = t
          /\ pc'[t] \in {"next", "rpc"} => state = "Resolving"
      BY <1>0, <2>1
    <2> QED
      BY <1>0, <2>2, ResStep DEF Rest
  <1>3. ReintInv'
    <2>1. ~Active(t)'
      BY <1>0, ResolverAlone DEF Rest, Active, Reintegrates
    <2>2. pc'[t] # "reint"
      BY <1>0
    <2> QED
      BY <1>0, <2>1, <2>2, ReintStep DEF Rest
  <1>4. LockInv'
    <2>1. ~Writes(t)'
      BY <1>0 DEF Writes
    <2> QED
      BY <1>0, <2>1, LockStep DEF Rest, LockInv
  <1> QED
    BY <1>1, <1>2, <1>3, <1>4

\* The resolver gives the next resent its result, or works on it.
LEMMA ResolveNextWait ==
  ASSUME TypeOK, ShapeInv, Rest, NEW t \in Threads, Local(t), ResolveNext(t)
  PROVE  WaitInv'
  <1> DEFINE R == [fid : Fids, requeues : 0 .. MAX_REQUEUE]
  <1>0. /\ Others(t) /\ pc[t] = "next" /\ res_list \in Seq(R) /\ res_list # <<>>
        /\ res_list' = Tail(res_list)
    BY DEF Local, ResolveNext, At, TypeOK
  <1>1. \A u \in Threads : pc[u] # "rpc"
    BY <1>0, ResolverAlone DEF Rest
  <1>2. cur.fid = NoFid
    BY <1>1 DEF Rest, WaitInv
  <1>3. \A u \in Threads \ {t} : pc'[u] # "rpc"
    BY <1>0, <1>1 DEF Others, PcMoved
  <1>4. \A u \in Users : resblk[u] # NoFid => In_List(res_list, resblk[u])
    BY <1>2 DEF Rest, WaitInv, Queued, In_List
  <1> HIDE DEF R
  <1>5. \A u \in Users : resblk[u] # NoFid =>
          Head(res_list).fid = resblk[u] \/ In_List(res_list', resblk[u])
    BY <1>0, <1>4, Unqueued
  <1>6. CASE resblk' = Released({Head(res_list).fid}) /\ pc' = pc /\ cur' = cur
    <2>1. \A u \in Users : resblk'[u] # NoFid => In_List(res_list', resblk'[u])
      BY <1>5, <1>6 DEF Released
    <2> QED
      BY <1>1, <1>2, <1>6, <2>1 DEF WaitInv, Queued, In_List
  <1>7. CASE cur' = Head(res_list) /\ pc' = [pc EXCEPT ![t] = "rpc"] /\ resblk' = resblk
    <2>1. pc'[t] = "rpc"
      BY <1>7 DEF TypeOK
    <2>2. Head(res_list) \in R
      BY SMTT(60), <1>0
    <2>3. cur'.fid \in Fids
      BY <1>7, <2>2 DEF R
    <2> QED
      BY <1>5, <1>7, <2>1, <2>3 DEF WaitInv, Queued, In_List
  <1> QED
    BY <1>6, <1>7 DEF ResolveNext

\* The resent has its result, or is queued again.
LEMMA ResolveReplyWait ==
  ASSUME TypeOK, ShapeInv, Rest, NEW t \in Threads, Local(t), ResolveReply(t)
  PROVE  WaitInv'
  <1> DEFINE R == [fid : Fids, requeues : 0 .. MAX_REQUEUE]
  <1>0. /\ Others(t) /\ pc[t] = "rpc" /\ pc'[t] = "next" /\ cur' = NoResent
        /\ res_list \in Seq(R) /\ cur \in [fid : Fids \cup {NoFid}, requeues : 0 .. MAX_REQUEUE]
    BY DEF Local, ResolveReply, At, TypeOK
  <1>1. cur.fid \in Fids /\ cur'.fid = NoFid
    BY <1>0 DEF Rest, WaitInv, NoResent
  <1>2. \A u \in Threads : pc'[u] # "rpc"
    <2>1. \A u \in Threads \ {t} : pc[u] # "rpc"
      BY <1>0, ResolverAlone DEF Rest
    <2> QED
      BY <1>0, <2>1 DEF Others, PcMoved
  <1>3. \A u \in Users : resblk[u] # NoFid => In_List(res_list, resblk[u]) \/ cur.fid = resblk[u]
    BY DEF Rest, WaitInv, Queued, In_List
  <1>4. CASE resblk' = Released({cur.fid}) /\ res_list' = res_list
    <2>1. \A u \in Users : resblk'[u] # NoFid => In_List(res_list', resblk'[u])
      BY <1>3, <1>4 DEF Released
    <2> QED
      BY <1>1, <1>2, <2>1 DEF WaitInv, Queued, In_List
  <1>5. ASSUME NEW q \in Seq(R), NEW e \in R, e.fid = cur.fid, resblk' = resblk,
               res_list' = Append(q, e), \A g : In_List(res_list, g) => In_List(q, g)
        PROVE  WaitInv'
    <2> HIDE DEF R
    <2>1. ASSUME NEW u \in Users, resblk'[u] # NoFid
          PROVE  In_List(res_list', resblk'[u])
      <3>1. In_List(q, resblk[u]) \/ e.fid = resblk[u]
        BY <1>3, <1>5, <2>1
      <3>2. In_List(Append(q, e), resblk[u])
        BY <3>1, Appended
      <3> QED
        BY <1>5, <3>2
    <2> QED
      BY <1>1, <1>2, <2>1 DEF WaitInv, Queued, In_List
  <1>6. ASSUME cur.requeues > 0, resblk' = resblk,
               res_list' = Append(IF Parent[cur.fid] \in {NoFid, cur.fid} THEN res_list
                                  ELSE Submitted(Parent[cur.fid]),
                                  [cur EXCEPT !.requeues = IF Parent[cur.fid] \in {NoFid, cur.fid}
                                                           THEN 0 ELSE @ - 1])
        PROVE  WaitInv'
    <2>1. CASE Parent[cur.fid] \in {NoFid, cur.fid}
      <3> DEFINE e == [cur EXCEPT !.requeues = 0]
      <3>1. e \in R /\ e.fid = cur.fid
        BY SMTT(60), <1>0, <1>1, BoundAssumption
      <3>2. res_list' = Append(res_list, e)
        BY <1>6, <2>1
      <3> HIDE DEF e, R
      <3> QED
        BY <1>0, <1>5, <1>6, <3>1, <3>2
    <2>2. CASE Parent[cur.fid] \notin {NoFid, cur.fid}
      <3> DEFINE e == [cur EXCEPT !.requeues = cur.requeues - 1]
                 p == Parent[cur.fid]
      <3>1. e \in R /\ e.fid = cur.fid
        BY SMTT(60), <1>0, <1>1, <1>6, BoundAssumption
      <3>2. res_list' = Append(Submitted(p), e)
        BY <1>0, <1>6, <2>2
      <3>3. p \in Fids
        BY <1>1, <2>2, FidAssumption
      <3>4. /\ Submitted(p) \in Seq(R)
            /\ \A g : In_List(res_list, g) => In_List(Submitted(p), g)
        <4> HIDE DEF p
        <4> QED
          BY <3>3, SubmittedQueued DEF Queued, In_List
      <3> HIDE DEF e, R, p
      <3> QED
        BY <1>5, <1>6, <3>1, <3>2, <3>4
    <2> QED
      BY <2>1, <2>2
  <1> QED
    BY <1>4, <1>6 DEF ResolveReply

\* Every resent that is left gets a result.
LEMMA ResolveEndWait ==
  ASSUME TypeOK, ShapeInv, Rest, NEW t \in Threads, Local(t), ResolveEnd(t)
  PROVE  WaitInv'
  <1>0. /\ Others(t) /\ pc[t] \in {"next", "release"} /\ pc'[t] = "exit" /\ cur' = cur
        /\ resblk' = Released({res_list[i].fid : i \in DOMAIN res_list})
    BY DEF Local, ResolveEnd, At, TypeOK
  <1>1. \A u \in Threads : pc[u] # "rpc"
    BY <1>0, ResolverAlone DEF Rest
  <1>2. \A u \in Threads : pc'[u] # "rpc"
    BY <1>0, <1>1 DEF Others, PcMoved
  <1>3. cur.fid = NoFid
    BY <1>1 DEF Rest, WaitInv
  <1>4. \A u \in Users : resblk[u] # NoFid => resblk[u] \in {res_list[i].fid : i \in DOMAIN res_list}
    BY <1>3 DEF Rest, WaitInv, Queued
  <1>5. \A u \in Users : resblk'[u] = NoFid
    BY <1>0, <1>4 DEF Released
  <1> QED
    BY <1>0, <1>2, <1>3, <1>5 DEF WaitInv

\* The steps of Resolve together.
LEMMA ResolveRest ==
  ASSUME TypeOK, ShapeInv, CountInv, Rest, NEW t \in Threads, Local(t),
         ResolveNext(t) \/ ResolveReply(t) \/ ResolveEnd(t)
  PROVE  Rest'
  BY ResolveStep, ResolveNextWait, ResolveReplyWait, ResolveEndWait DEF Rest

-----------------------------------------------------------------------------
(* All steps.                                                              *)

\* Threads, calls and daemon visits do nothing but local steps,
LEMMA StepLocal ==
  ASSUME TypeOK, ShapeInv, ReintInv, NEW t \in Threads,
         Step(t) \/ (t \in Users /\ Call(t)) \/ (t = Daemon /\ Visit)
  PROVE  Local(t)
  BY CallLocal, VisitLocal, StartLocal, TransitionLocal, EnterLocal, InsideLocal, ExitLocal,
     WorkLocal DEF Step

\* and take turns.
LEMMA StepCpu ==
  ASSUME NEW t \in Threads, Step(t) \/ (t \in Users /\ Call(t)) \/ (t = Daemon /\ Visit)
  PROVE  cpu \in {NoThread, t} /\ choked = ""
  <1>1. CASE WaitForReintegration(t) \/ Dispatched(t) \/ StartReintegrate(t)
             \/ EnterDemote(t) \/ EnterTransition(t) \/ EnterCallBack(t)
             \/ EnterWait(t) \/ EnterWoken(t)
    BY <1>1 DEF WaitForReintegration, Dispatched, StartReintegrate, EnterDemote,
                EnterTransition, EnterCallBack, EnterWait, EnterWoken, At
  <1>2. CASE EnterMutating(t) \/ EnterObserving(t) \/ EnterResolving(t) \/ LockGranted(t)
             \/ Mutate(t) \/ PurgeMLEs(t) \/ (\E f \in Fids : ResSubmit(t, f))
             \/ CheckPoint(t) \/ CheckPointed(t) \/ Observe(t) \/ EndVFS(t)
    BY <1>2 DEF EnterMutating, EnterObserving, EnterResolving, LockGranted, Mutate, PurgeMLEs,
                ResSubmit, CheckPoint, CheckPointed, Observe, EndVFS, At
  <1>3. CASE ExitMutating(t) \/ ExitObserving(t) \/ ExitResolving(t)
             \/ ExitTransition(t) \/ ExitSignal(t) \/ Exited(t) \/ ResAwait(t) \/ SyncReturn(t)
    BY <1>3 DEF ExitMutating, ExitObserving, ExitResolving, ExitTransition, ExitSignal, Exited,
                ResAwait, SyncReturn, At
  <1>4. CASE ResolveStart(t) \/ ResolveNext(t) \/ ResolveReply(t) \/ ResolveEnd(t)
             \/ Reintegrate(t) \/ ReintegrateEnd(t)
             \/ SyncCache(t) \/ SyncTransition(t) \/ SyncEnd(t)
    BY <1>4 DEF ResolveStart, ResolveNext, ResolveReply, ResolveEnd, Reintegrate,
                ReintegrateEnd, SyncCache, SyncTransition, SyncEnd, At
  <1>5. CASE Call(t)
    BY <1>5 DEF Call, BeginVFS, BeginSync, At
  <1>6. CASE t = Daemon /\ Visit
    BY <1>6 DEF Visit, DaemonVisit, At
  <1> QED
    BY <1>1, <1>2, <1>3, <1>4, <1>5, <1>6 DEF Step

\* Every step of a thread keeps the shape, the counts and the rest.
LEMMA StepRest ==
  ASSUME TypeOK, ShapeInv, CountInv, Rest, NEW t \in Threads,
         Step(t) \/ (t \in Users /\ Call(t)) \/ (t = Daemon /\ Visit)
  PROVE  ShapeInv' /\ CountInv' /\ Rest'
  <1>0. Local(t) /\ cpu \in {NoThread, t} /\ ResInv
    BY StepLocal, StepCpu DEF Rest
  <1>1. ShapeInv'
    BY <1>0, ShapeStep
  <1>2. CountInv'
    BY <1>0, CountStep DEF Local
  <1>3. CASE \/ (t \in Users /\ Call(t)) \/ (t = Daemon /\ Visit) \/ WaitForReintegration(t)
             \/ Dispatched(t)
    BY <1>0, <1>1, <1>2, <1>3, QuietCalls, QuietDispatched, QuietRest
  <1>4. CASE \/ EnterDemote(t) \/ EnterCallBack(t) \/ EnterWait(t) \/ EnterWoken(t)
             \/ EnterObserving(t) \/ EnterResolving(t) \/ CheckPoint(t) \/ Observe(t)
    BY <1>0, <1>1, <1>2, <1>4, QuietEnter, QuietEntered, QuietInside, QuietRest
  <1>5. CASE \/ EndVFS(t) \/ ExitObserving(t) \/ ExitResolving(t) \/ ExitSignal(t) \/ Exited(t)
             \/ ResAwait(t) \/ SyncReturn(t) \/ ResolveStart(t) \/ SyncCache(t) \/ SyncEnd(t)
    BY <1>0, <1>1, <1>2, <1>5, QuietExit, QuietWork, QuietRest
  <1>6. CASE \/ EnterTransition(t) \/ ExitTransition(t) \/ SyncTransition(t)
             \/ StartReintegrate(t) \/ EnterMutating(t) \/ ExitMutating(t)
    BY <1>0, <1>1, <1>2, <1>6, TransitionRest, StartReintegrateRest, EnterMutatingRest, ExitMutatingRest
  <1>7. CASE \/ Mutate(t) \/ PurgeMLEs(t) \/ (\E f \in Fids : ResSubmit(t, f))
             \/ LockGranted(t) \/ CheckPointed(t) \/ Reintegrate(t) \/ ReintegrateEnd(t)
             \/ ResolveNext(t) \/ ResolveReply(t) \/ ResolveEnd(t)
    BY <1>0, <1>1, <1>2, <1>7, MutateRest, ResSubmitRest, LockGrantedRest, ReintegrateRest,
       ReintegrateEndRest, ResolveRest
  <1> QED
    BY <1>1, <1>2, <1>3, <1>4, <1>5, <1>6, <1>7 DEF Step

\* What the invariant speaks of; the other variables may change freely.
Core == <<state, countVars, cml, owner, reintegrating, sync_reintegrate, lockVars, resVars,
          callVars, pc, cpu>>

\* What leaves the core alone keeps them too,
LEMMA CoreKept ==
  ASSUME ShapeInv, CountInv, Rest, UNCHANGED Core
  PROVE  ShapeInv' /\ CountInv' /\ Rest'
  <1>0. /\ UNCHANGED <<state, cml, owner, reintegrating, sync_reintegrate, pc, cpu>>
        /\ UNCHANGED <<mutator_count, observer_count, resolver_count, shrd_count, excl_count>>
        /\ UNCHANGED <<readers, writer, res_list, cur, resblk, mode, op, nest, u_vol>>
    BY DEF Core, countVars, lockVars, resVars, callVars
  <1>1. \A m : In(m)' = In(m)
    BY <1>0 DEF In, InVolume, CurMode
  <1>2. ShapeInv'
    <2>1. \A t \in Threads : Shape(t)'
      BY <1>0 DEF ShapeInv, Shape, Reintegrates
    <2>2. Async => ~sync_reintegrate' /\ \A t \in Threads : AsyncShape(t)'
      BY <1>0 DEF ShapeInv, AsyncShape
    <2> QED
      BY <2>1, <2>2 DEF ShapeInv
  <1>3. CountInv'
    BY <1>0, <1>1 DEF CountInv, Counts
  <1>4. OwnerInv' /\ ResInv'
    BY <1>0, <1>1 DEF Rest, OwnerInv, ResInv, InVolume
  <1>5. ReintInv' /\ WaitInv' /\ LockInv'
    BY <1>0 DEF Rest, ReintInv, Active, Reintegrates, WaitInv, Queued, LockInv, Writes
  <1> QED
    BY <1>2, <1>3, <1>4, <1>5 DEF Rest

\* as server, token and configuration events do.
LEMMA EventCore ==
  ASSUME \/ \E s \in Servers : DownMember(s) \/ UpMember(s)
         \/ \E u \in Uids : SetTokens(u) \/ TokensExpire(u)
         \/ Reconfigure \/ Dead \/ UNCHANGED vars
  PROVE  UNCHANGED Core /\ choked' = choked
  <1>1. ASSUME NEW s \in Servers, DownMember(s) \/ UpMember(s)
        PROVE  UNCHANGED Core /\ choked' = choked
    BY <1>1 DEF DownMember, UpMember, Core, logVars
  <1>2. ASSUME NEW u \in Uids, SetTokens(u) \/ TokensExpire(u)
        PROVE  UNCHANGED Core /\ choked' = choked
    BY <1>2 DEF SetTokens, TokensExpire, Core, logVars, volVars
  <1>3. CASE Reconfigure \/ Dead \/ UNCHANGED vars
    BY <1>3 DEF Reconfigure, Dead, Core, logVars, volVars, vars
  <1> QED
    BY <1>1, <1>2, <1>3

\* A fresh state has nobody in the volume.
LEMMA FreshInv ==
  ASSUME Fresh
  PROVE  ShapeInv /\ CountInv /\ Rest
  <1>1. \A t \in Threads : /\ pc[t] = "idle" /\ nest[t] = <<>> /\ op[t] = "none"
                           /\ mode[t] = IF t \in Resolvers THEN "RESOLVING" ELSE "OBSERVING"
    BY DEF Fresh
  <1>2. \A t \in Threads : ~InVolume(t)
    BY <1>1 DEF InVolume
  <1>3. \A m : In(m) = {}
    BY <1>2 DEF In
  <1>4. ShapeInv
    <2>1. ASSUME NEW t \in Threads
          PROVE  Shape(t) /\ AsyncShape(t)
      <3>1. \A i \in 1 .. Len(nest[t]) : FALSE
        BY SMTT(60), <1>1
      <3>2. /\ pc[t] \notin CallPcs /\ pc[t] \notin ResolvePcs /\ pc[t] \notin ReintPcs
            /\ pc[t] \notin {"wlock", "ckpt", "sync", "syncwait", "syncwoken", "syncloop"}
        BY <1>1 DEF CallPcs, ResolvePcs, ReintPcs
      <3>3. pc[t] = "idle" /\ nest[t] = <<>> /\ op[t] = "none"
        BY <1>1
      <3>4. mode[t] # "MUTATING" /\ (mode[t] = "RESOLVING" <=> t \in Resolvers)
        BY <1>1
      <3> QED
        BY <3>1, <3>2, <3>3, <3>4 DEF Shape, AsyncShape
    <2> QED
      BY <2>1 DEF ShapeInv, Fresh
  <1>5. CountInv
    <2>1. Cardinality({}) = 0
      BY FS_EmptySet
    <2>2. Counts(0, {})
      BY SMTT(60), <2>1 DEF Counts
    <2>3. 0 = 0 + 0
      BY SMTT(60)
    <2> QED
      BY <1>3, <2>2, <2>3 DEF CountInv, Fresh
  <1>6. OwnerInv
    <2>1. ~(mutator_count > 0)
      BY SMTT(60) DEF Fresh
    <2> QED
      BY <1>3, <2>1 DEF OwnerInv, Fresh
  <1>7. ResInv /\ ReintInv
    BY <1>1, <1>2, <1>3 DEF ResInv, ReintInv, Active, Fresh
  <1>8. WaitInv
    BY <1>1 DEF WaitInv, Fresh, NoResent
  <1>9. LockInv
    BY <1>1 DEF LockInv, Writes, Fresh
  <1> QED
    BY <1>4, <1>5, <1>6, <1>7, <1>8, <1>9 DEF Rest

\* The records of the log survive a crash, and name its owner again.
LEMMA RestartFresh ==
  ASSUME TypeOK, OwnerInv, Restart
  PROVE  Fresh' /\ choked' = "" /\ owner' \in Uids \cup {UNSET_UID}
  <1>0. cml' = cml /\ cml \in Seq(Uids) /\ \A i \in DOMAIN cml : cml[i] = owner
    BY DEF Restart, TypeOK, OwnerInv
  <1>1. /\ \A i \in DOMAIN cml : cml[i] = owner'
        /\ owner' # UNSET_UID <=> cml # <<>>
        /\ owner' \in Uids \cup {UNSET_UID}
    <2>1. CASE cml = <<>>
      <3>1. owner' = UNSET_UID
        BY <2>1 DEF Restart
      <3>2. DOMAIN cml = {}
        BY SMTT(60), <2>1
      <3> QED
        BY <2>1, <3>1, <3>2
    <2>2. CASE cml # <<>>
      <3>1. owner' = Head(cml)
        BY <2>2 DEF Restart
      <3>2. Head(cml) = cml[1] /\ 1 \in DOMAIN cml /\ Head(cml) \in Uids
        BY SMTT(60), <1>0, <2>2
      <3> QED
        BY <1>0, <2>2, <3>1, <3>2, UidAssumption
    <2> QED
      BY <2>1, <2>2
  <1> QED
    BY <1>0, <1>1 DEF Restart, Fresh

\* An observer leaves a volume that is not Resolving and counts it.
LEMMA ExitObservingOK ==
  ASSUME TypeOK, ShapeInv, CountInv, ResInv, NEW t \in Threads, ExitObserving(t)
  PROVE  choked' = choked /\ observer_count > 0
  <1>1. t \in In("OBSERVING")
    BY DEF ExitObserving, At, In, InVolume
  <1>2. observer_count \in Nat
    BY DEF TypeOK
  <1>3. observer_count > 0
    BY <1>1, <1>2, InFinite, CountRemove DEF CountInv
  <1>4. state # "Resolving" /\ ~(observer_count <= 0)
    BY SMTT(60), <1>1, <1>2, <1>3 DEF ResInv
  <1> QED
    BY <1>3, <1>4 DEF ExitObserving

\* Only a signal in Reintegrate and a superfluous resolver stop Venus.
LEMMA StepChoke ==
  ASSUME TypeOK, ShapeInv, CountInv, Rest, NoChoke, NEW t \in Threads,
         Step(t) \/ (t \in Users /\ Call(t)) \/ (t = Daemon /\ Visit)
  PROVE  NoChoke'
  <1>0. Local(t) /\ ResInv
    BY StepLocal DEF Rest
  <1>1. CASE WaitForReintegration(t) \/ Dispatched(t) \/ StartReintegrate(t)
             \/ EnterDemote(t) \/ EnterTransition(t) \/ EnterCallBack(t)
             \/ EnterWait(t)
    BY <1>1 DEF WaitForReintegration, Dispatched, StartReintegrate, EnterDemote,
                EnterTransition, EnterCallBack, EnterWait, NoChoke
  <1>2. CASE EnterObserving(t) \/ EnterResolving(t) \/ LockGranted(t)
             \/ Mutate(t) \/ PurgeMLEs(t) \/ (\E f \in Fids : ResSubmit(t, f))
             \/ CheckPoint(t) \/ CheckPointed(t) \/ Observe(t) \/ EndVFS(t)
    BY <1>2 DEF EnterObserving, EnterResolving, LockGranted, Mutate, PurgeMLEs,
                ResSubmit, CheckPoint, CheckPointed, Observe, EndVFS, NoChoke
  <1>3. CASE EnterMutating(t) \/ ExitMutating(t) \/ ExitObserving(t)
    BY <1>0, <1>3, EnterMutatingRest, ExitMutatingRest, ExitObservingOK DEF NoChoke
  <1>4. CASE EnterWoken(t) \/ ExitResolving(t)
    BY <1>4 DEF EnterWoken, ExitResolving, NoChoke
  <1>5. CASE ExitTransition(t) \/ ExitSignal(t) \/ Exited(t) \/ ResAwait(t) \/ SyncReturn(t)
    BY <1>5 DEF ExitTransition, ExitSignal, Exited, ResAwait, SyncReturn, NoChoke
  <1>6. CASE ResolveStart(t) \/ ResolveNext(t) \/ ResolveReply(t) \/ ResolveEnd(t)
             \/ Reintegrate(t) \/ ReintegrateEnd(t)
             \/ SyncCache(t) \/ SyncTransition(t) \/ SyncEnd(t)
    BY <1>6 DEF ResolveStart, ResolveNext, ResolveReply, ResolveEnd, Reintegrate,
                ReintegrateEnd, SyncCache, SyncTransition, SyncEnd, NoChoke
  <1>7. CASE Call(t)
    BY <1>7 DEF Call, BeginVFS, BeginSync, NoChoke
  <1>8. CASE t = Daemon /\ Visit
    BY <1>8 DEF Visit, DaemonVisit, NoChoke
  <1> QED
    BY <1>1, <1>2, <1>3, <1>4, <1>5, <1>6, <1>7, <1>8 DEF Step

-----------------------------------------------------------------------------
(* The invariant is inductive.                                             *)

\* Nobody leaves a volume that does not count it: the counts stay natural
\* numbers.
LEMMA CountTypeStep ==
  ASSUME TypeOK, CountInv, NEW t \in Threads, Local(t)
  PROVE  CountType'
  <1>0. CountType /\ Others(t)
    BY TypeParts DEF Local
  <1>1. CASE Stays(t)
    BY <1>0, <1>1 DEF Stays, CountType, countVars
  <1>2. ASSUME NEW m \in Modes, Enters(t, m)
        PROVE  CountType'
    BY SMTT(60), <1>0, <1>2 DEF Enters, CountType
  <1>3. ASSUME NEW m \in Modes, Leaves(t, m)
        PROVE  CountType'
    <2>1. t \in In(m)
      BY <1>3 DEF In, Leaves
    <2>2. \A n : IsFiniteSet(In(n))
      BY InFinite
    <2>3. /\ m = "MUTATING" => mutator_count > 0
          /\ m = "OBSERVING" => observer_count > 0
          /\ m = "RESOLVING" => resolver_count > 0
      BY <1>0, <2>1, <2>2, CountRemove DEF CountInv, CountType
    <2>4. shrd_count = mutator_count + observer_count /\ excl_count = resolver_count
      BY DEF CountInv
    <2>5. CASE m = "MUTATING"
      <3>1. /\ mutator_count' = mutator_count - 1 /\ shrd_count' = shrd_count - 1
            /\ UNCHANGED <<observer_count, resolver_count, excl_count>>
        BY <1>3, <2>5 DEF Leaves
      <3> QED
        BY SMTT(60), <1>0, <2>3, <2>4, <2>5, <3>1 DEF CountType
    <2>6. CASE m = "OBSERVING"
      <3>1. /\ observer_count' = observer_count - 1 /\ shrd_count' = shrd_count - 1
            /\ UNCHANGED <<mutator_count, resolver_count, excl_count>>
        BY <1>3, <2>6 DEF Leaves
      <3> QED
        BY SMTT(60), <1>0, <2>3, <2>4, <2>6, <3>1 DEF CountType
    <2>7. CASE m = "RESOLVING"
      <3>1. /\ resolver_count' = resolver_count - 1 /\ excl_count' = excl_count - 1
            /\ UNCHANGED <<mutator_count, observer_count, shrd_count>>
        BY <1>3, <2>7 DEF Leaves
      <3> QED
        BY SMTT(60), <1>0, <2>3, <2>4, <2>7, <3>1 DEF CountType
    <2> QED
      BY <2>5, <2>6, <2>7 DEF Modes
  <1> QED
    BY <1>1, <1>2, <1>3 DEF Local

\* The invariant holds initially,
LEMMA InitInv == Init => Inv
  <1> SUFFICES ASSUME Init PROVE Inv
    OBVIOUS
  <1>1. Fresh /\ TypeOK
    BY InitType
  <1>2. ShapeInv /\ CountInv /\ Rest
    BY <1>1, FreshInv
  <1>3. NoChoke
    BY DEF Init, NoChoke
  <1> QED
    BY <1>1, <1>2, <1>3 DEF Inv, Rest

\* every step keeps it,
LEMMA InvStep ==
  ASSUME Inv, [Next]_vars
  PROVE  Inv'
  <1>0. TypeOK /\ ShapeInv /\ CountInv /\ Rest /\ NoChoke
    BY DEF Inv, Rest
  <1>1. ASSUME NEW t \in Threads,
               Step(t) \/ (t \in Users /\ Call(t)) \/ (t = Daemon /\ Visit)
        PROVE  Inv'
    <2>1. ShapeInv' /\ CountInv' /\ Rest'
      BY <1>0, <1>1, StepRest
    <2>2. NoChoke'
      BY <1>0, <1>1, StepChoke
    <2>3. TypeOK'
      <3>0. Step(t) \/ Call(t) \/ Visit
        BY <1>1
      <3>1. Shape(t) /\ WaitInv /\ ReintInv
        BY <1>0 DEF ShapeInv, Rest
      <3>2. /\ VolType /\ CountType /\ LogType /\ LockType /\ ListType /\ EnvType /\ CallType
            /\ NestType /\ PcType
        BY <1>0, TypeParts
      <3>3. Local(t)
        BY <1>0, <1>1, <3>1, StepLocal
      <3>4. CountType'
        BY <1>0, <3>3, CountTypeStep
      <3>5. VolType' /\ EnvType' /\ LogType'
        BY <1>0, <3>0, <3>1, <3>2, VolTypeStep, EnvTypeStep, LogTypeStep
      <3>6. LockType' /\ ListType'
        BY <3>0, <3>1, <3>2, LockTypeStep, ListTypeStep
      <3>7. CallType' /\ NestType' /\ PcType'
        BY <1>0, <1>1, <3>0, <3>1, <3>2, CallTypeStep, NestTypeStep, PcTypeStep
      <3> QED
        BY <3>4, <3>5, <3>6, <3>7, TypeParts2
    <2> QED
      BY <2>1, <2>2, <2>3 DEF Inv, Rest
  <1>2. ASSUME \/ \E s \in Servers : DownMember(s) \/ UpMember(s)
               \/ \E u \in Uids : SetTokens(u) \/ TokensExpire(u)
               \/ Reconfigure \/ Dead \/ UNCHANGED vars
        PROVE  Inv'
    <2>1. UNCHANGED Core /\ choked' = choked
      BY <1>2, EventCore
    <2>2. ShapeInv' /\ CountInv' /\ Rest'
      BY <1>0, <2>1, CoreKept
    <2>3. NoChoke'
      BY <1>0, <2>1 DEF NoChoke
    <2>4. TypeOK'
      <3>1. CASE Dead \/ UNCHANGED vars
        BY <1>0, <3>1 DEF Dead, TypeOK, vars, volVars, countVars, logVars, lockVars, resVars,
                          envVars, callVars
      <3> QED
        BY <1>0, <1>2, <3>1, EventType
    <2> QED
      BY <2>2, <2>3, <2>4 DEF Inv, Rest
  <1>3. CASE Restart
    <2>1. Fresh' /\ choked' = "" /\ owner' \in Uids \cup {UNSET_UID}
      BY <1>0, <1>3, RestartFresh DEF Rest
    <2>2. (Fresh => ShapeInv /\ CountInv /\ Rest)'
      BY FreshInv, PTL
    <2>3. TypeOK'
      BY <1>0, <1>3, <2>1, RestartType
    <2>4. NoChoke'
      BY <2>1 DEF NoChoke
    <2> QED
      BY <2>1, <2>2, <2>3, <2>4 DEF Inv, Rest
  <1>4. Users \subseteq Threads /\ Daemon \in Threads
    BY DEF Threads
  <1> QED
    BY <1>1, <1>2, <1>3, <1>4 DEF Next

\* and so it always holds.
LEMMA VolumeInvariant == Spec => []Inv
  <1>1. Init => Inv
    BY InitInv
  <1>2. Inv /\ [Next]_vars => Inv'
    BY InvStep
  <1> QED
    BY <1>1, <1>2, PTL DEF Spec

-----------------------------------------------------------------------------
(* What follows from it.                                                   *)

(***************************************************************************)
(* TypeOK: in particular no Exit takes a count of the volent below zero,    *)
(* and the log never outgrows its limit.                                    *)
(***************************************************************************)
THEOREM VolumeTypeCorrect == Spec => []TypeOK
  <1>1. Inv => TypeOK
    BY DEF Inv
  <1> QED
    BY <1>1, VolumeInvariant, PTL

(***************************************************************************)
(* CountsOK: where no reintegration runs inside a transition, mutator,      *)
(* observer and resolver counts are exactly the threads between the Enter   *)
(* and the Exit.                                                            *)
(***************************************************************************)
THEOREM VolumeCounts ==
  ASSUME ~SyncCalls, ~ReintLimitZero
  PROVE  Spec => []CountsOK
  <1>1. Inv => CountsOK
    BY DEF Inv, CountInv, Counts, Async, CountsOK, ActiveUsers
  <1> QED
    BY <1>1, VolumeInvariant, PTL

(***************************************************************************)
(* OneMutatingUser: Enter admits the mutators of one user at a time, whose  *)
(* records are then the only ones in the log.                               *)
(***************************************************************************)
THEOREM VolumeOwner == Spec => []OneMutatingUser
  <1>1. Inv => OneMutatingUser
    BY DEF Inv, OwnerInv, OneMutatingUser
  <1> QED
    BY <1>1, VolumeInvariant, PTL

(***************************************************************************)
(* ResolutionExclusive: no user is in a Resolving volume, and a resolver is *)
(* in the volume alone.                                                     *)
(***************************************************************************)
THEOREM VolumeResolution == Spec => []ResolutionExclusive
  <1>1. Inv => ResolutionExclusive
    BY DEF Inv, ResInv, ResolutionExclusive
  <1> QED
    BY <1>1, VolumeInvariant, PTL

(***************************************************************************)
(* OneReintegration: the flag reintegrating admits one reintegration at a   *)
(* time to the log, nested ones included.                                   *)
(***************************************************************************)
THEOREM VolumeReintegration == Spec => []OneReintegration
  <1>1. ASSUME Inv
        PROVE  OneReintegration
    <2> DEFINE active == {t \in Threads : Active(t)}
    <2>1. \A t, u \in active : t = u
      BY <1>1 DEF Inv, ReintInv
    <2>2. active # {} => reintegrating
      BY <1>1 DEF Inv, ReintInv
    <2>3. Cardinality(active) <= 1
      <3>1. CASE active = {}
        <4>1. Cardinality(active) = 0
          BY <3>1, FS_EmptySet
        <4> QED
          BY SMTT(60), <4>1
      <3>2. ASSUME NEW t \in active
            PROVE  Cardinality(active) <= 1
        <4>1. active = {t}
          BY <2>1, <3>2
        <4>2. Cardinality(active) = 1
          BY <4>1, FS_Singleton
        <4> QED
          BY SMTT(60), <4>2
      <3> QED
        BY <3>1, <3>2
    <2>4. active = {t \in Threads : (nest[t] # <<>> \/ t \in Reintegrators)
                                    /\ pc[t] \notin {"idle", "dispatched", "reint", "leave",
                                                     "exited", "return", "exit"}}
      BY DEF Active, Reintegrates
    <2> HIDE DEF active
    <2> QED
      BY <2>2, <2>3, <2>4 DEF OneReintegration
  <1>2. Inv => OneReintegration
    BY <1>1
  <1> QED
    BY <1>2, VolumeInvariant, PTL

(***************************************************************************)
(* NoLostWaiter: ResSubmit, the resolver's loop and its clean-up never      *)
(* leave a thread in ResAwait whose object is no longer to be resolved.     *)
(***************************************************************************)
THEOREM VolumeWaiters == Spec => []NoLostWaiter
  <1>1. Inv => NoLostWaiter
    BY DEF Inv, WaitInv, NoLostWaiter
  <1> QED
    BY <1>1, VolumeInvariant, PTL

(***************************************************************************)
(* NoChoke: the CHOKEs of Enter, of the Exits of mutators and observers and *)
(* of ResetTransient are unreachable.                                       *)
(***************************************************************************)
THEOREM VolumeNoChoke == Spec => []NoChoke
  <1>1. Inv => NoChoke
    BY DEF Inv
  <1> QED
    BY <1>1, VolumeInvariant, PTL

\* Only a holder of the read lock changes the log.
LEMMA LogStep ==
  ASSUME Inv, [Next]_vars, cml' # cml
  PROVE  \E t \in Threads : Writes(t)
  <1>1. ASSUME NEW t \in Threads, Mutate(t) \/ PurgeMLEs(t) \/ Reintegrate(t)
        PROVE  Writes(t)
    BY <1>1 DEF Mutate, PurgeMLEs, Reintegrate, At, Writes
  <1>2. ASSUME NEW t \in Threads, Step(t)
        PROVE  Mutate(t) \/ PurgeMLEs(t) \/ Reintegrate(t)
    <2>1. CASE WaitForReintegration(t) \/ Dispatched(t) \/ StartReintegrate(t) \/ EnterDemote(t)
               \/ EnterTransition(t) \/ EnterCallBack(t) \/ EnterWait(t) \/ EnterWoken(t)
               \/ EnterMutating(t) \/ EnterObserving(t) \/ EnterResolving(t) \/ LockGranted(t)
               \/ CheckPoint(t) \/ CheckPointed(t) \/ Observe(t)
               \/ EndVFS(t) \/ (\E f \in Fids : ResSubmit(t, f))
      BY <2>1 DEF WaitForReintegration, Dispatched, StartReintegrate, EnterDemote,
                  EnterTransition, EnterCallBack, EnterWait, EnterWoken, EnterMutating,
                  EnterObserving, EnterResolving, LockGranted, CheckPoint,
                  CheckPointed, Observe, EndVFS, ResSubmit, logVars
    <2>2. CASE ExitMutating(t) \/ ExitObserving(t) \/ ExitResolving(t) \/ ExitTransition(t)
               \/ ExitSignal(t) \/ Exited(t) \/ ResAwait(t) \/ SyncReturn(t) \/ ResolveStart(t)
               \/ ResolveNext(t) \/ ResolveReply(t) \/ ResolveEnd(t)
               \/ ReintegrateEnd(t) \/ SyncCache(t) \/ SyncTransition(t) \/ SyncEnd(t)
      BY <2>2 DEF ExitMutating, ExitObserving, ExitResolving, ExitTransition,
                  ExitSignal, Exited, ResAwait, SyncReturn, ResolveStart, ResolveNext,
                  ResolveReply, ResolveEnd, ReintegrateEnd, SyncCache,
                  SyncTransition, SyncEnd, logVars
    <2> QED
      BY <1>2, <2>1, <2>2 DEF Step
  <1>3. \A t : ~Call(t)
    BY DEF Call, BeginVFS, BeginSync, logVars
  <1>4. ~Visit
    BY DEF Visit, DaemonVisit, logVars
  <1>5. ~Restart
    BY DEF Restart
  <1>6. ~\/ \E s \in Servers : DownMember(s) \/ UpMember(s)
         \/ \E u \in Uids : SetTokens(u) \/ TokensExpire(u)
         \/ Reconfigure \/ Dead \/ UNCHANGED vars
    BY EventCore DEF Core
  <1> QED
    BY <1>1, <1>2, <1>3, <1>4, <1>5, <1>6 DEF Next

(***************************************************************************)
(* CheckPointStable: while the checkpoint holds CML_lock for writing, no    *)
(* mutator and no reintegration changes the log under it.                   *)
(***************************************************************************)
THEOREM VolumeCheckPoint == Spec => CheckPointStable
  <1> DEFINE Stable == writer # NoThread /\ writer' = writer => cml' = cml
  <1>1. ASSUME Inv, [Next]_vars
        PROVE  Stable
    <2>1. writer # NoThread => readers = {}
      BY <1>1 DEF Inv, LockInv
    <2>2. \A t \in Threads : Writes(t) => t \in readers
      BY <1>1 DEF Inv, LockInv
    <2> QED
      BY <1>1, <2>1, <2>2, LogStep
  <1>2. Inv /\ [Next]_vars => [Stable]_vars
    BY <1>1
  <1>3. CheckPointStable <=> [][Stable]_vars
    BY DEF CheckPointStable
  <1> HIDE DEF Stable
  <1> QED
    BY <1>2, <1>3, VolumeInvariant, PTL DEF Spec

=============================================================================
