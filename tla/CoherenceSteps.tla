---------------------------- MODULE CoherenceSteps -----------------------------
(***************************************************************************)
(* Lemmas about the steps of Coherence: the inductive invariant, what a    *)
(* step of a worker does to the others and to the cached objects, and      *)
(* that the steps of the workers' calls keep the invariant.                *)
(*                                                                         *)
(* The invariant has two parts.  Basics holds whatever the environment     *)
(* does, and gives CacheOK and DataFresh.  Coherent says that rights, and  *)
(* the answers that will give rights, are backed by callbacks and current; *)
(* it holds in the environments that are Orderly, and gives StatusCurrent  *)
(* and RightsBacked there.                                                 *)
(***************************************************************************)
EXTENDS Coherence, TLAPS

\* Leaves that cite no prover need no arithmetic and are left to Zenon.
USE Zenon

FileOp == {"attr", "fetch"}
VolOp == {"vols", "volvs"}

\* A file call that the server has answered, with a version.
Answered(r) == r.op \in FileOp /\ r.pc \in {"piggy", "reply"} /\ r.vv # NONE
\* GetVolAttr from ValidateFSOs to the reply of GetVolVS.
Collecting(r) == r.invs \/ r.op = "volvs"
\* A stamp that is sent with ValidateVols, or comes with an answer.
HasStamp(r) == r.op = "vols" \/ (r.op = "volvs" /\ r.pc = "reply")
\* The client has broken its callbacks for an update of f that is not done yet.
Handled(f) == upd.handled /\ upd.file = f

\* What the fields of a worker's record have to do with each other.
WellFormed(r) ==
  /\ r.op \in FileOp => r.file \in Files /\ r.pc \in {"conn", "sent", "piggy", "reply"}
  /\ r.op \notin FileOp => r.file = NONE
  /\ r.op \in VolOp => r.pc \in {"sent", "reply"} /\ ~r.invs
  /\ r.op = "volattr" => r.pc = "conn" /\ ~r.invs
  /\ r.op = NONE => r.pc \in {"out", "in", "fsos"}
  /\ r.op = "volvs" => r.fsos = {}
  /\ r.pc = "piggy" => r.op = "attr" /\ r.piggy # {}
  /\ r.piggy # {} => r.op = "attr" /\ r.pc # "reply"
  /\ r.ok \cup r.bad # {} => r.op = "attr" /\ r.pc \in {"piggy", "reply"}
  /\ r.invs => r.pc = "fsos" \/ (r.op \in FileOp /\ r.file \in r.fsos)
  /\ r.pc = "fsos" => r.invs
  /\ r.op = "attr" /\ r.pc \in {"piggy", "reply"} => r.vv # NONE
  /\ r.op \in FileOp /\ r.pc \in {"conn", "sent"} => r.vv = NONE
  /\ r.op = "vols" /\ r.pc = "sent" => r.vv # NONE
  /\ r.op = "volvs" /\ r.pc = "reply" => r.vv # NONE

\* The write lock of an object is held by the worker that gets it.
Locks == \A x \in Workers, f \in Files :
           obj[f].lock = x <=> wk[x].op \in FileOp /\ wk[x].file = f

\* The update in progress.
UpdateOK ==
  /\ upd.pc = "idle" => upd.file = NONE /\ ~upd.handled
  /\ upd.pc # "idle" => upd.file \in Files /\ stamp < Updates
  /\ upd.pc = "wait" => /\ upd.fid \in {upd.file, VOL} /\ upd.fid \in cb
                        /\ upd.fid = VOL => upd.file \notin cb
  /\ upd.handled => upd.pc = "wait"

\* Versions and stamps do not run ahead of the server's.
Bounded ==
  /\ \A f \in Files : ver[f] <= stamp
  /\ VVV # NONE => VVV <= stamp

ObjectOK(f) ==
  LET o == obj[f] IN
  /\ ~HaveStatus(o) => o.data = NONE /\ ~o.full /\ o.rc = {} /\ o.openers = 0
  /\ o.lock # NONE => o.state # "none"
  /\ o.vv <= ver[f]
  /\ o.full => o.data \in Versions
  /\ "readers" \notin env => /\ o.openers = 0 /\ (o.full => o.data = o.vv)
                             /\ o.data \in Versions => o.vv <= o.data /\ o.data <= ver[f]
  /\ "fail" \notin env /\ o.state = "runt" => o.lock # NONE
  /\ env \cap {"flush", "piggy"} = {} => HaveStatus(o)

\* What a worker's call has to do with the objects.
CallOK(r) ==
  /\ r.op = "fetch" \/ r.piggy # {} \/ r.ok \cup r.bad # {} => HaveStatus(obj[r.file])
  /\ Answered(r) => /\ obj[r.file].vv <= r.vv /\ r.vv <= ver[r.file]
                    /\ "readers" \notin env /\ r.op = "fetch" /\ obj[r.file].data \in Versions
                         => obj[r.file].data <= r.vv
  /\ HasStamp(r) /\ r.vv # NONE => r.vv <= stamp
  /\ r.bound \/ r.vbound => known
  /\ "piggy" \notin env => r.piggy = {} /\ r.ok \cup r.bad = {}
  /\ "vcb" \notin env => r.op \notin VolOp \cup {"volattr"} /\ ~r.invs
  /\ "fail" \notin env => /\ r.pc # "conn" /\ (demotion_pending => r.pc = "out")
                          /\ r.op \in FileOp => r.bound
                          /\ r.op \in VolOp \/ r.invs => r.vbound

\* A version sent with a validation is not newer than what the client has or gets.
Packed(r) ==
  \A p \in r.piggy :
    /\ p[2] <= ver[p[1]]
    /\ HaveStatus(obj[p[1]]) => p[2] <= obj[p[1]].vv
    /\ \A y \in Workers : Answered(wk[y]) /\ wk[y].file = p[1] => p[2] <= wk[y].vv

\* Without failures the connection is there to stay.
Stable == "fail" \notin env => known /\ connid = "up" /\ reachable

\* The part of the invariant that holds in every environment.
Basics ==
  /\ TypeOK
  /\ \A x \in Workers : WellFormed(wk[x]) /\ CallOK(wk[x]) /\ Packed(wk[x])
  /\ \A f \in Files : ObjectOK(f)
  /\ Locks /\ UpdateOK /\ Bounded /\ Stable
  /\ "vcb" \notin env => ~VCBStatus

------------------------------------------------------------------------------
\* Answers that are believed: all, if no break can come before an answer.
Believed(r) == ~r.susp \/ env \cap {"overtake", "piggy"} = {}

\* What the client has of f, or will have when the answers have come in, is the
\* server's version;
Current(f) ==
  /\ HaveStatus(obj[f]) => obj[f].vv = ver[f]
  /\ \A y \in Workers : Answered(wk[y]) /\ wk[y].file = f => wk[y].vv = ver[f]
\* and if there is anything, an update of f comes with a break that is still to come.
InUse(f) == HaveStatus(obj[f]) \/ \E y \in Workers : Answered(wk[y]) /\ wk[y].file = f
Safe(f) == Current(f) /\ (InUse(f) => f \in cb /\ ~Handled(f))

\* Rights are backed by callbacks, and what has rights is current.
Rights(f) ==
  obj[f].rc # {} /\ known /\ connid = "up" /\ ~demotion_pending =>
    f \in cb /\ obj[f].vv = ver[f] /\ ~Handled(f)

\* So are the answers on their way.
Answers(r) ==
  Answered(r) /\ known =>
    /\ r.vv = ver[r.file] => r.file \in cb
    /\ Believed(r) => r.vv = ver[r.file] /\ ~Handled(r.file)

\* And the piggybacked ones.
Piggies(r) ==
  \A g \in r.ok :
    /\ r.pc = "piggy" => upd.file # g
    /\ known => g \in cb /\ ~Handled(g) /\ Current(g)

\* Nothing is answered on a connection that the client has given up.
Silent ==
  connid # "up" => \A x \in Workers : /\ wk[x].pc \notin {"piggy", "reply"}
                                      /\ wk[x].pc = "sent" => ~wk[x].bound
\* A connection that was refused has cost the client its rights.
Refused == connid = "nak" => demotion_pending \/ \A f \in Files : obj[f].rc = {}

\* The client can get, or has, the volume callback.
Holding ==
  \/ VVV = stamp \/ VCBStatus
  \/ \E x \in Workers : wk[x].op = "vols" /\ wk[x].vv = stamp
Backed == \A f \in Files : HaveStatus(obj[f]) => f \in cb

\* What ValidateFSOs has visited is current and backed.
Collected(r) ==
  Collecting(r) /\ ~r.vsusp => \A f \in Files \ r.fsos : Safe(f)

\* An answer to a volume call.
VolumeAnswer(r) ==
  r.op \in VolOp /\ r.pc = "reply" =>
    IF r.vv = NONE THEN stamp # 0 ELSE r.vv = stamp /\ VOL \in cb /\ ~upd.handled

\* The volume callback.
VolumeOK ==
  /\ VCBStatus => VOL \in cb /\ ~upd.handled
  /\ Holding => \A f \in Files : Current(f)
  /\ Holding /\ ~Backed /\ ~upd.handled =>
       stamp = 0 /\ VVV = 0 /\ \A x \in Workers : ~Collecting(wk[x])
  /\ \A x \in Workers : /\ VolumeAnswer(wk[x]) /\ Collected(wk[x])
                        /\ wk[x].invs /\ wk[x].op \in FileOp /\ wk[x].susp => wk[x].vsusp

\* The part about the order of breaks and answers.
Coherent ==
  /\ \A f \in Files : Rights(f)
  /\ \A x \in Workers : Answers(wk[x]) /\ Piggies(wk[x])
  /\ Silent /\ Refused
  /\ "vcb" \in env => VolumeOK

IInv == Basics /\ (Orderly => Coherent)

------------------------------------------------------------------------------
(* What a step of the worker x, or one of no worker, may do.               *)

\* The rest of the volume's state.
RestStep ==
  /\ UNCHANGED <<env, ver, stamp, known, upd>>
  /\ cb \subseteq cb' /\ cb' \subseteq Fids /\ (upd.file \in cb' => upd.file \in cb)
  /\ VCBStatus' \in BOOLEAN /\ ("vcb" \notin env => ~VCBStatus')
  /\ VVV' \in Versions \cup {NONE} /\ (VVV' # NONE => VVV' <= stamp)
  /\ demotion_pending' \in BOOLEAN /\ connid' \in {"down", "nak", "up"} /\ reachable' \in BOOLEAN
  /\ "fail" \notin env => connid' = "up" /\ reachable' /\ (demotion_pending' => demotion_pending)

\* An object that gets status gets it from the answer of x; one that another
\* worker has locked keeps its status.
ObjStep(x) ==
  /\ obj' \in [Files -> Object]
  /\ \A f \in Files :
       /\ ObjectOK(f)'
       /\ HaveStatus(obj'[f]) =>
            \/ HaveStatus(obj[f]) /\ obj'[f].vv = obj[f].vv
            \/ x \in Workers /\ Answered(wk[x]) /\ wk[x].file = f /\ obj'[f].vv = wk[x].vv
       /\ \A y \in Workers \ {x} : obj'[f].lock = y <=> obj[f].lock = y
       /\ obj[f].lock \in Workers \ {x} =>
            /\ obj'[f].state = obj[f].state /\ obj'[f].vv = obj[f].vv
            /\ obj'[f].data \in {obj[f].data, NONE}

\* The record of x; an answer is new and current, or was there before.
NewAnswer(x) ==
  wk'[x].vv = ver[wk'[x].file] /\ wk'[x].file \in cb' /\ wk'[x].file # upd.file
OldAnswer(x) ==
  /\ Answered(wk[x]) /\ wk'[x].file = wk[x].file /\ wk'[x].vv = wk[x].vv
  /\ wk'[x].susp = wk[x].susp
OwnStep(x) ==
  /\ WellFormed(wk'[x]) /\ CallOK(wk[x])'
  /\ \A f \in Files : obj'[f].lock = x <=> wk'[x].op \in FileOp /\ wk'[x].file = f
  /\ Answered(wk'[x]) => NewAnswer(x) \/ OldAnswer(x)
  /\ \A p \in wk'[x].piggy :
       p \in wk[x].piggy \/ (p[2] = obj[p[1]].vv /\ obj[p[1]].lock = NONE /\ wk'[x].file # p[1])
  /\ demotion_pending' /\ "fail" \notin env => wk'[x].pc = "out"
WorkStep(x) ==
  /\ wk' \in [Workers -> Worker]
  /\ \A y \in Workers \ {x} : wk'[y] = wk[y]
  /\ x \in Workers => OwnStep(x)

\* What the constants are not.
LEMMA Constants ==
  /\ Versions \subseteq Nat /\ 0 \in Versions /\ NONE \notin Versions /\ EMPTY \notin Versions
  /\ EMPTY # NONE /\ NONE \notin Files /\ NONE \notin Workers /\ VOL \notin Files /\ VOL # NONE
  /\ MaxUpdates \in Nat /\ MaxUpdates # 0
  /\ NONE \notin FileOp \cup VolOp \cup {"volattr"}
  <1>1. Versions \subseteq Nat /\ 0 \in Versions
    BY SMTT(60), CoherenceAssumption DEF Versions
  <1>2. NONE \notin FileOp \cup VolOp \cup {"volattr"}
    BY CoherenceAssumption DEF FileOp, VolOp
  <1> QED
    BY <1>1, <1>2, CoherenceAssumption DEF VOL

\* The calls of the other workers are as good as they were.
LEMMA OthersKeep ==
  ASSUME Basics, NEW x, RestStep, ObjStep(x), WorkStep(x), NEW y \in Workers, y # x
  PROVE  WellFormed(wk'[y]) /\ CallOK(wk[y])'
  <1>1. wk'[y] = wk[y] /\ WellFormed(wk[y]) /\ CallOK(wk[y]) /\ wk[y] \in Worker
    BY DEF WorkStep, Basics, TypeOK
  <1>2. /\ env' = env /\ ver' = ver /\ stamp' = stamp /\ known' = known
        /\ "fail" \notin env => (demotion_pending' => demotion_pending)
    BY DEF RestStep
  <1>3. wk[y].piggy # {} \/ wk[y].ok \cup wk[y].bad # {} => wk[y].op \in FileOp
    BY <1>1 DEF WellFormed, FileOp
  <1>4. CASE wk[y].op \in FileOp
    <2> DEFINE f == wk[y].file
    <2>1. f \in Files /\ obj[f].lock \in Workers \ {x}
      BY <1>1, <1>4 DEF WellFormed, Basics, Locks
    <2> HIDE DEF f
    <2>2. /\ obj'[f].state = obj[f].state /\ obj'[f].vv = obj[f].vv
          /\ obj'[f].data \in {obj[f].data, NONE}
      BY <2>1 DEF ObjStep
    <2>3. NONE \notin Versions
      BY Constants
    <2>4. Answered(wk[y]) =>
            /\ obj'[f].vv <= wk[y].vv /\ wk[y].vv <= ver[f]
            /\ "readers" \notin env /\ wk[y].op = "fetch" /\ obj'[f].data \in Versions
                 => obj'[f].data <= wk[y].vv
      BY <1>1, <2>2, <2>3 DEF CallOK, f
    <2>5. HaveStatus(obj[f]) => HaveStatus(obj'[f])
      BY <2>2 DEF HaveStatus
    <2> QED
      BY <1>1, <1>2, <2>4, <2>5 DEF CallOK, f
  <1>5. CASE wk[y].op \notin FileOp
    <2>1. ~Answered(wk[y]) /\ wk[y].op # "fetch"
      BY <1>5 DEF Answered, FileOp
    <2> QED
      BY <1>1, <1>2, <1>3, <1>5, <2>1 DEF CallOK
  <1> QED
    BY <1>4, <1>5

\* Nor does the step make a packed version too new.
LEMMA PackedKeeps ==
  ASSUME Basics, NEW x, RestStep, ObjStep(x), WorkStep(x), NEW z \in Workers
  PROVE  Packed(wk[z])'
  <1> SUFFICES ASSUME NEW p \in wk'[z].piggy
               PROVE  /\ p[2] <= ver[p[1]]
                      /\ HaveStatus(obj'[p[1]]) => p[2] <= obj'[p[1]].vv
                      /\ \A y \in Workers : Answered(wk'[y]) /\ wk'[y].file = p[1] => p[2] <= wk'[y].vv
    BY DEF Packed, RestStep
  <1> DEFINE g == p[1]
             v == p[2]
  <1>1. g \in Files /\ v \in Versions
    <2>1. wk'[z] \in Worker
      BY DEF WorkStep
    <2>2. p \in Files \X Versions
      BY <2>1 DEF Worker
    <2> QED
      BY <2>2
  <1>2. p \in wk[z].piggy \/ (x \in Workers /\ v = obj[g].vv /\ obj[g].lock = NONE /\ wk'[x].file # g)
    <2>1. CASE z = x
      BY <2>1 DEF WorkStep, OwnStep
    <2>2. CASE z # x
      BY <2>2 DEF WorkStep
    <2> QED
      BY <2>1, <2>2
  <1> HIDE DEF g, v
  <1>3. /\ obj[g] \in Object /\ ver[g] \in Versions /\ obj[g].vv <= ver[g]
        /\ \A y \in Workers : wk[y] \in Worker
    BY <1>1 DEF Basics, TypeOK, ObjectOK
  <1>4. Versions \subseteq Nat /\ NONE \notin Workers
    BY Constants
  <1>5. obj[g].vv \in Nat /\ ver[g] \in Nat /\ v \in Nat
    BY <1>1, <1>3, <1>4 DEF Object
  <1>6. \A y \in Workers : Answered(wk[y]) /\ wk[y].file = g => obj[g].lock = y
    BY <1>1 DEF Basics, Locks, Answered
  <1>7. /\ v <= ver[g]
        /\ HaveStatus(obj[g]) => v <= obj[g].vv
        /\ \A y \in Workers : Answered(wk[y]) /\ wk[y].file = g => v <= wk[y].vv
    <2>1. CASE p \in wk[z].piggy
      BY <2>1 DEF Basics, Packed, g, v
    <2>2. CASE v = obj[g].vv /\ obj[g].lock = NONE
      <3>1. v <= ver[g] /\ v <= obj[g].vv
        BY SMTT(60), <1>3, <1>5, <2>2
      <3> QED
        BY <1>4, <1>6, <2>2, <3>1
    <2> QED
      BY <1>2, <2>1, <2>2
  <1>8. HaveStatus(obj'[g]) => v <= obj'[g].vv
    BY <1>1, <1>7 DEF ObjStep
  <1>9. ASSUME NEW y \in Workers, Answered(wk'[y]), wk'[y].file = g
        PROVE  v <= wk'[y].vv
    <2>1. CASE y # x
      BY <1>7, <1>9, <2>1 DEF WorkStep
    <2>2. CASE y = x
      <3>1. NewAnswer(x) \/ OldAnswer(x)
        BY <1>9, <2>2 DEF WorkStep, OwnStep
      <3> QED
        BY <1>7, <1>9, <2>2, <3>1 DEF NewAnswer, OldAnswer
    <2> QED
      BY <2>1, <2>2
  <1> QED
    BY <1>7, <1>8, <1>9 DEF g, v

\* A step of x that is in order keeps the first part of the invariant.
LEMMA StepBasics ==
  ASSUME Basics, NEW x, RestStep, ObjStep(x), WorkStep(x)
  PROVE  Basics'
  <1>1. TypeOK'
    BY DEF Basics, TypeOK, RestStep, ObjStep, WorkStep
  <1>2. \A y \in Workers : WellFormed(wk'[y]) /\ CallOK(wk[y])' /\ Packed(wk[y])'
    BY OthersKeep, PackedKeeps DEF WorkStep, OwnStep
  <1>3. \A f \in Files : ObjectOK(f)'
    BY DEF ObjStep
  <1>4. Locks'
    <2> SUFFICES ASSUME NEW y \in Workers, NEW f \in Files
                 PROVE  obj'[f].lock = y <=> wk'[y].op \in FileOp /\ wk'[y].file = f
      BY DEF Locks
    <2>1. CASE y = x
      BY <2>1 DEF WorkStep, OwnStep
    <2>2. CASE y # x
      <3>1. y \in Workers \ {x}
        BY <2>2
      <3>2. wk'[y] = wk[y]
        BY <3>1 DEF WorkStep
      <3>3. obj'[f].lock = y <=> obj[f].lock = y
        BY <3>1 DEF ObjStep
      <3>4. obj[f].lock = y <=> wk[y].op \in FileOp /\ wk[y].file = f
        BY DEF Basics, Locks
      <3> QED
        BY <3>2, <3>3, <3>4
    <2> QED
      BY <2>1, <2>2
  <1>5. UpdateOK'
    <2>1. upd' = upd /\ stamp' = stamp /\ Updates' = Updates
      BY DEF RestStep, Updates
    <2>2. upd.fid \in cb => upd.fid \in cb'
      BY DEF RestStep
    <2> QED
      BY <2>1, <2>2 DEF Basics, UpdateOK, RestStep
  <1>6. Bounded'
    BY DEF Basics, Bounded, RestStep
  <1>7. Stable' /\ ("vcb" \notin env' => ~VCBStatus')
    BY DEF Basics, Stable, RestStep
  <1> QED
    BY <1>1, <1>2, <1>3, <1>4, <1>5, <1>6, <1>7 DEF Basics

------------------------------------------------------------------------------
(* What a step of x does to the order of breaks and answers.               *)

\* The piggybacked objects that the server has found valid.
OkStep(x) ==
  \A g \in wk'[x].ok :
    /\ wk'[x].pc = "piggy" => upd.file # g
    /\ g \in wk[x].ok \/ (g \in cb' /\ g # upd.file /\ Current(g))

\* ValidateFSOs has visited an object before, or finds it safe now.
CollectStep(x) ==
  Collecting(wk'[x]) /\ ~wk'[x].vsusp =>
    \A f \in Files \ wk'[x].fsos :
      (Collecting(wk[x]) /\ ~wk[x].vsusp /\ f \notin wk[x].fsos) \/ Safe(f)'

HoldStep(x) ==
  Holding' =>
    \/ \A f \in Files : Safe(f)
    \/ /\ Holding /\ (VVV' = VVV \/ stamp # 0)
       /\ VVV # NONE /\ x \in Workers /\ Collecting(wk'[x]) => Collecting(wk[x])

VolumeStep(x) ==
  /\ VCBStatus' => VOL \in cb' /\ ~upd.handled
  /\ HoldStep(x)
  /\ x \in Workers =>
       /\ VolumeAnswer(wk[x])' /\ CollectStep(x)
       /\ wk'[x].invs /\ wk'[x].op \in FileOp /\ wk'[x].susp => wk'[x].vsusp

\* What is current stays so: new answers are current, and objects get their
\* status from answers.
LEMMA CurrentKeeps ==
  ASSUME Basics, NEW x, RestStep, ObjStep(x), WorkStep(x), NEW f \in Files, Current(f)
  PROVE  Current(f)'
  <1>1. ver' = ver
    BY DEF RestStep
  <1>2. ASSUME HaveStatus(obj'[f])
        PROVE  obj'[f].vv = ver[f]
    <2>1. \/ HaveStatus(obj[f]) /\ obj'[f].vv = obj[f].vv
          \/ x \in Workers /\ Answered(wk[x]) /\ wk[x].file = f /\ obj'[f].vv = wk[x].vv
      BY <1>2 DEF ObjStep
    <2> QED
      BY <2>1 DEF Current
  <1>3. ASSUME NEW y \in Workers, Answered(wk'[y]), wk'[y].file = f
        PROVE  wk'[y].vv = ver[f]
    <2>1. CASE y # x
      <3>1. wk'[y] = wk[y]
        BY <2>1 DEF WorkStep
      <3> QED
        BY <1>3, <3>1 DEF Current
    <2>2. CASE y = x
      <3>1. NewAnswer(x) \/ OldAnswer(x)
        BY <1>3, <2>2 DEF WorkStep, OwnStep
      <3> QED
        BY <1>3, <2>2, <3>1 DEF NewAnswer, OldAnswer, Current
    <2> QED
      BY <2>1, <2>2
  <1> QED
    BY <1>1, <1>2, <1>3 DEF Current

\* What is in use was in use, or has just been answered.
LEMMA UseKeeps ==
  ASSUME Basics, NEW x, RestStep, ObjStep(x), WorkStep(x), NEW f \in Files, InUse(f)'
  PROVE  InUse(f) \/ (f \in cb' /\ f # upd.file)
  <1>1. CASE HaveStatus(obj'[f])
    BY <1>1 DEF ObjStep, InUse
  <1>2. ASSUME NEW y \in Workers, Answered(wk'[y]), wk'[y].file = f
        PROVE  InUse(f) \/ (f \in cb' /\ f # upd.file)
    <2>1. CASE y # x
      <3>1. wk'[y] = wk[y]
        BY <2>1 DEF WorkStep
      <3> QED
        BY <1>2, <3>1 DEF InUse
    <2>2. CASE y = x
      <3>1. NewAnswer(x) \/ OldAnswer(x)
        BY <1>2, <2>2 DEF WorkStep, OwnStep
      <3> QED
        BY <1>2, <2>2, <3>1 DEF NewAnswer, OldAnswer, InUse
    <2> QED
      BY <2>1, <2>2
  <1> QED
    BY <1>1, <1>2 DEF InUse

\* A file that is safe stays safe in such a step,
LEMMA SafeKeeps ==
  ASSUME Basics, NEW x, RestStep, ObjStep(x), WorkStep(x), NEW f \in Files, Safe(f)
  PROVE  Safe(f)'
  <1>1. Current(f)'
    BY CurrentKeeps DEF Safe
  <1>2. upd' = upd /\ cb \subseteq cb'
    BY DEF RestStep
  <1>3. InUse(f)' => f \in cb' /\ ~Handled(f)'
    BY <1>2, UseKeeps DEF Safe, Handled
  <1> QED
    BY <1>1, <1>3 DEF Safe

\* The answers that the client believes.
LEMMA AnswersKeep ==
  ASSUME Basics, NEW x, RestStep, ObjStep(x), WorkStep(x), NEW y \in Workers, Answers(wk[y])
  PROVE  Answers(wk[y])'
  <1>1. /\ ver' = ver /\ upd' = upd /\ known' = known /\ env' = env /\ cb \subseteq cb'
    BY DEF RestStep
  <1>2. CASE y # x
    <2>1. wk'[y] = wk[y]
      BY <1>2 DEF WorkStep
    <2> QED
      BY <1>1, <2>1 DEF Answers, Believed, Handled
  <1>3. CASE y = x
    <2>1. Answered(wk'[x]) => NewAnswer(x) \/ OldAnswer(x)
      BY <1>3 DEF WorkStep, OwnStep
    <2>2. CASE NewAnswer(x)
      BY <1>1, <1>3, <2>2 DEF NewAnswer, Answers, Handled
    <2>3. CASE OldAnswer(x)
      BY <1>1, <1>3, <2>3 DEF OldAnswer, Answers, Believed, Handled
    <2> QED
      BY <1>3, <2>1, <2>2, <2>3 DEF Answers
  <1> QED
    BY <1>2, <1>3

\* and so do the files found unchanged by a piggybacked validation.
LEMMA PiggiesKeep ==
  ASSUME Basics, NEW x, RestStep, ObjStep(x), WorkStep(x), x \in Workers => OkStep(x),
         NEW y \in Workers, Piggies(wk[y])
  PROVE  Piggies(wk[y])'
  <1>1. /\ ver' = ver /\ upd' = upd /\ known' = known /\ cb \subseteq cb'
    BY DEF RestStep
  <1>2. SUFFICES ASSUME NEW g \in wk'[y].ok
                 PROVE  /\ wk'[y].pc = "piggy" => upd.file # g
                        /\ known => g \in cb' /\ ~Handled(g) /\ Current(g)'
    BY <1>1 DEF Piggies, Handled
  <1>3. g \in Files
    <2>1. wk'[y] \in Worker
      BY DEF WorkStep
    <2> QED
      BY <2>1 DEF Worker
  <1>4. \/ wk'[y].pc = wk[y].pc /\ g \in wk[y].ok
        \/ (wk'[y].pc = "piggy" => upd.file # g) /\ g \in wk[y].ok
        \/ g \in cb' /\ g # upd.file /\ Current(g)
    <2>1. CASE y # x
      BY <2>1 DEF WorkStep
    <2>2. CASE y = x
      BY <2>2 DEF OkStep
    <2> QED
      BY <2>1, <2>2
  <1>5. known => Current(g)
    BY <1>4 DEF Piggies
  <1>6. known => Current(g)'
    BY <1>3, <1>5, CurrentKeeps
  <1> QED
    BY <1>1, <1>4, <1>6 DEF Piggies, Handled

\* The volume callback.
LEMMA VolumeKeeps ==
  ASSUME Basics, NEW x, RestStep, ObjStep(x), WorkStep(x), VolumeOK, VolumeStep(x), known,
         \A y \in Workers : Answers(wk[y])
  PROVE  VolumeOK'
  <1>1. /\ ver' = ver /\ upd' = upd /\ stamp' = stamp /\ cb \subseteq cb'
    BY DEF RestStep
  <1>2. VCBStatus' => VOL \in cb' /\ ~upd'.handled
    BY <1>1 DEF VolumeStep
  <1>3. ASSUME Holding'
        PROVE  \A f \in Files : Current(f)'
    BY <1>3, CurrentKeeps DEF VolumeStep, HoldStep, VolumeOK, Safe
  <1>4. ASSUME Backed, \A f \in Files : Current(f)
        PROVE  Backed'
    <2> SUFFICES ASSUME NEW f \in Files, HaveStatus(obj'[f])
                 PROVE  f \in cb'
      BY DEF Backed
    <2>1. CASE HaveStatus(obj[f])
      BY <1>1, <1>4, <2>1 DEF Backed
    <2>2. CASE x \in Workers /\ Answered(wk[x]) /\ wk[x].file = f
      BY <1>1, <1>4, <2>2 DEF Current, Answers
    <2> QED
      BY <2>1, <2>2 DEF ObjStep
  <1>5. ASSUME Holding', ~Backed', ~upd.handled
        PROVE  stamp = 0 /\ VVV' = 0 /\ \A y \in Workers : ~Collecting(wk'[y])
    <2>1. CASE \A f \in Files : Safe(f)
      BY <1>4, <1>5, <2>1 DEF Safe, Backed, InUse
    <2>2. CASE /\ Holding /\ (VVV' = VVV \/ stamp # 0)
               /\ VVV # NONE /\ x \in Workers /\ Collecting(wk'[x]) => Collecting(wk[x])
      <3>1. ~Backed
        BY <1>4, <1>5, <2>2 DEF VolumeOK
      <3>2. stamp = 0 /\ VVV = 0 /\ \A y \in Workers : ~Collecting(wk[y])
        BY <1>5, <2>2, <3>1 DEF VolumeOK
      <3>3. 0 # NONE
        BY Constants
      <3> QED
        BY <2>2, <3>2, <3>3 DEF WorkStep
    <2> QED
      BY <1>5, <2>1, <2>2 DEF VolumeStep, HoldStep
  <1>6. ASSUME NEW y \in Workers
        PROVE  /\ VolumeAnswer(wk[y])' /\ Collected(wk[y])'
               /\ wk'[y].invs /\ wk'[y].op \in FileOp /\ wk'[y].susp => wk'[y].vsusp
    <2>1. CASE y = x
      <3>1. VolumeAnswer(wk[x])' /\ CollectStep(x)
            /\ (wk'[x].invs /\ wk'[x].op \in FileOp /\ wk'[x].susp => wk'[x].vsusp)
        BY <2>1 DEF VolumeStep
      <3>2. Collected(wk[x])'
        BY <2>1, <3>1, SafeKeeps DEF CollectStep, Collected, VolumeOK
      <3> QED
        BY <2>1, <3>1, <3>2
    <2>2. CASE y # x
      <3>1. wk'[y] = wk[y]
        BY <2>2 DEF WorkStep
      <3>2. Collected(wk[y])'
        BY <3>1, SafeKeeps DEF Collected, VolumeOK
      <3>3. VolumeAnswer(wk[y])'
        BY <1>1, <3>1 DEF VolumeAnswer, VolumeOK
      <3> QED
        BY <3>1, <3>2, <3>3 DEF VolumeOK
    <2> QED
      BY <2>1, <2>2
  <1> QED
    BY <1>1, <1>2, <1>3, <1>5, <1>6 DEF VolumeOK

\* A step of x that is in order keeps the invariant.
LEMMA StepKeeps ==
  ASSUME IInv, NEW x, RestStep, ObjStep(x), WorkStep(x),
         Orderly /\ Coherent => /\ \A f \in Files : Rights(f)'
                                /\ x \in Workers => OkStep(x)
                                /\ Silent' /\ Refused'
                                /\ "vcb" \in env => VolumeStep(x)
  PROVE  IInv'
  <1>1. Basics /\ Basics'
    BY StepBasics DEF IInv
  <1>2. env' = env
    BY DEF RestStep
  <1>3. ASSUME Orderly
        PROVE  Coherent'
    <2>1. /\ Coherent /\ \A f \in Files : Rights(f)'
          /\ x \in Workers => OkStep(x)
          /\ Silent' /\ Refused'
          /\ "vcb" \in env => VolumeStep(x)
      BY <1>3 DEF IInv
    <2>2. \A y \in Workers : Answers(wk[y]) /\ Answers(wk[y])'
      BY <1>1, <2>1, AnswersKeep DEF Coherent
    <2>3. \A y \in Workers : Piggies(wk[y])'
      BY <1>1, <2>1, PiggiesKeep DEF Coherent
    <2>4. "vcb" \in env => known
      BY <1>1, <1>3 DEF Orderly, Basics, Stable
    <2>5. "vcb" \in env => VolumeOK'
      BY <1>1, <2>1, <2>2, <2>4, VolumeKeeps DEF Coherent
    <2> QED
      BY <1>2, <2>1, <2>2, <2>3, <2>5 DEF Coherent
  <1> QED
    BY <1>1, <1>2, <1>3 DEF IInv, Orderly

------------------------------------------------------------------------------
(* The operators on objects and on the records of workers.                 *)

\* The fields of an object after Demote,
LEMMA DemoteFacts ==
  ASSUME NEW o \in Object
  PROVE  /\ Demote(o) \in Object
         /\ Demote(o).state = o.state /\ Demote(o).vv = o.vv /\ Demote(o).data = o.data
         /\ Demote(o).full = o.full /\ Demote(o).openers = o.openers /\ Demote(o).lock = o.lock
         /\ HaveStatus(o) => Demote(o).rc = {}
         /\ ~HaveStatus(o) => Demote(o).rc = o.rc
  BY SMTT(60) DEF Demote, Object, HaveStatus

\* after SetRcRights,
LEMMA SetRcRightsFacts ==
  ASSUME NEW o \in Object, NEW r \in SUBSET {"status", "data"}
  PROVE  /\ SetRcRights(o, r) \in Object
         /\ SetRcRights(o, r).state = o.state /\ SetRcRights(o, r).vv = o.vv
         /\ SetRcRights(o, r).data = o.data /\ SetRcRights(o, r).full = o.full
         /\ SetRcRights(o, r).openers = o.openers /\ SetRcRights(o, r).lock = o.lock
  BY SMTT(60) DEF SetRcRights, Object

\* after DiscardData,
LEMMA DiscardDataFacts ==
  ASSUME NEW o \in Object
  PROVE  /\ DiscardData(o) \in Object
         /\ DiscardData(o).state = o.state /\ DiscardData(o).vv = o.vv
         /\ DiscardData(o).data = NONE /\ DiscardData(o).full = FALSE /\ DiscardData(o).rc = o.rc
         /\ DiscardData(o).openers = o.openers /\ DiscardData(o).lock = o.lock
  BY DEF DiscardData, Object

\* The length changes only with the version.
LEMMA UpdateStatusFacts ==
  ASSUME NEW o \in Object, NEW v \in Versions
  PROVE  /\ UpdateStatus(o, v) \in Object
         /\ UpdateStatus(o, v).state = "normal" /\ UpdateStatus(o, v).vv = v
         /\ UpdateStatus(o, v).data = o.data /\ UpdateStatus(o, v).full = o.full
         /\ UpdateStatus(o, v).openers = o.openers /\ UpdateStatus(o, v).lock = o.lock
         /\ \/ UpdateStatus(o, v).rc = o.rc
            \/ o.vv # v /\ HaveData(o) /\ "resize" \in env
  <1> DEFINE long == HaveData(o) /\ Length(v) # Length(o.vv)
             p == IF long THEN SetRcRights(o, {"status"}) ELSE o
  <1>1. /\ p \in Object /\ p.state = o.state /\ p.vv = o.vv /\ p.data = o.data /\ p.full = o.full
        /\ p.openers = o.openers /\ p.lock = o.lock
    BY SetRcRightsFacts
  <1>2. p.rc = o.rc \/ (o.vv # v /\ HaveData(o) /\ "resize" \in env)
    BY DEF Length
  <1>3. UpdateStatus(o, v) = [p EXCEPT !.vv = v, !.state = "normal"]
    BY DEF UpdateStatus
  <1> HIDE DEF p
  <1>4. /\ UpdateStatus(o, v) \in Object
        /\ UpdateStatus(o, v).state = "normal" /\ UpdateStatus(o, v).vv = v
        /\ UpdateStatus(o, v).data = p.data /\ UpdateStatus(o, v).full = p.full
        /\ UpdateStatus(o, v).openers = p.openers /\ UpdateStatus(o, v).lock = p.lock
        /\ UpdateStatus(o, v).rc = p.rc
    BY ZenonT(60), <1>1, <1>3 DEF Object
  <1> QED
    BY <1>1, <1>2, <1>4

\* with another lock,
LEMMA LockFacts ==
  ASSUME NEW o \in Object, NEW w \in Workers \cup {NONE}
  PROVE  /\ [o EXCEPT !.lock = w] \in Object
         /\ [o EXCEPT !.lock = w].state = o.state /\ [o EXCEPT !.lock = w].vv = o.vv
         /\ [o EXCEPT !.lock = w].data = o.data /\ [o EXCEPT !.lock = w].full = o.full
         /\ [o EXCEPT !.lock = w].rc = o.rc /\ [o EXCEPT !.lock = w].openers = o.openers
         /\ [o EXCEPT !.lock = w].lock = w
  BY SMTT(60) DEF Object

\* with other data,
LEMMA DataFacts ==
  ASSUME NEW o \in Object, NEW d \in Versions \cup {NONE, EMPTY}
  PROVE  /\ [o EXCEPT !.data = d] \in Object
         /\ [o EXCEPT !.data = d].state = o.state /\ [o EXCEPT !.data = d].vv = o.vv
         /\ [o EXCEPT !.data = d].data = d /\ [o EXCEPT !.data = d].full = o.full
         /\ [o EXCEPT !.data = d].rc = o.rc /\ [o EXCEPT !.data = d].openers = o.openers
         /\ [o EXCEPT !.data = d].lock = o.lock
  BY SMTT(60) DEF Object

\* with all of its data,
LEMMA FullFacts ==
  ASSUME NEW o \in Object
  PROVE  /\ [o EXCEPT !.full = TRUE] \in Object
         /\ [o EXCEPT !.full = TRUE].state = o.state /\ [o EXCEPT !.full = TRUE].vv = o.vv
         /\ [o EXCEPT !.full = TRUE].data = o.data /\ [o EXCEPT !.full = TRUE].full = TRUE
         /\ [o EXCEPT !.full = TRUE].rc = o.rc /\ [o EXCEPT !.full = TRUE].openers = o.openers
         /\ [o EXCEPT !.full = TRUE].lock = o.lock
  BY DEF Object

\* and after the transfer of a Fetch.
LEMMA TransferredFacts ==
  ASSUME NEW o \in Object, NEW r \in Worker
  PROVE  /\ Transferred(o, r) \in Object
         /\ Transferred(o, r).state = o.state /\ Transferred(o, r).vv = o.vv
         /\ o.data = EMPTY /\ r.vv # NONE => Transferred(o, r).data = r.vv
         /\ ~(o.data = EMPTY /\ r.vv # NONE) => Transferred(o, r).data = o.data
         /\ Transferred(o, r).full = o.full /\ Transferred(o, r).rc = o.rc
         /\ Transferred(o, r).openers = o.openers /\ Transferred(o, r).lock = o.lock
  <1>1. r.vv \in Versions \cup {NONE}
    BY DEF Worker
  <1>2. CASE o.data = EMPTY /\ r.vv # NONE
    <2>1. PICK d \in Versions \cup {NONE, EMPTY} : d = r.vv
      BY <1>1
    <2>2. Transferred(o, r) = [o EXCEPT !.data = d]
      BY <1>2, <2>1 DEF Transferred
    <2>3. /\ [o EXCEPT !.data = d] \in Object
          /\ [o EXCEPT !.data = d].state = o.state /\ [o EXCEPT !.data = d].vv = o.vv
          /\ [o EXCEPT !.data = d].data = d /\ [o EXCEPT !.data = d].full = o.full
          /\ [o EXCEPT !.data = d].rc = o.rc /\ [o EXCEPT !.data = d].openers = o.openers
          /\ [o EXCEPT !.data = d].lock = o.lock
      BY DataFacts
    <2> QED
      BY <1>2, <2>1, <2>2, <2>3
  <1>3. CASE ~(o.data = EMPTY /\ r.vv # NONE)
    BY <1>3 DEF Transferred
  <1> QED
    BY <1>2, <1>3

\* A new object, and one that is flushed.
LEMMA RuntFacts ==
  /\ Runt \in Object /\ Runt.state = "runt" /\ Runt.vv = 0 /\ Runt.data = NONE /\ Runt.full = FALSE
  /\ Runt.rc = {} /\ Runt.openers = 0 /\ Runt.lock = NONE
  /\ Gone \in Object /\ Gone.state = "none" /\ Gone.vv = 0 /\ Gone.data = NONE /\ Gone.full = FALSE
  /\ Gone.rc = {} /\ Gone.openers = 0 /\ Gone.lock = NONE
  <1>1. 0 \in Versions /\ 0 \in 0 .. 1
    BY SMTT(60), Constants
  <1> QED
    BY <1>1 DEF Runt, Gone, Object

\* The fields of a worker that has nothing to do.
Resting(r) ==
  /\ r.op = NONE /\ r.file = NONE /\ r.piggy = {} /\ r.ok = {} /\ r.bad = {} /\ r.fsos = {}
  /\ r.susp = FALSE /\ r.vsusp = FALSE /\ r.invs = FALSE /\ r.bound = FALSE /\ r.vbound = FALSE
  /\ r.vv = NONE

\* A worker outside the volume, and one inside that does nothing.
LEMMA OutFacts ==
  Out \in Worker /\ In \in Worker /\ Out.pc = "out" /\ In.pc = "in" /\ Resting(Out) /\ Resting(In)
  BY DEF Out, In, Worker, Resting

\* What the invariant says of one worker,
LEMMA WorkerType ==
  ASSUME Basics, NEW x \in Workers
  PROVE  wk[x] \in Worker /\ WellFormed(wk[x]) /\ CallOK(wk[x])
  BY DEF Basics, TypeOK

\* of one object,
LEMMA ObjectType ==
  ASSUME Basics, NEW f \in Files
  PROVE  /\ obj[f] \in Object /\ ObjectOK(f) /\ obj[f].vv \in Versions /\ ver[f] \in Versions
         /\ obj[f].vv \in Nat /\ ver[f] \in Nat
  BY Constants DEF Basics, TypeOK, Object

\* Who holds no lock, and what nobody has locked.
LEMMA NoLock ==
  ASSUME Basics, NEW x \in Workers, wk[x].op \notin FileOp, NEW f \in Files
  PROVE  obj[f].lock # x
  BY DEF Basics, Locks

\* of the lock of an object,
LEMMA LockedBy ==
  ASSUME Basics, NEW y \in Workers, NEW f \in Files
  PROVE  obj[f].lock = y <=> wk[y].op \in FileOp /\ wk[y].file = f
  BY DEF Basics, Locks

\* and of an object that is not locked.
LEMMA Unlocked ==
  ASSUME Basics, NEW f \in Files, obj[f].lock = NONE, NEW y \in Workers
  PROVE  ~(wk[y].op \in FileOp /\ wk[y].file = f) /\ ~(Answered(wk[y]) /\ wk[y].file = f)
  <1>1. obj[f].lock # y
    BY Constants
  <1> QED
    BY <1>1 DEF Basics, Locks, Answered

\* A worker is done, and holds no lock.
LEMMA Rests ==
  ASSUME Basics, NEW x \in Workers, NEW r \in {In, Out}, wk' = [wk EXCEPT ![x] = r],
         \A f \in Files : obj'[f].lock # x, UNCHANGED env,
         demotion_pending' /\ "fail" \notin env => r = Out
  PROVE  /\ WorkStep(x) /\ OkStep(x) /\ CollectStep(x) /\ VolumeAnswer(wk[x])'
         /\ wk'[x] = r /\ ~Collecting(wk'[x]) /\ wk'[x].op = NONE
  <1>1. r \in Worker /\ Resting(r) /\ r.pc \in {"in", "out"}
    BY OutFacts
  <1>2. wk \in [Workers -> Worker]
    BY DEF Basics, TypeOK
  <1>3. wk' \in [Workers -> Worker] /\ wk'[x] = r /\ \A y \in Workers \ {x} : wk'[y] = wk[y]
    BY <1>1, <1>2
  <1>4. NONE \notin FileOp \cup VolOp \cup {"volattr"}
    BY Constants
  <1>5. NONE \notin FileOp /\ NONE \notin VolOp /\ NONE # "volattr" /\ NONE # "attr" /\ NONE # "fetch"
        /\ NONE # "vols" /\ NONE # "volvs"
    BY <1>4 DEF FileOp, VolOp
  <1>6. ~Answered(r) /\ ~Collecting(r)
    BY <1>1, <1>5 DEF Answered, Collecting, Resting
  <1>7. WellFormed(r)
    BY <1>1, <1>5 DEF WellFormed, Resting
  <1>8. CallOK(wk[x])'
    BY <1>1, <1>3, <1>5, <1>6, OutFacts DEF CallOK, Resting, HasStamp
  <1>9. OwnStep(x)
    BY <1>1, <1>3, <1>5, <1>6, <1>7, <1>8, OutFacts DEF OwnStep, Resting
  <1> QED
    BY <1>1, <1>3, <1>5, <1>6, <1>9 DEF WorkStep, OkStep, CollectStep, VolumeAnswer, Resting

\* The objects stay as they are.
LEMMA SameObjects ==
  ASSUME Basics, NEW x, UNCHANGED <<env, ver, obj>>
  PROVE  ObjStep(x)
  <1>1. obj \in [Files -> Object] /\ \A f \in Files : ObjectOK(f)
    BY DEF Basics, TypeOK
  <1>2. \A f \in Files : ObjectOK(f)'
    BY <1>1 DEF ObjectOK
  <1> QED
    BY <1>1, <1>2 DEF ObjStep

------------------------------------------------------------------------------
(* volent::Enter and volent::Exit.                                         *)

\* TakePending: a pending demotion is carried out, and takes away all rights.
LEMMA TakesPending ==
  ASSUME IInv, NEW x \in Workers, TakePending(x), UNCHANGED <<env, server, VVV, connid>>
  PROVE  /\ RestStep /\ ObjStep(x) /\ \A f \in Files : obj'[f].lock = obj[f].lock
         /\ Orderly /\ Coherent => Refused' /\ \A f \in Files : Rights(f)'
         /\ VCBStatus' => VCBStatus
         /\ ~demotion_pending' /\ (VCBStatus' => ~demotion_pending)
  <1>1. Basics /\ obj \in [Files -> Object]
    BY DEF IInv, Basics, TypeOK
  <1>2. /\ UNCHANGED <<env, ver, stamp, cb, known, upd>> /\ VVV' = VVV /\ connid' = connid
        /\ demotion_pending' = FALSE /\ VCBStatus' = (VCBStatus /\ ~demotion_pending)
        /\ reachable' = IF Inside \subseteq {x} THEN ~ServerIsDown ELSE reachable
    BY DEF server, TakePending
  <1>3. ASSUME NEW f \in Files
        PROVE  /\ obj'[f] \in Object
               /\ obj'[f].state = obj[f].state /\ obj'[f].vv = obj[f].vv
               /\ obj'[f].data = obj[f].data /\ obj'[f].full = obj[f].full
               /\ obj'[f].openers = obj[f].openers /\ obj'[f].lock = obj[f].lock
               /\ demotion_pending /\ HaveStatus(obj[f]) => obj'[f].rc = {}
               /\ ~(demotion_pending /\ HaveStatus(obj[f])) => obj'[f].rc = obj[f].rc
    <2>1. obj'[f] = IF demotion_pending THEN Demote(obj[f]) ELSE obj[f]
      BY DEF TakePending
    <2>2. obj[f] \in Object
      BY <1>1
    <2>3. CASE demotion_pending
      BY <2>1, <2>2, <2>3, DemoteFacts
    <2>4. CASE ~demotion_pending
      BY <2>1, <2>2, <2>4
    <2> QED
      BY <2>3, <2>4
  <1>4. \A f \in Files : ObjectOK(f)'
    <2> SUFFICES ASSUME NEW f \in Files
                 PROVE  ObjectOK(f)'
      OBVIOUS
    <2>1. ObjectOK(f)
      BY <1>1 DEF Basics
    <2>2. HaveStatus(obj'[f]) <=> HaveStatus(obj[f])
      BY <1>3 DEF HaveStatus
    <2> QED
      BY <1>2, <1>3, <2>1, <2>2 DEF ObjectOK
  <1>5. obj' \in [Files -> Object]
    <2>1. obj' = [f \in Files |-> obj'[f]]
      BY DEF TakePending
    <2> QED
      BY <1>3, <2>1
  <1>6. ObjStep(x)
    BY <1>3, <1>4, <1>5 DEF ObjStep, HaveStatus
  <1>7. RestStep
    <2>1. "fail" \notin env => connid' = "up" /\ reachable'
      BY <1>1, <1>2 DEF Basics, Stable, ServerIsDown
    <2>2. /\ VCBStatus' \in BOOLEAN /\ demotion_pending' \in BOOLEAN /\ reachable' \in BOOLEAN
          /\ connid' \in {"down", "nak", "up"} /\ VVV' \in Versions \cup {NONE} /\ cb' \subseteq Fids
      BY <1>1, <1>2 DEF Basics, TypeOK, ServerIsDown
    <2> QED
      BY <1>1, <1>2, <2>1, <2>2 DEF RestStep, Basics, Bounded
  <1>8. ASSUME Orderly, Coherent, NEW f \in Files
        PROVE  Rights(f)' /\ (connid = "nak" => demotion_pending \/ obj'[f].rc = {})
    <2>1. CASE demotion_pending
      <3>1. obj'[f].rc = {}
        BY <1>1, <1>3, <2>1 DEF Basics, ObjectOK
      <3> QED
        BY <2>1, <3>1 DEF Rights
    <2>2. CASE ~demotion_pending
      BY <1>2, <1>3, <1>8, <2>2 DEF Rights, Coherent, Refused, Handled
    <2> QED
      BY <2>1, <2>2
  <1>9. ASSUME Orderly, Coherent
        PROVE  Refused'
    <2> SUFFICES ASSUME connid = "nak", NEW f \in Files
                 PROVE  obj'[f].rc = {}
      BY <1>2 DEF Refused
    <2>1. CASE demotion_pending
      BY <1>1, <1>3, <2>1 DEF Basics, ObjectOK
    <2>2. CASE ~demotion_pending
      BY <1>8, <1>9, <2>2
    <2> QED
      BY <2>1, <2>2
  <1> QED
    BY <1>2, <1>3, <1>6, <1>7, <1>8, <1>9

\* A step of x after which x rests and that grants nothing.
LEMMA RestsKeeps ==
  ASSUME IInv, NEW x \in Workers, NEW r \in {In, Out}, wk' = [wk EXCEPT ![x] = r],
         RestStep, ObjStep(x), \A f \in Files : obj'[f].lock # x,
         demotion_pending' /\ "fail" \notin env => r = Out,
         Orderly /\ Coherent => /\ \A f \in Files : Rights(f)'
                                /\ Refused' /\ (connid' # "up" => Silent')
                                /\ "vcb" \in env => /\ VCBStatus' => VOL \in cb' /\ ~upd.handled
                                                    /\ HoldStep(x)
  PROVE  IInv'
  <1>1. Basics /\ env' = env
    BY DEF IInv, RestStep
  <1>2. /\ WorkStep(x) /\ OkStep(x) /\ CollectStep(x) /\ VolumeAnswer(wk[x])'
        /\ wk'[x] = r /\ wk'[x].op = NONE
    BY <1>1, Rests
  <1>3. wk'[x].op \notin FileOp
    BY <1>2, Constants
  <1>4. connid' = "up" => Silent'
    BY DEF Silent
  <1> QED
    BY <1>2, <1>3, <1>4, StepKeeps DEF VolumeStep

\* Exit keeps the invariant.
LEMMA ExitStep ==
  ASSUME IInv, NEW x \in Workers, Exit(x)
  PROVE  IInv'
  <1>1. /\ wk[x].pc = "in" /\ TakePending(x) /\ wk' = [wk EXCEPT ![x] = Out]
        /\ UNCHANGED <<env, server, VVV, connid>>
    BY DEF Exit
  <1>2. Basics /\ wk[x] \in Worker /\ WellFormed(wk[x])
    BY WorkerType DEF IInv
  <1>3. wk[x].op \notin FileOp /\ wk[x].op # "vols" /\ wk[x].op # "volvs"
    BY <1>1, <1>2 DEF WellFormed, FileOp, VolOp
  <1>4. /\ RestStep /\ ObjStep(x) /\ \A f \in Files : obj'[f].lock = obj[f].lock
        /\ Orderly /\ Coherent => Refused' /\ \A f \in Files : Rights(f)'
        /\ VCBStatus' => VCBStatus
    BY <1>1, TakesPending
  <1>5. \A f \in Files : obj'[f].lock # x
    BY <1>2, <1>3, <1>4 DEF Basics, Locks
  <1>6. /\ cb' = cb /\ upd' = upd /\ VVV' = VVV /\ stamp' = stamp /\ connid' = connid
    BY <1>1 DEF server
  <1>7. wk'[x] = Out /\ \A y \in Workers \ {x} : wk'[y] = wk[y]
    BY <1>1, <1>2 DEF Basics, TypeOK
  <1>8. HoldStep(x)
    <2>1. Out.op # "vols" /\ ~Collecting(Out)
      BY OutFacts, Constants DEF Resting, Collecting, VolOp
    <2> QED
      BY <1>4, <1>6, <1>7, <2>1 DEF HoldStep, Holding
  <1>9. Coherent /\ connid' # "up" => Silent'
    <2>1. Out.pc = "out"
      BY OutFacts
    <2> QED
      BY <1>6, <1>7, <2>1 DEF Coherent, Silent
  <1>10. Orderly /\ Coherent /\ "vcb" \in env => (VCBStatus' => VOL \in cb' /\ ~upd.handled)
    BY <1>4, <1>6 DEF Coherent, VolumeOK
  <1>11. Orderly /\ Coherent => /\ \A f \in Files : Rights(f)'
                                /\ Refused' /\ (connid' # "up" => Silent')
                                /\ "vcb" \in env => /\ VCBStatus' => VOL \in cb' /\ ~upd.handled
                                                    /\ HoldStep(x)
    BY <1>4, <1>8, <1>9, <1>10
  <1>12. PICK r \in {In, Out} : r = Out
    OBVIOUS
  <1> QED
    BY <1>1, <1>4, <1>5, <1>11, <1>12, RestsKeeps

\* A worker that makes no file call.
LEMMA NoFileCall ==
  ASSUME Basics, NEW x \in Workers, NEW r \in Worker, wk' = [wk EXCEPT ![x] = r],
         WellFormed(r), r.op \notin FileOp, \A f \in Files : obj'[f].lock # x,
         UNCHANGED <<env, stamp, known>>,
         HasStamp(r) /\ r.vv # NONE => r.vv <= stamp,
         r.bound \/ r.vbound => known,
         "vcb" \notin env => r.op \notin VolOp \cup {"volattr"} /\ ~r.invs,
         "fail" \notin env => /\ r.pc # "conn" /\ (demotion_pending' => r.pc = "out")
                              /\ r.op \in VolOp \/ r.invs => r.vbound
  PROVE  WorkStep(x) /\ OkStep(x) /\ wk'[x] = r /\ \A y \in Workers \ {x} : wk'[y] = wk[y]
  <1>1. wk \in [Workers -> Worker]
    BY DEF Basics, TypeOK
  <1>2. wk' \in [Workers -> Worker] /\ wk'[x] = r /\ \A y \in Workers \ {x} : wk'[y] = wk[y]
    BY <1>1
  <1>3. r.piggy = {} /\ r.ok = {} /\ r.bad = {} /\ r.op # "fetch" /\ ~Answered(r)
    BY DEF WellFormed, FileOp, Answered
  <1>4. CallOK(wk[x])'
    BY <1>2, <1>3 DEF CallOK
  <1>5. OwnStep(x)
    BY <1>2, <1>3, <1>4 DEF OwnStep
  <1> QED
    BY <1>2, <1>3, <1>5 DEF WorkStep, OkStep

\* The first call of GetVolAttr, or the connection it needs.
VolAttr == [Out EXCEPT !.pc = "conn", !.op = "volattr"]

\* The record of a worker that begins GetVolAttr without a connection,
LEMMA VolAttrFacts ==
  /\ VolAttr \in Worker /\ VolAttr.pc = "conn" /\ VolAttr.op = "volattr" /\ VolAttr.file = NONE
  /\ VolAttr.piggy = {} /\ VolAttr.ok = {} /\ VolAttr.bad = {} /\ VolAttr.invs = FALSE
  /\ VolAttr.bound = FALSE /\ VolAttr.vbound = FALSE /\ VolAttr.vv = NONE
  BY DEF VolAttr, Out, Worker

\* and of one with a connection: ValidateVols, or ValidateFSOs.
LEMMA GetVolAttrFacts ==
  ASSUME Basics
  PROVE  /\ GetVolAttr \in Worker /\ GetVolAttr.file = NONE
         /\ GetVolAttr.piggy = {} /\ GetVolAttr.ok = {} /\ GetVolAttr.bad = {}
         /\ GetVolAttr.bound = FALSE /\ GetVolAttr.vbound = known
         /\ VVV # NONE => /\ GetVolAttr.pc = "sent" /\ GetVolAttr.op = "vols"
                          /\ GetVolAttr.vv = VVV /\ GetVolAttr.invs = FALSE
         /\ VVV = NONE => /\ GetVolAttr.pc = "fsos" /\ GetVolAttr.op = NONE
                          /\ GetVolAttr.fsos = Cached /\ GetVolAttr.invs = TRUE
  <1>1. /\ VVV \in Versions \cup {NONE} /\ known \in BOOLEAN /\ Cached \in SUBSET Files
        /\ Out \in Worker
    BY OutFacts DEF Basics, TypeOK, Cached
  <1>2. CASE VVV # NONE
    <2>1. GetVolAttr = [Out EXCEPT !.pc = "sent", !.op = "vols", !.vv = VVV, !.vbound = known]
      BY <1>2 DEF GetVolAttr
    <2> QED
      BY <1>1, <1>2, <2>1 DEF Out, Worker
  <1>3. CASE VVV = NONE
    <2>1. GetVolAttr = [Out EXCEPT !.pc = "fsos", !.invs = TRUE, !.fsos = Cached, !.vbound = known]
      BY <1>3 DEF GetVolAttr
    <2> QED
      BY <1>1, <1>3, <2>1 DEF Out, Worker
  <1> QED
    BY <1>2, <1>3

\* A worker begins to get the volume callback.
LEMMA BeginsVolume ==
  ASSUME IInv, NEW x \in Workers, NEW r \in {GetVolAttr, VolAttr}, wk' = [wk EXCEPT ![x] = r],
         wk[x].op \notin FileOp, "vcb" \in env, RestStep, ObjStep(x),
         \A f \in Files : obj'[f].lock = obj[f].lock /\ obj'[f].state = obj[f].state,
         VVV' = VVV, VCBStatus' => VCBStatus,
         "fail" \notin env => r = GetVolAttr /\ ~demotion_pending',
         Orderly /\ Coherent => Refused' /\ \A f \in Files : Rights(f)'
  PROVE  IInv'
  <1>1. Basics /\ env' = env /\ stamp' = stamp /\ known' = known /\ upd' = upd /\ cb \subseteq cb'
    BY DEF IInv, RestStep
  <1>2. NONE \notin FileOp \cup VolOp \cup {"volattr"}
    BY Constants
  <1>3. r \in Worker /\ WellFormed(r) /\ r.op \notin FileOp /\ r.pc # "reply"
    <2>1. CASE r = VolAttr
      BY <1>2, <2>1, VolAttrFacts DEF WellFormed, FileOp, VolOp
    <2>2. CASE r = GetVolAttr
      <3>1. CASE VVV # NONE
        BY <1>1, <1>2, <2>2, <3>1, GetVolAttrFacts DEF WellFormed, FileOp, VolOp
      <3>2. CASE VVV = NONE
        BY <1>1, <1>2, <2>2, <3>2, GetVolAttrFacts DEF WellFormed, FileOp, VolOp
      <3> QED
        BY <3>1, <3>2
    <2> QED
      BY <2>1, <2>2
  <1>4. \A f \in Files : obj'[f].lock # x
    BY <1>1, NoLock
  <1>5. /\ r.op = "vols" => r.vv = VVV /\ VVV # NONE
        /\ r.bound \/ r.vbound => known
        /\ Collecting(r) => r.fsos = Cached /\ VVV = NONE
    BY <1>1, <1>2, VolAttrFacts, GetVolAttrFacts DEF Collecting, VolOp
  <1>6. "fail" \notin env => r.pc # "conn" /\ r.vbound
    BY <1>1, GetVolAttrFacts DEF Basics, Stable
  <1>7. HasStamp(r) /\ r.vv # NONE => r.vv <= stamp
    <2>1. r.op # "volvs"
      BY <1>1, <1>2, VolAttrFacts, GetVolAttrFacts, Constants DEF VolOp
    <2> QED
      BY <1>1, <1>5, <2>1 DEF Basics, Bounded, HasStamp
  <1>8. WorkStep(x) /\ OkStep(x) /\ wk'[x] = r /\ \A y \in Workers \ {x} : wk'[y] = wk[y]
    BY <1>1, <1>3, <1>4, <1>5, <1>6, <1>7, NoFileCall
  <1>9. ASSUME Orderly, Coherent
        PROVE  Silent' /\ VolumeStep(x)
    <2>1. "fail" \notin env /\ VolumeOK
      BY <1>9 DEF Orderly, Coherent
    <2>2. Silent'
      BY <2>1 DEF Silent, RestStep
    <2>3. HoldStep(x)
      <3>1. Holding' => Holding
        BY <1>1, <1>5, <1>8 DEF Holding
      <3> QED
        BY <1>5, <1>8, <3>1 DEF HoldStep
    <2>4. VolumeAnswer(wk[x])'
      BY <1>3, <1>8 DEF VolumeAnswer
    <2>5. CollectStep(x)
      <3> SUFFICES ASSUME Collecting(r), NEW f \in Files \ r.fsos
                   PROVE  Safe(f)'
        BY <1>8 DEF CollectStep
      <3>1. obj[f].state = "none" /\ obj'[f].state = "none" /\ obj[f].lock = NONE
        BY <1>1, <1>5 DEF Cached, Basics, ObjectOK
      <3>2. \A y \in Workers : ~(Answered(wk'[y]) /\ wk'[y].file = f)
        <4>1. ~Answered(wk'[x])
          BY <1>3, <1>8 DEF Answered
        <4>2. \A y \in Workers : ~(Answered(wk[y]) /\ wk[y].file = f)
          BY <1>1, <3>1, Unlocked
        <4> QED
          BY <1>8, <4>1, <4>2
      <3> QED
        BY <3>1, <3>2 DEF Safe, Current, InUse, HaveStatus
    <2> QED
      BY <1>1, <1>3, <1>8, <2>1, <2>2, <2>3, <2>4, <2>5 DEF VolumeStep, VolumeOK
  <1> QED
    BY <1>8, <1>9, StepKeeps

\* Enter keeps the invariant.
LEMMA EnterStep ==
  ASSUME IInv, NEW x \in Workers, Enter(x)
  PROVE  IInv'
  <1> DEFINE try == /\ "vcb" \in env /\ reachable' /\ ~ServerIsDown
                    /\ (~VCBStatus \/ demotion_pending) /\ Cardinality(Cached) > 1
                    /\ VVV # NONE \/ x \in Hoarders
  <1>1. /\ wk[x].pc = "out" /\ TakePending(x)
        /\ wk' = [wk EXCEPT ![x] = IF ~try THEN In ELSE IF connid = "up" THEN GetVolAttr ELSE VolAttr]
        /\ UNCHANGED <<env, server, VVV, connid>>
    BY DEF Enter, VolAttr
  <1>2. Basics /\ wk[x] \in Worker /\ WellFormed(wk[x])
    BY WorkerType DEF IInv
  <1>3. wk[x].op \notin FileOp
    BY <1>1, <1>2 DEF WellFormed, FileOp
  <1>4. /\ RestStep /\ ObjStep(x) /\ \A f \in Files : obj'[f].lock = obj[f].lock
        /\ Orderly /\ Coherent => Refused' /\ \A f \in Files : Rights(f)'
        /\ VCBStatus' => VCBStatus
        /\ ~demotion_pending'
    BY <1>1, TakesPending
  <1>5. \A f \in Files : obj'[f].lock # x
    BY <1>2, <1>3, <1>4 DEF Basics, Locks
  <1>6. /\ cb' = cb /\ upd' = upd /\ VVV' = VVV /\ stamp' = stamp /\ connid' = connid
    BY <1>1 DEF server
  <1>7. CASE ~try
    <2>1. wk' = [wk EXCEPT ![x] = In]
      BY <1>1, <1>7
    <2>2. wk'[x] = In /\ \A y \in Workers \ {x} : wk'[y] = wk[y]
      BY <1>2, <2>1 DEF Basics, TypeOK
    <2>3. HoldStep(x)
      <3>1. In.op # "vols" /\ ~Collecting(In)
        BY OutFacts, Constants DEF Resting, Collecting, VolOp
      <3> QED
        BY <1>4, <1>6, <2>2, <3>1 DEF HoldStep, Holding
    <2>4. Coherent /\ connid' # "up" => Silent'
      <3>1. In.pc = "in"
        BY OutFacts
      <3> QED
        BY <1>6, <2>2, <3>1 DEF Coherent, Silent
    <2>5. Orderly /\ Coherent => /\ \A f \in Files : Rights(f)'
                                 /\ Refused' /\ (connid' # "up" => Silent')
                                 /\ "vcb" \in env => /\ VCBStatus' => VOL \in cb' /\ ~upd.handled
                                                     /\ HoldStep(x)
      BY <1>4, <1>6, <2>3, <2>4 DEF Coherent, VolumeOK
    <2>6. PICK r \in {In, Out} : r = In
      OBVIOUS
    <2> QED
      BY <1>4, <1>5, <2>1, <2>5, <2>6, RestsKeeps
  <1>8. CASE try
    <2>1. PICK r \in {GetVolAttr, VolAttr} : r = IF connid = "up" THEN GetVolAttr ELSE VolAttr
      OBVIOUS
    <2>2. wk' = [wk EXCEPT ![x] = r] /\ "vcb" \in env
      BY <1>1, <1>8, <2>1
    <2>3. "fail" \notin env => r = GetVolAttr
      BY <1>2, <2>1 DEF Basics, Stable
    <2>4. \A f \in Files : obj'[f].state = obj[f].state
      <3>1. obj \in [Files -> Object]
        BY <1>2 DEF Basics, TypeOK
      <3> QED
        BY <1>1, <3>1, DemoteFacts DEF TakePending
    <2> QED
      BY <1>3, <1>4, <1>6, <2>2, <2>3, <2>4, BeginsVolume
  <1> QED
    BY <1>7, <1>8

------------------------------------------------------------------------------
(* Steps that concern one object: fsobj::Flush, open and fsobj::Release.   *)

\* A step of the client that touches neither the server nor the volume.
LEMMA QuietRest ==
  ASSUME Basics, UNCHANGED <<env, ver, stamp, cb, known, upd>>, UNCHANGED volume
  PROVE  RestStep
  <1>1. /\ VCBStatus' = VCBStatus /\ VVV' = VVV /\ demotion_pending' = demotion_pending
        /\ connid' = connid /\ reachable' = reachable
    BY DEF volume
  <1> QED
    BY <1>1 DEF RestStep, Basics, TypeOK, Bounded, Stable

\* An unlocked object changes, and gains nothing.
LEMMA ObjectChanges ==
  ASSUME IInv, NEW f \in Files, NEW n \in Object, obj' = [obj EXCEPT ![f] = n],
         UNCHANGED <<env, server, volume, wk>>, obj[f].lock = NONE, n.lock = NONE, ObjectOK(f)',
         HaveStatus(n) => HaveStatus(obj[f]) /\ n.vv = obj[f].vv, n.rc \in {obj[f].rc, {}},
         n.rc # {} => n.vv = obj[f].vv
  PROVE  IInv'
  <1>1. Basics /\ obj \in [Files -> Object]
    BY DEF IInv, Basics, TypeOK
  <1>2. UNCHANGED <<env, ver, stamp, cb, known, upd>> /\ UNCHANGED volume /\ wk' = wk
    BY DEF server
  <1>3. RestStep
    BY <1>1, <1>2, QuietRest
  <1>4. /\ obj' \in [Files -> Object] /\ obj'[f] = n
        /\ \A g \in Files \ {f} : obj'[g] = obj[g]
    BY <1>1
  <1>5. \A g \in Files : ObjectOK(g)'
    <2> SUFFICES ASSUME NEW g \in Files, g # f
                 PROVE  ObjectOK(g)'
      OBVIOUS
    <2>1. obj'[g] = obj[g] /\ ObjectOK(g)
      BY <1>1, <1>4 DEF Basics
    <2> QED
      BY <1>2, <2>1 DEF ObjectOK
  <1>6. NONE \notin Workers
    BY Constants
  <1>7. ObjStep(NONE)
    <2> SUFFICES ASSUME NEW g \in Files
                 PROVE  /\ HaveStatus(obj'[g]) => HaveStatus(obj[g]) /\ obj'[g].vv = obj[g].vv
                        /\ \A y \in Workers : obj'[g].lock = y <=> obj[g].lock = y
                        /\ obj[g].lock \in Workers => obj'[g] = obj[g]
      BY <1>4, <1>5 DEF ObjStep
    <2>1. CASE g = f
      BY <1>4, <1>6, <2>1
    <2>2. CASE g # f
      BY <1>4, <2>2
    <2> QED
      BY <2>1, <2>2
  <1>8. WorkStep(NONE)
    BY <1>1, <1>2, <1>6 DEF WorkStep, Basics, TypeOK
  <1>9. ASSUME Orderly, Coherent
        PROVE  /\ \A g \in Files : Rights(g)'
               /\ Silent' /\ Refused'
               /\ "vcb" \in env => VolumeStep(NONE)
    <2>1. /\ VCBStatus' = VCBStatus /\ VVV' = VVV /\ demotion_pending' = demotion_pending
          /\ connid' = connid
      BY <1>2 DEF volume
    <2>2. \A g \in Files : obj'[g].rc # {} => obj'[g].rc = obj[g].rc /\ obj'[g].vv = obj[g].vv
      BY <1>4
    <2>3. \A g \in Files : Rights(g)'
      BY <1>2, <1>9, <2>1, <2>2 DEF Rights, Coherent, Handled
    <2>4. Silent'
      BY <1>2, <1>9, <2>1 DEF Silent, Coherent
    <2>5. Refused'
      BY <1>9, <2>1, <2>2 DEF Refused, Coherent
    <2>6. Holding' => Holding
      BY <1>2, <2>1 DEF Holding
    <2>7. "vcb" \in env => VolumeStep(NONE)
      BY <1>2, <1>6, <1>9, <2>1, <2>6 DEF VolumeStep, HoldStep, VolumeOK, Coherent
    <2> QED
      BY <2>3, <2>4, <2>5, <2>7
  <1> QED
    BY <1>3, <1>6, <1>7, <1>8, <1>9, StepKeeps

\* Flush keeps the invariant,
LEMMA FlushStep ==
  ASSUME IInv, NEW f \in Files, Flush(f)
  PROVE  IInv'
  <1>1. /\ "flush" \in env /\ HaveStatus(obj[f]) /\ obj[f].lock = NONE
        /\ obj' = [obj EXCEPT ![f] = Gone] /\ UNCHANGED <<env, server, volume, wk>>
    BY DEF Flush, Busy
  <1>2. Basics /\ obj \in [Files -> Object] /\ ver[f] \in Nat /\ ver' = ver /\ env' = env
    BY <1>1, ObjectType DEF IInv, Basics, TypeOK, server
  <1>3. obj'[f] = Gone
    BY <1>1, <1>2
  <1>4. ~HaveStatus(Gone)
    BY RuntFacts DEF HaveStatus
  <1>5. 0 <= ver[f]
    BY SMTT(60), <1>2
  <1>6. ObjectOK(f)'
    BY <1>1, <1>2, <1>3, <1>4, <1>5, RuntFacts, Constants DEF ObjectOK
  <1> QED
    BY <1>1, <1>4, <1>6, RuntFacts, ObjectChanges

\* Open does,
LEMMA OpenStep ==
  ASSUME IInv, NEW x \in Workers, NEW f \in Files, Open(x, f)
  PROVE  IInv'
  <1> DEFINE n == [obj[f] EXCEPT !.openers = obj[f].openers + 1]
  <1>1. /\ "readers" \in env /\ obj[f].full /\ obj[f].lock = NONE /\ obj[f].openers = 0
        /\ HaveStatus(obj[f])
        /\ obj' = [obj EXCEPT ![f].openers = @ + 1] /\ UNCHANGED <<env, server, volume, wk>>
    BY DEF Open, IsValid
  <1>2. /\ Basics /\ obj \in [Files -> Object] /\ ObjectOK(f) /\ obj[f] \in Object /\ ver' = ver
        /\ env' = env
    BY <1>1, ObjectType DEF IInv, Basics, TypeOK, server
  <1>3. obj[f].openers + 1 \in 0 .. 1
    BY SMTT(60), <1>1
  <1>4. /\ n \in Object /\ n.state = obj[f].state /\ n.vv = obj[f].vv /\ n.data = obj[f].data
        /\ n.full = obj[f].full /\ n.rc = obj[f].rc /\ n.lock = obj[f].lock
    BY <1>2, <1>3 DEF Object
  <1>5. obj' = [obj EXCEPT ![f] = n]
    BY <1>1
  <1> HIDE DEF n
  <1>6. obj'[f] = n
    BY <1>2, <1>5
  <1>7. ObjectOK(f)'
    BY <1>1, <1>2, <1>4, <1>6 DEF ObjectOK, HaveStatus
  <1> QED
    BY <1>1, <1>4, <1>5, <1>7, ObjectChanges DEF HaveStatus

\* and Release.
LEMMA ReleaseStep ==
  ASSUME IInv, NEW f \in Files, Release(f)
  PROVE  IInv'
  <1> DEFINE n == [obj[f] EXCEPT !.openers = obj[f].openers - 1]
  <1>1. /\ obj[f].openers > 0 /\ obj[f].lock = NONE
        /\ obj' = [obj EXCEPT ![f].openers = @ - 1] /\ UNCHANGED <<env, server, volume, wk>>
    BY DEF Release
  <1>2. /\ Basics /\ obj \in [Files -> Object] /\ ObjectOK(f) /\ obj[f] \in Object /\ ver' = ver
        /\ env' = env
    BY <1>1, ObjectType DEF IInv, Basics, TypeOK, server
  <1>3. obj[f].openers \in 0 .. 1
    BY <1>2 DEF Object
  <1>4. obj[f].openers - 1 = 0 /\ obj[f].openers # 0 /\ obj[f].openers - 1 \in 0 .. 1
    BY SMTT(60), <1>1, <1>3
  <1>5. /\ n \in Object /\ n.state = obj[f].state /\ n.vv = obj[f].vv /\ n.data = obj[f].data
        /\ n.full = obj[f].full /\ n.rc = obj[f].rc /\ n.lock = obj[f].lock
    BY <1>2, <1>4 DEF Object
  <1>6. obj' = [obj EXCEPT ![f] = n]
    BY <1>1
  <1> HIDE DEF n
  <1>7. obj'[f] = n
    BY <1>2, <1>6
  <1>8. HaveStatus(obj[f]) /\ HaveStatus(n) /\ "readers" \in env
    BY <1>2, <1>4, <1>5 DEF ObjectOK, HaveStatus
  <1>9. ObjectOK(f)'
    BY <1>1, <1>2, <1>5, <1>7, <1>8 DEF ObjectOK, HaveStatus
  <1> QED
    BY <1>1, <1>5, <1>6, <1>8, <1>9, ObjectChanges

------------------------------------------------------------------------------
(* fsdb::Get and ValidateFSOs.                                             *)

\* The record s of a worker, r before, that sends a call for f.
SentBy(r, s, op, f) ==
  /\ s \in Worker
  /\ s.pc = (IF connid = "up" THEN "sent" ELSE "conn") /\ s.op = op /\ s.file = f
  /\ s.susp = FALSE /\ s.bound = known /\ s.vv = NONE /\ s.ok = {} /\ s.bad = {}
  /\ s.invs = r.invs /\ s.vsusp = r.vsusp /\ s.vbound = r.vbound /\ s.fsos = r.fsos
  /\ s.piggy # {} => op = "attr" /\ HaveStatus(obj[f]) /\ "piggy" \in env
  /\ \A p \in s.piggy : /\ p[1] \in Files /\ p[1] # f /\ p[2] = obj[p[1]].vv
                        /\ obj[p[1]].lock = NONE

\* The record of a worker that makes a file call.
LEMMA SendingFacts ==
  ASSUME Basics, NEW r \in Worker, NEW op \in FileOp, NEW f \in Files
  PROVE  SentBy(r, Sending(r, op, f), op, f)
  <1> DEFINE pack == {g \in Files \ {f} : HaveStatus(obj[g]) /\ ~IsValid(g, "status") /\ ~Busy(obj[g])}
             resume == IF op = "fetch" /\ Partial(obj[f]) THEN obj[f].vv ELSE NONE
             piggy == IF op = "attr" /\ HaveStatus(obj[f]) /\ "piggy" \in env
                      THEN {<<g, obj[g].vv>> : g \in pack} ELSE {}
             pc == IF connid = "up" THEN "sent" ELSE "conn"
  <1>1. \A g \in Files : obj[g].vv \in Versions
    BY ObjectType
  <1>2. resume \in Versions \cup {NONE} /\ known \in BOOLEAN
    BY <1>1 DEF Basics, TypeOK
  <1>3. /\ piggy \in SUBSET (Files \X Versions)
        /\ piggy # {} => op = "attr" /\ HaveStatus(obj[f]) /\ "piggy" \in env
        /\ \A p \in piggy : /\ p[1] \in Files /\ p[1] # f /\ p[2] = obj[p[1]].vv
                            /\ obj[p[1]].lock = NONE
    <2>1. ASSUME NEW p \in piggy
          PROVE  /\ p \in Files \X Versions
                 /\ p[1] \in Files /\ p[1] # f /\ p[2] = obj[p[1]].vv /\ obj[p[1]].lock = NONE
      <3>1. PICK g \in pack : p = <<g, obj[g].vv>>
        BY <2>1
      <3>2. g \in Files /\ g # f /\ obj[g].lock = NONE /\ obj[g].vv \in Versions
        BY <1>1, <3>1 DEF Busy
      <3> HIDE DEF pack
      <3> QED
        BY SMTT(60), <3>1, <3>2
    <2>2. piggy # {} => op = "attr" /\ HaveStatus(obj[f]) /\ "piggy" \in env
      OBVIOUS
    <2> HIDE DEF piggy
    <2> QED
      BY <2>1, <2>2
  <1>4. pc \in {"sent", "conn"} /\ op \in {"attr", "fetch"}
    BY DEF FileOp
  <1>5. Sending(r, op, f) = [r EXCEPT !.pc = pc, !.op = op, !.file = f, !.susp = FALSE, !.bound = known,
                                      !.vv = NONE, !.resume = resume, !.ok = {}, !.bad = {},
                                      !.piggy = piggy]
    BY DEF Sending
  <1> HIDE DEF resume, piggy, pc
  <1> DEFINE s == [r EXCEPT !.pc = pc, !.op = op, !.file = f, !.susp = FALSE, !.bound = known,
                            !.vv = NONE, !.resume = resume, !.ok = {}, !.bad = {},
                            !.piggy = piggy]
  <1>a. s \in Worker
    BY ZenonT(60), <1>2, <1>3, <1>4 DEF Worker
  <1>6. /\ s \in Worker /\ s.pc = pc /\ s.op = op /\ s.file = f
        /\ s.susp = FALSE /\ s.bound = known /\ s.vv = NONE /\ s.ok = {} /\ s.bad = {}
        /\ s.piggy = piggy
        /\ s.invs = r.invs /\ s.vsusp = r.vsusp /\ s.vbound = r.vbound /\ s.fsos = r.fsos
    BY <1>a DEF Worker
  <1> HIDE DEF s
  <1>7. SentBy(r, s, op, f)
    BY <1>3, <1>6 DEF pc, SentBy
  <1> QED
    BY <1>5, <1>7 DEF s

\* A worker that asks for data keeps its other fields.
LEMMA GetdataFacts ==
  ASSUME NEW s \in Worker, NEW b \in BOOLEAN
  PROVE  LET u == [s EXCEPT !.getdata = b] IN
         /\ u \in Worker /\ u.pc = s.pc /\ u.op = s.op /\ u.file = s.file /\ u.susp = s.susp
         /\ u.bound = s.bound /\ u.vv = s.vv /\ u.ok = s.ok /\ u.bad = s.bad /\ u.piggy = s.piggy
         /\ u.invs = s.invs /\ u.vsusp = s.vsusp /\ u.vbound = s.vbound /\ u.fsos = s.fsos
  BY DEF Worker

\* x sends a call for f, whose lock it has.
Sends(x, s, f) ==
  /\ s \in Worker
  /\ s.pc = (IF connid = "up" THEN "sent" ELSE "conn") /\ s.op \in FileOp /\ s.file = f
  /\ s.susp = FALSE /\ s.bound = known /\ s.vv = NONE /\ s.ok = {} /\ s.bad = {}
  /\ s.invs = wk[x].invs /\ s.vsusp = wk[x].vsusp /\ s.vbound = wk[x].vbound
  /\ s.fsos \subseteq wk[x].fsos /\ (s.invs => f \in s.fsos)
  /\ s.piggy # {} => s.op = "attr" /\ "piggy" \in env
  /\ \A p \in s.piggy : p[1] # f /\ p[2] = obj[p[1]].vv /\ obj[p[1]].lock = NONE

\* A worker locks an object and makes a file call for it.
LEMMA SendsKeeps ==
  ASSUME IInv, NEW x \in Workers, NEW f \in Files, NEW s, Sends(x, s, f), wk' = [wk EXCEPT ![x] = s],
         wk[x].pc # "out", UNCHANGED <<env, server, volume>>, ObjStep(x),
         \A g \in Files : obj'[g].lock = x <=> g = f,
         s.op = "fetch" \/ s.piggy # {} => HaveStatus(obj'[f]),
         Orderly /\ Coherent => /\ Refused' /\ \A g \in Files : Rights(g)'
                                /\ "vcb" \in env /\ wk[x].invs /\ ~wk[x].vsusp =>
                                     \A g \in wk[x].fsos \ s.fsos : Safe(g)
  PROVE  IInv'
  <1>1. Basics /\ wk \in [Workers -> Worker] /\ WellFormed(wk[x]) /\ CallOK(wk[x])
    BY DEF IInv, Basics, TypeOK
  <1>2. /\ UNCHANGED <<env, ver, stamp, cb, known, upd>> /\ UNCHANGED volume
        /\ VCBStatus' = VCBStatus /\ VVV' = VVV /\ demotion_pending' = demotion_pending
        /\ connid' = connid
    BY DEF server, volume
  <1>3. RestStep
    BY <1>1, <1>2, QuietRest
  <1>4. wk' \in [Workers -> Worker] /\ wk'[x] = s /\ \A y \in Workers \ {x} : wk'[y] = wk[y]
    BY <1>1 DEF Sends
  <1>5. /\ s.pc \in {"sent", "conn"} /\ s.op \in {"attr", "fetch"} /\ s.file = f /\ s.susp = FALSE
        /\ s.bound = known /\ s.vv = NONE /\ s.ok = {} /\ s.bad = {}
        /\ s.invs = wk[x].invs /\ s.vsusp = wk[x].vsusp /\ s.vbound = wk[x].vbound
        /\ (s.invs => f \in s.fsos) /\ (s.piggy # {} => s.op = "attr" /\ "piggy" \in env)
    BY DEF Sends, FileOp
  <1>6. WellFormed(s)
    BY <1>5, Constants DEF WellFormed, FileOp, VolOp
  <1>7. ~Answered(s)
    BY <1>5 DEF Answered
  <1>8. "fail" \notin env => s.pc # "conn" /\ ~demotion_pending' /\ s.bound /\ (s.invs => s.vbound)
    <2>1. "fail" \notin env => connid = "up" /\ known
      BY <1>1 DEF Basics, Stable
    <2> QED
      BY <1>1, <1>2, <1>5, <2>1 DEF Sends, CallOK
  <1>9. CallOK(wk[x])'
    <2>1. s.bound \/ s.vbound => known
      BY <1>1, <1>5 DEF CallOK
    <2>2. "vcb" \notin env => ~s.invs
      BY <1>1, <1>5 DEF CallOK
    <2> QED
      BY <1>2, <1>4, <1>5, <1>7, <1>8, <2>1, <2>2 DEF CallOK, VolOp, HasStamp
  <1>10. OwnStep(x)
    <2>1. s.op \in FileOp
      BY <1>5 DEF FileOp
    <2> QED
      BY <1>4, <1>5, <1>6, <1>7, <1>8, <1>9, <2>1 DEF OwnStep, Sends
  <1>11. WorkStep(x) /\ OkStep(x)
    BY <1>4, <1>5, <1>10 DEF WorkStep, OkStep
  <1>12. ASSUME Orderly, Coherent
         PROVE  Silent'
    BY <1>2, <1>4, <1>12 DEF Silent, Coherent, Sends
  <1>13. ASSUME Orderly, Coherent, "vcb" \in env
         PROVE  VolumeStep(x)
    <2>1. VolumeOK
      BY <1>13 DEF Coherent
    <2>2. s.op # "volvs" /\ s.op # "vols" /\ s.op \notin VolOp
      BY <1>5 DEF VolOp
    <2>3. HoldStep(x)
      <3>1. Holding' => Holding
        BY <1>2, <1>4, <2>2 DEF Holding
      <3>2. Collecting(wk'[x]) => Collecting(wk[x])
        BY <1>4, <1>5, <2>2 DEF Collecting
      <3> QED
        BY <1>2, <3>1, <3>2 DEF HoldStep
    <2>4. CollectStep(x)
      <3> SUFFICES ASSUME Collecting(s), ~s.vsusp, NEW g \in Files \ s.fsos
                   PROVE  (Collecting(wk[x]) /\ ~wk[x].vsusp /\ g \notin wk[x].fsos) \/ Safe(g)'
        BY <1>4 DEF CollectStep
      <3>1. wk[x].invs /\ ~wk[x].vsusp
        BY <1>5, <2>2 DEF Collecting
      <3>2. CASE g \in wk[x].fsos
        <4>1. Safe(g)
          BY <1>13, <3>1, <3>2
        <4> QED
          BY <1>1, <1>3, <1>11, <4>1, SafeKeeps
      <3>3. CASE g \notin wk[x].fsos
        BY <3>1, <3>3 DEF Collecting
      <3> QED
        BY <3>2, <3>3
    <2>5. VolumeAnswer(wk[x])'
      BY <1>4, <2>2 DEF VolumeAnswer
    <2> QED
      BY <1>2, <1>4, <1>5, <2>1, <2>3, <2>4, <2>5 DEF VolumeStep, VolumeOK
  <1> QED
    BY <1>3, <1>11, <1>12, <1>13, StepKeeps

\* Get locks the object for the call.
LEMMA GetsObject ==
  ASSUME IInv, NEW x \in Workers, NEW f \in Files, NEW r \in Worker, NEW getdata \in BOOLEAN,
         GetObject(x, r, f, getdata), wk[x].pc \in {"in", "fsos"},
         r.invs = wk[x].invs, r.vsusp = wk[x].vsusp, r.vbound = wk[x].vbound,
         r.fsos \subseteq wk[x].fsos, r.invs => f \in r.fsos,
         Orderly /\ Coherent /\ "vcb" \in env /\ wk[x].invs /\ ~wk[x].vsusp =>
           \A g \in wk[x].fsos \ r.fsos : Safe(g)
  PROVE  IInv'
  <1> DEFINE o == obj[f]
             op == IF o.state = "none" \/ ~IsValid(f, "status") THEN "attr" ELSE "fetch"
             new == IF o.state = "none" THEN Runt
                    ELSE IF op = "fetch" /\ ~HaveData(o) THEN [o EXCEPT !.data = EMPTY] ELSE o
             n == [new EXCEPT !.lock = x]
             s == [Sending(r, op, f) EXCEPT !.getdata = getdata]
  <1>1. /\ o.lock = NONE /\ o.state # "runt"
        /\ obj' = [obj EXCEPT ![f] = n] /\ wk' = [wk EXCEPT ![x] = s]
        /\ UNCHANGED <<env, server, volume>>
    BY DEF GetObject
  <1>2. Basics /\ obj \in [Files -> Object] /\ o \in Object /\ ObjectOK(f) /\ ver[f] \in Nat
    BY ObjectType DEF IInv, Basics, TypeOK
  <1>3. UNCHANGED <<env, ver, stamp, cb, known, upd>> /\ UNCHANGED volume
    BY <1>1 DEF server
  <1>4. op \in FileOp /\ (op = "fetch" => HaveStatus(o))
    BY DEF FileOp, IsValid
  <1>5. /\ new \in Object /\ new.state = (IF o.state = "none" THEN "runt" ELSE o.state)
        /\ o.state = "none" => new.vv = 0 /\ new.data = NONE /\ ~new.full /\ new.rc = {} /\ new.openers = 0
        /\ o.state # "none" => /\ new.vv = o.vv /\ new.full = o.full /\ new.rc = o.rc
                               /\ new.openers = o.openers
                               /\ new.data = o.data \/ (HaveStatus(o) /\ o.data = NONE /\ new.data = EMPTY)
    <2>1. CASE o.state = "none"
      BY <2>1, RuntFacts
    <2>2. CASE o.state # "none" /\ ~(op = "fetch" /\ ~HaveData(o))
      <3>1. new = o
        BY <2>2
      <3> QED
        BY <1>2, <2>2, <3>1
    <2>3. CASE o.state # "none" /\ op = "fetch" /\ ~HaveData(o)
      <3> DEFINE p == [o EXCEPT !.data = EMPTY]
      <3>1. new = p /\ HaveStatus(o) /\ o.data = NONE /\ EMPTY \in Versions \cup {NONE, EMPTY}
        BY <1>4, <2>3 DEF HaveData
      <3>2. /\ p \in Object /\ p.state = o.state /\ p.vv = o.vv /\ p.data = EMPTY /\ p.full = o.full
            /\ p.rc = o.rc /\ p.openers = o.openers
        BY SMTT(60), <1>2, <3>1, DataFacts
      <3> HIDE DEF new, p
      <3> QED
        BY <2>3, <3>1, <3>2
    <2> QED
      BY <2>1, <2>2, <2>3
  <1> HIDE DEF new
  <1>6. /\ n \in Object /\ n.state = new.state /\ n.vv = new.vv /\ n.data = new.data
        /\ n.full = new.full /\ n.rc = new.rc /\ n.openers = new.openers /\ n.lock = x
    BY SMTT(60), <1>5, LockFacts
  <1>7. Sends(x, s, f) /\ s.op = op /\ (s.piggy # {} => HaveStatus(o)) /\ s.fsos = r.fsos
    <2> DEFINE t == Sending(r, op, f)
    <2> HIDE DEF op
    <2>1. SentBy(r, t, op, f)
      BY <1>2, <1>4, SendingFacts
    <2> HIDE DEF t
    <2>2. /\ s \in Worker /\ s.pc = t.pc /\ s.op = t.op /\ s.file = t.file /\ s.susp = t.susp
          /\ s.bound = t.bound /\ s.vv = t.vv /\ s.ok = t.ok /\ s.bad = t.bad /\ s.piggy = t.piggy
          /\ s.invs = t.invs /\ s.vsusp = t.vsusp /\ s.vbound = t.vbound /\ s.fsos = t.fsos
      <3>1. t \in Worker
        BY <2>1 DEF SentBy
      <3> QED
        BY <3>1, GetdataFacts DEF t
    <2> HIDE DEF s
    <2> QED
      BY <1>4, <2>1, <2>2 DEF Sends, SentBy
  <1> HIDE DEF n, s
  <1>8. obj' \in [Files -> Object] /\ obj'[f] = n /\ \A g \in Files \ {f} : obj'[g] = obj[g]
    BY <1>1, <1>2, <1>6
  <1>9. x # NONE /\ wk[x].op \notin FileOp
    BY <1>2, WorkerType, Constants DEF WellFormed
  <1>10. ObjectOK(f)'
    <2>1. 0 <= ver[f] /\ EMPTY \notin Versions /\ EMPTY # NONE /\ NONE \notin Versions
      BY SMTT(60), <1>2, Constants
    <2>2. CASE o.state = "none"
      <3>1. "flush" \in env \/ "piggy" \in env
        BY <1>2, <2>2 DEF ObjectOK, HaveStatus
      <3> QED
        BY <1>3, <1>5, <1>6, <1>8, <1>9, <2>1, <2>2, <3>1 DEF ObjectOK, HaveStatus
    <2>3. CASE o.state # "none"
      <3>1. HaveStatus(o) /\ HaveStatus(n) /\ n.state # "none" /\ n.state # "runt"
        <4>1. o.state = "normal"
          BY <1>1, <1>2, <2>3 DEF Object
        <4> QED
          BY <1>5, <1>6, <4>1 DEF HaveStatus
      <3>2. n.vv = o.vv /\ n.full = o.full /\ n.openers = o.openers
            /\ (n.data = o.data \/ (o.data = NONE /\ n.data = EMPTY))
        BY <1>5, <1>6, <2>3
      <3> QED
        BY <1>2, <1>3, <1>8, <2>1, <3>1, <3>2 DEF ObjectOK
    <2> QED
      BY <2>2, <2>3
  <1>11. /\ HaveStatus(n) <=> HaveStatus(o)
         /\ HaveStatus(o) => n.vv = o.vv
         /\ n.rc # {} => n.rc = o.rc /\ n.vv = o.vv
    BY <1>5, <1>6 DEF HaveStatus
  <1>12. ObjStep(x)
    <2>1. \A g \in Files : ObjectOK(g)'
      <3> SUFFICES ASSUME NEW g \in Files, g # f
                   PROVE  ObjectOK(g)'
        BY <1>10
      <3>1. obj'[g] = obj[g] /\ ObjectOK(g)
        BY <1>2, <1>8 DEF Basics
      <3> QED
        BY <1>3, <3>1 DEF ObjectOK
    <2> SUFFICES ASSUME NEW g \in Files
                 PROVE  /\ HaveStatus(obj'[g]) => HaveStatus(obj[g]) /\ obj'[g].vv = obj[g].vv
                        /\ \A y \in Workers \ {x} : obj'[g].lock = y <=> obj[g].lock = y
                        /\ obj[g].lock \in Workers \ {x} => obj'[g] = obj[g]
      BY <1>8, <2>1 DEF ObjStep
    <2>2. CASE g = f
      BY <1>1, <1>6, <1>8, <1>11, <2>2, Constants
    <2>3. CASE g # f
      BY <1>8, <2>3
    <2> QED
      BY <2>2, <2>3
  <1>13. \A g \in Files : obj'[g].lock = x <=> g = f
    BY <1>2, <1>6, <1>8, <1>9, NoLock
  <1>14. s.op = "fetch" \/ s.piggy # {} => HaveStatus(obj'[f])
    BY <1>4, <1>7, <1>8, <1>11
  <1>15. ASSUME Orderly, Coherent
         PROVE  Refused' /\ \A g \in Files : Rights(g)'
    <2>1. \A g \in Files : obj'[g].rc # {} => obj'[g].rc = obj[g].rc /\ obj'[g].vv = obj[g].vv
      BY <1>8, <1>11
    <2>2. connid' = connid /\ demotion_pending' = demotion_pending
      BY <1>3 DEF volume
    <2> QED
      BY <1>3, <1>15, <2>1, <2>2 DEF Rights, Coherent, Refused, Handled
  <1> QED
    BY <1>1, <1>7, <1>12, <1>13, <1>14, <1>15, SendsKeeps

\* Get keeps the invariant.
LEMMA GetStep ==
  ASSUME IInv, NEW x \in Workers, NEW f \in Files, NEW getdata \in BOOLEAN, Get(x, f, getdata)
  PROVE  IInv'
  <1>1. wk[x].pc = "in" /\ GetObject(x, wk[x], f, getdata)
    BY DEF Get
  <1>2. wk[x] \in Worker /\ WellFormed(wk[x])
    BY WorkerType DEF IInv
  <1>3. ~wk[x].invs
    BY <1>1, <1>2 DEF WellFormed
  <1> QED
    BY <1>1, <1>2, <1>3, GetsObject

\* What ValidateFSOs passes over needs no validation: rights are backed, and with
\* the volume callback the files have been collected or are current anyway.
LEMMA ValidIsSafe ==
  ASSUME IInv, Orderly, Coherent, "vcb" \in env, NEW x \in Workers, wk[x].pc = "fsos",
         NEW g \in Files, obj[g].state = "none" \/ IsValid(g, "status")
  PROVE  Safe(g)
  <1>1. Basics /\ wk[x] \in Worker /\ WellFormed(wk[x]) /\ CallOK(wk[x])
    BY WorkerType DEF IInv
  <1>2. "fail" \notin env
    BY DEF Orderly
  <1>3. known /\ connid = "up" /\ reachable /\ ~demotion_pending
    BY <1>1, <1>2 DEF Basics, Stable, CallOK
  <1>4. Collecting(wk[x])
    BY <1>1 DEF WellFormed, Collecting
  <1>5. VolumeOK /\ Rights(g)
    BY DEF Coherent
  <1>6. ObjectOK(g) /\ ver[g] \in Nat /\ obj[g].vv \in Nat
    BY <1>1, ObjectType
  <1>7. CASE obj[g].state = "none"
    <2>1. ~HaveStatus(obj[g]) /\ obj[g].lock = NONE
      BY <1>6, <1>7 DEF HaveStatus, ObjectOK
    <2> QED
      BY <1>1, <2>1, Unlocked DEF Safe, Current, InUse
  <1>8. CASE HaveStatus(obj[g]) /\ "status" \in obj[g].rc
    <2>1. g \in cb /\ obj[g].vv = ver[g] /\ ~Handled(g)
      BY <1>3, <1>5, <1>8 DEF Rights
    <2>2. ASSUME NEW y \in Workers, Answered(wk[y]), wk[y].file = g
          PROVE  wk[y].vv = ver[g]
      <3>1. wk[y] \in Worker /\ CallOK(wk[y])
        BY <1>1, WorkerType
      <3>2. obj[g].vv <= wk[y].vv /\ wk[y].vv <= ver[g]
        BY <2>2, <3>1 DEF CallOK
      <3>3. wk[y].vv \in Nat
        BY <2>2, <3>1, Constants DEF Worker, Answered
      <3> QED
        BY SMTT(60), <1>6, <2>1, <3>2, <3>3
    <2> QED
      BY <2>1, <2>2 DEF Safe, Current
  <1>9. CASE HaveStatus(obj[g]) /\ VCBStatus
    <2>1. Holding /\ Current(g) /\ ~upd.handled
      BY <1>5, <1>9 DEF Holding, VolumeOK
    <2>2. Backed
      BY <1>4, <1>5, <2>1 DEF VolumeOK
    <2> QED
      BY <1>9, <2>1, <2>2 DEF Safe, Backed, Handled
  <1>10. IsValid(g, "status") => HaveStatus(obj[g]) /\ ("status" \in obj[g].rc \/ VCBStatus)
    BY <1>3 DEF IsValid
  <1> QED
    BY <1>7, <1>8, <1>9, <1>10

\* The worker's record when it has visited all files.
GetVolVS(r) == [r EXCEPT !.pc = "sent", !.op = "volvs", !.fsos = {}, !.invs = FALSE]
\* The record of a worker that asks for the stamp of the volume,
LEMMA GetVolVSFacts ==
  ASSUME NEW r \in Worker
  PROVE  /\ GetVolVS(r) \in Worker /\ GetVolVS(r).pc = "sent" /\ GetVolVS(r).op = "volvs"
         /\ GetVolVS(r).fsos = {} /\ GetVolVS(r).invs = FALSE /\ GetVolVS(r).file = r.file
         /\ GetVolVS(r).piggy = r.piggy /\ GetVolVS(r).ok = r.ok /\ GetVolVS(r).bad = r.bad
         /\ GetVolVS(r).vsusp = r.vsusp /\ GetVolVS(r).bound = r.bound
         /\ GetVolVS(r).vbound = r.vbound
  BY DEF GetVolVS, Worker

\* and of one that passes over objects that need no validation.
LEMMA PassesFacts ==
  ASSUME NEW r \in Worker, NEW S
  PROVE  LET s == [r EXCEPT !.fsos = r.fsos \ S] IN
         /\ s \in Worker /\ s.fsos = r.fsos \ S /\ s.invs = r.invs /\ s.vsusp = r.vsusp
         /\ s.vbound = r.vbound
  BY DEF Worker

\* ValidateFSOs keeps the invariant.
LEMMA ValidateFSOsStep ==
  ASSUME IInv, NEW x \in Workers, ValidateFSOs(x)
  PROVE  IInv'
  <1> DEFINE r == wk[x]
             needed == {f \in r.fsos : /\ obj[f].state # "none"
                                       /\ \/ ~IsValid(f, "status")
                                          \/ HaveData(obj[f]) /\ ~obj[f].full /\ reachable}
  <1>1. Basics /\ r \in Worker /\ WellFormed(r) /\ CallOK(r) /\ wk \in [Workers -> Worker]
    BY WorkerType DEF IInv, Basics, TypeOK
  <1>2. r.pc = "fsos" /\ r.invs /\ r.op \notin FileOp /\ r.op \notin VolOp /\ r.op # "vols"
    BY <1>1, Constants DEF WellFormed, ValidateFSOs, FileOp, VolOp
  <1>3. "vcb" \in env /\ r.fsos \subseteq Files
    BY <1>1, <1>2 DEF CallOK, Worker
  <1>4. ASSUME Orderly, Coherent, NEW g \in Files, g \in r.fsos \ needed
        PROVE  Safe(g)
    <2>1. obj[g].state = "none" \/ IsValid(g, "status")
      BY <1>4
    <2> QED
      BY <1>2, <1>3, <1>4, <2>1, ValidIsSafe
  <1>5. \A f \in Files : obj[f].lock # x
    BY <1>1, <1>2, NoLock
  <1>6. CASE ~(needed = {} \/ ServerIsDown)
    <2>1. PICK f \in needed, S \in SUBSET (r.fsos \ needed) :
             GetObject(x, [r EXCEPT !.fsos = r.fsos \ S], f, HaveData(obj[f]))
      BY <1>6 DEF ValidateFSOs
    <2> DEFINE s == [r EXCEPT !.fsos = r.fsos \ S]
    <2>2. /\ s \in Worker /\ s.fsos = r.fsos \ S /\ s.invs = r.invs /\ s.vsusp = r.vsusp
          /\ s.vbound = r.vbound
      BY <1>1, PassesFacts
    <2>3. f \in Files /\ f \in s.fsos /\ s.fsos \subseteq r.fsos
      <3>1. f \in r.fsos /\ f \notin S
        BY <2>1
      <3> HIDE DEF s, needed
      <3> QED
        BY <1>3, <2>2, <3>1
    <2>4. Orderly /\ Coherent => \A g \in r.fsos \ s.fsos : Safe(g)
      <3> HIDE DEF s, needed
      <3>1. r.fsos \ s.fsos \subseteq r.fsos \ needed
        BY <2>1, <2>2
      <3> QED
        BY <1>3, <1>4, <3>1
    <2>5. HaveData(obj[f]) \in BOOLEAN
      BY DEF HaveData
    <2>6. PICK getdata \in BOOLEAN : getdata = HaveData(obj[f])
      BY <2>5
    <2>7. GetObject(x, s, f, getdata)
      BY <2>1, <2>6
    <2> HIDE DEF s, needed
    <2>8. /\ wk[x].pc \in {"in", "fsos"}
          /\ s.invs = wk[x].invs /\ s.vsusp = wk[x].vsusp /\ s.vbound = wk[x].vbound
          /\ s.fsos \subseteq wk[x].fsos /\ (s.invs => f \in s.fsos)
      BY <1>2, <2>2, <2>3
    <2>9. Orderly /\ Coherent /\ "vcb" \in env /\ wk[x].invs /\ ~wk[x].vsusp =>
            \A g \in wk[x].fsos \ s.fsos : Safe(g)
      BY <2>4
    <2>10. s \in Worker /\ f \in Files
      BY <2>2, <2>3
    <2> HIDE DEF r
    <2> QED
      BY <2>7, <2>8, <2>9, <2>10, GetsObject
  <1>7. CASE needed # {} /\ ServerIsDown
    <2>1. wk' = [wk EXCEPT ![x] = In] /\ UNCHANGED <<env, server, obj, volume>>
      BY <1>7 DEF ValidateFSOs
    <2>2. /\ UNCHANGED <<env, ver, stamp, cb, known, upd>> /\ UNCHANGED volume /\ obj' = obj
          /\ VCBStatus' = VCBStatus /\ VVV' = VVV /\ demotion_pending' = demotion_pending
          /\ connid' = connid
      BY <2>1 DEF server, volume
    <2> HIDE DEF needed
    <2>3. RestStep /\ ObjStep(x)
      BY <1>1, <2>2, QuietRest, SameObjects
    <2>4. "fail" \in env
      BY <1>1, <1>7 DEF Basics, Stable, ServerIsDown
    <2>5. ~(Orderly /\ Coherent)
      BY <1>3, <2>4 DEF Orderly
    <2>6. \A f \in Files : obj'[f].lock # x
      BY <1>5, <2>2
    <2>7. PICK q \in {In, Out} : q = In
      OBVIOUS
    <2> QED
      BY <2>1, <2>3, <2>4, <2>5, <2>6, <2>7, RestsKeeps
  <1>8. CASE needed = {}
    <2> DEFINE v == GetVolVS(r)
    <2>1. wk' = [wk EXCEPT ![x] = v] /\ UNCHANGED <<env, server, obj, volume>>
      BY <1>8 DEF ValidateFSOs, GetVolVS
    <2>2. /\ UNCHANGED <<env, ver, stamp, cb, known, upd>> /\ UNCHANGED volume /\ obj' = obj
          /\ VCBStatus' = VCBStatus /\ VVV' = VVV /\ demotion_pending' = demotion_pending
          /\ connid' = connid
      BY <2>1 DEF server, volume
    <2>3. ASSUME Orderly, Coherent, NEW g \in Files, g \in r.fsos
          PROVE  Safe(g)
      BY <1>4, <1>8, <2>3
    <2> HIDE DEF needed
    <2>4. RestStep /\ ObjStep(x)
      BY <1>1, <2>2, QuietRest, SameObjects
    <2>5. /\ v \in Worker /\ v.pc = "sent" /\ v.op = "volvs" /\ v.fsos = {} /\ v.invs = FALSE
          /\ v.file = r.file /\ v.piggy = r.piggy /\ v.ok = r.ok /\ v.bad = r.bad
          /\ v.vsusp = r.vsusp /\ v.bound = r.bound /\ v.vbound = r.vbound
      BY <1>1, GetVolVSFacts
    <2> HIDE DEF v
    <2>6. r.file = NONE /\ r.piggy = {} /\ r.ok \cup r.bad = {}
      BY <1>1, <1>2 DEF WellFormed, FileOp
    <2>7. v.op \notin FileOp /\ v.op \in VolOp /\ ~HasStamp(v)
      BY <2>5 DEF FileOp, VolOp, HasStamp
    <2>8. WellFormed(v)
      BY <2>5, <2>6, <2>7, Constants DEF WellFormed, VolOp
    <2>9. "fail" \notin env => ~demotion_pending' /\ v.vbound
      BY <1>1, <1>2, <2>2, <2>5 DEF CallOK
    <2>10. v.bound \/ v.vbound => known
      BY <1>1, <2>5 DEF CallOK
    <2>11. \A f \in Files : obj'[f].lock # x
      BY <1>5, <2>2
    <2>12. WorkStep(x) /\ OkStep(x) /\ wk'[x] = v /\ \A y \in Workers \ {x} : wk'[y] = wk[y]
      BY <1>1, <1>3, <2>1, <2>2, <2>5, <2>7, <2>8, <2>9, <2>10, <2>11, NoFileCall
    <2>13. ASSUME Orderly, Coherent
           PROVE  (\A f \in Files : Rights(f)') /\ Silent' /\ Refused' /\ VolumeStep(x)
      <3>1. VolumeOK /\ connid = "up"
        BY <1>1, <1>3, <2>13 DEF Coherent, Orderly, Basics, Stable
      <3>2. (\A f \in Files : Rights(f)') /\ Silent' /\ Refused'
        BY <2>2, <2>13, <3>1 DEF Coherent, Rights, Silent, Refused, Handled
      <3>3. HoldStep(x)
        <4>1. Holding' => Holding
          <5>1. \A y \in Workers : wk'[y].op = "vols" => wk'[y] = wk[y]
            BY <2>5, <2>12
          <5> QED
            BY <2>2, <5>1 DEF Holding
        <4> QED
          BY <1>2, <2>2, <4>1 DEF HoldStep, Collecting
      <3>4. CollectStep(x)
        <4> SUFFICES ASSUME ~v.vsusp, NEW g \in Files
                     PROVE  (Collecting(r) /\ ~r.vsusp /\ g \notin r.fsos) \/ Safe(g)'
          BY <2>12 DEF CollectStep
        <4>1. CASE g \in r.fsos
          BY <1>1, <2>3, <2>4, <2>12, <2>13, <4>1, SafeKeeps
        <4> QED
          BY <1>2, <2>5, <4>1 DEF Collecting
      <3>5. VolumeAnswer(wk[x])'
        BY <2>5, <2>12 DEF VolumeAnswer
      <3> QED
        BY <2>2, <2>5, <2>12, <3>1, <3>2, <3>3, <3>4, <3>5 DEF VolumeStep, VolumeOK
    <2> QED
      BY <2>4, <2>12, <2>13, StepKeeps
  <1> QED
    BY <1>6, <1>7, <1>8

------------------------------------------------------------------------------
(* The server's steps.                                                     *)

\* The server answers a call of x, for its file or for the volume.
LEMMA ServesKeeps ==
  ASSUME IInv, NEW x \in Workers, NEW s \in Worker, wk' = [wk EXCEPT ![x] = s],
         UNCHANGED <<env, ver, stamp, known, upd, obj>>, UNCHANGED volume,
         cb \subseteq cb', cb' \subseteq Fids, upd.file \in cb' => upd.file \in cb,
         wk[x].pc # "out", wk[x].pc # "conn", s.pc # "conn", WellFormed(s),
         s.op = wk[x].op, s.file = wk[x].file, s.susp = wk[x].susp, s.vsusp = wk[x].vsusp,
         s.fsos = wk[x].fsos, s.invs = wk[x].invs, s.bound = wk[x].bound,
         s.vbound = wk[x].vbound, s.piggy \subseteq wk[x].piggy,
         s.ok \cup s.bad # {} => wk[x].ok \cup wk[x].bad # {} \/ wk[x].piggy # {},
         HasStamp(s) /\ s.vv # NONE => s.vv <= stamp,
         Answered(s) => \/ s.vv = ver[s.file] /\ s.file \in cb' /\ s.file # upd.file
                        \/ Answered(wk[x]) /\ s.vv = wk[x].vv,
         Orderly /\ Coherent => /\ connid = "up" /\ OkStep(x)
                                /\ "vcb" \in env => /\ VolumeAnswer(wk[x])'
                                                    /\ s.op = "vols" /\ s.vv = stamp =>
                                                         wk[x].vv = stamp
  PROVE  IInv'
  <1>1. Basics /\ wk \in [Workers -> Worker] /\ wk[x] \in Worker /\ WellFormed(wk[x]) /\ CallOK(wk[x])
    BY WorkerType DEF IInv, Basics, TypeOK
  <1>2. /\ VCBStatus' = VCBStatus /\ VVV' = VVV /\ demotion_pending' = demotion_pending
        /\ connid' = connid /\ reachable' = reachable
    BY DEF volume
  <1>3. RestStep
    BY <1>1, <1>2 DEF RestStep, Basics, TypeOK, Bounded, Stable
  <1>4. ObjStep(x)
    BY <1>1, SameObjects
  <1>5. wk' \in [Workers -> Worker] /\ wk'[x] = s /\ \A y \in Workers \ {x} : wk'[y] = wk[y]
    BY <1>1
  <1>6. s.op \in FileOp => s.file \in Files
    BY DEF WellFormed
  <1>7. ASSUME Answered(s)
        PROVE  /\ obj[s.file].vv <= s.vv /\ s.vv <= ver[s.file]
               /\ "readers" \notin env /\ s.op = "fetch" /\ obj[s.file].data \in Versions
                    => obj[s.file].data <= s.vv
    <2>1. s.file \in Files
      BY <1>6, <1>7 DEF Answered
    <2>2. CASE s.vv = ver[s.file]
      <3>1. ObjectOK(s.file) /\ ver[s.file] \in Nat
        BY <1>1, <2>1, ObjectType
      <3>2. /\ obj[s.file].vv <= ver[s.file]
            /\ "readers" \notin env /\ obj[s.file].data \in Versions => obj[s.file].data <= ver[s.file]
        BY <3>1 DEF ObjectOK
      <3>3. ver[s.file] <= ver[s.file]
        BY SMTT(60), <3>1
      <3> QED
        BY <2>2, <3>2, <3>3
    <2>3. CASE Answered(wk[x]) /\ s.vv = wk[x].vv
      BY <1>1, <2>3 DEF CallOK
    <2> QED
      BY <1>7, <2>2, <2>3
  <1>8. CallOK(wk[x])'
    <2>1. s.op = "fetch" \/ s.piggy # {} \/ s.ok \cup s.bad # {} => HaveStatus(obj[s.file])
      BY <1>1 DEF CallOK
    <2>2. "piggy" \notin env => s.piggy = {} /\ s.ok \cup s.bad = {}
      BY <1>1 DEF CallOK
    <2>3. /\ s.bound \/ s.vbound => known
          /\ "vcb" \notin env => s.op \notin VolOp \cup {"volattr"} /\ ~s.invs
      BY <1>1 DEF CallOK
    <2>4. "fail" \notin env => /\ s.pc # "conn" /\ ~demotion_pending
                               /\ s.op \in FileOp => s.bound
                               /\ s.op \in VolOp \/ s.invs => s.vbound
      BY <1>1 DEF CallOK
    <2> QED
      BY <1>2, <1>5, <1>7, <2>1, <2>2, <2>3, <2>4 DEF CallOK
  <1>9. OwnStep(x)
    <2>1. \A f \in Files : obj[f].lock = x <=> s.op \in FileOp /\ s.file = f
      <3>1. \A f \in Files : obj[f].lock = x <=> wk[x].op \in FileOp /\ wk[x].file = f
        BY <1>1 DEF Basics, Locks
      <3> QED
        BY <3>1
    <2>2. Answered(s) => NewAnswer(x) \/ OldAnswer(x)
      BY <1>5 DEF NewAnswer, OldAnswer
    <2>3. "fail" \notin env => ~demotion_pending'
      BY <1>1, <1>2 DEF CallOK
    <2> QED
      BY <1>5, <1>8, <2>1, <2>2, <2>3 DEF OwnStep
  <1>10. WorkStep(x)
    BY <1>5, <1>9 DEF WorkStep
  <1>11. ASSUME Orderly, Coherent
         PROVE  (\A f \in Files : Rights(f)') /\ Silent' /\ Refused'
    BY <1>2, <1>11 DEF Coherent, Rights, Handled, Silent, Refused
  <1>12. ASSUME Orderly, Coherent, "vcb" \in env
         PROVE  VolumeStep(x)
    <2>1. VolumeOK
      BY <1>12 DEF Coherent
    <2>2. Holding' => Holding
      <3>1. ASSUME NEW y \in Workers, wk'[y].op = "vols", wk'[y].vv = stamp
            PROVE  Holding
        <4>1. CASE y = x
          BY <1>5, <1>12, <3>1, <4>1 DEF Holding
        <4>2. CASE y # x
          BY <1>5, <3>1, <4>2 DEF Holding
        <4> QED
          BY <4>1, <4>2
      <3> QED
        BY <1>2, <3>1 DEF Holding
    <2>3. HoldStep(x) /\ CollectStep(x)
      BY <1>2, <1>5, <2>2 DEF HoldStep, CollectStep, Collecting
    <2> QED
      BY <1>2, <1>5, <1>12, <2>1, <2>3 DEF VolumeStep, VolumeOK
  <1> QED
    BY <1>3, <1>4, <1>10, <1>11, <1>12, StepKeeps

\* The vnode of a file that the server looks at is not being updated.
LEMMA NotUpdated ==
  ASSUME Basics, NEW f \in Files, ~VnodeLocked(f)
  PROVE  f # upd.file
  BY Constants DEF VnodeLocked, Basics, UpdateOK

\* The record of a worker whose call is answered.
Replied(r, s, pc, v) ==
  /\ s \in Worker /\ s.pc = pc /\ s.vv = v /\ s.op = r.op /\ s.file = r.file
  /\ s.susp = r.susp /\ s.vsusp = r.vsusp /\ s.fsos = r.fsos /\ s.invs = r.invs
  /\ s.bound = r.bound /\ s.vbound = r.vbound /\ s.piggy = r.piggy /\ s.ok = r.ok /\ s.bad = r.bad
\* The record of a worker whose file call is answered.
LEMMA RepliedFacts ==
  ASSUME NEW r \in Worker, NEW pc \in {"piggy", "reply"}, NEW v \in Versions \cup {NONE}
  PROVE  Replied(r, [r EXCEPT !.pc = pc, !.vv = v], pc, v)
  <1> DEFINE s == [r EXCEPT !.pc = pc, !.vv = v]
  <1>1. s \in Worker
    BY DEF Worker
  <1>2. /\ s.pc = pc /\ s.vv = v /\ s.op = r.op /\ s.file = r.file
        /\ s.susp = r.susp /\ s.vsusp = r.vsusp /\ s.fsos = r.fsos /\ s.invs = r.invs
        /\ s.bound = r.bound /\ s.vbound = r.vbound /\ s.piggy = r.piggy /\ s.ok = r.ok
        /\ s.bad = r.bad
    BY DEF Worker
  <1> HIDE DEF s
  <1>3. Replied(r, s, pc, v)
    BY <1>1, <1>2 DEF Replied
  <1> QED
    BY <1>3 DEF s

\* ServeAttr keeps the invariant.
LEMMA ServeAttrStep ==
  ASSUME IInv, NEW x \in Workers, ServeAttr(x)
  PROVE  IInv'
  <1> DEFINE r == wk[x]
             pc == IF r.piggy = {} THEN "reply" ELSE "piggy"
             s == [r EXCEPT !.pc = pc, !.vv = ver[r.file]]
  <1>1. /\ r.pc = "sent" /\ r.op = "attr" /\ r.bound /\ ~VnodeLocked(r.file)
        /\ cb' = cb \cup {r.file}
        /\ UNCHANGED <<env, ver, stamp, known, upd, obj>> /\ UNCHANGED volume
    BY DEF ServeAttr
  <1>2. Basics /\ wk \in [Workers -> Worker] /\ r \in Worker /\ WellFormed(r)
    BY WorkerType DEF IInv, Basics, TypeOK
  <1>3. wk' = [wk EXCEPT ![x] = s]
    BY <1>2 DEF ServeAttr
  <1>4. r.file \in Files /\ r.ok \cup r.bad = {} /\ ver[r.file] \in Versions
    BY <1>1, <1>2, ObjectType DEF WellFormed, FileOp
  <1>5. pc \in {"piggy", "reply"} /\ (r.piggy = {} => pc = "reply") /\ (r.piggy # {} => pc = "piggy")
    OBVIOUS
  <1> HIDE DEF pc
  <1>6. /\ s \in Worker /\ s.pc = pc /\ s.vv = ver[r.file] /\ s.op = r.op /\ s.file = r.file
        /\ s.susp = r.susp /\ s.vsusp = r.vsusp /\ s.fsos = r.fsos /\ s.invs = r.invs
        /\ s.bound = r.bound /\ s.vbound = r.vbound /\ s.piggy = r.piggy /\ s.ok = r.ok /\ s.bad = r.bad
    <2>1. Replied(r, s, pc, ver[r.file])
      BY <1>2, <1>4, <1>5, RepliedFacts
    <2> QED
      BY <2>1 DEF Replied
  <1> HIDE DEF s
  <1>7. WellFormed(s)
    BY <1>1, <1>2, <1>4, <1>5, <1>6, Constants DEF WellFormed, FileOp, VolOp
  <1>8. r.file # upd.file
    BY <1>1, <1>2, <1>4, NotUpdated
  <1>9. cb \subseteq cb' /\ cb' \subseteq Fids /\ (upd.file \in cb' => upd.file \in cb)
    BY <1>1, <1>2, <1>4, <1>8 DEF Basics, TypeOK, Fids
  <1>10. wk'[x] = s
    BY <1>2, <1>3
  <1>11. Orderly /\ Coherent => connid = "up" /\ OkStep(x) /\ VolumeAnswer(wk[x])' /\ s.op # "vols"
    <2>1. ASSUME Coherent
          PROVE  connid = "up"
      BY <1>1, <2>1 DEF Coherent, Silent
    <2>2. OkStep(x)
      BY <1>4, <1>6, <1>10 DEF OkStep
    <2>3. VolumeAnswer(wk[x])' /\ s.op # "vols"
      BY <1>1, <1>6, <1>10 DEF VolumeAnswer, VolOp
    <2> QED
      BY <2>1, <2>2, <2>3
  <1>12. s.file \in cb' /\ s.file # upd.file /\ s.vv = ver[s.file] /\ s.pc # "conn" /\ ~HasStamp(s)
    BY <1>1, <1>5, <1>6, <1>8 DEF HasStamp
  <1> HIDE DEF r
  <1> QED
    BY <1>1, <1>3, <1>4, <1>6, <1>7, <1>9, <1>11, <1>12, ServesKeeps DEF r

\* ServeFetch keeps the invariant.
LEMMA ServeFetchStep ==
  ASSUME IInv, NEW x \in Workers, ServeFetch(x)
  PROVE  IInv'
  <1> DEFINE r == wk[x]
             refused == r.resume # NONE /\ r.resume # ver[r.file]
             v == IF refused THEN NONE ELSE ver[r.file]
             s == [r EXCEPT !.pc = "reply", !.vv = v]
  <1>1. /\ r.pc = "sent" /\ r.op = "fetch" /\ r.bound /\ ~VnodeLocked(r.file)
        /\ cb' = IF refused THEN cb ELSE cb \cup {r.file}
        /\ UNCHANGED <<env, ver, stamp, known, upd, obj>> /\ UNCHANGED volume
    BY DEF ServeFetch
  <1>2. Basics /\ wk \in [Workers -> Worker] /\ r \in Worker /\ WellFormed(r)
    BY WorkerType DEF IInv, Basics, TypeOK
  <1>3. wk' = [wk EXCEPT ![x] = s]
    BY <1>2 DEF ServeFetch
  <1>4. /\ r.file \in Files /\ r.ok \cup r.bad = {} /\ r.piggy = {} /\ ver[r.file] \in Versions
    BY <1>1, <1>2, ObjectType DEF WellFormed, FileOp
  <1>5. /\ v \in Versions \cup {NONE} /\ cb \subseteq cb' /\ cb' \subseteq cb \cup {r.file}
        /\ v # NONE => v = ver[r.file] /\ r.file \in cb'
    BY <1>1, <1>4
  <1> HIDE DEF v, refused
  <1>6. /\ s \in Worker /\ s.pc = "reply" /\ s.vv = v /\ s.op = r.op /\ s.file = r.file
        /\ s.susp = r.susp /\ s.vsusp = r.vsusp /\ s.fsos = r.fsos /\ s.invs = r.invs
        /\ s.bound = r.bound /\ s.vbound = r.vbound /\ s.piggy = r.piggy /\ s.ok = r.ok /\ s.bad = r.bad
    <2>1. PICK pc \in {"piggy", "reply"} : pc = "reply"
      OBVIOUS
    <2>2. Replied(r, s, pc, v)
      BY <1>2, <1>5, <2>1, RepliedFacts
    <2> QED
      BY <2>1, <2>2 DEF Replied
  <1> HIDE DEF s
  <1>7. WellFormed(s)
    BY <1>1, <1>2, <1>4, <1>5, <1>6, Constants DEF WellFormed, FileOp, VolOp
  <1>8. r.file # upd.file
    BY <1>1, <1>2, <1>4, NotUpdated
  <1>9. cb \subseteq cb' /\ cb' \subseteq Fids /\ (upd.file \in cb' => upd.file \in cb)
    BY <1>2, <1>4, <1>5, <1>8 DEF Basics, TypeOK, Fids
  <1>10. wk'[x] = s
    BY <1>2, <1>3
  <1>11. Orderly /\ Coherent => connid = "up" /\ OkStep(x) /\ VolumeAnswer(wk[x])' /\ s.op # "vols"
    <2>1. ASSUME Coherent
          PROVE  connid = "up"
      BY <1>1, <2>1 DEF Coherent, Silent
    <2>2. OkStep(x)
      BY <1>4, <1>6, <1>10 DEF OkStep
    <2>3. VolumeAnswer(wk[x])' /\ s.op # "vols"
      BY <1>1, <1>6, <1>10 DEF VolumeAnswer, VolOp
    <2> QED
      BY <2>1, <2>2, <2>3
  <1>12. /\ s.file # upd.file /\ s.pc # "conn" /\ ~HasStamp(s)
         /\ Answered(s) => s.vv = ver[s.file] /\ s.file \in cb'
    BY <1>1, <1>5, <1>6, <1>8 DEF Answered, HasStamp
  <1> HIDE DEF r
  <1> QED
    BY <1>1, <1>3, <1>4, <1>6, <1>7, <1>9, <1>11, <1>12, ServesKeeps DEF r

\* The record of a worker one of whose piggybacked fids is answered.
Looked(r, s, pc, piggy, ok, bad) ==
  /\ s \in Worker /\ s.pc = pc /\ s.vv = r.vv /\ s.op = r.op /\ s.file = r.file
  /\ s.susp = r.susp /\ s.vsusp = r.vsusp /\ s.fsos = r.fsos /\ s.invs = r.invs
  /\ s.bound = r.bound /\ s.vbound = r.vbound /\ s.piggy = piggy /\ s.ok = ok /\ s.bad = bad
\* The record of a worker for which the server has looked at a piggybacked file.
LEMMA LookedFacts ==
  ASSUME NEW r \in Worker, NEW pc \in {"piggy", "reply"}, NEW piggy \in SUBSET (Files \X Versions),
         NEW ok \in SUBSET Files, NEW bad \in SUBSET Files
  PROVE  Looked(r, [r EXCEPT !.pc = pc, !.piggy = piggy, !.ok = ok, !.bad = bad], pc, piggy, ok, bad)
  <1> DEFINE s == [r EXCEPT !.pc = pc, !.piggy = piggy, !.ok = ok, !.bad = bad]
  <1>1. s \in Worker
    BY DEF Worker
  <1>2. /\ s.pc = pc /\ s.vv = r.vv /\ s.op = r.op /\ s.file = r.file
        /\ s.susp = r.susp /\ s.vsusp = r.vsusp /\ s.fsos = r.fsos /\ s.invs = r.invs
        /\ s.bound = r.bound /\ s.vbound = r.vbound /\ s.piggy = piggy /\ s.ok = ok
        /\ s.bad = bad
    BY DEF Worker
  <1> HIDE DEF s
  <1>3. Looked(r, s, pc, piggy, ok, bad)
    BY <1>1, <1>2 DEF Looked
  <1> QED
    BY <1>3 DEF s

\* A version that was packed and is the server's is what the client has and gets.
LEMMA PackedCurrent ==
  ASSUME Basics, NEW x \in Workers, NEW g \in Files, <<g, ver[g]>> \in wk[x].piggy
  PROVE  Current(g)
  <1> DEFINE p == <<g, ver[g]>>
  <1>1. /\ HaveStatus(obj[g]) => ver[g] <= obj[g].vv
        /\ \A y \in Workers : Answered(wk[y]) /\ wk[y].file = g => ver[g] <= wk[y].vv
    <2>1. p[1] = g /\ p[2] = ver[g] /\ p \in wk[x].piggy
      BY SMTT(60)
    <2>2. /\ HaveStatus(obj[p[1]]) => p[2] <= obj[p[1]].vv
          /\ \A y \in Workers : Answered(wk[y]) /\ wk[y].file = p[1] => p[2] <= wk[y].vv
      BY <2>1 DEF Basics, Packed
    <2> HIDE DEF p
    <2> QED
      BY <2>1, <2>2
  <1>2. ver[g] \in Nat /\ obj[g].vv \in Nat /\ obj[g].vv <= ver[g]
    BY ObjectType DEF ObjectOK
  <1>3. HaveStatus(obj[g]) => obj[g].vv = ver[g]
    BY SMTT(60), <1>1, <1>2
  <1>4. ASSUME NEW y \in Workers, Answered(wk[y]), wk[y].file = g
        PROVE  wk[y].vv = ver[g]
    <2>1. wk[y].vv \in Nat /\ wk[y].vv <= ver[g]
      BY <1>4, WorkerType, Constants DEF Worker, Answered, CallOK
    <2> QED
      BY SMTT(60), <1>1, <1>2, <1>4, <2>1
  <1> QED
    BY <1>3, <1>4 DEF Current

\* ServePiggy keeps the invariant.
LEMMA ServePiggyStep ==
  ASSUME IInv, NEW x \in Workers, NEW g \in Files, NEW v, ServePiggy(x, g, v)
  PROVE  IInv'
  <1> DEFINE r == wk[x]
             good == r.bound /\ v = ver[g]
             p == <<g, v>>
             pc == IF r.piggy = {p} THEN "reply" ELSE "piggy"
             piggy == r.piggy \ {p}
             ok == IF good THEN r.ok \cup {g} ELSE r.ok
             bad == IF good THEN r.bad ELSE r.bad \cup {g}
             s == [r EXCEPT !.pc = pc, !.piggy = piggy, !.ok = ok, !.bad = bad]
  <1>1. /\ r.pc = "piggy" /\ p \in r.piggy /\ ~VnodeLocked(g)
        /\ cb' = IF good THEN cb \cup {g} ELSE cb
        /\ UNCHANGED <<env, ver, stamp, known, upd, obj>> /\ UNCHANGED volume
    BY DEF ServePiggy
  <1>2. Basics /\ wk \in [Workers -> Worker] /\ r \in Worker /\ WellFormed(r)
    BY WorkerType DEF IInv, Basics, TypeOK
  <1>3. wk' = [wk EXCEPT ![x] = s]
    BY <1>2 DEF ServePiggy
  <1>4. /\ r.op = "attr" /\ r.file \in Files /\ r.vv # NONE /\ r.piggy # {}
        /\ r.piggy \in SUBSET (Files \X Versions) /\ r.ok \in SUBSET Files /\ r.bad \in SUBSET Files
    BY <1>1, <1>2 DEF WellFormed, FileOp, Worker
  <1>5. /\ pc \in {"piggy", "reply"} /\ (pc = "reply" => piggy = {}) /\ (pc = "piggy" => piggy # {})
        /\ piggy \in SUBSET (Files \X Versions) /\ ok \in SUBSET Files /\ bad \in SUBSET Files
        /\ piggy \subseteq r.piggy
        /\ \A k \in ok : k \in r.ok \/ (k = g /\ good /\ g \in cb')
        /\ cb \subseteq cb' /\ cb' \subseteq cb \cup {g}
    BY <1>1, <1>4
  <1>6. good => Current(g)
    BY <1>1, <1>2, PackedCurrent
  <1> HIDE DEF pc, piggy, ok, bad, p, good
  <1>7. /\ s \in Worker /\ s.pc = pc /\ s.vv = r.vv /\ s.op = r.op /\ s.file = r.file
        /\ s.susp = r.susp /\ s.vsusp = r.vsusp /\ s.fsos = r.fsos /\ s.invs = r.invs
        /\ s.bound = r.bound /\ s.vbound = r.vbound /\ s.piggy = piggy /\ s.ok = ok /\ s.bad = bad
    <2>1. Looked(r, s, pc, piggy, ok, bad)
      BY <1>2, <1>5, LookedFacts
    <2> QED
      BY <2>1 DEF Looked
  <1> HIDE DEF s
  <1>8. WellFormed(s)
    BY <1>1, <1>2, <1>4, <1>5, <1>7, Constants DEF WellFormed, FileOp, VolOp
  <1>9. g # upd.file
    BY <1>1, <1>2, NotUpdated
  <1>10. cb \subseteq cb' /\ cb' \subseteq Fids /\ (upd.file \in cb' => upd.file \in cb)
    BY <1>2, <1>5, <1>9 DEF Basics, TypeOK, Fids
  <1>11. wk'[x] = s
    BY <1>2, <1>3
  <1>12. ASSUME Orderly, Coherent
         PROVE  connid = "up" /\ OkStep(x) /\ VolumeAnswer(wk[x])'
    <2>1. connid = "up"
      BY <1>1, <1>12 DEF Coherent, Silent
    <2>2. \A k \in r.ok : upd.file # k
      BY <1>1, <1>12 DEF Coherent, Piggies
    <2>3. OkStep(x)
      <3> SUFFICES ASSUME NEW k \in ok
                   PROVE  upd.file # k /\ (k \in r.ok \/ (k \in cb' /\ k # upd.file /\ Current(k)))
        BY <1>7, <1>11 DEF OkStep
      <3>1. CASE k \in r.ok
        BY <2>2, <3>1
      <3>2. CASE k = g /\ good /\ g \in cb'
        BY <1>6, <1>9, <3>2
      <3> QED
        BY <1>5, <3>1, <3>2
    <2>4. VolumeAnswer(wk[x])'
      BY <1>4, <1>7, <1>11 DEF VolumeAnswer, VolOp
    <2> QED
      BY <2>1, <2>3, <2>4
  <1>13. s.pc # "conn" /\ s.op # "vols" /\ ~HasStamp(s) /\ Answered(wk[x]) /\ s.vv = wk[x].vv
    BY <1>1, <1>4, <1>5, <1>7 DEF Answered, FileOp, HasStamp
  <1>14. r.pc # "out" /\ r.pc # "conn" /\ s.piggy \subseteq r.piggy
    BY <1>1, <1>5, <1>7
  <1> HIDE DEF r
  <1> QED
    BY <1>1, <1>3, <1>4, <1>7, <1>8, <1>10, <1>12, <1>13, <1>14, ServesKeeps DEF r

\* The record of a worker whose volume call is answered.
Stamped(r, s, v) ==
  /\ s \in Worker /\ s.pc = "reply" /\ s.vv = v /\ s.op = r.op /\ s.file = r.file
  /\ s.susp = r.susp /\ s.vsusp = r.vsusp /\ s.fsos = r.fsos /\ s.invs = r.invs
  /\ s.bound = r.bound /\ s.vbound = r.vbound /\ s.piggy = r.piggy /\ s.ok = r.ok /\ s.bad = r.bad
\* The record of a worker that is sent a stamp.
LEMMA StampedFacts ==
  ASSUME NEW r \in Worker, NEW c \in BOOLEAN, NEW v \in Versions \cup {NONE}
  PROVE  Stamped(r, [r EXCEPT !.pc = "reply", !.cbset = c, !.vv = v], v)
  <1> DEFINE s == [r EXCEPT !.pc = "reply", !.cbset = c, !.vv = v]
  <1>1. s \in Worker
    BY DEF Worker
  <1>2. /\ s.pc = "reply" /\ s.vv = v /\ s.op = r.op /\ s.file = r.file
        /\ s.susp = r.susp /\ s.vsusp = r.vsusp /\ s.fsos = r.fsos /\ s.invs = r.invs
        /\ s.bound = r.bound /\ s.vbound = r.vbound /\ s.piggy = r.piggy /\ s.ok = r.ok
        /\ s.bad = r.bad
    BY DEF Worker
  <1> HIDE DEF s
  <1>3. Stamped(r, s, v)
    BY <1>1, <1>2 DEF Stamped
  <1> QED
    BY <1>3 DEF s

\* ServeVolume keeps the invariant.
LEMMA ServeVolumeStep ==
  ASSUME IInv, NEW x \in Workers, ServeVolume(x)
  PROVE  IInv'
  <1> DEFINE r == wk[x]
             good == r.op = "volvs" \/ r.vv = stamp
             c == ~VolumeBusy
             v == IF good THEN stamp ELSE NONE
             s == [r EXCEPT !.pc = "reply", !.cbset = c, !.vv = v]
  <1>1. /\ r.pc = "sent" /\ r.op \in VolOp /\ Prompt
        /\ cb' = IF good /\ ~VolumeBusy THEN cb \cup {VOL} ELSE cb
        /\ UNCHANGED <<env, ver, stamp, known, upd, obj>> /\ UNCHANGED volume
    BY DEF ServeVolume, VolOp
  <1>2. Basics /\ wk \in [Workers -> Worker] /\ r \in Worker /\ WellFormed(r) /\ CallOK(r)
    BY WorkerType DEF IInv, Basics, TypeOK
  <1>3. wk' = [wk EXCEPT ![x] = s]
    BY <1>2 DEF ServeVolume
  <1>4. stamp \in Versions /\ stamp \in Nat /\ c \in BOOLEAN
    BY <1>2, Constants DEF Basics, TypeOK, VolumeBusy
  <1>5. /\ v \in Versions \cup {NONE} /\ cb \subseteq cb' /\ cb' \subseteq cb \cup {VOL}
        /\ v # NONE => v = stamp /\ (r.op = "vols" => r.vv = stamp)
    BY <1>1, <1>4 DEF VolOp
  <1>6. v # NONE => VOL \in cb'
    <2>1. VolumeBusy => VOL \in cb
      BY <1>2 DEF Basics, UpdateOK, VolumeBusy
    <2> QED
      BY <1>1, <2>1
  <1>7. v = NONE => r.op = "vols" /\ stamp # 0
    <2>1. ASSUME v = NONE
          PROVE  r.op = "vols" /\ r.vv # stamp
      BY <1>1, <1>4, <2>1, Constants DEF VolOp
    <2>2. r.op = "vols" => r.vv \in Nat /\ r.vv <= stamp
      BY <1>1, <1>2, Constants DEF WellFormed, CallOK, Worker, HasStamp
    <2> HIDE DEF v
    <2> QED
      BY SMTT(60), <1>4, <2>1, <2>2
  <1> HIDE DEF v, c, good
  <1>8. /\ s \in Worker /\ s.pc = "reply" /\ s.vv = v /\ s.op = r.op /\ s.file = r.file
        /\ s.susp = r.susp /\ s.vsusp = r.vsusp /\ s.fsos = r.fsos /\ s.invs = r.invs
        /\ s.bound = r.bound /\ s.vbound = r.vbound /\ s.piggy = r.piggy /\ s.ok = r.ok /\ s.bad = r.bad
    <2>1. Stamped(r, s, v)
      BY <1>2, <1>4, <1>5, StampedFacts
    <2> QED
      BY <2>1 DEF Stamped
  <1> HIDE DEF s
  <1>9. r.op \notin FileOp /\ r.ok \cup r.bad = {} /\ r.piggy = {} /\ s.op # "attr"
    BY <1>1, <1>2, <1>8 DEF WellFormed, FileOp, VolOp
  <1>10. WellFormed(s)
    BY <1>1, <1>2, <1>5, <1>7, <1>8, <1>9, Constants DEF WellFormed, VolOp
  <1>11. cb \subseteq cb' /\ cb' \subseteq Fids /\ (upd.file \in cb' => upd.file \in cb)
    <2>1. upd.file # VOL
      BY <1>2, Constants DEF Basics, TypeOK, Update
    <2> QED
      BY <1>2, <1>5, <2>1 DEF Basics, TypeOK, Fids
  <1>12. wk'[x] = s
    BY <1>2, <1>3
  <1>13. ASSUME Orderly, Coherent
         PROVE  connid = "up" /\ OkStep(x) /\ VolumeAnswer(wk[x])'
    <2>1. "vcb" \in env
      BY <1>1, <1>2 DEF CallOK
    <2>2. connid = "up" /\ "slow" \notin env
      BY <1>2, <1>13, <2>1 DEF Basics, Stable, Orderly
    <2>3. OkStep(x)
      BY <1>8, <1>9, <1>12 DEF OkStep
    <2>4. ~upd.handled
      BY <1>1, <1>2, <2>2 DEF Prompt, Basics, UpdateOK
    <2>5. VolumeAnswer(wk[x])'
      BY <1>1, <1>5, <1>6, <1>7, <1>8, <1>12, <2>4 DEF VolumeAnswer
    <2> QED
      BY <2>2, <2>3, <2>5
  <1>14. /\ s.pc # "conn" /\ ~Answered(s) /\ r.pc # "out" /\ r.pc # "conn"
         /\ s.op = "vols" /\ s.vv = stamp => wk[x].vv = stamp
    BY <1>1, <1>4, <1>5, <1>8, <1>9, Constants DEF Answered
  <1>15. HasStamp(s) /\ s.vv # NONE => s.vv <= stamp
    <2>1. stamp <= stamp
      BY SMTT(60), <1>4
    <2> QED
      BY <1>5, <1>8, <2>1
  <1>16. s.piggy \subseteq r.piggy /\ s.ok \cup s.bad = {}
    BY <1>8, <1>9
  <1> HIDE DEF r
  <1> QED
    BY <1>1, <1>3, <1>8, <1>10, <1>11, <1>13, <1>14, <1>15, <1>16, ServesKeeps DEF r

------------------------------------------------------------------------------
(* The worker applies a reply.                                             *)

\* ApplyVolume keeps the invariant.
LEMMA ApplyVolumeStep ==
  ASSUME IInv, NEW x \in Workers, ApplyVolume(x)
  PROVE  IInv'
  <1> DEFINE r == wk[x]
  <1>1. /\ r.pc = "reply" /\ r.op \in VolOp
        /\ VCBStatus' = IF r.vv # NONE /\ r.cbset THEN VCBStatus \/ ~r.vsusp
                        ELSE IF r.op = "volvs" /\ r.vsusp THEN VCBStatus ELSE FALSE
        /\ VVV' = IF r.op = "vols" THEN (IF r.vv = NONE THEN NONE ELSE VVV)
                  ELSE IF r.cbset /\ ~r.vsusp THEN r.vv ELSE VVV
        /\ wk' = [wk EXCEPT ![x] = In]
        /\ UNCHANGED <<env, server, obj, demotion_pending, connid, reachable>>
    BY DEF ApplyVolume, VolOp
  <1>2. Basics /\ wk \in [Workers -> Worker] /\ r \in Worker /\ WellFormed(r) /\ CallOK(r)
    BY WorkerType DEF IInv, Basics, TypeOK
  <1>3. /\ UNCHANGED <<env, ver, stamp, cb, known, upd>> /\ obj' = obj
        /\ demotion_pending' = demotion_pending /\ connid' = connid /\ reachable' = reachable
    BY <1>1 DEF server
  <1>4. /\ "vcb" \in env /\ r.op \notin FileOp /\ (r.op = "vols" \/ r.op = "volvs")
        /\ "fail" \notin env => ~demotion_pending
    BY <1>1, <1>2 DEF CallOK, VolOp, FileOp
  <1>5. r.vv \in Versions \cup {NONE} /\ r.vsusp \in BOOLEAN /\ r.cbset \in BOOLEAN
    BY <1>2 DEF Worker
  <1>6. r.vv # NONE => r.vv <= stamp
    BY <1>1, <1>2, <1>4 DEF CallOK, HasStamp
  <1>7. VVV \in Versions \cup {NONE} /\ (VVV # NONE => VVV <= stamp) /\ VCBStatus \in BOOLEAN
        /\ stamp \in Versions
    BY <1>2 DEF Basics, TypeOK, Bounded
  <1>8. VVV' \in {VVV, r.vv, NONE}
    BY <1>1
  <1>9. VCBStatus' \in BOOLEAN
    BY <1>1, <1>7
  <1>10. VVV' \in Versions \cup {NONE} /\ (VVV' # NONE => VVV' <= stamp)
    BY <1>5, <1>6, <1>7, <1>8
  <1>11. RestStep
    BY <1>2, <1>3, <1>4, <1>9, <1>10 DEF RestStep, Basics, TypeOK, Stable
  <1>12. ObjStep(x)
    BY <1>2, <1>3, SameObjects
  <1>13. \A f \in Files : obj'[f].lock # x
    BY <1>2, <1>3, <1>4, NoLock
  <1>14. wk'[x] = In /\ \A y \in Workers \ {x} : wk'[y] = wk[y]
    BY <1>1, <1>2
  <1>15. ~Collecting(wk'[x]) /\ wk'[x].op # "vols"
    BY <1>14, OutFacts, Constants DEF Collecting, Resting, VolOp
  <1>16. ASSUME Orderly, Coherent
         PROVE  /\ VCBStatus' => VOL \in cb' /\ ~upd.handled
                /\ HoldStep(x)
    <2>1. VolumeOK /\ VolumeAnswer(r) /\ Collected(r)
      BY <1>4, <1>16 DEF Coherent, VolumeOK
    <2>2. IF r.vv = NONE THEN stamp # 0 ELSE r.vv = stamp /\ VOL \in cb /\ ~upd.handled
      BY <1>1, <2>1 DEF VolumeAnswer
    <2>3. VCBStatus' => VCBStatus \/ (r.vv # NONE /\ r.cbset /\ ~r.vsusp)
      BY <1>1, <1>5
    <2>4. VCBStatus' => VOL \in cb' /\ ~upd.handled
      BY <1>3, <2>1, <2>2, <2>3 DEF VolumeOK
    <2>5. ASSUME Holding', VVV' = stamp => Holding, VCBStatus' => Holding
          PROVE  Holding
      <3>1. ASSUME NEW y \in Workers, wk'[y].op = "vols", wk'[y].vv = stamp
            PROVE  Holding
        <4>1. y # x
          BY <1>15, <3>1
        <4> QED
          BY <1>14, <3>1, <4>1 DEF Holding
      <3>2. \/ VVV' = stamp \/ VCBStatus'
            \/ \E y \in Workers : wk'[y].op = "vols" /\ wk'[y].vv = stamp
        BY <1>3, <2>5 DEF Holding
      <3> QED
        BY <2>5, <3>1, <3>2
    <2>6. CASE r.op = "volvs" /\ ~r.vsusp
      <3>1. \A f \in Files : Safe(f)
        BY <1>2, <2>1, <2>6 DEF Collected, Collecting, WellFormed
      <3> QED
        BY <2>4, <3>1 DEF HoldStep
    <2>7. CASE r.op = "volvs" /\ r.vsusp
      <3>1. VVV' = VVV /\ VCBStatus' = VCBStatus
        BY <1>1, <1>5, <1>7, <2>7
      <3>2. (VVV' = stamp => Holding) /\ (VCBStatus' => Holding)
        BY <3>1 DEF Holding
      <3>3. Holding' => Holding
        BY <2>5, <3>2
      <3> QED
        BY <1>15, <2>4, <3>1, <3>3 DEF HoldStep
    <2>8. CASE r.op = "vols"
      <3>1. VVV' = VVV \/ (VVV' = NONE /\ stamp # 0)
        BY <1>1, <2>2, <2>8
      <3>2. r.vv = stamp => Holding
        BY <2>8 DEF Holding
      <3>3. VCBStatus' => Holding
        BY <2>2, <2>3, <3>2 DEF Holding
      <3>4. VVV' = stamp => Holding
        BY <1>7, <3>1, Constants DEF Holding
      <3>5. Holding' => Holding
        BY <2>5, <3>3, <3>4
      <3> QED
        BY <1>15, <2>4, <3>1, <3>5 DEF HoldStep
    <2> QED
      BY <1>4, <2>6, <2>7, <2>8
  <1>17. ASSUME Orderly, Coherent
         PROVE  (\A f \in Files : Rights(f)') /\ Refused' /\ (connid' # "up" => Silent')
    <2>1. connid = "up"
      BY <1>2, <1>4, <1>17 DEF Basics, Stable, Orderly
    <2> QED
      BY <1>3, <1>17, <2>1 DEF Coherent, Rights, Handled, Refused
  <1>18. PICK q \in {In, Out} : q = In
    OBVIOUS
  <1>19. "fail" \notin env => ~demotion_pending'
    BY <1>3, <1>4
  <1> QED
    BY <1>1, <1>11, <1>12, <1>13, <1>16, <1>17, <1>18, <1>19, RestsKeeps

\* The record of a worker in ValidateFSOs that has got an object.
Visited(r) == [Out EXCEPT !.pc = "fsos", !.invs = TRUE, !.vsusp = r.vsusp,
                          !.vbound = r.vbound, !.fsos = r.fsos \ {r.file}]
\* The record of a worker of ValidateFSOs that is done with one object.
LEMMA VisitedFacts ==
  ASSUME NEW r \in Worker
  PROVE  /\ Visited(r) \in Worker /\ Visited(r).pc = "fsos" /\ Visited(r).op = NONE
         /\ Visited(r).file = NONE /\ Visited(r).invs = TRUE /\ Visited(r).vsusp = r.vsusp
         /\ Visited(r).vbound = r.vbound /\ Visited(r).fsos = r.fsos \ {r.file}
         /\ Visited(r).piggy = {} /\ Visited(r).ok = {} /\ Visited(r).bad = {}
         /\ Visited(r).bound = FALSE
  <1> DEFINE d == r.vsusp
             v == r.vbound
             s == r.fsos \ {r.file}
  <1>1. d \in BOOLEAN /\ v \in BOOLEAN /\ s \in SUBSET Files
    BY DEF Worker
  <1>2. Visited(r) = [Out EXCEPT !.pc = "fsos", !.invs = TRUE, !.vsusp = d, !.vbound = v, !.fsos = s]
    BY DEF Visited
  <1> HIDE DEF d, v, s
  <1>3. Visited(r) \in Worker
    BY ZenonT(60), <1>1, <1>2 DEF Out, Worker
  <1>4. /\ Visited(r).pc = "fsos" /\ Visited(r).op = NONE
        /\ Visited(r).file = NONE /\ Visited(r).invs = TRUE /\ Visited(r).vsusp = d
        /\ Visited(r).vbound = v /\ Visited(r).fsos = s
        /\ Visited(r).piggy = {} /\ Visited(r).ok = {} /\ Visited(r).bad = {}
        /\ Visited(r).bound = FALSE
    BY ZenonT(60), <1>2 DEF Out
  <1> QED
    BY <1>3, <1>4 DEF d, v, s

\* What x has got with an answer that is believed is safe.
LEMMA GotSafe ==
  ASSUME IInv, NEW x \in Workers, wk[x].op \in FileOp, Answered(wk[x]), Orderly, Coherent, "vcb" \in env,
         wk[x].invs, ~wk[x].vsusp, UNCHANGED <<ver, upd>>, cb \subseteq cb',
         \A y \in Workers \ {x} : wk'[y] = wk[y], wk'[x].op \notin FileOp,
         NEW f \in Files, f = wk[x].file, obj'[f].vv = wk[x].vv
  PROVE  Safe(f)'
  <1>1. Basics /\ WellFormed(wk[x]) /\ known
    BY WorkerType DEF IInv, Basics, Stable, Orderly
  <1>2. VolumeOK /\ Answers(wk[x])
    BY DEF Coherent
  <1>3. ~wk[x].susp
    BY <1>2 DEF VolumeOK
  <1>4. wk[x].vv = ver[f] /\ ~Handled(f) /\ f \in cb
    BY <1>1, <1>2, <1>3 DEF Answers, Believed
  <1>6. ASSUME NEW y \in Workers
        PROVE  ~(Answered(wk'[y]) /\ wk'[y].file = f)
    <2>1. CASE y = x
      BY <2>1 DEF Answered
    <2>2. CASE y # x
      <3>1. obj[f].lock = x
        BY <1>1 DEF Basics, Locks
      <3>2. ~(wk[y].op \in FileOp /\ wk[y].file = f)
        <4>1. obj[f].lock # y
          BY <2>2, <3>1
        <4>2. obj[f].lock = y <=> wk[y].op \in FileOp /\ wk[y].file = f
          BY SMTT(60), <1>1, LockedBy
        <4> QED
          BY <4>1, <4>2
      <3>3. wk'[y] = wk[y]
        BY <2>2
      <3> QED
        BY <3>2, <3>3 DEF Answered
    <2> QED
      BY <2>1, <2>2
  <1>7. Current(f)'
    BY <1>4, <1>6 DEF Current
  <1> QED
    BY <1>4, <1>7 DEF Safe, Handled

\* x is done with a file call, and gives up the lock.
LEMMA AppliesKeeps ==
  ASSUME IInv, NEW x \in Workers, wk[x].op \in FileOp, wk[x].pc = "reply",
         NEW q \in {In, Got(wk[x])}, wk' = [wk EXCEPT ![x] = q],
         UNCHANGED <<env, server, volume>>, ObjStep(x), \A f \in Files : obj'[f].lock # x,
         q # In => Answered(wk[x]) /\ obj'[wk[x].file].vv = wk[x].vv,
         Orderly /\ Coherent => \A f \in Files : Rights(f)'
  PROVE  IInv'
  <1> DEFINE r == wk[x]
  <1>1. Basics /\ wk \in [Workers -> Worker] /\ r \in Worker /\ WellFormed(r) /\ CallOK(r)
    BY WorkerType DEF IInv, Basics, TypeOK
  <1>2. /\ UNCHANGED <<env, ver, stamp, cb, known, upd>> /\ UNCHANGED volume
        /\ VCBStatus' = VCBStatus /\ VVV' = VVV /\ demotion_pending' = demotion_pending
        /\ connid' = connid
    BY DEF server, volume
  <1>3. RestStep
    BY <1>1, <1>2, QuietRest
  <1>4. wk'[x] = q /\ \A y \in Workers \ {x} : wk'[y] = wk[y]
    BY <1>1
  <1>5. ASSUME Coherent
        PROVE  connid' = "up" /\ Refused' /\ Silent'
    <2>1. connid = "up"
      BY <1>5 DEF Coherent, Silent
    <2> QED
      BY <1>2, <2>1 DEF Refused, Silent
  <1>6. "fail" \notin env => ~demotion_pending'
    BY <1>1, <1>2 DEF CallOK
  <1>7. ASSUME q.op # "vols"
        PROVE  Holding' => Holding
    <2>1. ASSUME NEW y \in Workers, wk'[y].op = "vols", wk'[y].vv = stamp
          PROVE  Holding
      <3>1. y # x
        BY <1>4, <1>7, <2>1
      <3> QED
        BY <1>4, <2>1, <3>1 DEF Holding
    <2> QED
      BY <1>2, <2>1 DEF Holding
  <1>8. CASE q = In
    <2>1. ~Collecting(wk'[x]) /\ q.op # "vols"
      BY <1>4, <1>8, OutFacts, Constants DEF Collecting, Resting, VolOp
    <2>2. HoldStep(x)
      BY <1>2, <1>7, <2>1 DEF HoldStep
    <2>3. ASSUME Orderly, Coherent, "vcb" \in env
          PROVE  VCBStatus' => VOL \in cb' /\ ~upd.handled
      BY <1>2, <2>3 DEF Coherent, VolumeOK
    <2>4. PICK k \in {In, Out} : k = In
      OBVIOUS
    <2>5. wk' = [wk EXCEPT ![x] = k]
      BY <1>8, <2>4
    <2>6. demotion_pending' /\ "fail" \notin env => k = Out
      BY <1>6
    <2> QED
      BY <1>3, <1>5, <2>2, <2>3, <2>5, <2>6, RestsKeeps
  <1>9. CASE q # In
    <2>1. r.invs /\ q = Visited(r) /\ Answered(r) /\ obj'[r.file].vv = r.vv
      BY <1>9 DEF Got, Visited
    <2>2. /\ q \in Worker /\ q.pc = "fsos" /\ q.op = NONE /\ q.file = NONE /\ q.invs = TRUE
          /\ q.vsusp = r.vsusp /\ q.vbound = r.vbound /\ q.fsos = r.fsos \ {r.file}
          /\ q.piggy = {} /\ q.ok = {} /\ q.bad = {} /\ q.bound = FALSE
      BY <1>1, <2>1, VisitedFacts
    <2>3. q.op \notin FileOp /\ q.op \notin VolOp /\ q.op # "volattr" /\ ~HasStamp(q)
      BY <2>2, Constants DEF HasStamp, VolOp
    <2>4. WellFormed(q)
      BY <2>2, <2>3 DEF WellFormed, VolOp
    <2>5. q.bound \/ q.vbound => known
      BY <1>1, <2>2 DEF CallOK
    <2>6. /\ "vcb" \in env
          /\ "fail" \notin env => q.vbound
      BY <1>1, <2>1, <2>2 DEF CallOK
    <2>7. WorkStep(x) /\ OkStep(x) /\ wk'[x] = q /\ \A y \in Workers \ {x} : wk'[y] = wk[y]
      BY <1>1, <1>2, <1>6, <2>2, <2>3, <2>4, <2>5, <2>6, NoFileCall
    <2>8. ASSUME Orderly, Coherent
          PROVE  VolumeStep(x)
      <3>1. VolumeOK
        BY <2>6, <2>8 DEF Coherent
      <3>2. HoldStep(x)
        <4>1. q.op # "vols"
          BY <2>3 DEF VolOp
        <4> QED
          BY <1>2, <1>7, <2>1, <4>1 DEF HoldStep, Collecting
      <3>3. CollectStep(x)
        <4> SUFFICES ASSUME ~q.vsusp, NEW g \in Files \ q.fsos
                     PROVE  (Collecting(r) /\ ~r.vsusp /\ g \notin r.fsos) \/ Safe(g)'
          BY <1>4 DEF CollectStep
        <4>1. CASE g = r.file
          <5>1. ~r.vsusp
            BY <2>2
          <5>2. wk'[x].op \notin FileOp
            BY <1>4, <2>3
          <5> QED
            BY <1>2, <1>4, <2>1, <2>6, <2>8, <4>1, <5>1, <5>2, GotSafe
        <4>2. CASE g # r.file
          <5>1. g \notin r.fsos
            BY <2>2, <4>2
          <5> QED
            BY <2>1, <2>2, <5>1 DEF Collecting
        <4> QED
          BY <4>1, <4>2
      <3>4. VolumeAnswer(wk[x])'
        BY <1>4, <2>3 DEF VolumeAnswer
      <3> QED
        BY <1>2, <1>4, <2>3, <3>1, <3>2, <3>3, <3>4 DEF VolumeStep, VolumeOK
    <2> QED
      BY <1>3, <1>5, <2>7, <2>8, StepKeeps
  <1> QED
    BY <1>8, <1>9

\* x gives the object of its call, and nothing else, a new status or new data.
LEMMA ApplyOne ==
  ASSUME IInv, NEW x \in Workers, wk[x].op \in FileOp, NEW f \in Files, wk[x].file = f,
         NEW n \in Object, obj' = [obj EXCEPT ![f] = n], n.lock = NONE, UNCHANGED <<env, ver>>,
         ObjectOK(f)',
         HaveStatus(n) => \/ HaveStatus(obj[f]) /\ n.vv = obj[f].vv
                          \/ Answered(wk[x]) /\ n.vv = wk[x].vv
  PROVE  /\ ObjStep(x) /\ obj'[f] = n /\ \A g \in Files : obj'[g].lock # x
         /\ \A g \in Files \ {f} : obj'[g] = obj[g]
  <1>1. Basics /\ obj \in [Files -> Object]
    BY DEF IInv, Basics, TypeOK
  <1>2. obj[f].lock = x
    BY SMTT(60), <1>1, LockedBy
  <1>3. obj' \in [Files -> Object] /\ obj'[f] = n /\ \A g \in Files \ {f} : obj'[g] = obj[g]
    BY <1>1
  <1>4. \A g \in Files : obj'[g].lock # x
    <2> SUFFICES ASSUME NEW g \in Files
                 PROVE  obj'[g].lock # x
      OBVIOUS
    <2>1. CASE g = f
      BY <1>3, <2>1, Constants
    <2>2. CASE g # f
      <3>1. obj[g].lock # x
        BY SMTT(60), <1>1, <2>2, LockedBy
      <3> QED
        BY <1>3, <2>2, <3>1
    <2> QED
      BY <2>1, <2>2
  <1>5. ASSUME NEW g \in Files, g # f
        PROVE  ObjectOK(g)'
    <2>1. obj'[g] = obj[g] /\ ObjectOK(g)
      BY <1>1, <1>3, <1>5 DEF Basics
    <2> QED
      BY <2>1 DEF ObjectOK
  <1>6. ObjStep(x)
    <2> SUFFICES ASSUME NEW g \in Files
                 PROVE  /\ ObjectOK(g)'
                        /\ HaveStatus(obj'[g]) =>
                             \/ HaveStatus(obj[g]) /\ obj'[g].vv = obj[g].vv
                             \/ x \in Workers /\ Answered(wk[x]) /\ wk[x].file = g /\ obj'[g].vv = wk[x].vv
                        /\ \A y \in Workers \ {x} : obj'[g].lock = y <=> obj[g].lock = y
                        /\ obj[g].lock \in Workers \ {x} =>
                             /\ obj'[g].state = obj[g].state /\ obj'[g].vv = obj[g].vv
                             /\ obj'[g].data \in {obj[g].data, NONE}
      BY <1>3 DEF ObjStep
    <2>1. CASE g = f
      <3>1. \A y \in Workers \ {x} : obj'[f].lock # y /\ obj[f].lock # y
        BY <1>2, <1>3, Constants
      <3> QED
        BY <1>2, <1>3, <2>1, <3>1
    <2>2. CASE g # f
      BY <1>3, <1>5, <2>2
    <2> QED
      BY <2>1, <2>2
  <1> QED
    BY <1>3, <1>4, <1>6

\* What an answer that is believed says.
LEMMA AnswerBelieved ==
  ASSUME IInv, NEW x \in Workers, Answered(wk[x]), Believed(wk[x]), Orderly, Coherent,
         NEW f \in Files, wk[x].file = f, UNCHANGED <<ver, cb, known, upd>>, obj'[f].vv = wk[x].vv
  PROVE  Rights(f)'
  <1>1. Answers(wk[x])
    BY DEF Coherent
  <1>2. known => wk[x].vv = ver[f] /\ f \in cb /\ ~Handled(f)
    BY <1>1 DEF Answers
  <1> QED
    BY <1>2 DEF Rights, Handled

\* ApplyFetch keeps the invariant.
LEMMA ApplyFetchStep ==
  ASSUME IInv, NEW x \in Workers, ApplyFetch(x)
  PROVE  IInv'
  <1> DEFINE r == wk[x]
             o == obj[r.file]
             again == FetchAgain(o, r)
             t == Transferred(o, r)
             o1 == IF HaveData(o) THEN [t EXCEPT !.full = TRUE] ELSE o
             u == IF r.vv = NONE THEN o ELSE UpdateStatus(t, r.vv)
             o2 == IF again THEN Demote(DiscardData(u))
                   ELSE IF Suspect(r) THEN o1 ELSE SetRcRights(o1, {"status", "data"})
             n == [o2 EXCEPT !.lock = NONE]
             q == IF again THEN In ELSE Got(r)
  <1>1. /\ r.pc = "reply" /\ r.op = "fetch" /\ r.op \in FileOp
        /\ obj' = [obj EXCEPT ![r.file] = n] /\ wk' = [wk EXCEPT ![x] = q]
        /\ UNCHANGED <<env, server, volume>>
    BY DEF ApplyFetch, FileOp
  <1>2. Basics /\ r \in Worker /\ WellFormed(r) /\ CallOK(r)
    BY WorkerType DEF IInv
  <1>3. r.file \in Files /\ HaveStatus(o) /\ r.vv \in Versions \cup {NONE} /\ (r.vv # NONE <=> Answered(r))
    BY <1>1, <1>2 DEF WellFormed, CallOK, Worker, Answered
  <1>4. PICK f \in Files : f = r.file
    BY <1>3
  <1>5. /\ o \in Object /\ ObjectOK(f) /\ o.vv \in Nat /\ ver[f] \in Nat /\ o.vv \in Versions
        /\ o.data \in Versions \cup {NONE, EMPTY}
    BY <1>2, <1>4, ObjectType DEF Object
  <1>6. /\ r.vv # NONE => /\ o.vv <= r.vv /\ r.vv <= ver[f] /\ r.vv \in Nat /\ r.vv \in Versions
                          /\ "readers" \notin env /\ o.data \in Versions => o.data <= r.vv
    BY <1>1, <1>2, <1>3, <1>4, Constants DEF CallOK
  <1>7. /\ o.vv <= ver[f] /\ (o.full => o.data \in Versions)
        /\ "readers" \notin env => /\ o.openers = 0 /\ (o.full => o.data = o.vv)
                                   /\ o.data \in Versions => o.vv <= o.data /\ o.data <= ver[f]
    BY <1>4, <1>5 DEF ObjectOK
  <1>8. UNCHANGED <<env, ver, stamp, cb, known, upd>>
    BY <1>1 DEF server
  <1>9. /\ t \in Object /\ t.state = o.state /\ t.vv = o.vv /\ t.full = o.full /\ t.rc = o.rc
        /\ t.openers = o.openers /\ (o.data = EMPTY /\ r.vv # NONE => t.data = r.vv)
        /\ ~(o.data = EMPTY /\ r.vv # NONE) => t.data = o.data
    BY <1>2, <1>5, TransferredFacts
  <1>10. Versions \subseteq Nat /\ NONE \notin Versions /\ EMPTY \notin Versions
    BY Constants
  <1>11. CASE again
    <2> HIDE DEF t
    <2>1. /\ u \in Object /\ u.state = "normal" /\ u.openers = o.openers
          /\ r.vv = NONE => u.vv = o.vv
          /\ r.vv # NONE => u.vv = r.vv
      <3>1. CASE r.vv = NONE
        BY <1>3, <1>5, <3>1 DEF HaveStatus
      <3>2. CASE r.vv # NONE
        <4>1. u = UpdateStatus(t, r.vv) /\ r.vv \in Versions
          BY <1>6, <3>2
        <4>2. /\ UpdateStatus(t, r.vv) \in Object /\ UpdateStatus(t, r.vv).state = "normal"
              /\ UpdateStatus(t, r.vv).vv = r.vv /\ UpdateStatus(t, r.vv).openers = t.openers
          BY <1>9, <4>1, UpdateStatusFacts
        <4> HIDE DEF u
        <4> QED
          BY <1>9, <3>2, <4>1, <4>2
      <3> QED
        BY <3>1, <3>2
    <2> HIDE DEF u
    <2>2. /\ o2 \in Object /\ HaveStatus(o2) /\ o2.vv = u.vv /\ o2.data = NONE /\ o2.full = FALSE
          /\ o2.rc = {} /\ o2.openers = o.openers
      <3> DEFINE d == DiscardData(u)
      <3>1. /\ d \in Object /\ d.state = u.state /\ d.vv = u.vv /\ d.data = NONE /\ d.full = FALSE
            /\ d.openers = u.openers
        BY <2>1, DiscardDataFacts
      <3>2. o2 = Demote(d) /\ HaveStatus(d)
        BY <1>11, <2>1, <3>1 DEF HaveStatus
      <3> HIDE DEF d
      <3>3. /\ Demote(d) \in Object /\ Demote(d).state = d.state /\ Demote(d).vv = d.vv
            /\ Demote(d).data = d.data /\ Demote(d).full = d.full
            /\ Demote(d).openers = d.openers /\ Demote(d).rc = {}
        BY <3>1, <3>2, DemoteFacts
      <3> HIDE DEF o2
      <3> QED
        BY <2>1, <3>1, <3>2, <3>3 DEF HaveStatus
    <2> HIDE DEF o2, o1
    <2>3. /\ n \in Object /\ n.state = o2.state /\ n.vv = o2.vv /\ n.data = o2.data /\ n.full = o2.full
          /\ n.rc = o2.rc /\ n.openers = o2.openers /\ n.lock = NONE
      BY SMTT(60), <2>2, LockFacts
    <2> HIDE DEF n
    <2>4. obj' = [obj EXCEPT ![f] = n] /\ obj'[f] = n
      BY <1>1, <1>2, <1>4 DEF Basics, TypeOK
    <2>5. n.vv <= ver[f]
      BY <1>6, <1>7, <2>1, <2>2, <2>3
    <2>6. ObjectOK(f)'
      BY <1>7, <1>8, <1>10, <2>2, <2>3, <2>4, <2>5 DEF ObjectOK, HaveStatus
    <2>7. HaveStatus(n) => (HaveStatus(obj[f]) /\ n.vv = obj[f].vv) \/ (Answered(wk[x]) /\ n.vv = wk[x].vv)
      BY <1>3, <1>4, <2>1, <2>2, <2>3
    <2>8. /\ ObjStep(x) /\ \A g \in Files : obj'[g].lock # x
          /\ \A g \in Files \ {f} : obj'[g] = obj[g]
      BY ZenonT(60), <1>1, <1>4, <1>8, <2>3, <2>4, <2>6, <2>7, ApplyOne
    <2>9. ASSUME Orderly, Coherent
          PROVE  \A g \in Files : Rights(g)'
      <3>1. Rights(f)'
        BY <2>2, <2>3, <2>4 DEF Rights
      <3>2. connid' = connid /\ demotion_pending' = demotion_pending
        BY <1>1 DEF volume
      <3>3. \A g \in Files \ {f} : Rights(g)'
        BY <1>8, <2>8, <2>9, <3>2 DEF Rights, Coherent, Handled
      <3> QED
        BY <3>1, <3>3
    <2>10. PICK k \in {In, Got(wk[x])} : k = In
      OBVIOUS
    <2>11. wk' = [wk EXCEPT ![x] = k]
      BY <1>1, <1>11, <2>10
    <2> HIDE DEF r, o
    <2> QED
      BY <1>1, <2>8, <2>9, <2>10, <2>11, AppliesKeeps DEF r
  <1>12. CASE ~again
    <2>1. r.vv # NONE /\ o.vv = r.vv /\ Answered(r)
      BY <1>3, <1>12 DEF FetchAgain
    <2> HIDE DEF t
    <2>2. /\ o1 \in Object /\ o1.state = o.state /\ o1.vv = o.vv /\ o1.rc = o.rc
          /\ o1.openers = o.openers
          /\ HaveData(o) => o1.data = t.data /\ o1.full = TRUE
          /\ ~HaveData(o) => o1 = o
      <3>1. CASE HaveData(o)
        <4>1. o1 = [t EXCEPT !.full = TRUE]
          BY <3>1
        <4>2. /\ [t EXCEPT !.full = TRUE] \in Object
              /\ [t EXCEPT !.full = TRUE].state = t.state /\ [t EXCEPT !.full = TRUE].vv = t.vv
              /\ [t EXCEPT !.full = TRUE].data = t.data /\ [t EXCEPT !.full = TRUE].full = TRUE
              /\ [t EXCEPT !.full = TRUE].rc = t.rc /\ [t EXCEPT !.full = TRUE].openers = t.openers
          BY <1>9, FullFacts
        <4> HIDE DEF o1
        <4> QED
          BY <1>9, <3>1, <4>1, <4>2
      <3>2. CASE ~HaveData(o)
        BY <1>5, <3>2
      <3> QED
        BY <3>1, <3>2
    <2>3. o1.full => o1.data \in Versions /\ ("readers" \notin env => o1.data = o1.vv)
      <3>1. CASE HaveData(o) /\ o.data = EMPTY
        BY <1>6, <1>9, <2>1, <2>2, <3>1
      <3>2. CASE HaveData(o) /\ o.data # EMPTY
        <4>1. o.data \in Versions /\ o1.data = o.data /\ o1.vv = o.vv
          BY <1>5, <1>9, <2>2, <3>2 DEF HaveData
        <4>2. "readers" \notin env => o.vv <= o.data /\ o.data <= r.vv
          BY <1>6, <1>7, <2>1, <4>1
        <4>3. o.data \in Nat
          BY <1>10, <4>1
        <4>4. "readers" \notin env => o.data = o.vv
          BY SMTT(60), <1>5, <2>1, <4>2, <4>3
        <4> QED
          BY <4>1, <4>4
      <3>3. CASE ~HaveData(o)
        BY <1>7, <2>2, <3>3
      <3> QED
        BY <3>1, <3>2, <3>3
    <2>4. o1.data \in Versions => ("readers" \notin env => o1.vv <= o1.data /\ o1.data <= ver[f])
      <3>1. CASE HaveData(o)
        <4>1. o.vv <= o.vv
          BY SMTT(60), <1>5
        <4> QED
          BY <1>7, <2>2, <2>3, <3>1, <4>1
      <3>2. CASE ~HaveData(o)
        BY <1>7, <2>2, <3>2
      <3> QED
        BY <3>1, <3>2
    <2> HIDE DEF o1
    <2>5. /\ o2 \in Object /\ o2.state = o1.state /\ o2.vv = o1.vv /\ o2.data = o1.data
          /\ o2.full = o1.full /\ o2.openers = o1.openers /\ (Suspect(r) => o2.rc = o1.rc)
      <3>1. CASE Suspect(r)
        BY <1>12, <2>2, <3>1
      <3>2. CASE ~Suspect(r)
        <4>1. o2 = SetRcRights(o1, {"status", "data"})
          BY <1>12, <3>2
        <4>2. PICK w \in SUBSET {"status", "data"} : w = {"status", "data"}
          OBVIOUS
        <4>3. /\ SetRcRights(o1, w) \in Object
              /\ SetRcRights(o1, w).state = o1.state /\ SetRcRights(o1, w).vv = o1.vv
              /\ SetRcRights(o1, w).data = o1.data /\ SetRcRights(o1, w).full = o1.full
              /\ SetRcRights(o1, w).openers = o1.openers
          BY <2>2, SetRcRightsFacts
        <4> HIDE DEF o2
        <4> QED
          BY <3>2, <4>1, <4>2, <4>3
      <3> QED
        BY <3>1, <3>2
    <2> HIDE DEF o2
    <2>6. /\ n \in Object /\ n.state = o2.state /\ n.vv = o2.vv /\ n.data = o2.data /\ n.full = o2.full
          /\ n.rc = o2.rc /\ n.openers = o2.openers /\ n.lock = NONE
      BY SMTT(60), <2>5, LockFacts
    <2> HIDE DEF n
    <2>7. obj' = [obj EXCEPT ![f] = n] /\ obj'[f] = n
      BY <1>1, <1>2, <1>4 DEF Basics, TypeOK
    <2>8. /\ HaveStatus(n) /\ n.vv = o.vv /\ n.state # "runt"
          /\ n.full => n.data \in Versions
          /\ "readers" \notin env => n.openers = 0 /\ (n.full => n.data = n.vv)
                                     /\ (n.data \in Versions => n.vv <= n.data /\ n.data <= ver[f])
      BY <1>3, <1>7, <2>2, <2>3, <2>4, <2>5, <2>6 DEF HaveStatus
    <2>9. ObjectOK(f)'
      BY <1>7, <1>8, <2>6, <2>7, <2>8 DEF ObjectOK
    <2>10. HaveStatus(n) => (HaveStatus(obj[f]) /\ n.vv = obj[f].vv) \/ (Answered(wk[x]) /\ n.vv = wk[x].vv)
      BY <1>3, <1>4, <2>8
    <2>11. /\ ObjStep(x) /\ \A g \in Files : obj'[g].lock # x
           /\ \A g \in Files \ {f} : obj'[g] = obj[g]
      BY ZenonT(60), <1>1, <1>4, <1>8, <2>6, <2>7, <2>9, <2>10, ApplyOne
    <2>12. ASSUME Orderly, Coherent
           PROVE  \A g \in Files : Rights(g)'
      <3>1. connid' = connid /\ demotion_pending' = demotion_pending
        BY <1>1 DEF volume
      <3>a. \A g \in Files \ {f} : Rights(g)'
        BY <1>8, <2>11, <2>12, <3>1 DEF Rights, Coherent, Handled
      <3>2. CASE Suspect(r)
        <4>1. n.rc = obj[f].rc /\ n.vv = obj[f].vv
          BY <1>4, <2>2, <2>5, <2>6, <2>8, <3>2
        <4>2. Rights(f)'
          BY <1>8, <2>7, <2>12, <3>1, <4>1 DEF Rights, Coherent, Handled
        <4> QED
          BY <3>a, <4>2
      <3>3. CASE ~Suspect(r)
        <4>1. Believed(wk[x])
          BY <3>3 DEF Suspect, Believed
        <4>2. obj'[f].vv = wk[x].vv
          BY <2>1, <2>7, <2>8
        <4>3. Rights(f)'
          BY <1>4, <1>8, <2>1, <2>12, <4>1, <4>2, AnswerBelieved
        <4> QED
          BY <3>a, <4>3
      <3> QED
        BY <3>2, <3>3
    <2>13. wk' = [wk EXCEPT ![x] = Got(wk[x])] /\ obj'[wk[x].file].vv = wk[x].vv
      BY <1>1, <1>4, <1>12, <2>1, <2>7, <2>8
    <2>14. PICK k \in {In, Got(wk[x])} : k = Got(wk[x])
      OBVIOUS
    <2> HIDE DEF r, o
    <2> QED
      BY <1>1, <2>1, <2>11, <2>12, <2>13, <2>14, AppliesKeeps DEF r
  <1> QED
    BY <1>11, <1>12

\* What a validation does to a piggybacked object.
LEMMA PiggybackedFacts ==
  ASSUME Basics, NEW x \in Workers, NEW g \in Files, UNCHANGED <<env, ver>>,
         obj'[g] = Piggybacked(g, wk[x])
  PROVE  LET o == obj[g]
             p == obj'[g]
         IN  /\ p \in Object /\ ObjectOK(g)' /\ p.lock = o.lock
             /\ HaveStatus(p) => HaveStatus(o) /\ p.vv = o.vv
             /\ o.lock # NONE => p.state = o.state /\ p.vv = o.vv /\ p.data \in {o.data, NONE}
             /\ p.rc # {} => p.vv = o.vv /\ (p.rc = o.rc \/ (g \in wk[x].ok /\ HaveStatus(o)))
  <1> DEFINE o == obj[g]
             p == obj'[g]
             r == wk[x]
  <1>1. /\ o \in Object /\ ObjectOK(g) /\ CallOK(r) /\ ver[g] \in Nat
    BY ObjectType, WorkerType
  <1>2. 0 <= ver[g] /\ NONE \notin Versions
    BY SMTT(60), <1>1, Constants
  <1>3. CASE p = o
    BY <1>1, <1>3 DEF ObjectOK
  <1>4. CASE g \in r.ok /\ HaveStatus(o) /\ p = SetRcRights(o, {"status", "data"})
    <2>1. PICK w \in SUBSET {"status", "data"} : w = {"status", "data"}
      OBVIOUS
    <2>2. /\ p \in Object /\ p.state = o.state /\ p.vv = o.vv
          /\ p.data = o.data /\ p.full = o.full
          /\ p.openers = o.openers /\ p.lock = o.lock
      <3>1. p = SetRcRights(o, w)
        BY <1>4, <2>1
      <3>2. /\ SetRcRights(o, w) \in Object
            /\ SetRcRights(o, w).state = o.state /\ SetRcRights(o, w).vv = o.vv
            /\ SetRcRights(o, w).data = o.data /\ SetRcRights(o, w).full = o.full
            /\ SetRcRights(o, w).openers = o.openers /\ SetRcRights(o, w).lock = o.lock
        BY <1>1, SetRcRightsFacts
      <3> HIDE DEF p, o
      <3> QED
        BY <3>1, <3>2
    <2>3. ObjectOK(g)'
      BY <1>1, <1>4, <2>2 DEF ObjectOK, HaveStatus
    <2> QED
      BY <1>4, <2>2, <2>3
  <1>5. CASE g \in r.ok \cup r.bad /\ HaveStatus(o) /\ ~Busy(o) /\ p = Gone
    <2>1. "piggy" \in env /\ o.lock = NONE
      BY <1>1, <1>5 DEF CallOK, Busy
    <2>2. ObjectOK(g)'
      BY <1>2, <1>5, <2>1, RuntFacts DEF ObjectOK, HaveStatus
    <2> QED
      BY <1>5, <2>1, <2>2, RuntFacts DEF HaveStatus
  <1>6. CASE p = Demote(o) \/ (HaveData(o) /\ p = DiscardData(Demote(o)))
    <2> DEFINE d == Demote(o)
    <2>1. /\ d \in Object /\ d.state = o.state /\ d.vv = o.vv /\ d.data = o.data
          /\ d.full = o.full /\ d.openers = o.openers /\ d.lock = o.lock
          /\ HaveStatus(o) => d.rc = {}
          /\ ~HaveStatus(o) => d.rc = o.rc
      BY <1>1, DemoteFacts
    <2> HIDE DEF d
    <2>2. CASE p = d
      <3>1. ObjectOK(g)'
        BY <1>1, <2>1, <2>2 DEF ObjectOK, HaveStatus
      <3> QED
        BY <2>1, <2>2, <3>1 DEF HaveStatus
    <2>3. CASE HaveData(o) /\ p = DiscardData(d)
      <3>1. /\ p \in Object /\ p.state = d.state /\ p.vv = d.vv /\ p.data = NONE /\ p.full = FALSE
            /\ p.rc = d.rc /\ p.openers = d.openers /\ p.lock = d.lock
        BY <2>1, <2>3, DiscardDataFacts
      <3>2. HaveStatus(o)
        BY <1>1, <2>3 DEF ObjectOK, HaveData
      <3>3. HaveStatus(p) /\ p.state # "runt" /\ p.rc = {}
        BY <2>1, <3>1, <3>2 DEF HaveStatus
      <3>4. ObjectOK(g)'
        BY <1>1, <1>2, <2>1, <3>1, <3>2, <3>3 DEF ObjectOK
      <3> QED
        BY <2>1, <3>1, <3>2, <3>3, <3>4
    <2> QED
      BY <1>6, <2>2, <2>3 DEF d
  <1>7. \/ p = o
        \/ g \in r.ok /\ HaveStatus(o) /\ p = SetRcRights(o, {"status", "data"})
        \/ g \in r.ok \cup r.bad /\ HaveStatus(o) /\ ~Busy(o) /\ p = Gone
        \/ p = Demote(o) \/ (HaveData(o) /\ p = DiscardData(Demote(o)))
    BY DEF Piggybacked
  <1> QED
    BY <1>3, <1>4, <1>5, <1>6, <1>7

\* What GetAttr makes of its object, before it is unlocked or fetched.
AttrApplied(f, r, o, o3) ==
  /\ o3 \in Object /\ HaveStatus(o3) /\ o3.openers = o.openers
  /\ (o3.vv = o.vv /\ HaveStatus(o) /\ o3.rc = {} /\ o3.data = NONE) \/ o3.vv = r.vv
  /\ o3.vv <= ver[f] /\ (o3.full => o3.data \in Versions)
  /\ "readers" \notin env => /\ o3.full => o3.data = o3.vv
                             /\ o3.data \in Versions => o3.vv <= o3.data /\ o3.data <= ver[f]
  /\ \/ o3.rc = {}
     \/ o3.rc = o.rc /\ o3.vv = o.vv
     \/ ~r.susp /\ o3.vv = r.vv
     \/ {"readers", "resize"} \subseteq env /\ o3.vv = r.vv

\* What the status of an answered ValidateAttrs or GetAttr makes of the object.
LEMMA AttrUpdates ==
  ASSUME Basics, NEW x \in Workers, wk[x].op = "attr", Answered(wk[x]), NEW f \in Files, f = wk[x].file
  PROVE  LET r == wk[x]
             o == obj[f]
             stale == HaveStatus(o) /\ o.vv # r.vv
             retry == stale /\ HaveData(o) /\ ~Active(o)
             o1 == IF stale THEN Demote(o) ELSE o
             o2 == IF Suspect(r) THEN o1 ELSE SetRcRights(o1, {"status", "data"})
             o3 == IF retry THEN DiscardData(o1) ELSE UpdateStatus(o2, r.vv)
         IN  AttrApplied(f, r, o, o3) /\ (~retry => o3.vv = r.vv)
  <1> DEFINE r == wk[x]
             o == obj[f]
             stale == HaveStatus(o) /\ o.vv # r.vv
             retry == stale /\ HaveData(o) /\ ~Active(o)
             o1 == IF stale THEN Demote(o) ELSE o
             o2 == IF Suspect(r) THEN o1 ELSE SetRcRights(o1, {"status", "data"})
             o3 == IF retry THEN DiscardData(o1) ELSE UpdateStatus(o2, r.vv)
  <1>1. o \in Object /\ ObjectOK(f) /\ ver[f] \in Nat /\ o.vv \in Nat /\ o.openers \in 0 .. 1
    BY ObjectType DEF Object
  <1>2. r \in Worker /\ CallOK(r) /\ r.vv \in Versions /\ r.vv \in Nat
    BY WorkerType, Constants DEF Worker, Answered
  <1>3. o.vv <= r.vv /\ r.vv <= ver[f] /\ o.vv <= ver[f]
    BY <1>1, <1>2 DEF CallOK, ObjectOK
  <1>4. NONE \notin Versions
    BY Constants
  <1>5. /\ ~HaveStatus(o) => o.data = NONE /\ ~o.full /\ o.rc = {} /\ o.openers = 0
        /\ o.full => o.data \in Versions
        /\ "readers" \notin env => /\ o.openers = 0 /\ (o.full => o.data = o.vv)
                                   /\ o.data \in Versions => o.vv <= o.data /\ o.data <= ver[f]
    BY <1>1 DEF ObjectOK
  <1>6. /\ o1 \in Object /\ o1.state = o.state /\ o1.vv = o.vv /\ o1.data = o.data
        /\ o1.full = o.full /\ o1.openers = o.openers
        /\ stale => o1.rc = {}
        /\ ~stale => o1.rc = o.rc
    <2>1. CASE stale
      <3>1. o1 = Demote(o) /\ HaveStatus(o)
        BY <2>1
      <3> HIDE DEF o1
      <3> QED
        BY <1>1, <2>1, <3>1, DemoteFacts
    <2>2. CASE ~stale
      BY <1>1, <2>2
    <2> QED
      BY <2>1, <2>2
  <1> HIDE DEF o1
  <1>7. CASE retry
    <2>1. /\ o3 \in Object /\ o3.state = o1.state /\ o3.vv = o1.vv
          /\ o3.data = NONE /\ o3.full = FALSE /\ o3.rc = o1.rc /\ o3.openers = o1.openers
      <3>1. o3 = DiscardData(o1)
        BY <1>7
      <3> HIDE DEF o3
      <3> QED
        BY <1>6, <3>1, DiscardDataFacts
    <2>2. HaveStatus(o) /\ HaveStatus(o3) /\ o3.rc = {}
      BY <1>6, <1>7, <2>1 DEF HaveStatus
    <2> HIDE DEF o3
    <2>3. AttrApplied(f, r, o, o3)
      BY <1>3, <1>4, <1>6, <2>1, <2>2 DEF AttrApplied
    <2> QED
      BY <1>7, <2>3 DEF o3, o1
  <1>8. CASE ~retry
    <2>1. /\ o2 \in Object /\ o2.vv = o.vv /\ o2.data = o.data /\ o2.full = o.full
          /\ o2.openers = o.openers
          /\ Suspect(r) => o2.rc = o1.rc
      <3>1. CASE Suspect(r)
        BY <1>6, <3>1
      <3>2. CASE ~Suspect(r)
        <4>1. o2 = SetRcRights(o1, {"status", "data"})
          BY <3>2
        <4>2. PICK w \in SUBSET {"status", "data"} : w = {"status", "data"}
          OBVIOUS
        <4>3. /\ SetRcRights(o1, w) \in Object
              /\ SetRcRights(o1, w).state = o1.state /\ SetRcRights(o1, w).vv = o1.vv
              /\ SetRcRights(o1, w).data = o1.data /\ SetRcRights(o1, w).full = o1.full
              /\ SetRcRights(o1, w).openers = o1.openers
          BY <1>6, SetRcRightsFacts
        <4> HIDE DEF o2
        <4> QED
          BY <1>6, <3>2, <4>1, <4>2, <4>3
      <3> QED
        BY <3>1, <3>2
    <2> HIDE DEF o2
    <2>2. /\ o3 \in Object /\ o3.state = "normal" /\ o3.vv = r.vv
          /\ o3.data = o2.data /\ o3.full = o2.full /\ o3.openers = o2.openers
          /\ o3.rc = o2.rc \/ (o2.vv # r.vv /\ HaveData(o2) /\ "resize" \in env)
      <3>1. o3 = UpdateStatus(o2, r.vv)
        BY <1>8
      <3> HIDE DEF o3
      <3> QED
        BY ZenonT(60), <1>2, <2>1, <3>1, UpdateStatusFacts
    <2> HIDE DEF o3
    <2>3. ASSUME "readers" \notin env
          PROVE  /\ o3.full => o3.data = o3.vv
                 /\ o3.data \in Versions => o3.vv <= o3.data /\ o3.data <= ver[f]
      <3>1. ~Active(o)
        <4>1. o.openers = 0
          BY <1>5, <2>3
        <4> QED
          BY SMTT(60), <4>1 DEF Active
      <3>2. CASE HaveStatus(o) /\ o.vv = r.vv
        BY <1>5, <2>1, <2>2, <2>3, <3>2
      <3>3. CASE o.data = NONE
        BY <1>4, <1>5, <2>1, <2>2, <3>3
      <3> QED
        BY <1>5, <1>8, <3>1, <3>2, <3>3 DEF HaveData
    <2>4. \/ o3.rc = {}
          \/ o3.rc = o.rc /\ o3.vv = o.vv
          \/ ~r.susp /\ o3.vv = r.vv
          \/ {"readers", "resize"} \subseteq env /\ o3.vv = r.vv
      <3>1. CASE o2.vv # r.vv /\ HaveData(o2) /\ "resize" \in env
        <4>1. HaveData(o) /\ o.vv # r.vv
          BY <2>1, <3>1 DEF HaveData
        <4>2. HaveStatus(o)
          BY <1>5, <4>1 DEF HaveData
        <4>3. Active(o)
          BY <1>8, <4>1, <4>2
        <4>4. o.openers # 0
          BY SMTT(60), <4>3 DEF Active
        <4> QED
          BY <1>5, <2>2, <3>1, <4>4
      <3>2. CASE o3.rc = o2.rc /\ ~Suspect(r)
        BY <2>2, <3>2 DEF Suspect
      <3>3. CASE o3.rc = o2.rc /\ Suspect(r)
        <4>1. o3.rc = o1.rc
          BY <2>1, <3>3
        <4>2. CASE stale
          BY <1>6, <4>1, <4>2
        <4>3. CASE ~HaveStatus(o)
          BY <1>5, <1>6, <4>1, <4>3
        <4>4. CASE HaveStatus(o) /\ o.vv = r.vv
          BY <1>6, <2>2, <4>1, <4>4
        <4> QED
          BY <4>2, <4>3, <4>4
      <3> QED
        BY <2>2, <3>1, <3>2, <3>3
    <2>5. HaveStatus(o3)
      BY <2>2 DEF HaveStatus
    <2>6. AttrApplied(f, r, o, o3)
      BY <1>3, <1>5, <2>1, <2>2, <2>3, <2>4, <2>5 DEF AttrApplied
    <2> QED
      BY <2>2, <2>6 DEF o3, o2, o1
  <1> QED
    BY <1>7, <1>8 DEF o1

\* A worker that goes on with old data keeps its other fields.
LEMMA ResumeFacts ==
  ASSUME NEW s \in Worker, NEW v \in Versions \cup {NONE}
  PROVE  LET u == [s EXCEPT !.resume = v] IN
         /\ u \in Worker /\ u.pc = s.pc /\ u.op = s.op /\ u.file = s.file /\ u.susp = s.susp
         /\ u.bound = s.bound /\ u.vv = s.vv /\ u.ok = s.ok /\ u.bad = s.bad /\ u.piggy = s.piggy
         /\ u.invs = s.invs /\ u.vsusp = s.vsusp /\ u.vbound = s.vbound /\ u.fsos = s.fsos
  BY DEF Worker

\* The rights that GetAttr gives.
LEMMA AttrRights ==
  ASSUME IInv, Orderly, Coherent, NEW x \in Workers, Answered(wk[x]), NEW f \in Files, f = wk[x].file,
         UNCHANGED <<ver, cb, known, upd, connid, demotion_pending>>,
         NEW p, AttrApplied(f, wk[x], obj[f], p), obj'[f].rc = p.rc, obj'[f].vv = p.vv
  PROVE  Rights(f)'
  <1>1. CASE p.rc = {}
    BY <1>1 DEF Rights
  <1>2. CASE p.rc = obj[f].rc /\ p.vv = obj[f].vv
    BY <1>2 DEF Rights, Coherent, Handled
  <1>3. CASE ~wk[x].susp /\ p.vv = wk[x].vv
    BY <1>3, AnswerBelieved DEF Believed
  <1>4. CASE {"readers", "resize"} \subseteq env /\ p.vv = wk[x].vv
    <2>1. Believed(wk[x])
      BY <1>4 DEF Orderly, Believed
    <2> QED
      BY <1>4, <2>1, AnswerBelieved
  <1> QED
    BY <1>1, <1>2, <1>3, <1>4 DEF AttrApplied

\* A Fetch that follows makes a container file if there is none.
Container(p, p4) == p4 = p \/ (p4 = [p EXCEPT !.data = EMPTY] /\ ~p.full /\ p.data = NONE)
AttrDone(f, r, p, p4, w) ==
  /\ AttrApplied(f, r, obj[f], p) /\ Container(p, p4)
  /\ w \in Workers \cup {NONE} /\ obj'[f] = [p4 EXCEPT !.lock = w]
\* The object that has been validated, for the call that follows or without a lock.
LEMMA AttrObject ==
  ASSUME Basics, NEW f \in Files, NEW r, NEW p, NEW p4, NEW w, AttrDone(f, r, p, p4, w),
         UNCHANGED <<env, ver>>
  PROVE  /\ obj'[f] \in Object /\ ObjectOK(f)' /\ HaveStatus(obj'[f]) /\ obj'[f].lock = w
         /\ obj'[f].vv = p.vv /\ obj'[f].rc = p.rc
  <1> DEFINE n == obj'[f]
  <1>a. /\ AttrApplied(f, r, obj[f], p) /\ Container(p, p4)
        /\ w \in Workers \cup {NONE} /\ obj'[f] = [p4 EXCEPT !.lock = w]
    BY DEF AttrDone
  <1>1. p \in Object /\ HaveStatus(p)
    BY <1>a DEF AttrApplied
  <1>2. /\ p4 \in Object /\ p4.state = p.state /\ p4.vv = p.vv /\ p4.full = p.full /\ p4.rc = p.rc
        /\ p4.openers = p.openers
        /\ p4.data = p.data \/ (p4.data = EMPTY /\ ~p.full)
    <2>1. CASE p4 = p
      BY <1>1, <2>1
    <2>2. CASE p4 = [p EXCEPT !.data = EMPTY] /\ ~p.full
      <3>1. PICK d \in Versions \cup {NONE, EMPTY} : d = EMPTY
        OBVIOUS
      <3>2. /\ [p EXCEPT !.data = d] \in Object
            /\ [p EXCEPT !.data = d].state = p.state /\ [p EXCEPT !.data = d].vv = p.vv
            /\ [p EXCEPT !.data = d].data = d /\ [p EXCEPT !.data = d].full = p.full
            /\ [p EXCEPT !.data = d].rc = p.rc /\ [p EXCEPT !.data = d].openers = p.openers
        BY <1>1, DataFacts
      <3>3. p4 = [p EXCEPT !.data = d]
        BY <2>2, <3>1
      <3> QED
        BY <2>2, <3>1, <3>2, <3>3
    <2> QED
      BY <1>a, <2>1, <2>2 DEF Container
  <1>3. /\ n \in Object /\ n.state = p4.state /\ n.vv = p4.vv /\ n.data = p4.data /\ n.full = p4.full
        /\ n.rc = p4.rc /\ n.openers = p4.openers /\ n.lock = w
    BY SMTT(60), <1>2, <1>a, LockFacts
  <1> HIDE DEF n
  <1>4. HaveStatus(n) /\ n.state # "runt" /\ n.state # "none"
    BY <1>1, <1>2, <1>3 DEF HaveStatus
  <1>5. /\ n.vv <= ver[f] /\ (n.full => n.data \in Versions)
        /\ "readers" \notin env => /\ n.openers = 0 /\ (n.full => n.data = n.vv)
                                   /\ n.data \in Versions => n.vv <= n.data /\ n.data <= ver[f]
    <2>1. EMPTY \notin Versions
      BY Constants
    <2>2. "readers" \notin env => p.openers = 0
      BY <1>a, ObjectType DEF ObjectOK, AttrApplied
    <2> QED
      BY <1>2, <1>3, <1>a, <2>1, <2>2 DEF AttrApplied
  <1>6. ObjectOK(f)'
    BY <1>4, <1>5 DEF ObjectOK, n
  <1> QED
    BY <1>2, <1>3, <1>4, <1>6 DEF n

\* ApplyAttr keeps the invariant.
LEMMA ApplyAttrStep ==
  ASSUME IInv, NEW x \in Workers, ApplyAttr(x)
  PROVE  IInv'
  <1> DEFINE r == wk[x]
             o == obj[r.file]
             stale == HaveStatus(o) /\ o.vv # r.vv
             retry == stale /\ HaveData(o) /\ ~Active(o)
             o1 == IF stale THEN Demote(o) ELSE o
             o2 == IF Suspect(r) THEN o1 ELSE SetRcRights(o1, {"status", "data"})
             o3 == IF retry THEN DiscardData(o1) ELSE UpdateStatus(o2, r.vv)
             more == ~retry /\ r.getdata /\ ~o3.full /\ reachable
             fetch == more /\ ~ServerIsDown
             o4 == IF fetch /\ ~HaveData(o3) THEN [o3 EXCEPT !.data = EMPTY] ELSE o3
             w == IF fetch THEN x ELSE NONE
             resume == IF Partial(o3) THEN o3.vv ELSE NONE
  <1>1. /\ r.pc = "reply" /\ r.op = "attr" /\ UNCHANGED <<env, server, volume>>
        /\ obj' = [g \in Files |-> IF g # r.file THEN Piggybacked(g, r) ELSE [o4 EXCEPT !.lock = w]]
        /\ wk' = [wk EXCEPT ![x] =
                    IF retry \/ (more /\ ~fetch) THEN In
                    ELSE IF fetch THEN [Sending(r, "fetch", r.file) EXCEPT !.resume = resume]
                    ELSE Got(r)]
    BY DEF ApplyAttr
  <1>2. /\ Basics /\ r \in Worker /\ WellFormed(r) /\ CallOK(r) /\ obj \in [Files -> Object]
        /\ wk \in [Workers -> Worker]
    BY WorkerType DEF IInv, Basics, TypeOK
  <1>3. r.file \in Files /\ Answered(r) /\ r.op \in FileOp
    BY <1>1, <1>2 DEF WellFormed, Answered, FileOp
  <1>4. PICK f \in Files : f = r.file
    BY <1>3
  <1>5. /\ UNCHANGED <<env, ver, stamp, cb, known, upd>> /\ UNCHANGED volume
        /\ connid' = connid /\ demotion_pending' = demotion_pending
    BY <1>1 DEF server, volume
  <1>6. AttrApplied(f, r, obj[f], o3) /\ (~retry => o3.vv = r.vv)
    BY <1>1, <1>2, <1>3, <1>4, AttrUpdates
  <1>7. (fetch => ~retry /\ ~o3.full) /\ w \in {x, NONE} /\ (fetch => w = x) /\ (~fetch => w = NONE)
    OBVIOUS
  <1>8. Container(o3, o4)
    BY DEF HaveData, Container
  <1>9. obj'[f] = [o4 EXCEPT !.lock = w] /\ \A g \in Files \ {f} : obj'[g] = Piggybacked(g, r)
    BY <1>1, <1>4
  <1> HIDE DEF w, o4, fetch, more, o3, o2, o1, retry, stale
  <1>10. /\ obj'[f] \in Object /\ ObjectOK(f)' /\ HaveStatus(obj'[f]) /\ obj'[f].lock = w
         /\ obj'[f].vv = o3.vv /\ obj'[f].rc = o3.rc
    <2>1. UNCHANGED <<env, ver>>
      BY <1>5
    <2>2. AttrDone(f, r, o3, o4, w)
      BY <1>6, <1>7, <1>8, <1>9 DEF AttrDone
    <2> QED
      BY <1>2, <2>1, <2>2, AttrObject
  <1>11. obj[f].lock = x /\ \A g \in Files \ {f} : obj[g].lock # x
    <2>1. obj[f].lock = x
      BY SMTT(60), <1>2, <1>3, <1>4, LockedBy
    <2>2. ASSUME NEW g \in Files \ {f}
          PROVE  obj[g].lock # x
      BY SMTT(60), <1>2, <1>4, LockedBy
    <2> QED
      BY <2>1, <2>2
  <1>12. ASSUME NEW g \in Files \ {f}
         PROVE  /\ obj'[g] \in Object /\ ObjectOK(g)' /\ obj'[g].lock = obj[g].lock
                /\ HaveStatus(obj'[g]) => HaveStatus(obj[g]) /\ obj'[g].vv = obj[g].vv
                /\ obj[g].lock # NONE => /\ obj'[g].state = obj[g].state /\ obj'[g].vv = obj[g].vv
                                         /\ obj'[g].data \in {obj[g].data, NONE}
                /\ obj'[g].rc # {} => /\ obj'[g].vv = obj[g].vv
                                      /\ obj'[g].rc = obj[g].rc \/ (g \in r.ok /\ HaveStatus(obj[g]))
    <2>1. obj'[g] = Piggybacked(g, wk[x]) /\ UNCHANGED <<env, ver>> /\ g \in Files
      BY <1>5, <1>9
    <2> QED
      BY <1>2, <2>1, PiggybackedFacts
  <1>13. ObjStep(x)
    <2>1. obj' \in [Files -> Object]
      <3>1. \A g \in Files : obj'[g] \in Object
        BY <1>10, <1>12
      <3>2. obj' = [g \in Files |-> obj'[g]]
        BY <1>1
      <3> QED
        BY <3>1, <3>2
    <2> SUFFICES ASSUME NEW g \in Files
                 PROVE  /\ ObjectOK(g)'
                        /\ HaveStatus(obj'[g]) =>
                             \/ HaveStatus(obj[g]) /\ obj'[g].vv = obj[g].vv
                             \/ x \in Workers /\ Answered(wk[x]) /\ wk[x].file = g /\ obj'[g].vv = wk[x].vv
                        /\ \A y \in Workers \ {x} : obj'[g].lock = y <=> obj[g].lock = y
                        /\ obj[g].lock \in Workers \ {x} =>
                             /\ obj'[g].state = obj[g].state /\ obj'[g].vv = obj[g].vv
                             /\ obj'[g].data \in {obj[g].data, NONE}
      BY <2>1 DEF ObjStep
    <2>2. CASE g = f
      <3>1. \A y \in Workers \ {x} : obj'[f].lock # y /\ obj[f].lock # y
        BY <1>7, <1>10, <1>11, Constants
      <3>2. \/ HaveStatus(obj[f]) /\ obj'[f].vv = obj[f].vv
            \/ obj'[f].vv = r.vv
        BY <1>6, <1>10 DEF AttrApplied
      <3> QED
        BY <1>3, <1>4, <1>10, <1>11, <2>2, <3>1, <3>2
    <2>3. CASE g # f
      BY <1>12, <2>3, Constants
    <2> QED
      BY <2>2, <2>3
  <1>14. ASSUME Orderly, Coherent
         PROVE  \A g \in Files : Rights(g)'
    <2>1. Rights(f)'
      BY <1>3, <1>4, <1>5, <1>6, <1>10, <1>14, AttrRights
    <2>2. ASSUME NEW g \in Files \ {f}
          PROVE  Rights(g)'
      <3>1. Rights(g) /\ (g \in r.ok => (known => g \in cb /\ ~Handled(g) /\ Current(g)))
        BY <1>14 DEF Coherent, Piggies
      <3>2. CASE obj'[g].rc = {}
        BY <3>2 DEF Rights
      <3>3. CASE obj'[g].rc = obj[g].rc /\ obj'[g].vv = obj[g].vv
        BY <1>5, <3>1, <3>3 DEF Rights, Handled
      <3>4. CASE obj'[g].vv = obj[g].vv /\ g \in r.ok /\ HaveStatus(obj[g])
        BY <1>5, <3>1, <3>4 DEF Rights, Handled, Current
      <3> QED
        BY <1>12, <3>2, <3>3, <3>4
    <2> QED
      BY <2>1, <2>2
  <1>15. CASE fetch
    <2> DEFINE t == Sending(r, "fetch", f)
               s == [t EXCEPT !.resume = resume]
    <2>1. wk' = [wk EXCEPT ![x] = s]
      BY <1>1, <1>4, <1>7, <1>15
    <2>2. resume \in Versions \cup {NONE}
      BY <1>6 DEF AttrApplied, Object
    <2> HIDE DEF resume
    <2>3. SentBy(r, t, "fetch", f)
      <3>1. PICK op \in FileOp : op = "fetch"
        BY DEF FileOp
      <3>2. SentBy(r, Sending(r, op, f), op, f)
        BY <1>2, SendingFacts
      <3> QED
        BY <3>1, <3>2
    <2> HIDE DEF t
    <2>4. /\ s \in Worker /\ s.pc = t.pc /\ s.op = t.op /\ s.file = t.file /\ s.susp = t.susp
          /\ s.bound = t.bound /\ s.vv = t.vv /\ s.ok = t.ok /\ s.bad = t.bad /\ s.piggy = t.piggy
          /\ s.invs = t.invs /\ s.vsusp = t.vsusp /\ s.vbound = t.vbound /\ s.fsos = t.fsos
      <3>1. t \in Worker
        BY <2>3 DEF SentBy
      <3> QED
        BY <2>2, <3>1, ResumeFacts
    <2> HIDE DEF s
    <2>5. Sends(x, s, f) /\ s.fsos = r.fsos
      <3>1. r.invs => f \in r.fsos
        BY <1>1, <1>2, <1>4 DEF WellFormed
      <3> QED
        BY <2>3, <2>4, <3>1 DEF Sends, SentBy, FileOp
    <2>6. \A g \in Files : obj'[g].lock = x <=> g = f
      BY <1>7, <1>10, <1>11, <1>12, <1>15
    <2>7. ASSUME Coherent
          PROVE  Refused'
      BY <1>1, <1>5, <2>7 DEF Coherent, Silent, Refused
    <2>8. wk[x].pc # "out"
      BY <1>1
    <2>9. \A g \in wk[x].fsos \ s.fsos : Safe(g)
      BY <2>5
    <2> HIDE DEF r
    <2> QED
      BY <1>1, <1>10, <1>13, <1>14, <2>1, <2>5, <2>6, <2>7, <2>8, <2>9, SendsKeeps
  <1>16. CASE ~fetch
    <2>1. PICK q \in {In, Got(wk[x])} : wk' = [wk EXCEPT ![x] = q] /\ (q # In => ~retry)
      <3>1. CASE retry \/ (more /\ ~fetch)
        BY <1>1, <3>1
      <3>2. CASE ~(retry \/ (more /\ ~fetch))
        BY <1>1, <1>16, <3>2
      <3> QED
        BY <3>1, <3>2
    <2>2. q # In => Answered(wk[x]) /\ obj'[wk[x].file].vv = wk[x].vv
      BY <1>3, <1>4, <1>6, <1>10, <2>1
    <2>3. \A g \in Files : obj'[g].lock # x
      BY <1>7, <1>10, <1>11, <1>12, <1>16, Constants
    <2> HIDE DEF r
    <2> QED
      BY <1>1, <1>3, <1>13, <1>14, <2>1, <2>2, <2>3, AppliesKeeps DEF r
  <1> QED
    BY <1>15, <1>16
================================================================================
