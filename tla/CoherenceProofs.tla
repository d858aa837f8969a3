---------------------------- MODULE CoherenceProofs ----------------------------
(***************************************************************************)
(* Proofs about Coherence, for any number of files, workers and updates:   *)
(* failures, updates and breaks of callbacks keep the invariant as well,   *)
(* and what follows from it.                                               *)
(***************************************************************************)
EXTENDS CoherenceSteps

\* Leaves that cite no prover need no arithmetic and are left to Zenon.
USE Zenon

------------------------------------------------------------------------------
(* Connections that fail and come back.                                    *)

\* What a failed call leaves of its object.
LEMMA FailedObject ==
  ASSUME IInv, NEW x \in Workers, CallFails(x), "fail" \in env
  PROVE  ObjStep(x) /\ \A g \in Files : obj'[g].lock # x
  <1> DEFINE r == wk[x]
             o == obj[r.file]
             t == Transferred(o, r)
             b == IF r.op = "fetch" THEN Demote(t) ELSE o
             n == [b EXCEPT !.lock = NONE]
  <1>1. /\ obj' = [f \in Files |-> IF f # r.file THEN obj[f]
                     ELSE [(IF r.op = "fetch" THEN Demote(Transferred(obj[f], r)) ELSE obj[f]) EXCEPT !.lock = NONE]]
        /\ UNCHANGED <<env, ver>>
    BY DEF CallFails, server
  <1>2. Basics /\ r \in Worker /\ WellFormed(r) /\ CallOK(r) /\ obj \in [Files -> Object]
    BY WorkerType DEF IInv, Basics, TypeOK
  <1>3. CASE r.op \notin FileOp
    <2>1. r.file = NONE /\ NONE \notin Files
      BY <1>2, <1>3, Constants DEF WellFormed
    <2>2. obj' = obj
      BY <1>1, <1>2, <2>1
    <2>3. ObjStep(x)
      BY <1>1, <1>2, <2>2, SameObjects
    <2> QED
      BY <1>2, <1>3, <2>2, <2>3, NoLock
  <1>4. CASE r.op \in FileOp
    <2>1. PICK f \in Files : f = r.file
      BY <1>2, <1>4 DEF WellFormed
    <2>2. obj' = [obj EXCEPT ![f] = n] /\ obj'[f] = n
      BY <1>1, <1>2, <2>1
    <2>3. /\ o \in Object /\ ObjectOK(f) /\ o.vv \in Nat /\ ver[f] \in Nat
          /\ o.data \in Versions \cup {NONE, EMPTY} /\ r.vv \in Versions \cup {NONE}
      BY <1>2, <2>1, ObjectType DEF Object, Worker
    <2>4. r.op = "fetch" => HaveStatus(o)
      BY <1>2 DEF CallOK
    <2>5. r.op = "fetch" /\ r.vv # NONE => o.vv <= r.vv /\ r.vv <= ver[f]
      <3>1. r.op = "fetch" /\ r.vv # NONE => Answered(r)
        BY <1>2, <1>4 DEF WellFormed, Answered
      <3> QED
        BY <1>2, <2>1, <3>1 DEF CallOK
    <2>6. /\ t \in Object /\ t.state = o.state /\ t.vv = o.vv /\ t.full = o.full /\ t.rc = o.rc
          /\ t.openers = o.openers /\ (o.data = EMPTY /\ r.vv # NONE => t.data = r.vv)
          /\ ~(o.data = EMPTY /\ r.vv # NONE) => t.data = o.data
      BY <1>2, <2>3, TransferredFacts
    <2> HIDE DEF t
    <2>7. /\ b \in Object /\ b.state = o.state /\ b.vv = o.vv /\ b.full = o.full
          /\ b.openers = o.openers
          /\ r.op = "fetch" => b.data = t.data /\ b.rc = {}
          /\ r.op # "fetch" => b.data = o.data /\ b.rc = o.rc
      <3>1. CASE r.op = "fetch"
        <4>1. b = Demote(t) /\ HaveStatus(t)
          BY <2>4, <2>6, <3>1 DEF HaveStatus
        <4>2. /\ Demote(t) \in Object
              /\ Demote(t).state = t.state /\ Demote(t).vv = t.vv /\ Demote(t).data = t.data
              /\ Demote(t).full = t.full /\ Demote(t).openers = t.openers /\ Demote(t).rc = {}
          BY <2>6, <4>1, DemoteFacts
        <4> HIDE DEF b
        <4> QED
          BY <2>6, <3>1, <4>1, <4>2
      <3>2. CASE r.op # "fetch"
        BY <2>3, <3>2
      <3> QED
        BY <3>1, <3>2
    <2> HIDE DEF b
    <2>8. /\ n \in Object /\ n.state = b.state /\ n.vv = b.vv /\ n.data = b.data /\ n.full = b.full
          /\ n.rc = b.rc /\ n.openers = b.openers /\ n.lock = NONE
      BY SMTT(60), <2>7, LockFacts
    <2> HIDE DEF n
    <2>9. EMPTY \notin Versions /\ NONE \notin Versions
      BY Constants
    <2>10. /\ n.full => n.data \in Versions
           /\ "readers" \notin env => /\ n.openers = 0 /\ (n.full => n.data = n.vv)
                                      /\ n.data \in Versions => n.vv <= n.data /\ n.data <= ver[f]
      <3>1. CASE r.op = "fetch" /\ o.data = EMPTY /\ r.vv # NONE
        <4>1. ~o.full /\ n.full = o.full /\ n.data = r.vv /\ n.vv = o.vv /\ n.openers = o.openers
          BY <2>1, <2>3, <2>6, <2>7, <2>8, <2>9, <3>1 DEF ObjectOK
        <4> QED
          BY <2>1, <2>3, <2>5, <3>1, <4>1 DEF ObjectOK
      <3>2. CASE ~(r.op = "fetch" /\ o.data = EMPTY /\ r.vv # NONE)
        <4>1. n.full = o.full /\ n.data = o.data /\ n.vv = o.vv /\ n.openers = o.openers
          BY <2>6, <2>7, <2>8, <3>2
        <4> QED
          BY <2>1, <2>3, <4>1 DEF ObjectOK
      <3> QED
        BY <3>1, <3>2
    <2>11. n.state = o.state /\ n.vv = o.vv /\ (HaveStatus(n) <=> HaveStatus(o))
      BY <2>7, <2>8 DEF HaveStatus
    <2>12. ~HaveStatus(n) => n.data = NONE /\ ~n.full /\ n.rc = {} /\ n.openers = 0
      BY <2>1, <2>3, <2>4, <2>7, <2>8, <2>11 DEF ObjectOK
    <2>13. n.vv <= ver[f] /\ (env \cap {"flush", "piggy"} = {} => HaveStatus(n))
      BY <2>1, <2>3, <2>11 DEF ObjectOK
    <2>14. ObjectOK(f)'
      BY <1>1, <2>2, <2>8, <2>10, <2>12, <2>13 DEF ObjectOK
    <2>15. HaveStatus(n) => HaveStatus(obj[f]) /\ n.vv = obj[f].vv
      BY <2>1, <2>11
    <2> HIDE DEF r, o
    <2> QED
      BY <1>1, <1>4, <2>1, <2>2, <2>8, <2>14, <2>15, ApplyOne DEF r
  <1> QED
    BY <1>3, <1>4

\* A call fails, and with it, or before it, the connection.
LEMMA CallFailsStep ==
  ASSUME IInv, NEW x \in Workers, CallFails(x), "fail" \in env,
         demotion_pending' \in BOOLEAN, connid' \in {"down", "nak"},
         Orderly /\ Coherent /\ connid' = "nak" => Refused',
         Orderly /\ Coherent =>
           \A y \in Workers \ {x} : /\ wk[y].pc \notin {"piggy", "reply"}
                                    /\ wk[y].pc = "sent" => ~wk[y].bound
  PROVE  IInv'
  <1>1. /\ VCBStatus' = (VCBStatus /\ wk[x].op # "vols")
        /\ VVV' = IF wk[x].op = "vols" THEN NONE ELSE VVV
        /\ wk' = [wk EXCEPT ![x] = In]
        /\ UNCHANGED <<env, ver, stamp, cb, known, upd, reachable>>
    BY DEF CallFails, server
  <1>2. Basics
    BY DEF IInv
  <1>3. RestStep
    <2>1. /\ VCBStatus' \in BOOLEAN /\ VVV' \in Versions \cup {NONE} /\ (VVV' # NONE => VVV' = VVV)
          /\ reachable' \in BOOLEAN /\ cb' \in SUBSET Fids /\ (VCBStatus' => VCBStatus)
      BY <1>1, <1>2 DEF Basics, TypeOK
    <2>2. (VVV' # NONE => VVV' <= stamp) /\ ("vcb" \notin env => ~VCBStatus')
      BY <1>2, <2>1 DEF Basics, Bounded
    <2> QED
      BY <1>1, <2>1, <2>2 DEF RestStep
  <1>4. ObjStep(x) /\ \A f \in Files : obj'[f].lock # x
    BY FailedObject
  <1>5. wk'[x] = In /\ \A y \in Workers \ {x} : wk'[y] = wk[y]
    BY <1>1, <1>2 DEF Basics, TypeOK
  <1>6. ASSUME Orderly, Coherent
        PROVE  (\A f \in Files : Rights(f)') /\ Refused' /\ Silent' /\ "vcb" \notin env
    <2>1. "vcb" \notin env
      BY <1>6 DEF Orderly
    <2>2. \A f \in Files : Rights(f)'
      BY DEF Rights
    <2>3. Refused'
      BY <1>6 DEF Refused
    <2>4. Silent'
      BY <1>5, <1>6, OutFacts DEF Silent
    <2> QED
      BY <2>1, <2>2, <2>3, <2>4
  <1>7. PICK k \in {In, Out} : k = In
    OBVIOUS
  <1> QED
    BY <1>1, <1>3, <1>4, <1>6, <1>7, RestsKeeps

\* The calls that the others make are not answered.
LEMMA QuietOthers ==
  ASSUME Basics, Orderly, "fail" \in env, NEW X, Quiet(X)
  PROVE  \A y \in Workers \ X : /\ wk[y].pc \notin {"piggy", "reply"}
                                /\ wk[y].pc = "sent" => ~wk[y].bound
  <1>1. "reconnect" \notin env /\ "vcb" \notin env
    BY DEF Orderly
  <1>2. \A y \in Workers : wk[y].op \notin VolOp \cup {"volattr"}
    BY <1>1, WorkerType DEF CallOK
  <1>3. \A y \in Workers : Bound(wk[y]) = wk[y].bound
    BY <1>2 DEF Bound, VolOp
  <1> QED
    BY <1>1, <1>3 DEF Quiet

\* CallTimesOut keeps the invariant,
LEMMA CallTimesOutStep ==
  ASSUME IInv, NEW x \in Workers, CallTimesOut(x)
  PROVE  IInv'
  <1>1. /\ "fail" \in env /\ Quiet({x}) /\ CallFails(x)
        /\ connid' = "down" /\ demotion_pending' = demotion_pending
    BY DEF CallTimesOut
  <1>2. Basics /\ demotion_pending \in BOOLEAN
    BY DEF IInv, Basics, TypeOK
  <1>3. Orderly => \A y \in Workers \ {x} : /\ wk[y].pc \notin {"piggy", "reply"}
                                            /\ wk[y].pc = "sent" => ~wk[y].bound
    BY <1>1, <1>2, QuietOthers
  <1> QED
    BY <1>1, <1>2, <1>3, CallFailsStep

\* and CallNaked.
LEMMA CallNakedStep ==
  ASSUME IInv, NEW x \in Workers, CallNaked(x)
  PROVE  IInv'
  <1>1. /\ wk[x].pc = "sent" /\ ~Bound(wk[x]) /\ Quiet({x}) /\ CallFails(x)
        /\ connid' = IF ServerIsDown THEN connid ELSE "nak"
        /\ demotion_pending' = (demotion_pending \/ ~ServerIsDown)
    BY DEF CallNaked
  <1>2. Basics /\ demotion_pending \in BOOLEAN /\ WellFormed(wk[x]) /\ CallOK(wk[x]) /\ wk[x] \in Worker
    BY WorkerType DEF IInv, Basics, TypeOK
  <1>3. "fail" \in env
    <2>1. wk[x].op \in {NONE, "attr", "fetch", "vols", "volvs", "volattr"}
      BY <1>2 DEF Worker
    <2>2. wk[x].op \in FileOp \cup VolOp
      BY <1>1, <1>2, <2>1 DEF WellFormed, FileOp, VolOp
    <2>3. Bound(wk[x]) = IF wk[x].op \in VolOp THEN wk[x].vbound ELSE wk[x].bound
      BY DEF Bound, VolOp
    <2> QED
      BY <1>1, <1>2, <2>2, <2>3 DEF CallOK
  <1>4. Orderly => \A y \in Workers \ {x} : /\ wk[y].pc \notin {"piggy", "reply"}
                                            /\ wk[y].pc = "sent" => ~wk[y].bound
    BY <1>1, <1>2, <1>3, QuietOthers
  <1>5. connid' \in {"down", "nak"} /\ demotion_pending' \in BOOLEAN
    BY <1>1, <1>2 DEF ServerIsDown
  <1>6. connid' = "nak" => Refused'
    BY <1>1 DEF ServerIsDown, Refused
  <1> QED
    BY <1>1, <1>3, <1>4, <1>5, <1>6, CallFailsStep

\* The connection is there: GetAttr or Fetch makes its call.
LEMMA CallsNow ==
  ASSUME IInv, NEW x \in Workers, wk[x].pc = "conn", wk[x].op \in FileOp, connid = "up",
         wk' = [wk EXCEPT ![x] = [wk[x] EXCEPT !.pc = "sent", !.bound = known,
                                               !.susp = wk[x].op = "fetch" /\ @]],
         UNCHANGED <<env, server, obj, volume>>
  PROVE  IInv'
  <1> DEFINE r == wk[x]
             s == [r EXCEPT !.pc = "sent", !.bound = known, !.susp = r.op = "fetch" /\ @]
  <1>1. Basics /\ r \in Worker /\ WellFormed(r) /\ CallOK(r) /\ known \in BOOLEAN
        /\ wk \in [Workers -> Worker]
    BY WorkerType DEF IInv, Basics, TypeOK
  <1>2. "fail" \in env
    BY <1>1 DEF CallOK
  <1>3. /\ UNCHANGED <<env, ver, stamp, cb, known, upd>> /\ UNCHANGED <<VCBStatus, VVV>>
        /\ UNCHANGED <<demotion_pending, connid, reachable>> /\ obj' = obj
    BY DEF server, volume
  <1>4. r.susp \in BOOLEAN /\ (r.op = "fetch" /\ r.susp) \in BOOLEAN
    BY <1>1 DEF Worker
  <1>5. s \in Worker
    <2>1. PICK a \in BOOLEAN : a = (r.op = "fetch" /\ r.susp)
      BY <1>4
    <2>2. PICK k \in BOOLEAN : k = known
      BY <1>1
    <2>3. s = [r EXCEPT !.pc = "sent", !.bound = k, !.susp = a]
      BY <2>1, <2>2
    <2>4. [r EXCEPT !.pc = "sent", !.bound = k, !.susp = a] \in Worker
      <3> HIDE DEF r
      <3> QED
        BY ZenonT(60), <1>1 DEF Worker
    <2> QED
      BY <2>3, <2>4
  <1>6. /\ s.pc = "sent" /\ s.op = r.op /\ s.file = r.file /\ s.bound = known /\ s.vbound = r.vbound
        /\ s.invs = r.invs /\ s.fsos = r.fsos /\ s.vv = r.vv
    BY <1>1 DEF Worker
  <1>7. s.piggy = r.piggy /\ s.ok = r.ok /\ s.bad = r.bad
    BY <1>1 DEF Worker
  <1>8. r.ok \cup r.bad = {} /\ r.ok = {} /\ r.bad = {}
    BY <1>1 DEF WellFormed
  <1>9. wk' = [wk EXCEPT ![x] = s]
    OBVIOUS
  <1> HIDE DEF s
  <1>10. wk' \in [Workers -> Worker] /\ wk'[x] = s /\ \A y \in Workers \ {x} : wk'[y] = wk[y]
    BY <1>1, <1>5, <1>9
  <1>11. WellFormed(s)
    <2>1. s.op \in FileOp /\ s.op \notin VolOp /\ s.op # "volattr" /\ s.op # NONE /\ s.op # "vols" /\ s.op # "volvs"
      BY <1>6, Constants DEF FileOp, VolOp
    <2>2. r.file \in Files /\ (r.op = "fetch" \/ r.op = "attr") /\ r.vv = NONE
          /\ (r.piggy # {} => r.op = "attr") /\ (r.invs => r.file \in r.fsos)
      BY <1>1 DEF WellFormed, FileOp
    <2> QED
      BY <1>6, <1>7, <1>8, <2>1, <2>2 DEF WellFormed
  <1>12. ~Answered(s) /\ ~HasStamp(s)
    BY <1>6 DEF Answered, HasStamp, FileOp
  <1>13. CallOK(wk[x])'
    <2>1. s.op = "fetch" \/ s.piggy # {} => HaveStatus(obj[s.file])
      BY <1>1, <1>6, <1>7 DEF CallOK
    <2>2. s.bound \/ s.vbound => known
      BY <1>1, <1>6 DEF CallOK
    <2>3. /\ "piggy" \notin env => s.piggy = {} /\ s.ok \cup s.bad = {}
          /\ "vcb" \notin env => s.op \notin VolOp \cup {"volattr"} /\ ~s.invs
      BY <1>1, <1>6, <1>7, <1>8 DEF CallOK
    <2> QED
      BY <1>2, <1>3, <1>7, <1>8, <1>10, <1>12, <2>1, <2>2, <2>3 DEF CallOK
  <1>14. \A f \in Files : obj'[f].lock = x <=> s.op \in FileOp /\ s.file = f
    BY SMTT(60), <1>1, <1>3, <1>6, LockedBy
  <1>15. OwnStep(x)
    BY <1>2, <1>7, <1>10, <1>11, <1>12, <1>13, <1>14 DEF OwnStep
  <1>16. WorkStep(x)
    BY <1>10, <1>15 DEF WorkStep
  <1>17. ObjStep(x)
    BY <1>1, <1>3, SameObjects
  <1>18. RestStep
    <2>1. /\ VCBStatus \in BOOLEAN /\ VVV \in Versions \cup {NONE} /\ demotion_pending \in BOOLEAN
          /\ connid \in {"down", "nak", "up"} /\ reachable \in BOOLEAN /\ cb \subseteq Fids
      BY <1>1 DEF Basics, TypeOK
    <2> QED
      BY <1>1, <1>2, <1>3, <2>1 DEF RestStep, Basics, Bounded
  <1>19. ASSUME Orderly, Coherent
         PROVE  (\A f \in Files : Rights(f)') /\ OkStep(x) /\ Silent' /\ Refused' /\ "vcb" \notin env
    <2>1. "vcb" \notin env
      BY <1>2, <1>19 DEF Orderly
    <2>2. \A f \in Files : Rights(f)'
      BY <1>3, <1>19 DEF Rights, Coherent, Handled
    <2>3. OkStep(x)
      BY <1>7, <1>8, <1>10 DEF OkStep
    <2>4. Silent' /\ Refused'
      BY <1>3 DEF Silent, Refused
    <2> QED
      BY <2>1, <2>2, <2>3, <2>4
  <1> QED
    BY <1>16, <1>17, <1>18, <1>19, StepKeeps

\* GetConn keeps the invariant,
LEMMA GetConnStep ==
  ASSUME IInv, NEW x \in Workers, GetConn(x)
  PROVE  IInv'
  <1>1. Basics /\ wk[x] \in Worker /\ WellFormed(wk[x]) /\ CallOK(wk[x]) /\ wk[x].pc = "conn"
    BY WorkerType DEF IInv, GetConn
  <1>2. "fail" \in env
    BY <1>1 DEF CallOK
  <1>3. wk[x].op \in FileOp \/ wk[x].op = "volattr"
    BY <1>1 DEF WellFormed, Worker, FileOp, VolOp
  <1>4. CASE ServerIsDown /\ CallFails(x) /\ UNCHANGED <<demotion_pending, connid>>
    <2>1. connid' = "down" /\ connid = "down" /\ demotion_pending' \in BOOLEAN
      BY <1>1, <1>4 DEF ServerIsDown, Basics, TypeOK
    <2>2. Coherent => \A y \in Workers \ {x} : /\ wk[y].pc \notin {"piggy", "reply"}
                                               /\ wk[y].pc = "sent" => ~wk[y].bound
      BY <2>1 DEF Coherent, Silent
    <2> QED
      BY <1>2, <1>4, <2>1, <2>2, CallFailsStep
  <1>5. CASE /\ connid = "up"
             /\ wk' = [wk EXCEPT ![x] =
                         IF wk[x].op # "volattr"
                         THEN [wk[x] EXCEPT !.pc = "sent", !.bound = known,
                                            !.susp = wk[x].op = "fetch" /\ @]
                         ELSE IF VVV # NONE /\ VCBStatus THEN In ELSE GetVolAttr]
             /\ UNCHANGED <<env, server, obj, volume>>
    <2>1. CASE wk[x].op # "volattr"
      BY <1>1, <1>3, <1>5, <2>1, CallsNow
    <2>2. CASE wk[x].op = "volattr"
      <3>1. /\ UNCHANGED <<env, ver, stamp, cb, known, upd>> /\ UNCHANGED <<VCBStatus, VVV>>
            /\ UNCHANGED <<demotion_pending, connid, reachable>> /\ obj' = obj
        BY <1>5 DEF server, volume
      <3>2. ObjStep(x) /\ wk[x].op \notin FileOp /\ "vcb" \in env
        BY <1>1, <2>2, <3>1, SameObjects DEF CallOK, FileOp
      <3>3. \A f \in Files : obj'[f].lock # x
        BY <1>1, <3>1, <3>2, NoLock
      <3>4. RestStep
        <4>1. /\ VCBStatus \in BOOLEAN /\ VVV \in Versions \cup {NONE} /\ demotion_pending \in BOOLEAN
              /\ connid \in {"down", "nak", "up"} /\ reachable \in BOOLEAN /\ cb \subseteq Fids
          BY <1>1 DEF Basics, TypeOK
        <4> QED
          BY <1>1, <1>2, <3>1, <4>1 DEF RestStep, Basics, Bounded
      <3>5. ~Orderly
        BY <1>2, <3>2 DEF Orderly
      <3>6. CASE VVV # NONE /\ VCBStatus
        <4>1. PICK k \in {In, Out} : k = In
          OBVIOUS
        <4>2. wk' = [wk EXCEPT ![x] = k]
          BY <1>5, <2>2, <3>6, <4>1
        <4> QED
          BY <1>2, <3>2, <3>3, <3>4, <3>5, <4>2, RestsKeeps
      <3>7. CASE ~(VVV # NONE /\ VCBStatus)
        <4>1. PICK k \in {GetVolAttr, VolAttr} : k = GetVolAttr
          OBVIOUS
        <4>2. wk' = [wk EXCEPT ![x] = k]
          BY <1>5, <2>2, <3>7, <4>1
        <4>3. \A f \in Files : obj'[f].lock = obj[f].lock /\ obj'[f].state = obj[f].state
          BY <3>1
        <4> QED
          BY <1>2, <3>1, <3>2, <3>4, <3>5, <4>2, <4>3, BeginsVolume
      <3> QED
        BY <3>6, <3>7
    <2> QED
      BY <2>1, <2>2
  <1> QED
    BY <1>4, <1>5 DEF GetConn

\* and Connect.
LEMMA ConnectStep ==
  ASSUME IInv, Connect
  PROVE  IInv'
  <1>1. /\ ~known \/ connid # "up"
        /\ Quiet({}) /\ upd.pc # "wait"
        /\ known' = TRUE /\ connid' = "up"
        /\ demotion_pending' = (demotion_pending \/ connid # "nak")
        /\ UNCHANGED <<env, ver, stamp, cb, upd>> /\ UNCHANGED <<obj, VCBStatus, VVV, reachable, wk>>
    BY DEF Connect
  <1>2. Basics
    BY DEF IInv
  <1>3. "fail" \in env
    BY <1>1, <1>2 DEF Basics, Stable
  <1>4. Basics'
    <2>1. TypeOK'
      BY <1>1, <1>2 DEF Basics, TypeOK
    <2>2. \A x \in Workers : WellFormed(wk[x])' /\ CallOK(wk[x])' /\ Packed(wk[x])'
      <3> SUFFICES ASSUME NEW x \in Workers
                   PROVE  WellFormed(wk[x])' /\ CallOK(wk[x])' /\ Packed(wk[x])'
        OBVIOUS
      <3>1. WellFormed(wk[x]) /\ CallOK(wk[x]) /\ Packed(wk[x]) /\ wk'[x] = wk[x]
        BY <1>1, <1>2 DEF Basics
      <3>2. CallOK(wk[x])'
        BY <1>1, <1>3, <3>1 DEF CallOK
      <3>3. Packed(wk[x])'
        BY <1>1, <3>1 DEF Packed
      <3> QED
        BY <3>1, <3>2, <3>3
    <2>3. \A f \in Files : ObjectOK(f)'
      BY <1>1, <1>2 DEF Basics, ObjectOK
    <2>4. Locks' /\ UpdateOK' /\ Bounded'
      BY <1>1, <1>2 DEF Basics, Locks, UpdateOK, Bounded, Updates
    <2>5. Stable' /\ ("vcb" \notin env' => ~VCBStatus')
      BY <1>1, <1>2, <1>3 DEF Basics, Stable
    <2> QED
      BY <2>1, <2>2, <2>3, <2>4, <2>5 DEF Basics
  <1>5. ASSUME Orderly
        PROVE  Coherent'
    <2>1. Coherent /\ "vcb" \notin env
      BY <1>3, <1>5 DEF IInv, Orderly
    <2>2. \A y \in Workers : wk[y].pc \notin {"piggy", "reply"} /\ (wk[y].pc = "sent" => ~wk[y].bound)
      <3>1. PICK X \in {{}} : X = {}
        OBVIOUS
      <3>2. \A y \in Workers \ X : wk[y].pc \notin {"piggy", "reply"} /\ (wk[y].pc = "sent" => ~wk[y].bound)
        BY <1>1, <1>2, <1>3, <1>5, <3>1, QuietOthers
      <3> QED
        BY <3>1, <3>2
    <2>3. \A f \in Files : Rights(f)'
      BY <1>1, <2>1 DEF Rights, Coherent, Refused
    <2>4. \A y \in Workers : ~Answered(wk'[y]) /\ wk'[y].ok = {}
      BY <1>1, <1>2, <2>2, WorkerType DEF Answered, WellFormed
    <2>5. \A y \in Workers : Answers(wk[y])' /\ Piggies(wk[y])'
      BY <2>4 DEF Answers, Piggies
    <2>6. Silent' /\ Refused'
      BY <1>1 DEF Silent, Refused
    <2> QED
      BY <1>1, <2>1, <2>3, <2>5, <2>6 DEF Coherent
  <1> QED
    BY <1>1, <1>4, <1>5 DEF IInv, Orderly

------------------------------------------------------------------------------
(* Updates by other clients, and the breaks they cause.                    *)

\* The calls stay what they are, but for the connection and the suspicion.
SameCall(r, s) ==
  /\ s \in Worker /\ s.pc = r.pc /\ s.op = r.op /\ s.file = r.file /\ s.fsos = r.fsos
  /\ s.invs = r.invs /\ s.vv = r.vv /\ s.piggy = r.piggy /\ s.ok = r.ok /\ s.bad = r.bad
\* The objects stay what they are, but for their rights.
SameObject(o, n) ==
  /\ n \in Object /\ n.state = o.state /\ n.vv = o.vv /\ n.data = o.data /\ n.full = o.full
  /\ n.openers = o.openers /\ n.lock = o.lock /\ (n.rc = o.rc \/ n.rc = {})

ServerStep ==
  /\ UNCHANGED <<env, demotion_pending, connid, reachable>>
  /\ TypeOK' /\ UpdateOK' /\ Bounded' /\ Stable'
  /\ VCBStatus' => VCBStatus
  /\ stamp <= stamp' /\ \A f \in Files : ver[f] <= ver'[f] /\ SameObject(obj[f], obj'[f])
  /\ \A x \in Workers : /\ SameCall(wk[x], wk'[x])
                        /\ wk'[x].bound \/ wk'[x].vbound => known'
                        /\ "fail" \notin env =>
                             wk'[x].bound = wk[x].bound /\ wk'[x].vbound = wk[x].vbound

\* A call of which only the suspicions change is the same for the invariant,
LEMMA SameCallFacts ==
  ASSUME NEW r, NEW s, SameCall(r, s)
  PROVE  /\ WellFormed(r) => WellFormed(s)
         /\ Answered(s) <=> Answered(r)
         /\ HasStamp(s) <=> HasStamp(r)
         /\ Collecting(s) <=> Collecting(r)
  <1>1. WellFormed(r) => WellFormed(s)
    BY DEF SameCall, WellFormed
  <1>2. Answered(s) <=> Answered(r)
    BY DEF SameCall, Answered
  <1>3. (HasStamp(s) <=> HasStamp(r)) /\ (Collecting(s) <=> Collecting(r))
    BY DEF SameCall, HasStamp, Collecting
  <1> QED
    BY <1>1, <1>2, <1>3

\* and so are all calls in a step of the server.
LEMMA ServerCalls ==
  ASSUME Basics, ServerStep, NEW x \in Workers
  PROVE  /\ SameCall(wk[x], wk'[x]) /\ WellFormed(wk'[x])
         /\ Answered(wk'[x]) <=> Answered(wk[x])
         /\ HasStamp(wk'[x]) <=> HasStamp(wk[x])
         /\ Collecting(wk'[x]) <=> Collecting(wk[x])
         /\ Answered(wk[x]) => wk[x].file \in Files /\ wk[x].vv \in Versions
  <1>1. SameCall(wk[x], wk'[x]) /\ WellFormed(wk[x]) /\ wk[x] \in Worker
    BY WorkerType DEF ServerStep
  <1>2. Answered(wk[x]) => wk[x].file \in Files /\ wk[x].vv \in Versions
    BY <1>1 DEF Answered, WellFormed, Worker
  <1> QED
    BY <1>1, <1>2, SameCallFacts

\* Versions only grow.
LEMMA Later ==
  ASSUME Basics, ServerStep, NEW f \in Files, NEW v \in Versions, v <= ver[f]
  PROVE  v <= ver'[f]
  <1>1. ver[f] \in Nat /\ ver'[f] \in Nat /\ v \in Nat
    BY Constants DEF Basics, ServerStep, TypeOK
  <1>2. ver[f] <= ver'[f]
    BY DEF ServerStep
  <1> QED
    BY SMTT(60), <1>1, <1>2

\* A step of the server keeps the basic part of the invariant.
LEMMA ServerBasics ==
  ASSUME Basics, ServerStep
  PROVE  Basics'
  <1>1. /\ env' = env /\ demotion_pending' = demotion_pending
        /\ TypeOK' /\ UpdateOK' /\ Bounded' /\ Stable' /\ (VCBStatus' => VCBStatus)
    BY DEF ServerStep
  <1>2. ASSUME NEW f \in Files
        PROVE  ObjectOK(f)'
    <2>1. /\ SameObject(obj[f], obj'[f]) /\ obj[f] \in Object /\ ObjectOK(f) /\ obj[f].vv \in Versions
      BY ObjectType DEF ServerStep
    <2>2. obj[f].vv <= ver'[f]
      BY <2>1, Later DEF ObjectOK
    <2>3. "readers" \notin env /\ obj[f].data \in Versions => obj[f].data <= ver'[f]
      <3> SUFFICES ASSUME "readers" \notin env, obj[f].data \in Versions
                   PROVE  obj[f].data <= ver'[f]
        OBVIOUS
      <3>1. obj[f].data <= ver[f]
        BY <2>1 DEF ObjectOK
      <3> QED
        BY <3>1, Later
    <2> QED
      BY <1>1, <2>1, <2>2, <2>3 DEF ObjectOK, SameObject, HaveStatus
  <1>3. ASSUME NEW x \in Workers
        PROVE  WellFormed(wk[x])' /\ CallOK(wk[x])'
    <2> DEFINE r == wk[x]
               s == wk'[x]
    <2>1. /\ SameCall(r, s) /\ WellFormed(s) /\ (Answered(s) <=> Answered(r))
          /\ HasStamp(s) <=> HasStamp(r)
          /\ Answered(r) => r.file \in Files /\ r.vv \in Versions
      BY ServerCalls
    <2>2. r \in Worker /\ WellFormed(r) /\ CallOK(r)
      BY WorkerType
    <2>3. r.op = "fetch" \/ r.piggy # {} \/ r.ok \cup r.bad # {} => HaveStatus(obj'[r.file])
      <3> SUFFICES ASSUME r.op = "fetch" \/ r.piggy # {} \/ r.ok \cup r.bad # {}
                   PROVE  HaveStatus(obj'[r.file])
        OBVIOUS
      <3>1. r.file \in Files /\ HaveStatus(obj[r.file])
        BY <2>2 DEF WellFormed, CallOK, FileOp
      <3> QED
        BY <3>1 DEF ServerStep, SameObject, HaveStatus
    <2>4. Answered(r) => /\ obj'[r.file].vv <= r.vv /\ r.vv <= ver'[r.file]
                         /\ "readers" \notin env /\ r.op = "fetch" /\ obj'[r.file].data \in Versions
                              => obj'[r.file].data <= r.vv
      <3> SUFFICES ASSUME Answered(r)
                   PROVE  /\ obj'[r.file].vv <= r.vv /\ r.vv <= ver'[r.file]
                          /\ "readers" \notin env /\ r.op = "fetch" /\ obj'[r.file].data \in Versions
                               => obj'[r.file].data <= r.vv
        OBVIOUS
      <3>1. PICK f \in Files : f = r.file
        BY <2>1
      <3>2. SameObject(obj[f], obj'[f])
        BY DEF ServerStep
      <3>3. /\ obj[f].vv <= r.vv /\ r.vv <= ver[f]
            /\ "readers" \notin env /\ r.op = "fetch" /\ obj[f].data \in Versions => obj[f].data <= r.vv
        BY <2>2, <3>1 DEF CallOK
      <3>4. r.vv <= ver'[f]
        BY <2>1, <3>3, Later
      <3> QED
        BY <3>1, <3>2, <3>3, <3>4 DEF SameObject
    <2>5. HasStamp(r) /\ r.vv # NONE => r.vv <= stamp'
      <3>1. r.vv \in Versions \cup {NONE} /\ stamp \in Nat /\ stamp' \in Nat /\ Versions \subseteq Nat
        BY <1>1, <2>2, Constants DEF Basics, TypeOK, Worker
      <3>2. HasStamp(r) /\ r.vv # NONE => r.vv <= stamp
        BY <2>2 DEF CallOK
      <3>3. stamp <= stamp'
        BY DEF ServerStep
      <3>4. ASSUME NEW v \in Nat, v <= stamp
            PROVE  v <= stamp'
        BY SMTT(60), <3>1, <3>3, <3>4
      <3> QED
        BY <3>1, <3>2, <3>4
    <2>6. /\ s.bound \/ s.vbound => known'
          /\ "fail" \notin env => s.bound = r.bound /\ s.vbound = r.vbound
      BY DEF ServerStep
    <2>7. CallOK(wk[x])'
      <3>1. s.op = r.op /\ s.pc = r.pc /\ s.file = r.file /\ s.invs = r.invs /\ s.vv = r.vv
            /\ s.piggy = r.piggy /\ s.ok = r.ok /\ s.bad = r.bad
        BY <2>1 DEF SameCall
      <3> QED
        BY <1>1, <2>1, <2>2, <2>3, <2>4, <2>5, <2>6, <3>1 DEF CallOK
    <2> QED
      BY <2>1, <2>7
  <1>4. ASSUME NEW x \in Workers
        PROVE  Packed(wk[x])'
    <2>1. Packed(wk[x]) /\ wk'[x].piggy = wk[x].piggy /\ wk[x].piggy \subseteq Files \X Versions
      BY ServerCalls, WorkerType DEF Basics, SameCall, Worker
    <2> SUFFICES ASSUME NEW p \in wk[x].piggy
                 PROVE  /\ p[2] <= ver'[p[1]]
                        /\ HaveStatus(obj'[p[1]]) => p[2] <= obj'[p[1]].vv
                        /\ \A y \in Workers : Answered(wk'[y]) /\ wk'[y].file = p[1] => p[2] <= wk'[y].vv
      BY <2>1 DEF Packed
    <2>2. PICK g \in Files, v \in Versions : g = p[1] /\ v = p[2]
      BY <2>1
    <2>3. /\ v <= ver[g] /\ (HaveStatus(obj[g]) => v <= obj[g].vv)
          /\ \A y \in Workers : Answered(wk[y]) /\ wk[y].file = g => v <= wk[y].vv
      BY <2>1, <2>2 DEF Packed
    <2>4. v <= ver'[g]
      BY <2>3, Later
    <2>5. HaveStatus(obj'[g]) => v <= obj'[g].vv
      BY <2>3 DEF ServerStep, SameObject, HaveStatus
    <2>6. \A y \in Workers : Answered(wk'[y]) /\ wk'[y].file = g => v <= wk'[y].vv
      BY <2>3, ServerCalls DEF SameCall
    <2> QED
      BY <2>2, <2>4, <2>5, <2>6
  <1>5. Locks'
    <2> SUFFICES ASSUME NEW x \in Workers, NEW f \in Files
                 PROVE  obj'[f].lock = x <=> wk'[x].op \in FileOp /\ wk'[x].file = f
      BY DEF Locks
    <2>1. obj[f].lock = x <=> wk[x].op \in FileOp /\ wk[x].file = f
      BY DEF Basics, Locks
    <2>2. obj'[f].lock = obj[f].lock
      BY DEF ServerStep, SameObject
    <2>3. wk'[x].op = wk[x].op /\ wk'[x].file = wk[x].file
      BY DEF ServerStep, SameCall
    <2> QED
      BY <2>1, <2>2, <2>3
  <1> QED
    BY <1>1, <1>2, <1>3, <1>4, <1>5 DEF Basics

\* What is current stays so if the version does.
LEMMA ServerCurrent ==
  ASSUME Basics, ServerStep, NEW f \in Files
  PROVE  /\ ver'[f] = ver[f] /\ Current(f) => Current(f)'
         /\ InUse(f)' => InUse(f)
         /\ ~InUse(f) => Current(f)'
  <1>1. SameObject(obj[f], obj'[f]) /\ (HaveStatus(obj'[f]) <=> HaveStatus(obj[f]))
    BY DEF ServerStep, SameObject, HaveStatus
  <1>2. \A y \in Workers : (Answered(wk'[y]) <=> Answered(wk[y])) /\ SameCall(wk[y], wk'[y])
    BY ServerCalls
  <1>3. InUse(f)' => InUse(f)
    BY <1>1, <1>2 DEF InUse, SameCall
  <1>4. ~InUse(f) => Current(f)'
    BY <1>1, <1>2 DEF InUse, Current, SameCall
  <1>5. ver'[f] = ver[f] /\ Current(f) => Current(f)'
    BY <1>1, <1>2 DEF Current, SameObject, SameCall
  <1> QED
    BY <1>3, <1>4, <1>5

\* Nothing but the server's update changes.
LEMMA UpdateMoves ==
  ASSUME IInv, UNCHANGED <<env, ver, stamp, cb, known, client>>,
         upd' \in Update, UpdateOK', ~upd.handled, ~upd'.handled,
         Orderly /\ Coherent => \A x \in Workers : wk[x].pc = "piggy" => upd'.file \notin wk[x].ok
  PROVE  IInv'
  <1>1. Basics
    BY DEF IInv
  <1>2. /\ env' = env /\ ver' = ver /\ stamp' = stamp /\ cb' = cb /\ known' = known
        /\ obj' = obj /\ VCBStatus' = VCBStatus /\ VVV' = VVV /\ wk' = wk
        /\ demotion_pending' = demotion_pending /\ connid' = connid /\ reachable' = reachable
    BY DEF client, volume
  <1>a. /\ known' <=> known
        /\ demotion_pending' <=> demotion_pending
        /\ reachable' <=> reachable
    BY SMTT(60), <1>2
  <1>3. TypeOK' /\ Bounded' /\ Stable'
    <2>1. TypeOK'
      BY <1>1, <1>2 DEF Basics, TypeOK
    <2>2. Bounded'
      BY <1>1, <1>2 DEF Basics, Bounded
    <2>3. Stable'
      BY <1>1, <1>2, <1>a DEF Basics, Stable
    <2> QED
      BY <2>1, <2>2, <2>3
  <1>4. Locks' /\ ("vcb" \notin env' => ~VCBStatus')
    BY <1>1, <1>2 DEF Basics, Locks
  <1>5. \A x \in Workers : WellFormed(wk[x])' /\ CallOK(wk[x])' /\ Packed(wk[x])'
    <2> SUFFICES ASSUME NEW x \in Workers
                 PROVE  WellFormed(wk[x])' /\ CallOK(wk[x])' /\ Packed(wk[x])'
      OBVIOUS
    <2>1. WellFormed(wk[x]) /\ CallOK(wk[x]) /\ Packed(wk[x])
      BY <1>1 DEF Basics
    <2>2. CallOK(wk[x])'
      BY <1>2, <1>a, <2>1 DEF CallOK
    <2>3. Packed(wk[x])'
      BY <1>2, <2>1 DEF Packed
    <2> QED
      BY <1>2, <2>1, <2>2, <2>3
  <1>6. \A f \in Files : ObjectOK(f)'
    BY <1>1, <1>2 DEF Basics, ObjectOK
  <1>7. Basics'
    BY <1>3, <1>4, <1>5, <1>6 DEF Basics
  <1>8. ASSUME Orderly
        PROVE  Coherent'
    <2>1. Coherent
      BY <1>8 DEF IInv
    <2>2. \A f : ~Handled(f) /\ ~Handled(f)'
      BY DEF Handled
    <2>3. \A f \in Files : Rights(f)'
      <3> SUFFICES ASSUME NEW f \in Files
                   PROVE  Rights(f)'
        OBVIOUS
      <3>1. Rights(f) /\ ~Handled(f)'
        BY <2>1, <2>2 DEF Coherent
      <3> QED
        BY <1>2, <1>a, <3>1 DEF Rights
    <2>4. \A f : /\ Current(f)' <=> Current(f)
                 /\ Safe(f) => Safe(f)'
      BY <1>2, <2>2 DEF Current, InUse, Safe
    <2>5. \A x \in Workers : Answers(wk[x])'
      <3> SUFFICES ASSUME NEW x \in Workers
                   PROVE  Answers(wk[x])'
        OBVIOUS
      <3>1. Answers(wk[x]) /\ ~Handled(wk[x].file)' /\ wk'[x] = wk[x]
        BY <1>2, <2>1 DEF Coherent, Handled
      <3> QED
        BY <1>2, <1>a, <3>1 DEF Answers, Believed
    <2>6. \A x \in Workers : Piggies(wk[x])'
      <3> SUFFICES ASSUME NEW x \in Workers, NEW g \in wk[x].ok
                   PROVE  /\ wk[x].pc = "piggy" => upd'.file # g
                          /\ known => g \in cb /\ ~Handled(g)' /\ Current(g)'
        BY <1>2, <1>a DEF Piggies
      <3>1. Piggies(wk[x]) /\ (wk[x].pc = "piggy" => upd'.file \notin wk[x].ok)
        BY <1>8, <2>1 DEF Coherent
      <3> QED
        BY <2>2, <2>4, <3>1 DEF Piggies
    <2>7. Silent' /\ Refused'
      BY <1>2, <2>1 DEF Coherent, Silent, Refused
    <2>8. ASSUME "vcb" \in env
          PROVE  VolumeOK'
      <3>1. VolumeOK
        BY <2>1, <2>8 DEF Coherent
      <3>2. (Holding' <=> Holding) /\ (Backed' <=> Backed)
        BY <1>2 DEF Holding, Backed
      <3>3. \A x \in Workers : VolumeAnswer(wk[x])' /\ Collected(wk[x])'
        BY <1>2, <2>4, <3>1 DEF VolumeOK, VolumeAnswer, Collected
      <3> QED
        BY <1>2, <2>4, <3>1, <3>2, <3>3 DEF VolumeOK
    <2> QED
      BY <1>2, <2>3, <2>5, <2>6, <2>7, <2>8 DEF Coherent
  <1> QED
    BY <1>2, <1>7, <1>8 DEF IInv, Orderly

\* BeginUpdate keeps the invariant.
LEMMA BeginUpdateStep ==
  ASSUME IInv, NEW f \in Files, BeginUpdate(f)
  PROVE  IInv'
  <1>1. /\ upd.pc = "idle" /\ stamp < Updates /\ ~ReadLocked(f)
        /\ upd' = [NoUpdate EXCEPT !.pc = "locked", !.file = f]
        /\ UNCHANGED <<env, ver, stamp, cb, known, client>>
    BY DEF BeginUpdate
  <1>2. Basics /\ UpdateOK
    BY DEF IInv, Basics
  <1>3. ~upd.handled
    BY <1>1, <1>2 DEF UpdateOK
  <1>4. /\ upd' \in Update /\ upd'.pc = "locked" /\ upd'.file = f /\ upd'.handled = FALSE
    BY <1>1 DEF NoUpdate, Update
  <1>5. UpdateOK'
    BY <1>1, <1>4 DEF UpdateOK, Updates
  <1>6. \A x \in Workers : wk[x].pc = "piggy" => upd'.file \notin wk[x].ok
    BY <1>1, <1>4 DEF ReadLocked
  <1> QED
    BY <1>1, <1>3, <1>4, <1>5, <1>6, UpdateMoves

\* What an update does to the versions.
LEMMA NewVersion ==
  ASSUME Basics, upd.pc # "idle", NewCOP1Update
  PROVE  /\ upd.file \in Files /\ upd' = NoUpdate /\ NoUpdate \in Update
         /\ ver' \in [Files -> Versions] /\ stamp' \in Versions
         /\ stamp < stamp' /\ stamp <= stamp' /\ stamp' # 0 /\ ver[upd.file] < ver'[upd.file]
         /\ \A f \in Files : ver[f] <= ver'[f] /\ ver'[f] <= stamp'
         /\ \A f \in Files \ {upd.file} : ver'[f] = ver[f]
  <1>1. /\ ver' = [ver EXCEPT ![upd.file] = @ + 1] /\ stamp' = stamp + 1 /\ upd' = NoUpdate
    BY DEF NewCOP1Update
  <1>2. /\ upd.file \in Files /\ stamp < Updates /\ ver \in [Files -> Versions] /\ stamp \in Versions
        /\ \A f \in Files : ver[f] <= stamp
    BY DEF Basics, TypeOK, UpdateOK, Bounded
  <1>3. MaxUpdates \in Nat /\ Updates \in Nat /\ Updates <= MaxUpdates
    BY SMTT(60), CoherenceAssumption DEF Updates
  <1>4. stamp \in Nat /\ stamp' \in Versions /\ stamp < stamp' /\ stamp <= stamp' /\ stamp' # 0
    BY SMTT(60), <1>1, <1>2, <1>3 DEF Versions
  <1>5. ASSUME NEW f \in Files
        PROVE  /\ ver'[f] \in Versions /\ ver[f] <= ver'[f] /\ ver'[f] <= stamp'
               /\ f # upd.file => ver'[f] = ver[f]
               /\ f = upd.file => ver[f] < ver'[f]
    <2>1. ver[f] \in Nat /\ ver[f] <= stamp
      BY <1>2, Constants
    <2>2. CASE f = upd.file
      <3>1. ver'[f] = ver[f] + 1
        BY <1>1, <1>2, <2>2
      <3> QED
        BY SMTT(60), <1>1, <1>2, <1>3, <1>4, <2>1, <2>2, <3>1 DEF Versions
    <2>3. CASE f # upd.file
      <3>1. ver'[f] = ver[f]
        BY <1>1, <1>2, <2>3
      <3> QED
        BY SMTT(60), <1>1, <1>2, <1>4, <2>1, <2>3, <3>1
    <2> QED
      BY <2>2, <2>3
  <1>6. ver' \in [Files -> Versions]
    <2>1. ver' = [f \in Files |-> ver'[f]]
      BY <1>1, <1>2
    <2> QED
      BY <1>5, <2>1
  <1>7. NoUpdate \in Update
    BY DEF NoUpdate, Update
  <1> QED
    BY <1>1, <1>2, <1>4, <1>5, <1>6, <1>7

\* The server between two updates.
LEMMA NoUpdateFacts ==
  NoUpdate.pc = "idle" /\ NoUpdate.file = NONE /\ NoUpdate.handled = FALSE
  BY DEF NoUpdate

\* The update takes effect once the client has no callback for it, or has had
\* the break.
LEMMA UpdateEnds ==
  ASSUME IInv, upd.pc # "idle", NewCOP1Update, UNCHANGED <<env, known, client>>,
         cb' \subseteq cb, \A f \in Files \ {upd.file} : f \in cb => f \in cb',
         upd.handled \/ (upd.file \notin cb /\ VOL \notin cb)
  PROVE  IInv'
  <1> DEFINE F == upd.file
  <1>1. Basics
    BY DEF IInv
  <1>2. /\ env' = env /\ known' = known
        /\ obj' = obj /\ VCBStatus' = VCBStatus /\ VVV' = VVV /\ wk' = wk
        /\ demotion_pending' = demotion_pending /\ connid' = connid /\ reachable' = reachable
    BY DEF client, volume
  <1>3. /\ known' <=> known
        /\ demotion_pending' <=> demotion_pending
        /\ reachable' <=> reachable
    BY SMTT(60), <1>2
  <1>4. /\ F \in Files /\ upd' = NoUpdate /\ NoUpdate \in Update
        /\ ver' \in [Files -> Versions] /\ stamp' \in Versions
        /\ stamp < stamp' /\ stamp <= stamp' /\ stamp' # 0 /\ ver[F] < ver'[F]
        /\ \A f \in Files : ver[f] <= ver'[f] /\ ver'[f] <= stamp'
        /\ \A f \in Files \ {F} : ver'[f] = ver[f]
    BY <1>1, NewVersion
  <1> HIDE DEF F
  <1>5. upd'.pc = "idle" /\ upd'.file = NONE /\ ~upd'.handled
    BY <1>4, NoUpdateFacts
  <1>6. ServerStep
    <2>1. TypeOK'
      BY <1>1, <1>2, <1>4 DEF Basics, TypeOK
    <2>2. UpdateOK'
      BY <1>5 DEF UpdateOK
    <2>3. Bounded'
      <3>1. VVV # NONE => VVV <= stamp'
        <4>1. VVV \in Versions \cup {NONE} /\ stamp \in Nat /\ stamp' \in Nat /\ Versions \subseteq Nat
              /\ (VVV # NONE => VVV <= stamp)
          BY <1>1, <1>4, Constants DEF Basics, TypeOK, Bounded
        <4>2. ASSUME NEW v \in Nat, v <= stamp
              PROVE  v <= stamp'
          BY SMTT(60), <1>4, <4>1, <4>2
        <4> QED
          BY <4>1, <4>2
      <3> QED
        BY <1>2, <1>4, <3>1 DEF Bounded
    <2>4. Stable'
      BY <1>1, <1>2, <1>3 DEF Basics, Stable
    <2>5. \A f \in Files : SameObject(obj[f], obj'[f])
      <3> SUFFICES ASSUME NEW f \in Files
                   PROVE  SameObject(obj[f], obj[f])
        BY <1>2
      <3> QED
        BY <1>1, ObjectType DEF SameObject
    <2>6. \A x \in Workers : SameCall(wk[x], wk'[x])
      <3> SUFFICES ASSUME NEW x \in Workers
                   PROVE  SameCall(wk[x], wk[x])
        BY <1>2
      <3> QED
        BY <1>1, WorkerType DEF SameCall
    <2>7. \A x \in Workers : /\ wk'[x].bound \/ wk'[x].vbound => known'
                             /\ wk'[x].bound = wk[x].bound /\ wk'[x].vbound = wk[x].vbound
      BY <1>1, <1>2, <1>3, WorkerType DEF CallOK
    <2> QED
      BY <1>2, <1>4, <2>1, <2>2, <2>3, <2>4, <2>5, <2>6, <2>7 DEF ServerStep
  <1>7. Basics'
    BY <1>1, <1>6, ServerBasics
  <1>8. ASSUME Orderly
        PROVE  Coherent'
    <2>1. Coherent
      BY <1>8 DEF IInv
    <2>2. \A f : ~Handled(f)'
      BY <1>5 DEF Handled
    <2>3. F \in cb => Handled(F)
      BY DEF Handled, F
    <2>4. \A f \in Files \ {F} : f \in cb => f \in cb'
      BY DEF F
    <2>5. \A f \in Files : Rights(f)'
      <3> SUFFICES ASSUME NEW f \in Files, obj[f].rc # {}, known, connid = "up", ~demotion_pending
                   PROVE  f \in cb' /\ obj[f].vv = ver'[f]
        BY <1>2, <1>3, <2>2 DEF Rights
      <3>1. f \in cb /\ obj[f].vv = ver[f] /\ ~Handled(f)
        BY <2>1 DEF Coherent, Rights
      <3>2. f # F
        BY <2>3, <3>1
      <3> QED
        BY <1>4, <2>4, <3>1, <3>2
    <2>6. ASSUME NEW x \in Workers
          PROVE  Answers(wk[x])'
      <3> SUFFICES ASSUME Answered(wk[x]), known
                   PROVE  /\ wk[x].vv = ver'[wk[x].file] => wk[x].file \in cb'
                          /\ Believed(wk[x]) => wk[x].vv = ver'[wk[x].file]
        BY <1>2, <1>3, <2>2 DEF Answers, Believed
      <3>1. PICK f \in Files : f = wk[x].file
        BY <1>1, WorkerType DEF Answered, WellFormed
      <3>2. /\ wk[x].vv = ver[f] => f \in cb
            /\ Believed(wk[x]) => wk[x].vv = ver[f] /\ ~Handled(f)
        BY <2>1, <3>1 DEF Coherent, Answers
      <3>3. CASE f = F
        <4>1. wk[x].vv <= ver[F]
          BY <1>1, <3>1, <3>3, WorkerType DEF CallOK
        <4>2. ver[F] \in Nat /\ ver'[F] \in Nat /\ wk[x].vv \in Nat
          <5>1. wk[x].vv \in Versions
            BY <1>1, WorkerType DEF Answered, Worker
          <5> QED
            BY <1>1, <1>4, <5>1, Constants DEF Basics, TypeOK
        <4>3. wk[x].vv # ver'[F]
          <5>1. ASSUME NEW v \in Nat, v <= ver[F]
                PROVE  v # ver'[F]
            BY SMTT(60), <1>4, <4>2, <5>1
          <5> QED
            BY <4>1, <4>2, <5>1
        <4> QED
          BY <2>3, <3>1, <3>2, <3>3, <4>3
      <3>4. CASE f # F
        BY <1>4, <2>4, <3>1, <3>2, <3>4
      <3> QED
        BY <3>3, <3>4
    <2>7. \A x \in Workers : Piggies(wk[x])'
      <3> SUFFICES ASSUME NEW x \in Workers, NEW g \in wk[x].ok
                   PROVE  upd'.file # g /\ (known => g \in cb' /\ Current(g)')
        BY <1>2, <1>3, <2>2 DEF Piggies
      <3>a. wk[x].ok \in SUBSET Files
        BY <1>1, WorkerType DEF Worker
      <3>1. Piggies(wk[x]) /\ g \in Files /\ upd'.file # g
        BY <1>5, <2>1, <3>a, Constants DEF Coherent
      <3>2. known => g \in cb /\ ~Handled(g) /\ Current(g)
        BY <3>1 DEF Piggies
      <3>3. known => g # F
        BY <2>3, <3>2
      <3> QED
        BY <1>1, <1>4, <1>6, <2>4, <3>1, <3>2, <3>3, ServerCurrent
    <2>8. Silent' /\ Refused'
      BY <1>2, <1>3, <2>1 DEF Coherent, Silent, Refused
    <2>9. ASSUME "vcb" \in env
          PROVE  VolumeOK'
      <3>1. VolumeOK
        BY <2>1, <2>9 DEF Coherent
      <3>2. ~VCBStatus /\ ~(VOL \in cb /\ ~upd.handled)
        BY <3>1 DEF VolumeOK
      <3>3. ~Holding'
        <4>1. stamp \in Nat /\ stamp' \in Nat /\ Versions \subseteq Nat /\ NONE \notin Versions
          BY <1>1, <1>4, Constants DEF Basics, TypeOK
        <4>2. VVV # stamp'
          <5>1. VVV \in Nat \cup {NONE} /\ (VVV # NONE => VVV <= stamp)
            BY <1>1, <4>1 DEF Basics, TypeOK, Bounded
          <5>2. ASSUME NEW v \in Nat, v <= stamp
                PROVE  v # stamp'
            BY SMTT(60), <1>4, <4>1, <5>2
          <5> QED
            BY <1>4, <4>1, <5>1, <5>2
        <4>3. ASSUME NEW x \in Workers, wk[x].op = "vols"
              PROVE  wk[x].vv # stamp'
          <5>1. wk[x].vv \in Versions \cup {NONE} /\ (wk[x].vv # NONE => wk[x].vv <= stamp)
            BY <1>1, <4>3, WorkerType DEF Worker, CallOK, HasStamp
          <5>2. ASSUME NEW v \in Nat, v <= stamp
                PROVE  v # stamp'
            BY SMTT(60), <1>4, <4>1, <5>2
          <5> QED
            BY <1>4, <4>1, <5>1, <5>2
        <4> QED
          BY <1>2, <3>2, <4>2, <4>3 DEF Holding
      <3>4. \A x \in Workers : VolumeAnswer(wk[x])'
        <4> SUFFICES ASSUME NEW x \in Workers, wk[x].op \in VolOp, wk[x].pc = "reply"
                     PROVE  wk[x].vv = NONE
          BY <1>2, <1>4 DEF VolumeAnswer
        <4>1. VolumeAnswer(wk[x])
          BY <3>1 DEF VolumeOK
        <4> QED
          BY <3>2, <4>1 DEF VolumeAnswer
      <3>5. ASSUME NEW f \in Files, Safe(f)
            PROVE  Safe(f)'
        <4>1. CASE f = F
          <5>1. ~InUse(f)
            BY <2>3, <3>5, <4>1 DEF Safe
          <5> QED
            BY <1>1, <1>6, <5>1, ServerCurrent DEF Safe
        <4>2. CASE f # F
          <5>1. Current(f)' /\ (InUse(f)' => InUse(f))
            BY <1>1, <1>4, <1>6, <3>5, <4>2, ServerCurrent DEF Safe
          <5> QED
            BY <2>2, <2>4, <3>5, <4>2, <5>1 DEF Safe
        <4> QED
          BY <4>1, <4>2
      <3>6. \A x \in Workers : Collected(wk[x])'
        <4> SUFFICES ASSUME NEW x \in Workers, Collecting(wk[x]), ~wk[x].vsusp,
                            NEW f \in Files \ wk[x].fsos
                     PROVE  Safe(f)'
          BY <1>2 DEF Collected
        <4> QED
          BY <3>1, <3>5 DEF VolumeOK, Collected
      <3>7. \A x \in Workers : wk'[x].invs /\ wk'[x].op \in FileOp /\ wk'[x].susp => wk'[x].vsusp
        BY <1>2, <3>1 DEF VolumeOK
      <3> QED
        BY <1>2, <3>2, <3>3, <3>4, <3>6, <3>7 DEF VolumeOK
    <2> QED
      BY <1>2, <2>5, <2>6, <2>7, <2>8, <2>9 DEF Coherent
  <1> QED
    BY <1>2, <1>7, <1>8 DEF IInv, Orderly

\* CodaBreakCallBack keeps the invariant,
LEMMA CodaBreakCallBackStep ==
  ASSUME IInv, CodaBreakCallBack
  PROVE  IInv'
  <1>1. upd.pc = "locked" /\ UNCHANGED <<env, cb, known, client>>
    BY DEF CodaBreakCallBack
  <1>2. Basics /\ UpdateOK /\ upd \in Update
    BY DEF IInv, Basics, TypeOK
  <1>3. upd.file \in Files /\ stamp < Updates /\ ~upd.handled
    BY <1>1, <1>2 DEF UpdateOK
  <1>4. CASE upd.file \in cb \/ VOL \in cb
    <2>1. /\ upd' = [upd EXCEPT !.pc = "wait", !.fid = IF upd.file \in cb THEN upd.file ELSE VOL]
          /\ UNCHANGED <<ver, stamp>>
      BY <1>4 DEF CodaBreakCallBack
    <2>2. PICK k \in Fids \cup {NONE} : k = IF upd.file \in cb THEN upd.file ELSE VOL
      BY <1>3 DEF Fids
    <2>3. /\ upd' \in Update /\ upd'.pc = "wait" /\ upd'.file = upd.file /\ upd'.fid = k
          /\ upd'.handled = upd.handled
      BY <1>2, <2>1, <2>2 DEF Update
    <2>4. UpdateOK'
      <3>1. k \in {upd.file, VOL} /\ k \in cb /\ (k = VOL => upd.file \notin cb)
        BY <1>3, <1>4, <2>2, Constants
      <3>2. stamp' < Updates' /\ cb' = cb
        BY <1>1, <1>3, <2>1 DEF Updates
      <3>3. upd'.pc # "idle" /\ upd'.file \in Files /\ upd'.fid \in {upd'.file, VOL}
            /\ upd'.fid \in cb' /\ (upd'.fid = VOL => upd'.file \notin cb')
        BY <1>3, <2>3, <3>1, <3>2
      <3> QED
        BY <2>3, <3>2, <3>3 DEF UpdateOK
    <2>5. Coherent => \A x \in Workers : wk[x].pc = "piggy" => upd'.file \notin wk[x].ok
      BY <2>3 DEF Coherent, Piggies
    <2>6. UNCHANGED <<env, ver, stamp, cb, known, client>>
      BY <1>1, <2>1
    <2> QED
      BY <1>3, <2>3, <2>4, <2>5, <2>6, UpdateMoves
  <1>5. CASE ~(upd.file \in cb \/ VOL \in cb)
    <2>1. NewCOP1Update
      BY <1>5 DEF CodaBreakCallBack
    <2>2. cb' = cb
      BY <1>1
    <2> QED
      BY <1>1, <1>5, <2>1, <2>2, UpdateEnds
  <1> QED
    BY <1>4, <1>5

\* BreakReply does,
LEMMA BreakReplyStep ==
  ASSUME IInv, BreakReply
  PROVE  IInv'
  <1>1. /\ upd.pc = "wait" /\ upd.handled /\ cb' = cb \ {upd.fid, VOL}
        /\ NewCOP1Update /\ UNCHANGED <<env, known, client>>
    BY DEF BreakReply
  <1>2. upd.fid \in {upd.file, VOL}
    BY <1>1 DEF IInv, Basics, UpdateOK
  <1>3. \A f \in Files \ {upd.file} : f \in cb => f \in cb'
    BY <1>1, <1>2, Constants
  <1>4. cb' \subseteq cb
    BY <1>1
  <1> QED
    BY <1>1, <1>3, <1>4, UpdateEnds

\* and BreakFails.
LEMMA BreakFailsStep ==
  ASSUME IInv, BreakFails
  PROVE  IInv'
  <1>1. /\ upd.pc = "wait" /\ ("fail" \in env \/ connid # "up")
        /\ cb' = {} /\ known' = FALSE
        /\ wk' = [x \in Workers |-> [wk[x] EXCEPT !.bound = FALSE, !.vbound = FALSE]]
        /\ NewCOP1Update
    BY DEF BreakFails
  <1>2. Basics
    BY DEF IInv
  <1>3. "fail" \in env
    BY <1>1, <1>2 DEF Basics, Stable
  <1>4. /\ env' = env /\ obj' = obj /\ VCBStatus' = VCBStatus /\ VVV' = VVV
        /\ demotion_pending' = demotion_pending /\ connid' = connid /\ reachable' = reachable
    BY DEF BreakFails, volume
  <1>5. /\ upd' = NoUpdate /\ NoUpdate \in Update
        /\ ver' \in [Files -> Versions] /\ stamp' \in Versions
        /\ stamp < stamp' /\ stamp <= stamp'
        /\ \A f \in Files : ver[f] <= ver'[f] /\ ver'[f] <= stamp'
    BY <1>1, <1>2, NewVersion
  <1>6. ASSUME NEW x \in Workers
        PROVE  SameCall(wk[x], wk'[x]) /\ wk'[x].bound = FALSE /\ wk'[x].vbound = FALSE
    <2>1. wk[x] \in Worker /\ wk'[x] = [wk[x] EXCEPT !.bound = FALSE, !.vbound = FALSE]
      BY <1>1, <1>2, WorkerType
    <2>2. ASSUME NEW r \in Worker
          PROVE  /\ SameCall(r, [r EXCEPT !.bound = FALSE, !.vbound = FALSE])
                 /\ [r EXCEPT !.bound = FALSE, !.vbound = FALSE].bound = FALSE
                 /\ [r EXCEPT !.bound = FALSE, !.vbound = FALSE].vbound = FALSE
      BY DEF Worker, SameCall
    <2> QED
      BY <2>1, <2>2
  <1>7. ServerStep
    <2>1. wk' \in [Workers -> Worker]
      <3>1. wk' = [x \in Workers |-> wk'[x]] /\ \A x \in Workers : wk'[x] \in Worker
        BY <1>1, <1>6 DEF SameCall
      <3> QED
        BY <3>1
    <2>2. TypeOK'
      BY <1>1, <1>2, <1>4, <1>5, <2>1 DEF Basics, TypeOK
    <2>3. UpdateOK'
      BY <1>5, NoUpdateFacts DEF UpdateOK
    <2>4. Bounded'
      <3>1. VVV # NONE => VVV <= stamp'
        <4>1. VVV \in Versions \cup {NONE} /\ stamp \in Nat /\ stamp' \in Nat /\ Versions \subseteq Nat
              /\ (VVV # NONE => VVV <= stamp)
          BY <1>2, <1>5, Constants DEF Basics, TypeOK, Bounded
        <4>2. ASSUME NEW v \in Nat, v <= stamp
              PROVE  v <= stamp'
          BY SMTT(60), <1>5, <4>1, <4>2
        <4> QED
          BY <4>1, <4>2
      <3> QED
        BY <1>4, <1>5, <3>1 DEF Bounded
    <2>5. Stable'
      BY <1>3, <1>4 DEF Stable
    <2>6. \A f \in Files : SameObject(obj[f], obj'[f])
      <3> SUFFICES ASSUME NEW f \in Files
                   PROVE  SameObject(obj[f], obj[f])
        BY <1>4
      <3> QED
        BY <1>2, ObjectType DEF SameObject
    <2> QED
      BY <1>3, <1>4, <1>5, <1>6, <2>2, <2>3, <2>4, <2>5, <2>6 DEF ServerStep
  <1>8. Basics'
    BY <1>2, <1>7, ServerBasics
  <1>9. ASSUME Orderly
        PROVE  Coherent'
    <2>1. Coherent /\ "vcb" \notin env
      BY <1>3, <1>9 DEF IInv, Orderly
    <2>2. \A f \in Files : Rights(f)'
      BY <1>1 DEF Rights
    <2>3. \A x \in Workers : Answers(wk[x])'
      BY <1>1 DEF Answers
    <2>4. \A x \in Workers : Piggies(wk[x])'
      <3> SUFFICES ASSUME NEW x \in Workers, NEW g \in wk'[x].ok
                   PROVE  upd'.file # g
        BY <1>1 DEF Piggies
      <3>1. wk'[x].ok \in SUBSET Files
        BY <1>6 DEF SameCall, Worker
      <3> QED
        BY <1>5, <3>1, NoUpdateFacts, Constants
    <2>5. Silent'
      BY <1>4, <1>6, <2>1 DEF Coherent, Silent, SameCall
    <2>6. Refused'
      BY <1>4, <2>1 DEF Coherent, Refused
    <2> QED
      BY <1>4, <2>1, <2>2, <2>3, <2>4, <2>5, <2>6 DEF Coherent
  <1> QED
    BY <1>4, <1>8, <1>9 DEF IInv, Orderly

\* VENUS_CallBack keeps the invariant.
LEMMA VENUS_CallBackStep ==
  ASSUME IInv, VENUS_CallBack
  PROVE  IInv'
  <1> DEFINE F == upd.file
             found == upd.fid # VOL /\ HaveStatus(obj[upd.fid])
             counted == found \/ VCBStatus
  <1>1. /\ upd.pc = "wait" /\ ~upd.handled /\ connid = "up"
        /\ "overtake" \in env \/ \A x \in Workers : wk[x].pc # "reply"
        /\ upd' = [upd EXCEPT !.handled = TRUE]
        /\ obj' = IF found THEN [obj EXCEPT ![upd.fid] = Demote(@)] ELSE obj
        /\ VCBStatus' = FALSE
        /\ VVV' = IF VCBStatus THEN NONE ELSE VVV
        /\ wk' = [x \in Workers |->
                    [wk[x] EXCEPT !.susp = wk[x].pc # "out" /\ (@ \/ counted),
                                  !.vsusp = wk[x].pc # "out" /\ (@ \/ counted)]]
    BY DEF VENUS_CallBack
  <1>2. /\ env' = env /\ ver' = ver /\ stamp' = stamp /\ cb' = cb /\ known' = known
        /\ demotion_pending' = demotion_pending /\ connid' = connid /\ reachable' = reachable
    BY DEF VENUS_CallBack
  <1>3. /\ known' <=> known
        /\ demotion_pending' <=> demotion_pending
        /\ reachable' <=> reachable
    BY SMTT(60), <1>2
  <1>4. Basics /\ UpdateOK /\ upd \in Update /\ obj \in [Files -> Object] /\ wk \in [Workers -> Worker]
    BY DEF IInv, Basics, TypeOK
  <1>5. /\ F \in Files /\ upd.fid \in {F, VOL} /\ (F \in cb => upd.fid = F) /\ VOL \notin Files
    BY <1>1, <1>4, Constants DEF UpdateOK
  <1>6. upd' \in Update /\ upd'.pc = "wait" /\ upd'.file = F /\ upd'.fid = upd.fid /\ upd'.handled = TRUE
    BY <1>1, <1>4 DEF Update
  <1>7. ASSUME NEW f \in Files
        PROVE  /\ SameObject(obj[f], obj'[f])
               /\ f # F => obj'[f] = obj[f]
               /\ f = upd.fid => obj'[f].rc = {}
               /\ f # upd.fid => obj'[f] = obj[f]
    <2>1. obj[f] \in Object /\ ObjectOK(f) /\ SameObject(obj[f], obj[f])
      BY <1>4, ObjectType DEF SameObject
    <2>2. CASE found /\ f = upd.fid
      <3>1. obj'[f] = Demote(obj[f]) /\ HaveStatus(obj[f])
        BY <1>1, <1>4, <2>2
      <3>2. /\ Demote(obj[f]) \in Object
            /\ Demote(obj[f]).state = obj[f].state /\ Demote(obj[f]).vv = obj[f].vv
            /\ Demote(obj[f]).data = obj[f].data /\ Demote(obj[f]).full = obj[f].full
            /\ Demote(obj[f]).openers = obj[f].openers /\ Demote(obj[f]).lock = obj[f].lock
            /\ Demote(obj[f]).rc = {}
        BY <2>1, <3>1, DemoteFacts
      <3>3. f = F
        BY <1>5, <2>2
      <3> QED
        BY <2>2, <3>1, <3>2, <3>3 DEF SameObject
    <2>3. CASE ~(found /\ f = upd.fid)
      <3>1. obj'[f] = obj[f]
        BY <1>1, <1>4, <2>3
      <3>2. f = upd.fid => obj[f].rc = {}
        BY <1>5, <2>1, <2>3 DEF ObjectOK
      <3> QED
        BY <2>1, <3>1, <3>2
    <2> QED
      BY <2>2, <2>3
  <1>8. counted \in BOOLEAN
    BY <1>4 DEF HaveStatus, Basics, TypeOK
  <1> HIDE DEF counted, F
  <1>9. ASSUME NEW x \in Workers
        PROVE  /\ SameCall(wk[x], wk'[x]) /\ wk'[x].bound = wk[x].bound /\ wk'[x].vbound = wk[x].vbound
               /\ wk[x].pc # "out" => /\ wk'[x].susp <=> wk[x].susp \/ counted
                                      /\ wk'[x].vsusp <=> wk[x].vsusp \/ counted
    <2>1. wk[x] \in Worker /\ wk[x].susp \in BOOLEAN /\ wk[x].vsusp \in BOOLEAN
      BY <1>4 DEF Worker
    <2>2. PICK a \in BOOLEAN : a = (wk[x].pc # "out" /\ (wk[x].susp \/ counted))
      OBVIOUS
    <2>3. PICK b \in BOOLEAN : b = (wk[x].pc # "out" /\ (wk[x].vsusp \/ counted))
      OBVIOUS
    <2>4. wk'[x] = [wk[x] EXCEPT !.susp = a, !.vsusp = b]
      BY <1>1, <2>2, <2>3
    <2>5. ASSUME NEW r \in Worker
          PROVE  /\ SameCall(r, [r EXCEPT !.susp = a, !.vsusp = b])
                 /\ [r EXCEPT !.susp = a, !.vsusp = b].bound = r.bound
                 /\ [r EXCEPT !.susp = a, !.vsusp = b].vbound = r.vbound
                 /\ [r EXCEPT !.susp = a, !.vsusp = b].susp = a
                 /\ [r EXCEPT !.susp = a, !.vsusp = b].vsusp = b
      <3>1. SameCall(r, [r EXCEPT !.susp = a, !.vsusp = b])
        <4>1. [r EXCEPT !.susp = a, !.vsusp = b] \in Worker
          BY DEF Worker
        <4> QED
          BY <4>1 DEF Worker, SameCall
      <3>2. /\ [r EXCEPT !.susp = a, !.vsusp = b].bound = r.bound
            /\ [r EXCEPT !.susp = a, !.vsusp = b].vbound = r.vbound
        BY DEF Worker
      <3>3. /\ [r EXCEPT !.susp = a, !.vsusp = b].susp = a
            /\ [r EXCEPT !.susp = a, !.vsusp = b].vsusp = b
        BY DEF Worker
      <3> QED
        BY <3>1, <3>2, <3>3
    <2>6. /\ SameCall(wk[x], wk'[x]) /\ wk'[x].bound = wk[x].bound /\ wk'[x].vbound = wk[x].vbound
          /\ wk'[x].susp = a /\ wk'[x].vsusp = b
      BY <2>1, <2>4, <2>5
    <2> QED
      BY <2>2, <2>3, <2>6
  <1>10. ServerStep
    <2>1. wk' \in [Workers -> Worker]
      <3>1. wk' = [x \in Workers |-> wk'[x]] /\ \A x \in Workers : wk'[x] \in Worker
        BY <1>1, <1>9 DEF SameCall
      <3> QED
        BY <3>1
    <2>2. obj' \in [Files -> Object]
      <3>1. obj' = [f \in Files |-> obj'[f]] /\ \A f \in Files : obj'[f] \in Object
        BY <1>1, <1>4, <1>7 DEF SameObject
      <3> QED
        BY <3>1
    <2>3. VVV' \in Versions \cup {NONE} /\ (VVV' # NONE => VVV' = VVV) /\ VCBStatus' \in BOOLEAN
      BY <1>1, <1>4 DEF Basics, TypeOK
    <2>4. TypeOK'
      BY <1>2, <1>4, <1>6, <2>1, <2>2, <2>3 DEF Basics, TypeOK
    <2>5. UpdateOK'
      <3>1. stamp' < Updates'
        BY <1>1, <1>2, <1>4 DEF UpdateOK, Updates
      <3>2. upd.fid \in cb /\ (upd.fid = VOL => F \notin cb)
        BY <1>1, <1>4 DEF UpdateOK, F
      <3> QED
        BY <1>2, <1>5, <1>6, <3>1, <3>2 DEF UpdateOK
    <2>6. Bounded'
      BY <1>2, <1>4, <2>3 DEF Basics, Bounded
    <2>7. Stable'
      BY <1>2, <1>3, <1>4 DEF Basics, Stable
    <2>8. ASSUME NEW x \in Workers
          PROVE  wk'[x].bound \/ wk'[x].vbound => known'
      BY <1>3, <1>4, <1>9, WorkerType DEF CallOK
    <2>9. stamp <= stamp' /\ \A f \in Files : ver[f] <= ver'[f]
      <3>1. stamp \in Nat /\ \A f \in Files : ver[f] \in Nat
        BY <1>4, Constants DEF Basics, TypeOK
      <3>2. \A n \in Nat : n <= n
        BY SMTT(60)
      <3> QED
        BY <1>2, <3>1, <3>2
    <2> QED
      BY <1>1, <1>2, <1>7, <1>9, <2>4, <2>5, <2>6, <2>7, <2>8, <2>9 DEF ServerStep
  <1>11. Basics'
    BY <1>4, <1>10, ServerBasics
  <1>12. \A f : Handled(f)' <=> f = F
    BY <1>6 DEF Handled
  \* An answer about the file makes the break count.
  <1>13. ASSUME Orderly, NEW x \in Workers, Answered(wk[x]), wk[x].file = F, F \in cb
         PROVE  counted /\ wk[x].pc # "out" /\ env \cap {"overtake", "piggy"} # {}
                /\ ("overtake" \notin env => HaveStatus(obj[F]))
    <2>1. upd.fid = F /\ upd.fid # VOL /\ wk[x].pc # "out"
      BY <1>5, <1>13 DEF Answered
    <2>2. HaveStatus(obj[F]) /\ env \cap {"overtake", "piggy"} # {}
      <3>1. CASE "overtake" \in env
        <4>1. env \cap {"flush", "piggy"} = {}
          BY <1>13, <3>1 DEF Orderly
        <4> QED
          BY <1>4, <1>5, <3>1, <4>1, ObjectType DEF ObjectOK
      <3>2. CASE "overtake" \notin env
        <4>1. wk[x].pc = "piggy"
          BY <1>1, <1>13, <3>2 DEF Answered
        <4>2. wk[x].piggy # {} /\ WellFormed(wk[x]) /\ CallOK(wk[x])
          BY <1>4, <4>1, WorkerType DEF WellFormed
        <4> QED
          BY <1>13, <4>2 DEF CallOK
      <3> QED
        BY <3>1, <3>2
    <2>3. found
      BY <2>1, <2>2
    <2> QED
      BY <2>1, <2>2, <2>3 DEF counted
  <1>14. ASSUME Orderly
         PROVE  Coherent'
    <2>1. Coherent
      BY <1>14 DEF IInv
    <2>2. \A f \in Files : Rights(f)'
      <3> SUFFICES ASSUME NEW f \in Files, obj'[f].rc # {}, known, connid = "up", ~demotion_pending
                   PROVE  f \in cb /\ obj'[f].vv = ver[f] /\ f # F
        BY <1>2, <1>3, <1>12 DEF Rights
      <3>1. f # upd.fid /\ obj'[f] = obj[f]
        BY <1>7
      <3>2. f \in cb /\ obj[f].vv = ver[f]
        BY <2>1, <3>1 DEF Coherent, Rights
      <3> QED
        BY <1>5, <3>1, <3>2
    <2>3. ASSUME NEW x \in Workers
          PROVE  Answers(wk[x])'
      <3>1. /\ SameCall(wk[x], wk'[x]) /\ (Answered(wk'[x]) <=> Answered(wk[x]))
            /\ Answered(wk[x]) => wk[x].file \in Files /\ wk[x].vv \in Versions
        BY <1>4, <1>10, ServerCalls
      <3>2. wk'[x].file = wk[x].file /\ wk'[x].vv = wk[x].vv /\ wk'[x].pc = wk[x].pc
        BY <3>1 DEF SameCall
      <3> SUFFICES ASSUME Answered(wk[x]), known
                   PROVE  /\ wk[x].vv = ver[wk[x].file] => wk[x].file \in cb
                          /\ Believed(wk[x])' => wk[x].vv = ver[wk[x].file] /\ wk[x].file # F
        BY <1>2, <1>3, <1>12, <3>1, <3>2 DEF Answers
      <3>3. Answers(wk[x])
        BY <2>1 DEF Coherent
      <3>4. wk[x].vv = ver[wk[x].file] => wk[x].file \in cb
        BY <3>3 DEF Answers
      <3>5. wk[x].pc # "out"
        BY DEF Answered
      <3>6. Believed(wk[x])' => Believed(wk[x])
        BY <1>2, <1>9, <3>5 DEF Believed
      <3>7. Believed(wk[x])' => wk[x].vv = ver[wk[x].file]
        BY <3>3, <3>6 DEF Answers
      <3>8. ASSUME Believed(wk[x])', wk[x].file = F
            PROVE  FALSE
        <4>1. F \in cb
          BY <3>4, <3>7, <3>8
        <4>2. counted /\ env \cap {"overtake", "piggy"} # {}
          BY <1>13, <1>14, <3>8, <4>1
        <4>3. wk'[x].susp
          BY <1>9, <3>5, <4>2
        <4> QED
          BY <1>2, <3>8, <4>2, <4>3 DEF Believed
      <3> QED
        BY <3>4, <3>7, <3>8
    <2>4. \A x \in Workers : Piggies(wk[x])'
      <3> SUFFICES ASSUME NEW x \in Workers, NEW g \in wk'[x].ok
                   PROVE  /\ wk'[x].pc = "piggy" => F # g
                          /\ known => g \in cb /\ g # F /\ Current(g)'
        BY <1>2, <1>3, <1>6, <1>12 DEF Piggies
      <3>1. wk'[x].ok = wk[x].ok /\ wk'[x].pc = wk[x].pc /\ wk[x].ok \in SUBSET Files
        BY <1>4, <1>9 DEF SameCall, Worker
      <3>2. Piggies(wk[x]) /\ g \in wk[x].ok /\ g \in Files /\ upd.file = F
        BY <2>1, <3>1 DEF Coherent, F
      <3>3. wk[x].pc = "piggy"
        <4>1. WellFormed(wk[x]) /\ CallOK(wk[x]) /\ wk[x].ok \cup wk[x].bad # {}
          BY <1>4, <3>2, WorkerType
        <4>2. wk[x].pc \in {"piggy", "reply"} /\ "piggy" \in env
          BY <4>1 DEF WellFormed, CallOK
        <4>3. "overtake" \notin env
          BY <1>14, <4>2 DEF Orderly
        <4> QED
          BY <1>1, <4>2, <4>3
      <3>4. F # g /\ (known => g \in cb /\ Current(g))
        BY <3>2, <3>3 DEF Piggies
      <3>5. Current(g) => Current(g)'
        BY <1>2, <1>4, <1>10, <3>2, ServerCurrent
      <3> QED
        BY <3>4, <3>5
    <2>5. Silent' /\ Refused'
      BY <1>1, <1>2 DEF Silent, Refused
    <2>6. ASSUME "vcb" \in env
          PROVE  VolumeOK'
      <3>1. VolumeOK /\ "overtake" \notin env
        BY <1>14, <2>1, <2>6 DEF Coherent, Orderly
      <3>2. \A x \in Workers : wk[x].pc # "reply"
        BY <1>1, <3>1
      <3>3. Holding' => Holding
        <4>1. stamp # NONE
          BY <1>4, Constants DEF Basics, TypeOK
        <4>2. VVV' = stamp => VVV = stamp
          BY <1>1, <4>1
        <4>3. \A x \in Workers : wk'[x].op = wk[x].op /\ wk'[x].vv = wk[x].vv
          BY <1>9 DEF SameCall
        <4> QED
          BY <1>1, <1>2, <4>2, <4>3 DEF Holding
      <3>4. Holding' => \A f \in Files : Current(f)'
        BY <1>2, <1>4, <1>10, <3>1, <3>3, ServerCurrent DEF VolumeOK
      <3>5. \A x \in Workers : VolumeAnswer(wk[x])'
        BY <1>9, <3>2 DEF VolumeAnswer, SameCall
      <3>6. ASSUME NEW x \in Workers
            PROVE  Collected(wk[x])'
        <4>1. /\ SameCall(wk[x], wk'[x]) /\ (Collecting(wk'[x]) <=> Collecting(wk[x]))
              /\ WellFormed(wk[x])
          BY <1>4, <1>10, ServerCalls, WorkerType
        <4> SUFFICES ASSUME Collecting(wk[x]), ~wk'[x].vsusp, NEW f \in Files \ wk[x].fsos
                     PROVE  Safe(f)'
          BY <4>1 DEF Collected, SameCall
        <4>2. wk[x].pc # "out"
          BY <4>1 DEF Collecting, WellFormed, FileOp, VolOp
        <4>3. ~counted /\ ~wk[x].vsusp
          BY <1>9, <4>2
        <4>4. Safe(f)
          BY <3>1, <4>3 DEF VolumeOK, Collected
        <4>5. Current(f)' /\ (InUse(f)' => InUse(f))
          BY <1>2, <1>4, <1>10, <4>4, ServerCurrent DEF Safe
        <4>6. ASSUME InUse(f), f = F
              PROVE  FALSE
          <5>1. F \in cb /\ upd.fid = F /\ upd.fid # VOL
            BY <1>5, <4>4, <4>6 DEF Safe
          <5>2. ~HaveStatus(obj[F])
            BY <4>3, <5>1 DEF counted
          <5>3. PICK y \in Workers : Answered(wk[y]) /\ wk[y].file = F
            BY <4>6, <5>2 DEF InUse
          <5> QED
            BY <1>13, <1>14, <3>1, <5>1, <5>2, <5>3
        <4> QED
          BY <1>2, <1>12, <4>4, <4>5, <4>6 DEF Safe
      <3>7. \A x \in Workers : wk'[x].invs /\ wk'[x].op \in FileOp /\ wk'[x].susp => wk'[x].vsusp
        <4> SUFFICES ASSUME NEW x \in Workers, wk'[x].invs, wk'[x].op \in FileOp, wk'[x].susp
                     PROVE  wk'[x].vsusp
          OBVIOUS
        <4>1. wk[x].invs /\ wk[x].op \in FileOp
          BY <1>9 DEF SameCall
        <4>2. wk[x].pc # "out"
          BY <1>4, <4>1, WorkerType DEF WellFormed
        <4>3. wk[x].susp => wk[x].vsusp
          BY <3>1, <4>1 DEF VolumeOK
        <4> QED
          BY <1>9, <4>2, <4>3
      <3> QED
        BY <1>1, <1>6, <3>4, <3>5, <3>6, <3>7 DEF VolumeOK
    <2> QED
      BY <1>2, <2>2, <2>3, <2>4, <2>5, <2>6 DEF Coherent
  <1> QED
    BY <1>2, <1>11, <1>14 DEF IInv, Orderly

------------------------------------------------------------------------------
(* The theorems.                                                           *)

\* The initial state,
LEMMA InitFacts ==
  ASSUME Init
  PROVE  /\ env \in Envs /\ ver \in [Files -> Versions] /\ stamp = 0
         /\ cb = {} /\ known = TRUE /\ upd = NoUpdate
         /\ obj \in [Files -> Object] /\ VCBStatus = FALSE /\ VVV \in {0, NONE}
         /\ demotion_pending = TRUE /\ connid = "up" /\ reachable = TRUE
         /\ wk \in [Workers -> Worker]
         /\ \A x \in Workers : wk[x] = Out
         /\ \A f \in Files : /\ ver[f] = 0 /\ obj[f].state = "normal" /\ obj[f].vv = 0
                             /\ obj[f].data = 0 /\ obj[f].full = TRUE /\ obj[f].rc = {}
                             /\ obj[f].openers = 0 /\ obj[f].lock = NONE
  <1> DEFINE new == [Runt EXCEPT !.state = "normal", !.data = 0, !.full = TRUE]
  <1>1. 0 \in Versions
    BY Constants
  <1>2. /\ new \in Object /\ new.state = "normal" /\ new.vv = 0 /\ new.data = 0 /\ new.full = TRUE
        /\ new.rc = {} /\ new.openers = 0 /\ new.lock = NONE
    BY <1>1, RuntFacts DEF Object
  <1>3. obj = [f \in Files |-> new] /\ ver = [f \in Files |-> 0] /\ wk = [x \in Workers |-> Out]
    BY DEF Init
  <1> HIDE DEF new
  <1> QED
    BY ZenonT(60), <1>1, <1>2, <1>3, OutFacts DEF Init

\* which satisfies the invariant.
LEMMA InitInv ==
  ASSUME Init
  PROVE  IInv
  <1>1. /\ env \in Envs /\ ver \in [Files -> Versions] /\ stamp = 0
        /\ cb = {} /\ known = TRUE /\ upd = NoUpdate
        /\ obj \in [Files -> Object] /\ VCBStatus = FALSE /\ VVV \in {0, NONE}
        /\ demotion_pending = TRUE /\ connid = "up" /\ reachable = TRUE
        /\ wk \in [Workers -> Worker]
        /\ \A x \in Workers : wk[x] = Out
        /\ \A f \in Files : /\ ver[f] = 0 /\ obj[f].state = "normal" /\ obj[f].vv = 0
                            /\ obj[f].data = 0 /\ obj[f].full = TRUE /\ obj[f].rc = {}
                            /\ obj[f].openers = 0 /\ obj[f].lock = NONE
    BY InitFacts
  <1>2. Out.pc = "out" /\ Resting(Out)
    BY OutFacts
  <1>3. 0 \in Versions /\ 0 # NONE /\ NONE \notin Workers
    BY Constants
  <1>4. 0 <= 0 /\ 0 \in Nat
    BY SMTT(60)
  <1>5. NONE \notin FileOp /\ NONE \notin VolOp /\ NONE # "volattr" /\ NONE # "fetch" /\ NONE # "attr"
        /\ NONE # "vols" /\ NONE # "volvs"
    BY Constants DEF FileOp, VolOp
  <1>6. ~Answered(Out) /\ ~HasStamp(Out) /\ ~Collecting(Out) /\ WellFormed(Out)
    <2>1. ~Answered(Out) /\ ~HasStamp(Out) /\ ~Collecting(Out)
      BY <1>2, <1>5 DEF Resting, Answered, HasStamp, Collecting
    <2>2. WellFormed(Out)
      BY <1>2, <1>5 DEF Resting, WellFormed
    <2> QED
      BY <2>1, <2>2
  <1>7. Basics
    <2>1. TypeOK
      <3>1. NoUpdate \in Update
        BY DEF NoUpdate, Update
      <3> QED
        BY <1>1, <1>3, <3>1 DEF TypeOK, Fids
    <2>2. \A x \in Workers : WellFormed(wk[x]) /\ CallOK(wk[x]) /\ Packed(wk[x])
      <3> SUFFICES WellFormed(Out) /\ CallOK(Out) /\ Packed(Out)
        BY <1>1
      <3>1. CallOK(Out)
        BY <1>2, <1>5, <1>6 DEF Resting, CallOK
      <3>2. Packed(Out)
        BY <1>2 DEF Resting, Packed
      <3> QED
        BY <1>6, <3>1, <3>2
    <2>3. \A f \in Files : ObjectOK(f)
      BY <1>1, <1>3, <1>4 DEF ObjectOK, HaveStatus
    <2>4. Locks
      <3> SUFFICES ASSUME NEW x \in Workers, NEW f \in Files
                   PROVE  obj[f].lock # x /\ wk[x].op \notin FileOp
        BY DEF Locks
      <3> QED
        BY <1>1, <1>2, <1>3, <1>5 DEF Resting
    <2>5. UpdateOK
      BY <1>1, NoUpdateFacts DEF UpdateOK
    <2>6. Bounded
      BY <1>1, <1>3, <1>4 DEF Bounded
    <2>7. Stable
      BY <1>1 DEF Stable
    <2> QED
      BY <1>1, <2>1, <2>2, <2>3, <2>4, <2>5, <2>6, <2>7 DEF Basics
  <1>8. Coherent
    <2>1. \A f \in Files : Rights(f) /\ Current(f)
      BY <1>1, <1>6 DEF Rights, Current
    <2>2. \A x \in Workers : Answers(wk[x]) /\ Piggies(wk[x])
      BY <1>1, <1>2, <1>6 DEF Answers, Piggies, Resting
    <2>3. Silent /\ Refused
      BY <1>1 DEF Silent, Refused
    <2>4. VolumeOK
      <3>1. Holding => VVV = 0
        BY <1>1, <1>2, <1>5 DEF Holding, Resting
      <3>2. \A x \in Workers : VolumeAnswer(wk[x]) /\ Collected(wk[x]) /\ ~Collecting(wk[x]) /\ ~wk[x].invs
        BY <1>1, <1>2, <1>6 DEF VolumeAnswer, Collected, Resting
      <3> QED
        BY <1>1, <2>1, <3>1, <3>2 DEF VolumeOK
    <2> QED
      BY <2>1, <2>2, <2>3, <2>4 DEF Coherent
  <1> QED
    BY <1>7, <1>8 DEF IInv

\* Nothing changes.
LEMMA Stutters ==
  ASSUME IInv, UNCHANGED vars
  PROVE  IInv'
  <1>1. Basics /\ upd \in Update /\ UpdateOK
    BY DEF IInv, Basics, TypeOK
  <1>2. UNCHANGED <<env, ver, stamp, cb, known, client>> /\ upd' = upd /\ obj' = obj /\ wk' = wk
    BY DEF vars, server, client
  <1>3. RestStep
    <2>1. UNCHANGED <<env, ver, stamp, cb, known, upd>> /\ UNCHANGED volume
      BY DEF vars, server, client
    <2> QED
      BY <1>1, <2>1, QuietRest
  <1>4. PICK x : x = NONE
    OBVIOUS
  <1>5. ObjStep(x)
    BY <1>1, <1>2, SameObjects
  <1>6. WorkStep(x) /\ x \notin Workers
    BY <1>1, <1>2, <1>4, Constants DEF WorkStep, Basics, TypeOK
  <1>7. ASSUME Coherent
        PROVE  (\A f \in Files : Rights(f)') /\ Silent' /\ Refused' /\ ("vcb" \in env => VolumeStep(x))
    <2>1. /\ env' = env /\ ver' = ver /\ stamp' = stamp /\ cb' = cb /\ known' = known /\ upd' = upd
          /\ VCBStatus' = VCBStatus /\ VVV' = VVV /\ connid' = connid
          /\ demotion_pending' = demotion_pending
      BY DEF vars, server, client, volume
    <2>2. (known' <=> known) /\ (demotion_pending' <=> demotion_pending) /\ (VCBStatus' <=> VCBStatus)
      BY SMTT(60), <2>1
    <2>3. \A f \in Files : Rights(f)'
      BY <1>2, <1>7, <2>1, <2>2 DEF Coherent, Rights, Handled
    <2>4. Silent' /\ Refused'
      BY <1>2, <1>7, <2>1, <2>2 DEF Coherent, Silent, Refused
    <2>5. Holding' => Holding
      BY <1>2, <2>1, <2>2 DEF Holding
    <2>6. "vcb" \in env => VolumeStep(x)
      BY <1>6, <1>7, <2>1, <2>2, <2>5 DEF Coherent, VolumeOK, VolumeStep, HoldStep
    <2> QED
      BY <2>3, <2>4, <2>6
  <1> QED
    BY <1>3, <1>5, <1>6, <1>7, StepKeeps

\* Every step keeps the invariant.
LEMMA NextInv ==
  ASSUME IInv, Next
  PROVE  IInv'
  <1>1. CASE \E x \in Workers : Enter(x) \/ Exit(x) \/ ValidateFSOs(x)
    BY <1>1, EnterStep, ExitStep, ValidateFSOsStep
  <1>2. CASE \E x \in Workers, f \in Files, getdata \in BOOLEAN : Get(x, f, getdata)
    BY <1>2, GetStep
  <1>3. CASE \E x \in Workers, f \in Files : Open(x, f)
    BY <1>3, OpenStep
  <1>4. CASE \E x \in Workers : ServeAttr(x) \/ ServeFetch(x) \/ ServeVolume(x)
    BY <1>4, ServeAttrStep, ServeFetchStep, ServeVolumeStep
  <1>5. CASE \E x \in Workers, g \in Files, v \in 0 .. MaxUpdates : ServePiggy(x, g, v)
    BY <1>5, ServePiggyStep
  <1>6. CASE \E x \in Workers : ApplyVolume(x) \/ ApplyAttr(x) \/ ApplyFetch(x)
    BY <1>6, ApplyVolumeStep, ApplyAttrStep, ApplyFetchStep
  <1>7. CASE \E x \in Workers : GetConn(x) \/ CallNaked(x) \/ CallTimesOut(x)
    BY <1>7, GetConnStep, CallNakedStep, CallTimesOutStep
  <1>8. CASE Connect
    BY <1>8, ConnectStep
  <1>9. CASE \E f \in Files : BeginUpdate(f) \/ Flush(f) \/ Release(f)
    BY <1>9, BeginUpdateStep, FlushStep, ReleaseStep
  <1>10. CASE CodaBreakCallBack \/ VENUS_CallBack \/ BreakReply \/ BreakFails
    BY <1>10, CodaBreakCallBackStep, VENUS_CallBackStep, BreakReplyStep, BreakFailsStep
  <1> QED
    BY <1>1, <1>2, <1>3, <1>4, <1>5, <1>6, <1>7, <1>8, <1>9, <1>10 DEF Next

\* The invariant holds always.
LEMMA Invariance == Spec => []IInv
  <1>1. Init => IInv
    BY InitInv
  <1>2. IInv /\ [Next]_vars => IInv'
    BY NextInv, Stutters
  <1> QED
    BY <1>1, <1>2, PTL DEF Spec

\* CacheOK is invariant: whatever files, workers and updates there are and whatever
\* crosses, the records of the cache keep their form, and without failures a runt
\* (fsdb::Get's object without status) is locked by the worker that gets its status.
THEOREM CoherenceCache == Spec => []CacheOK
  <1>1. IInv => CacheOK
    BY DEF IInv, Basics, ObjectOK, CacheOK, RuntOwned
  <1> QED
    BY <1>1, Invariance, PTL

\* DataFresh is invariant in every environment: breaks, lost connections and
\* resumed transfers never leave a valid object, of a file that is not kept open,
\* with the data of another version than its status says, as fsobj::Fetch and
\* fsobj::GetAttr leave them.
THEOREM CoherenceData == Spec => []DataFresh
  <1>1. IInv => DataFresh
    BY DEF IInv, Basics, ObjectOK, DataFresh
  <1> QED
    BY <1>1, Invariance, PTL

\* In the environments that are Orderly StatusCurrent is invariant: an object that
\* fsobj::IsValid takes for valid has the server's version.
THEOREM CoherenceStatus == Spec => [](Orderly => StatusCurrent)
  <1>1. ASSUME IInv, Orderly
        PROVE  StatusCurrent
    <2> SUFFICES ASSUME Connected, NEW f \in Files, IsValid(f, "status")
                 PROVE  obj[f].vv = ver[f]
      BY DEF StatusCurrent
    <2>1. Basics /\ Coherent /\ HaveStatus(obj[f])
      BY <1>1 DEF IInv, IsValid
    <2>2. CASE "status" \in obj[f].rc
      BY <2>1, <2>2 DEF Coherent, Rights, Connected
    <2>3. CASE VCBStatus
      <3>1. VolumeOK
        BY <2>1, <2>3 DEF Basics, Coherent
      <3> QED
        BY <2>1, <2>3, <3>1 DEF VolumeOK, Holding, Current
    <2> QED
      BY <2>2, <2>3 DEF IsValid, Connected
  <1>2. IInv => (Orderly => StatusCurrent)
    BY <1>1
  <1> QED
    BY <1>2, Invariance, PTL

\* In the environments that are Orderly RightsBacked is invariant: the server has a
\* callback entry for every right the client holds, so that no update goes by
\* without a break.
THEOREM CoherenceRights == Spec => [](Orderly => RightsBacked)
  <1>1. ASSUME IInv, Orderly
        PROVE  RightsBacked
    <2>1. Basics /\ Coherent
      BY <1>1 DEF IInv
    <2>2. VCBStatus => VOL \in cb
      BY <2>1 DEF Basics, Coherent, VolumeOK
    <2> QED
      BY <2>1, <2>2 DEF Coherent, Rights, RightsBacked, Connected
  <1>2. IInv => (Orderly => RightsBacked)
    BY <1>1
  <1> QED
    BY <1>2, Invariance, PTL
================================================================================
