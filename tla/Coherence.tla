------------------------------- MODULE Coherence -------------------------------
(***************************************************************************)
(* Cache coherence between a Venus and a file server.  The client's workers *)
(* validate and fetch objects of one volume (fsdb::Get, fsobj::GetAttr,     *)
(* fsobj::Fetch, reintvol::GetVolAttr); the server grants a callback with   *)
(* every answer and breaks it before another client's update takes effect   *)
(* (CodaBreakCallBack).  A call takes three steps: it is sent, the server   *)
(* serves it, and the worker applies the reply; break messages, lost        *)
(* connections and other workers come in between.  The callback table       *)
(* itself is modelled in ViceCB; here it is the set of the client's fids.   *)
(***************************************************************************)
EXTENDS Naturals, FiniteSets

CONSTANTS Files, Workers,
          Hoarders,   \* the workers of type VPT_HDBDaemon
          MaxUpdates, \* bound on the updates of other clients
          Envs,       \* the environments: what may happen in each, see the assumption
          NONE,
          EMPTY       \* the data of a new container file

ASSUME CoherenceAssumption ==
  /\ IsFiniteSet(Files) /\ IsFiniteSet(Workers) /\ Hoarders \subseteq Workers
  /\ MaxUpdates \in Nat \ {0}
  /\ NONE \notin Workers \cup Files \cup Nat /\ EMPTY \notin Nat \cup {NONE}
  /\ NONE \notin {"VOL", "attr", "fetch", "vols", "volvs", "volattr"}
  /\ "VOL" \notin Files
  /\ \A E \in Envs :
     E \subseteq {"vcb",      \* VCBEnabled
                  "piggy",    \* PiggyValidations > 0
                  "flush",    \* cached objects are flushed
                  "readers",  \* files are kept open
                  "resize",   \* updates change the length
                  "fail",     \* calls and breaks time out
                  "slow",     \* a break waits for other hosts after ours answered
                  "overtake", \* a break overtakes an answer
                  "reconnect", \* the connection is lost or renewed during a call
                  "once"}     \* bound: a single update

VOL == "VOL"
Fids == Files \cup {VOL}

VARIABLES
  env,       \* the environment of the behaviour, a member of Envs
  ver,       \* server: the version of each file
  stamp,     \* server: the volume version stamp
  cb,        \* server: the fids on which the client has a callback
  known,     \* server: the client's host entry has a callback connection
  upd,       \* server: the update in progress
  obj,       \* client: the fsobj of each file
  VCBStatus, \* client: volume callback set
  VVV,       \* client: the volume version stamp, NONE for NullVV
  demotion_pending,
  connid,    \* client: "down" (0), "nak" (-2) or "up" (a connection)
  reachable, \* client: the volume's state, which follows connid at transitions
  wk         \* client: the workers

server == <<ver, stamp, cb, known, upd>>
volume == <<VCBStatus, VVV, demotion_pending, connid, reachable>>
client == <<obj, volume, wk>>
vars == <<env, server, client>>

Runt == [state |-> "runt", vv |-> 0, data |-> NONE, full |-> FALSE, rc |-> {},
         openers |-> 0, lock |-> NONE]
Gone == [Runt EXCEPT !.state = "none"]
NoUpdate == [pc |-> "idle", file |-> NONE, fid |-> NONE, handled |-> FALSE]
Out == [pc |-> "out", op |-> NONE, file |-> NONE, getdata |-> FALSE,
        susp |-> FALSE,    \* cbtemp # cbbreaks of the current GetAttr or Fetch
        vsusp |-> FALSE,   \* cbtemp # cbbreaks of GetVolAttr
        fsos |-> {},       \* what ValidateFSOs has still to visit
        invs |-> FALSE,    \* in ValidateFSOs
        bound |-> FALSE,   \* the server knows the connection of GetAttr or Fetch
        vbound |-> FALSE,  \* the server knows the connection of GetVolAttr
        resume |-> NONE,   \* Fetch goes on with the data of this version
        vv |-> NONE, cbset |-> FALSE, piggy |-> {}, ok |-> {}, bad |-> {}]
In == [Out EXCEPT !.pc = "in"]
Bound(r) == IF r.op \in {"vols", "volvs"} THEN r.vbound ELSE r.bound

\* The cache is warm and the callback connection has just been set up.
Init ==
  /\ env \in Envs
  /\ ver = [f \in Files |-> 0] /\ stamp = 0
  /\ cb = {} /\ known = TRUE /\ upd = NoUpdate
  /\ obj = [f \in Files |-> [Runt EXCEPT !.state = "normal", !.data = 0, !.full = TRUE]]
  /\ VCBStatus = FALSE /\ VVV \in {0, NONE}
  /\ demotion_pending = TRUE /\ connid = "up" /\ reachable = TRUE
  /\ wk = [x \in Workers |-> Out]

------------------------------------------------------------------------------
HaveStatus(o) == o.state = "normal"
HaveData(o) == o.data # NONE
Partial(o) == o.data \notin {NONE, EMPTY} /\ ~o.full
ServerIsDown == connid = "down"
\* fsobj::IsValid: CheckRcRights or the volume callback, if the volume is reachable.
IsValid(f, r) ==
  /\ IF r = "status" THEN HaveStatus(obj[f]) ELSE obj[f].full
  /\ ~reachable \/ r \in obj[f].rc \/ VCBStatus
Busy(o) == o.lock # NONE \/ o.openers > 0
Active(o) == o.openers > 0

Demote(o) == IF HaveStatus(o) THEN [o EXCEPT !.rc = {}] ELSE o
SetRcRights(o, r) == [o EXCEPT !.rc = IF o.full THEN r ELSE r \ {"data"}]
DiscardData(o) == [o EXCEPT !.data = NONE, !.full = FALSE]
Length(v) == IF "resize" \in env THEN v ELSE 0
\* Mutant: the object does not become FsoNormal.
UpdateStatus_KeepsRunt(o, v) == [o EXCEPT !.vv = v]
\* UpdateStatus with ReplaceStatus: the length decides about the data's rights.
UpdateStatus(o, v) ==
  LET p == IF HaveData(o) /\ Length(v) # Length(o.vv) THEN SetRcRights(o, {"status"}) ELSE o
  IN  [p EXCEPT !.vv = v, !.state = "normal"]

\* No worker but those of X has a call that the server answers or will answer.
Quiet(X) ==
  \/ "reconnect" \in env
  \/ \A x \in Workers \ X : /\ wk[x].pc \notin {"piggy", "reply"}
                            /\ wk[x].pc = "sent" => ~Bound(wk[x])

------------------------------------------------------------------------------
\* The workers between volent::Enter and volent::Exit; one in GetVolAttr is not
\* counted yet.
Inside == {x \in Workers : /\ wk[x].pc \notin {"out", "fsos"} /\ ~wk[x].invs
                           /\ wk[x].op \notin {"volattr", "vols", "volvs"}}

\* Steps 1 and 2 of volent::Enter and volent::Exit: a demotion, and a transition
\* if nobody is active in the volume.
TakePending(x) ==
  /\ demotion_pending' = FALSE
  /\ VCBStatus' = (VCBStatus /\ ~demotion_pending)
  /\ obj' = [f \in Files |-> IF demotion_pending THEN Demote(obj[f]) ELSE obj[f]]
  /\ reachable' = IF Inside \subseteq {x} THEN ~ServerIsDown ELSE reachable

\* GetVolAttr up to its first call: ValidateVols with a stamp, and without one
\* ValidateFSOs and then GetVolVS.
Cached == {f \in Files : obj[f].state # "none"}
GetVolAttr ==
  IF VVV # NONE THEN [Out EXCEPT !.pc = "sent", !.op = "vols", !.vv = VVV, !.vbound = known]
  ELSE [Out EXCEPT !.pc = "fsos", !.invs = TRUE, !.fsos = Cached, !.vbound = known]

\* volent::Enter; only the hoard daemon gets a new stamp.
Enter(x) ==
  LET WantCallBack == (~VCBStatus \/ demotion_pending) /\ Cardinality(Cached) > 1
      try == /\ "vcb" \in env /\ reachable' /\ ~ServerIsDown /\ WantCallBack
             /\ VVV # NONE \/ x \in Hoarders
  IN  /\ wk[x].pc = "out"
      /\ TakePending(x)
      /\ wk' = [wk EXCEPT ![x] = IF ~try THEN In
                                 ELSE IF connid = "up" THEN GetVolAttr
                                 ELSE [Out EXCEPT !.pc = "conn", !.op = "volattr"]]
      /\ UNCHANGED <<env, server, VVV, connid>>

Exit(x) ==
  /\ wk[x].pc = "in"
  /\ TakePending(x)
  /\ wk' = [wk EXCEPT ![x] = Out]
  /\ UNCHANGED <<env, server, VVV, connid>>

\* The record of a worker that sends a call, or makes a connection first; GetAttr packs the other objects of
\* the volume that need validation.
Sending(r, op, f) ==
  LET pack == {g \in Files \ {f} : HaveStatus(obj[g]) /\ ~IsValid(g, "status") /\ ~Busy(obj[g])}
  IN  [r EXCEPT !.pc = IF connid = "up" THEN "sent" ELSE "conn", !.op = op, !.file = f, !.susp = FALSE, !.bound = known,
                !.vv = NONE, !.resume = IF op = "fetch" /\ Partial(obj[f]) THEN obj[f].vv ELSE NONE,
                !.ok = {}, !.bad = {},
                !.piggy = IF op = "attr" /\ HaveStatus(obj[f]) /\ "piggy" \in env
                          THEN {<<g, obj[g].vv>> : g \in pack} ELSE {}]

\* fsdb::Get for an object that is not valid, up to its first call; the object
\* is write locked.  A runt is being matriculated: Get waits.
GetObject(x, r, f, getdata) ==
  LET o == obj[f]
      op == IF o.state = "none" \/ ~IsValid(f, "status") THEN "attr" ELSE "fetch"
      new == IF o.state = "none" THEN Runt
             ELSE IF op = "fetch" /\ ~HaveData(o) THEN [o EXCEPT !.data = EMPTY] ELSE o
  IN  /\ reachable /\ ~ServerIsDown /\ o.lock = NONE /\ o.state # "runt"
      /\ ~IsValid(f, "status") \/ (getdata /\ ~o.full)
      /\ obj' = [obj EXCEPT ![f] = [new EXCEPT !.lock = x]]
      /\ wk' = [wk EXCEPT ![x] = [Sending(r, op, f) EXCEPT !.getdata = getdata]]
      /\ UNCHANGED <<env, server, volume>>

Get(x, f, getdata) == wk[x].pc = "in" /\ GetObject(x, wk[x], f, getdata)

\* ValidateFSOs passes over the valid objects to the next one that it has to
\* get, with its data if it has some; after the last one comes GetVolVS, on the
\* connection GetVolAttr began with.
ValidateFSOs(x) ==
  LET r == wk[x]
      needed == {f \in r.fsos : /\ obj[f].state # "none"
                                /\ \/ ~IsValid(f, "status")
                                   \/ HaveData(obj[f]) /\ ~obj[f].full /\ reachable}
  IN  /\ r.pc = "fsos"
      /\ IF needed = {} \/ ServerIsDown
         THEN /\ wk' = [wk EXCEPT ![x] =
                          IF needed = {} THEN [@ EXCEPT !.pc = "sent", !.op = "volvs",
                                                        !.fsos = {}, !.invs = FALSE]
                          ELSE In]
              /\ UNCHANGED <<env, server, obj, volume>>
         ELSE \E f \in needed, S \in SUBSET (r.fsos \ needed) :
                GetObject(x, [r EXCEPT !.fsos = @ \ S], f, HaveData(obj[f]))

------------------------------------------------------------------------------
\* The server.  A vnode is write locked during an update; a validation keeps
\* the piggybacked vnodes it has looked at read locked until it replies.
VnodeLocked(f) == upd.pc # "idle" /\ upd.file = f
ReadLocked(f) == \E x \in Workers : wk[x].pc = "piggy" /\ f \in wk[x].ok \cup wk[x].bad
VolumeBusy == upd.pc = "wait" /\ upd.fid = VOL   \* CheckLock in AddCallBack
Prompt == "slow" \in env \/ ~(upd.pc = "wait" /\ upd.handled)

\* ViceGetAttr and the first part of ViceValidateAttrs.
ServeAttr(x) ==
  LET r == wk[x] IN
  /\ r.pc = "sent" /\ r.op = "attr" /\ r.bound /\ Prompt /\ ~VnodeLocked(r.file)
  /\ cb' = cb \cup {r.file}
  /\ wk' = [wk EXCEPT ![x].pc = IF r.piggy = {} THEN "reply" ELSE "piggy",
                      ![x].vv = ver[r.file]]
  /\ UNCHANGED <<env, ver, stamp, known, upd, obj, volume>>

\* ViceValidateAttrs for one of the piggybacked fids; it fails once the client
\* has been removed.
ServePiggy(x, g, v) ==
  LET r == wk[x]
      good == r.bound /\ v = ver[g]
  IN  /\ r.pc = "piggy" /\ Prompt /\ <<g, v>> \in r.piggy /\ ~VnodeLocked(g)
      /\ cb' = IF good THEN cb \cup {g} ELSE cb
      /\ wk' = [wk EXCEPT ![x].pc = IF r.piggy = {<<g, v>>} THEN "reply" ELSE "piggy",
                          ![x].piggy = @ \ {<<g, v>>},
                          ![x].ok = IF good THEN @ \cup {g} ELSE @,
                          ![x].bad = IF good THEN @ ELSE @ \cup {g}]
      /\ UNCHANGED <<env, ver, stamp, known, upd, obj, volume>>

\* ViceFetchPartial; a resumed fetch of an object that has changed is refused.
ServeFetch(x) ==
  LET r == wk[x]
      refused == r.resume # NONE /\ r.resume # ver[r.file]
  IN  /\ r.pc = "sent" /\ r.op = "fetch" /\ r.bound /\ Prompt /\ ~VnodeLocked(r.file)
      /\ cb' = IF refused THEN cb ELSE cb \cup {r.file}
      /\ wk' = [wk EXCEPT ![x].pc = "reply",
                          ![x].vv = IF refused THEN NONE ELSE ver[r.file]]
      /\ UNCHANGED <<env, ver, stamp, known, upd, obj, volume>>

\* ViceGetVolVS and ViceValidateVols.
ServeVolume(x) ==
  LET r == wk[x]
      good == r.op = "volvs" \/ r.vv = stamp
  IN  /\ r.pc = "sent" /\ r.op \in {"volvs", "vols"} /\ r.vbound /\ Prompt
      /\ cb' = IF good /\ ~VolumeBusy THEN cb \cup {VOL} ELSE cb
      /\ wk' = [wk EXCEPT ![x].pc = "reply", ![x].cbset = ~VolumeBusy,
                          ![x].vv = IF good THEN stamp ELSE NONE]
      /\ UNCHANGED <<env, ver, stamp, known, upd, obj, volume>>
------------------------------------------------------------------------------
\* The worker applies a reply.  Get succeeded or failed; a failure in
\* ValidateFSOs ends GetVolAttr.
Got(r) == IF r.invs THEN [Out EXCEPT !.pc = "fsos", !.invs = TRUE, !.vsusp = r.vsusp,
                                     !.vbound = r.vbound, !.fsos = r.fsos \ {r.file}]
          ELSE In

\* The end of GetVolAttr after GetVolVS (UpdateVCBInfo) and ValidateVols.
ApplyVolume(x) ==
  LET r == wk[x] IN
  /\ r.pc = "reply" /\ r.op \in {"volvs", "vols"}
  /\ VCBStatus' = IF r.vv # NONE /\ r.cbset THEN VCBStatus \/ ~r.vsusp
                  ELSE IF r.op = "volvs" /\ r.vsusp THEN VCBStatus ELSE FALSE
  /\ VVV' = IF r.op = "vols" THEN (IF r.vv = NONE THEN NONE ELSE VVV)
            ELSE IF r.cbset /\ ~r.vsusp THEN r.vv ELSE VVV
  /\ wk' = [wk EXCEPT ![x] = In]
  /\ UNCHANGED <<env, server, obj, demotion_pending, connid, reachable>>

\* Mutant: answers are believed.
Suspect_Never(r) == FALSE
\* Callbacks broken since the call was made make its answer suspect.
Suspect(r) == r.susp

\* What a validation says of a piggybacked object: it has rights again, or it is
\* killed, or if it is in use demoted, and its data discarded.
Piggybacked(g, r) ==
  LET o == obj[g] IN
  IF g \notin r.ok \cup r.bad \/ o.state = "none" THEN o
  ELSE IF g \in r.ok /\ HaveStatus(o)
  THEN (IF Suspect(r) THEN o ELSE SetRcRights(o, {"status", "data"}))
  ELSE IF HaveStatus(o) /\ ~Busy(o) THEN Gone
  ELSE IF HaveData(o) /\ ~Active(o) THEN DiscardData(Demote(o)) ELSE Demote(o)

\* The end of fsobj::GetAttr, and the Fetch that follows in fsdb::Get.
ApplyAttr(x) ==
  LET r == wk[x]
      o == obj[r.file]
      stale == HaveStatus(o) /\ o.vv # r.vv
      retry == stale /\ HaveData(o) /\ ~Active(o)
      o1 == IF stale THEN Demote(o) ELSE o
      o2 == IF Suspect(r) THEN o1 ELSE SetRcRights(o1, {"status", "data"})
      o3 == IF retry THEN DiscardData(o1) ELSE UpdateStatus(o2, r.vv)
      more == ~retry /\ r.getdata /\ ~o3.full /\ reachable
      fetch == more /\ ~ServerIsDown
      o4 == IF fetch /\ ~HaveData(o3) THEN [o3 EXCEPT !.data = EMPTY] ELSE o3
  IN  /\ r.pc = "reply" /\ r.op = "attr"
      /\ obj' = [g \in Files |-> IF g # r.file THEN Piggybacked(g, r)
                                 ELSE [o4 EXCEPT !.lock = IF fetch THEN x ELSE NONE]]
      /\ wk' = [wk EXCEPT ![x] =
                  IF retry \/ (more /\ ~fetch) THEN In
                  ELSE IF fetch THEN [Sending(r, "fetch", r.file) EXCEPT
                                        !.resume = IF Partial(o3) THEN o3.vv ELSE NONE]
                  ELSE Got(r)]
      /\ UNCHANGED <<env, server, volume>>

\* Mutant: the version that was sent is not compared.
FetchAgain_OnlyRefused(o, r) == r.vv = NONE
\* The server refuses to go on with old data, or sends another version than the
\* status says: start again.
FetchAgain(o, r) == r.vv = NONE \/ r.vv # o.vv
\* What has been transferred goes into the container file.
Transferred(o, r) == IF o.data = EMPTY /\ r.vv # NONE THEN [o EXCEPT !.data = r.vv] ELSE o

\* The end of fsobj::Fetch.
ApplyFetch(x) ==
  LET r == wk[x]
      o == obj[r.file]
      again == FetchAgain(o, r)
      o1 == IF HaveData(o) THEN [Transferred(o, r) EXCEPT !.full = TRUE] ELSE o
      o2 == IF again
            THEN Demote(DiscardData(IF r.vv = NONE THEN o
                                    ELSE UpdateStatus(Transferred(o, r), r.vv)))
            ELSE IF Suspect(r) THEN o1 ELSE SetRcRights(o1, {"status", "data"})
  IN  /\ r.pc = "reply" /\ r.op = "fetch"
      /\ obj' = [obj EXCEPT ![r.file] = [o2 EXCEPT !.lock = NONE]]
      /\ wk' = [wk EXCEPT ![x] = IF again THEN In ELSE Got(r)]
      /\ UNCHANGED <<env, server, volume>>

\* A call that fails: ServerError, and the error exits of GetVolAttr and Fetch.
CallFails(x) ==
  LET r == wk[x] IN
  /\ VCBStatus' = (VCBStatus /\ r.op # "vols")
  /\ VVV' = IF r.op = "vols" THEN NONE ELSE VVV
  /\ obj' = [f \in Files |->
               IF f # r.file THEN obj[f]
               ELSE [(IF r.op = "fetch" THEN Demote(Transferred(obj[f], r)) ELSE obj[f]) EXCEPT !.lock = NONE]]
  /\ wk' = [wk EXCEPT ![x] = In]
  /\ UNCHANGED <<env, server, reachable>>

\* GetConn returns, with the connection that NewConnectFS has set up or with
\* ETIMEDOUT.  Fetch has read cbbreaks before, the others read it now.
GetConn(x) ==
  LET r == wk[x] IN
  /\ r.pc = "conn"
  /\ \/ /\ connid = "up"
        /\ wk' = [wk EXCEPT ![x] =
                    IF r.op # "volattr"
                    THEN [r EXCEPT !.pc = "sent", !.bound = known,
                                   !.susp = r.op = "fetch" /\ @]
                    ELSE IF VVV # NONE /\ VCBStatus THEN In ELSE GetVolAttr]
        /\ UNCHANGED <<env, server, obj, volume>>
     \/ /\ ServerIsDown
        /\ CallFails(x)
        /\ UNCHANGED <<demotion_pending, connid>>

\* The server does not know the connection: Reset, and an UpEvent.
CallNaked(x) ==
  LET r == wk[x] IN
  /\ r.pc = "sent" /\ ~Bound(r) /\ Quiet({x})
  /\ CallFails(x)
  /\ connid' = IF ServerIsDown THEN connid ELSE "nak"
  /\ demotion_pending' = (demotion_pending \/ ~ServerIsDown)

\* The call times out: Reset.
CallTimesOut(x) ==
  /\ "fail" \in env
  /\ wk[x].pc \in {"conn", "sent", "piggy", "reply"} /\ Quiet({x})
  /\ CallFails(x)
  /\ connid' = "down"
  /\ UNCHANGED demotion_pending

\* Mutant: the server comes up without an UpEvent.
Connect_NoUpEvent ==
  /\ ~known \/ connid # "up"
  /\ Quiet({}) /\ upd.pc # "wait"
  /\ known' = TRUE /\ connid' = "up"
  /\ UNCHANGED <<env, ver, stamp, cb, upd, obj, VCBStatus, VVV, demotion_pending, reachable, wk>>
\* ViceNewConnectFS: the server makes a callback connection, srvent::ServerUp.
\* The host lock keeps it waiting while a break is in progress.
Connect ==
  /\ ~known \/ connid # "up"
  /\ Quiet({}) /\ upd.pc # "wait"
  /\ known' = TRUE /\ connid' = "up"
  /\ demotion_pending' = (demotion_pending \/ connid # "nak")
  /\ UNCHANGED <<env, ver, stamp, cb, upd, obj, VCBStatus, VVV, reachable, wk>>

------------------------------------------------------------------------------
Updates == IF "once" \in env THEN 1 ELSE MaxUpdates
\* An update of f by another client: its vnode is locked,
BeginUpdate(f) ==
  /\ upd.pc = "idle" /\ stamp < Updates /\ ~ReadLocked(f)
  /\ upd' = [NoUpdate EXCEPT !.pc = "locked", !.file = f]
  /\ UNCHANGED <<env, ver, stamp, cb, known, client>>

\* and once the breaks are done it takes effect without a yield.
NewCOP1Update ==
  /\ ver' = [ver EXCEPT ![upd.file] = @ + 1] /\ stamp' = stamp + 1
  /\ upd' = NoUpdate

\* CodaBreakCallBack for the file and then for the volume; a fid without
\* callbacks is passed over at once.
CodaBreakCallBack ==
  /\ upd.pc = "locked"
  /\ IF upd.file \in cb \/ VOL \in cb
     THEN /\ upd' = [upd EXCEPT !.pc = "wait", !.fid = IF upd.file \in cb THEN upd.file ELSE VOL]
          /\ UNCHANGED <<ver, stamp>>
     ELSE NewCOP1Update
  /\ UNCHANGED <<env, cb, known, client>>

\* VENUS_CallBack, with fsdb::CallBackBreak and vdb::CallBackBreak.
VENUS_CallBack ==
  LET found == upd.fid # VOL /\ HaveStatus(obj[upd.fid])
      counted == found \/ VCBStatus
  IN  /\ upd.pc = "wait" /\ ~upd.handled /\ connid = "up"
      /\ "overtake" \in env \/ \A x \in Workers : wk[x].pc # "reply"
      /\ upd' = [upd EXCEPT !.handled = TRUE]
      /\ obj' = IF found THEN [obj EXCEPT ![upd.fid] = Demote(@)] ELSE obj
      /\ VCBStatus' = FALSE
      /\ VVV' = IF VCBStatus THEN NONE ELSE VVV
      /\ wk' = [x \in Workers |->
                  [wk[x] EXCEPT !.susp = wk[x].pc # "out" /\ (@ \/ counted),
                                !.vsusp = wk[x].pc # "out" /\ (@ \/ counted)]]
      /\ UNCHANGED <<env, ver, stamp, cb, known, demotion_pending, connid, reachable>>

\* The end of BreakCallBack: a host loses its volume callback with the file's,
\* so that nothing is left to break.
BreakReply ==
  /\ upd.pc = "wait" /\ upd.handled
  /\ cb' = cb \ {upd.fid, VOL}
  /\ NewCOP1Update
  /\ UNCHANGED <<env, known, client>>

\* The break fails and CLIENT_CleanUpHost forgets the client and its connections.
BreakFails ==
  /\ upd.pc = "wait" /\ ("fail" \in env \/ connid # "up")
  /\ cb' = {} /\ known' = FALSE
  /\ wk' = [x \in Workers |-> [wk[x] EXCEPT !.bound = FALSE, !.vbound = FALSE]]
  /\ NewCOP1Update
  /\ UNCHANGED <<env, obj, volume>>

\* fsobj::Flush of an object that is not in use.
Flush(f) ==
  /\ "flush" \in env /\ HaveStatus(obj[f]) /\ ~Busy(obj[f])
  /\ obj' = [obj EXCEPT ![f] = Gone]
  /\ UNCHANGED <<env, server, volume, wk>>

\* A file is opened for reading once Get has returned it with its data.
Open(x, f) ==
  /\ "readers" \in env /\ wk[x].pc = "in"
  /\ IsValid(f, "status") /\ obj[f].full /\ obj[f].lock = NONE /\ obj[f].openers = 0
  /\ obj' = [obj EXCEPT ![f].openers = @ + 1]
  /\ UNCHANGED <<env, server, volume, wk>>

\* The end of the open, fsobj::Release.
Release(f) ==
  /\ obj[f].openers > 0 /\ obj[f].lock = NONE
  /\ obj' = [obj EXCEPT ![f].openers = @ - 1]
  /\ UNCHANGED <<env, server, volume, wk>>

Next ==
  \/ \E x \in Workers :
       \/ Enter(x) \/ Exit(x)
       \/ \E f \in Files, getdata \in BOOLEAN : Get(x, f, getdata)
       \/ ValidateFSOs(x)
       \/ \E f \in Files : Open(x, f)
       \/ ServeAttr(x) \/ ServeFetch(x) \/ ServeVolume(x)
       \/ \E g \in Files, v \in 0 .. MaxUpdates : ServePiggy(x, g, v)
       \/ ApplyVolume(x) \/ ApplyAttr(x) \/ ApplyFetch(x)
       \/ GetConn(x) \/ CallNaked(x) \/ CallTimesOut(x)
  \/ Connect
  \/ \E f \in Files : BeginUpdate(f) \/ Flush(f) \/ Release(f)
  \/ CodaBreakCallBack \/ VENUS_CallBack \/ BreakReply \/ BreakFails

Spec == Init /\ [][Next]_vars

------------------------------------------------------------------------------
Versions == 0 .. MaxUpdates
Update == [pc : {"idle", "locked", "wait"}, file : Files \cup {NONE}, fid : Fids \cup {NONE},
           handled : BOOLEAN]
Object == [state : {"none", "runt", "normal"}, vv : Versions,
           data : Versions \cup {NONE, EMPTY}, full : BOOLEAN,
           rc : SUBSET {"status", "data"}, openers : 0 .. 1, lock : Workers \cup {NONE}]
Worker == [pc : {"out", "in", "fsos", "conn", "sent", "piggy", "reply"},
           op : {"attr", "fetch", "vols", "volvs", "volattr", NONE},
           file : Files \cup {NONE}, getdata : BOOLEAN, susp : BOOLEAN, vsusp : BOOLEAN,
           fsos : SUBSET Files, invs : BOOLEAN, bound : BOOLEAN, vbound : BOOLEAN,
           resume : Versions \cup {NONE}, vv : Versions \cup {NONE}, cbset : BOOLEAN,
           piggy : SUBSET (Files \X Versions), ok : SUBSET Files, bad : SUBSET Files]
\* Every variable has its type.
TypeOK ==
  /\ env \in Envs
  /\ ver \in [Files -> Versions] /\ stamp \in Versions
  /\ cb \subseteq Fids /\ known \in BOOLEAN /\ upd \in Update
  /\ obj \in [Files -> Object] /\ wk \in [Workers -> Worker]
  /\ VCBStatus \in BOOLEAN /\ VVV \in Versions \cup {NONE}
  /\ demotion_pending \in BOOLEAN /\ connid \in {"down", "nak", "up"}
  /\ reachable \in BOOLEAN

\* Client and server agree that they are connected, and no demotion is due.
Connected == known /\ connid = "up" /\ reachable /\ ~demotion_pending

\* The environments in which the protocol keeps its promise.  No connection is lost
\* and made again during a call; with volume callbacks nothing fails, is slow or is
\* overtaken; a break overtakes an answer only if every object has status; and the
\* length of an open file does not change if an answer may be suspect.
Orderly ==
  /\ "reconnect" \notin env
  /\ "vcb" \in env => env \cap {"fail", "slow", "overtake"} = {}
  /\ "overtake" \in env => env \cap {"piggy", "flush"} = {}
  /\ {"readers", "resize"} \subseteq env => env \cap {"overtake", "piggy"} = {}

\* Whatever breaks, replies and connections cross each other, an object the
\* client takes for valid has the server's current version.
StatusCurrent ==
  Connected => \A f \in Files : IsValid(f, "status") => obj[f].vv = ver[f]

\* The data that a valid object has are those of its status, unless the file is
\* kept open.
DataFresh ==
  "readers" \notin env => \A f \in Files : IsValid(f, "status") /\ obj[f].full => obj[f].data = obj[f].vv

\* A right of the client is backed by the server's promise to break it: there is
\* a callback on the file for rights, and one on the volume for the volume callback.
RightsBacked ==
  Connected => /\ \A f \in Files : obj[f].rc # {} => f \in cb
               /\ VCBStatus => VOL \in cb

\* The container file of a fetch in progress is not discarded by another worker.
FetchKeepsData ==
  \A x \in Workers : wk[x].op = "fetch" => HaveData(obj[wk[x].file])

\* An object without status is locked by the worker that gets its status: the
\* threads that wait for its matriculation have somebody to wait for.  A call that
\* fails leaves a runt behind.
RuntOwned == "fail" \notin env => \A f \in Files : obj[f].state = "runt" => obj[f].lock # NONE

\* The cache is in order: every variable has its type, and RuntOwned.
CacheOK == TypeOK /\ RuntOwned
================================================================================
