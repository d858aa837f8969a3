-------------------------------- MODULE Reint --------------------------------
(* Reintegration: Venus logs the updates of a volume's files in the CML and a     *)
(* reintegrator replays the log at a server, while users go on updating           *)
(* (coda-src/venus/vol_reintegrate.cc, vol_cml.cc; coda-src/vice/codaproc2.cc).    *)
(*                                                                                 *)
(* Venus is one process of coroutines: a user's operation, or the reintegrator's   *)
(* work between two remote calls, is one step.  The server has one volume with     *)
(* one replica.  A call or its reply may be lost, and the server may go on with a  *)
(* call whose caller has given up.  A behaviour has a configuration c:             *)
(*   ops         the operations users will do, <<operation, file, nth>>            *)
(*   replicated  the volume is replicated (repvol), else it is a volrep            *)
(*   backfetch   stores travel in the batch (allow_backfetch), else one at a time  *)
(*               through a reintegration handle                                    *)
(*   fat         with backfetch, a store may be too large for the bandwidth        *)
(*   open        users keep a file open while they write it                        *)
(*   late        a call that timed out may still be executed                       *)
(*   max         how many calls are lost, how often another's exclusive lock       *)
(*               refuses a call, how many updates another client makes, and how    *)
(*               often the server and Venus restart                                *)
EXTENDS CML

CONSTANTS Fids,      \* the files
          Existing,  \* those that exist at the start
          Configs

ASSUME ReintAssumption == Existing \subseteq Fids /\ Configs # {}

VARIABLES
  c,         \* the configuration
  todo,      \* the operations users have not done yet
  count,     \* how many they have done: the last store identifier
  local,     \* the cached files: [st |-> absent, file or gone, at |-> attribute values]
  fsid,      \* the store identifier of each cached file's version
  writing,   \* the files open for writing
  shadow,    \* each file's shadow copy: [n |-> references, data |-> contents]
  log,       \* the CML
  pc,        \* what the reintegrator is at
  more,      \* GetReintegrateable stopped short: another round follows
  calls,     \* calls in the network and at the server, and replies
  srv,       \* the server's files: [st, at, sid |-> version]
  last,      \* the last store identifier of this client in the volume's reintegrators
  epoch,     \* the server's StartTime
  taken,     \* the names of ours another client used: <<operation, file>>
  touched,   \* the files another client updated since we last fetched them
  used,      \* the faults so far
  applied,   \* history: the records the server performed
  committed, \* history: the records taken off the log as performed
  unsure,    \* history: the records of calls that were given up, <<record, file>>
  exposed    \* history: files whose data may be read while they are open for writing
client == <<todo, count, local, fsid, writing>>
server == <<srv, last, epoch, applied>>
others == <<taken, touched>>
history == <<committed, unsure, exposed>>
vars == <<c, client, shadow, log, pc, more, calls, server, others, used, history>>

TORN == -1          \* the contents of a file somebody is writing
Stopped == {"dead", "empty", "choked"}
Faults == {"loss", "busy", "partner", "restart", "crash"}
IsFile(x) == x.st = "file"
NoShadow == [n |-> 0, data |-> 0]
Uniform(v) == [a \in Attrs |-> v]

Init ==
  /\ c \in Configs
  /\ todo = c.ops /\ count = 0
  /\ local = [f \in Fids |-> [st |-> IF f \in Existing THEN "file" ELSE "absent", at |-> Uniform(0)]]
  /\ srv = [f \in Fids |-> [st |-> local[f].st, at |-> Uniform(0), sid |-> 0]]
  /\ fsid = [f \in Fids |-> 0] /\ writing = {}
  /\ shadow = [f \in Fids |-> NoShadow] /\ log = << >>
  /\ pc = "idle" /\ more = FALSE /\ calls = {}
  /\ last = 0 /\ epoch = 1 /\ taken = {} /\ touched = {}
  /\ used = [x \in Faults |-> 0] /\ applied = {} /\ committed = {}
  /\ unsure = {} /\ exposed = {}

Fault(x) == used[x] < c.max[x] /\ used' = [used EXCEPT ![x] = @ + 1]

(* Thaw, and ~cmlent of a frozen store, drop a reference to the shadow copy.       *)
FrozenStores(l, f) ==
  Cardinality({i \in DOMAIN l : l[i].fid = f /\ l[i].op = "store" /\ l[i].frozen})
RemoveShadows(l) ==
  [f \in Fids |-> LET n == shadow[f].n - (FrozenStores(log, f) - FrozenStores(l, f))
                  IN  IF n <= 0 THEN NoShadow ELSE [shadow[f] EXCEPT !.n = n]]
SetLog(l) == log' = l /\ shadow' = RemoveShadows(l)

-----------------------------------------------------------------------------
(* Users.  The operations are those of a volume that logs its updates, and run     *)
(* only while the reintegrator waits.                                              *)
UserMayRun == pc # "iter" /\ pc \notin Stopped

\* The next operation op on f of those left to do.
Take(op, f) ==
  LET left == {o \in todo : o[1] = op /\ o[2] = f} IN
  /\ left # {}
  /\ todo' = todo \ {CHOOSE o \in left : \A p \in left : o[3] <= p[3]}

LogOp(op, f) ==
  /\ count' = count + 1
  /\ SetLog(Log(log, op, f, count + 1, count + 1))
  /\ UNCHANGED <<c, fsid, pc, more, calls, server, others, used, history>>

\* DisconnectedSetAttr, DisconnectedRename, DisconnectedCreate, DisconnectedRemove,
\* and a store whose open and close nothing comes between.
LocalOp(op, f) ==
  /\ UserMayRun /\ Take(op, f) /\ f \notin writing
  /\ op = "store" => ~c.open
  /\ IF op = "create" THEN local[f].st = "absent" ELSE IsFile(local[f])
  /\ local' = [local EXCEPT ![f] =
                 [st |-> IF op = "remove" THEN "gone" ELSE "file",
                  at |-> [a \in Attrs |-> IF a \in Writes(op) THEN count + 1 ELSE @.at[a]]]]
  /\ LogOp(op, f)
  /\ UNCHANGED writing

\* Open for writing.
Open(f) ==
  /\ UserMayRun /\ c.open /\ Take("store", f)
  /\ IsFile(local[f]) /\ f \notin writing
  /\ writing' = writing \cup {f}
  /\ local' = [local EXCEPT ![f].at.data = TORN]
  /\ UNCHANGED <<c, count, fsid, shadow, log, pc, more, calls, server, others, used, history>>

\* Close: DisconnectedStore.
Close(f) ==
  /\ UserMayRun /\ f \in writing
  /\ writing' = writing \ {f}
  /\ local' = [local EXCEPT ![f].at = [@ EXCEPT !.data = count + 1, !.date = count + 1]]
  /\ LogOp("store", f)
  /\ UNCHANGED todo

-----------------------------------------------------------------------------
(* The reintegrator.                                                               *)
(*   idle   no reintegration            iter   at the top of Reintegrate's loop    *)
(*   handle PartialReintegrate: opening a handle and sending the data              *)
(*   close, reint  waiting for CloseReintHandle, Reintegrate                       *)
(*   sleep  the volume was busy         check  CheckPoint, before handling failure *)
(*   dead, empty   an assertion of CancelPending, of IncCommit failed              *)
(*   choked        WriteReintegrationHandle did not find the data                  *)

\* The bug of leaving the stores of open files in the log.
Reintegrate_KeepsStores ==
  /\ pc = "idle" /\ log # << >> /\ ~log[1].repair
  /\ pc' = "iter"
  /\ UNCHANGED <<c, client, log, shadow, more, calls, server, others, used, history>>

\* Reintegrate: ReadyToReintegrate; CancelStores for the files open for writing.
Reintegrate ==
  /\ pc = "idle" /\ log # << >> /\ ~log[1].repair
  /\ SetLog(CancelThose(log, {m \in Range(log) : m.op = "store" /\ m.fid \in writing}))
  /\ pc' = "iter"
  /\ UNCHANGED <<c, client, more, calls, server, others, used, history>>

\* The bug of freezing a store without a shadow copy.
FreezeFirst_NoShadow(n) ==
  /\ log' = [i \in DOMAIN log |-> IF i <= n THEN [Freeze(log[i]) EXCEPT !.tid = TRUE]
                                  ELSE [log[i] EXCEPT !.tid = FALSE]]
  /\ UNCHANGED shadow

\* Mark and freeze the first n records; freezing a store makes or refreshes the
\* shadow copy of its file.
FreezeFirst(n) ==
  LET fresh(f) == {i \in 1 .. n : log[i].fid = f /\ log[i].op = "store" /\ ~log[i].frozen}
  IN
  /\ log' = [i \in DOMAIN log |-> IF i <= n THEN [Freeze(log[i]) EXCEPT !.tid = TRUE]
                                  ELSE [log[i] EXCEPT !.tid = FALSE]]
  /\ shadow' = [f \in Fids |->
                  IF fresh(f) = {} THEN shadow[f]
                  ELSE [n |-> shadow[f].n + Cardinality(fresh(f)),
                        data |-> local[f].at.data]]

Call(kind, recs, h, data) ==
  calls' = calls \cup {[kind |-> kind, recs |-> recs, handle |-> h, data |-> data,
                        mine |-> TRUE, st |-> "net", code |-> "none", ix |-> 0]}

\* The bug of a test that does not match the one of GetReintegrateable.
FatHead_OnlyFat ==
  /\ log # << >> /\ log[1].op = "store"
  /\ log[1].handle # 0 \/ c.fat

\* GetFatHead: the store at the head goes through a handle.
FatHead ==
  /\ log # << >> /\ log[1].op = "store"
  /\ ~c.backfetch \/ log[1].handle # 0 \/ c.fat

PartialReintegrate ==
  /\ pc = "iter" /\ FatHead
  /\ FreezeFirst(1)
  /\ pc' = "handle"
  /\ UNCHANGED <<c, client, more, calls, server, others, used, history>>

\* GetReintegrateable stops at a record to be repaired, without backfetch at a store
\* (and then another round follows), and otherwise where the time runs out.
Ready(i) == ~log[i].repair /\ (c.backfetch \/ log[i].op # "store")
IncReintegrate ==
  /\ pc = "iter"
  /\ ~(FatHead /\ (~c.backfetch \/ log[1].handle # 0))
  /\ IF log = << >> \/ ~Ready(1)
     THEN pc' = "idle" /\ UNCHANGED <<log, shadow, calls, more>>
     ELSE \E n \in DOMAIN log :
            /\ \A i \in 1 .. n : Ready(i)
            /\ more' = (n < Len(log) /\ ~c.backfetch /\ log[n + 1].op = "store")
            /\ FreezeFirst(n)
            /\ Call("reint", IncThread(log', fsid), 0, 0)
            /\ pc' = "reint"
  /\ UNCHANGED <<c, client, server, others, used, history>>

\* The store PartialReintegrate works on.
First == log[1]
\* CancelPending, unless its assertion fails.
CancelPendingThen(l, next) ==
  IF CanCancelPending(l) THEN SetLog(CancelPending(l)) /\ pc' = next
  ELSE SetLog(l) /\ pc' = "dead"

\* Validate the handle or get one, and send as much of the data as there is time for:
\* all of it, and the handle is closed; or a part, and the rest waits for another
\* round.  The data comes from the shadow copy.
SendData ==
  /\ pc = "handle"
  /\ IsFile(srv[First.fid]) \/ First.handle = epoch
  /\ LET m == IF First.handle = epoch THEN First ELSE [First EXCEPT !.handle = epoch, !.offset = 0]
         data == IF m.offset < 2 THEN shadow[m.fid].data ELSE m.data
         sent(n) == [log EXCEPT ![1] = [m EXCEPT !.offset = n, !.data = data]]
     IN
     IF m.offset < 2 /\ shadow[m.fid].n = 0
     THEN pc' = "choked" /\ UNCHANGED <<log, shadow, calls>>
     ELSE \/ /\ m.offset = 0
             /\ CancelPendingThen(sent(1), "idle")
             /\ UNCHANGED calls
          \/ /\ log' = sent(2) /\ UNCHANGED shadow
             /\ Call("close", IncThread(log', fsid), epoch, data)
             /\ pc' = "close"
  /\ UNCHANGED <<c, client, more, server, others, used, history>>

\* No handle: the server does not have the file, or, for data that somebody is
\* writing, it got less than the record says.
SendFails ==
  /\ pc = "handle"
  /\ \/ ~IsFile(srv[First.fid]) /\ First.handle # epoch
     \/ /\ ~(First.handle = epoch /\ First.offset = 2)
        /\ shadow[First.fid].n > 0 /\ shadow[First.fid].data # First.val
  /\ log' = MarkFailedMLE(log, 1) /\ UNCHANGED shadow
  /\ pc' = "check"
  /\ UNCHANGED <<c, client, more, calls, server, others, used, history>>

\* One of the calls of SendData times out.
SendTimesOut ==
  /\ pc = "handle" /\ Fault("loss")
  /\ CancelPendingThen(log, "idle")
  /\ UNCHANGED <<c, client, more, calls, server, others, history>>

-----------------------------------------------------------------------------
(* The outcome of a call.                                                          *)

\* IncCommit and ClearPending: the records of the round up to store identifier s.
Commit(s, next) ==
  IF log = << >> THEN pc' = "empty" /\ UNCHANGED <<log, shadow, fsid, committed>>
  ELSE LET gone == Committed(log, s) IN
       /\ fsid' = NewSids(log, gone, fsid, c.replicated)
       /\ committed' = committed \cup gone
       /\ SetLog(ClearPending(SelectSeq(log, LAMBDA m : m.sid \notin gone)))
       /\ pc' = next

Outcome(code, ix) ==
  \/ code = "ok" /\ Commit(0, IF pc = "reint" /\ more THEN "iter" ELSE "idle")
  \/ code = "already" /\ Commit(IF pc = "reint" THEN ix ELSE 0, "idle")
  \/ /\ code = "timedout" /\ pc = "reint"
     /\ pc' = "idle" /\ UNCHANGED <<log, shadow, fsid, committed>>
  \/ /\ code \in {"timedout", "wouldblock"} /\ pc = "close"
     /\ CancelPendingThen(log, "idle") /\ UNCHANGED <<fsid, committed>>
  \/ /\ code = "badf"
     /\ CancelPendingThen([log EXCEPT ![1] = [@ EXCEPT !.handle = 0, !.offset = 0]], "idle")
     /\ UNCHANGED <<fsid, committed>>
  \/ /\ code = "wouldblock" /\ pc = "reint"  \* a transition is pending; or wait; or give up
     /\ \E next \in {"idle", "sleep", "check"} : CancelPendingThen(log, next)
     /\ UNCHANGED <<fsid, committed>>
  \/ /\ code = "failed"
     /\ log' = MarkFailedMLE(log, IF pc = "reint" THEN ix ELSE 1)
     /\ pc' = "check" /\ UNCHANGED <<shadow, fsid, committed>>

Reply ==
  \E q \in calls :
    /\ q.mine /\ q.st = "done"
    /\ calls' = calls \ {q}
    /\ Outcome(q.code, q.ix)
    /\ exposed' = IF pc' = "iter" THEN exposed \cup writing ELSE exposed
    /\ UNCHANGED <<c, todo, count, local, writing, more, server, others, used, unsure>>

\* (History) The records of the round are in a call nobody waits for any more.  Their
\* shadow copies may be gone when the server executes it (or, after a crash, when
\* they are sent again), and CallBackFetch then reads the file itself.
GivenUp ==
  /\ unsure' = unsure \cup {<<m.sid, m.fid>> : m \in {r \in Range(log) : r.tid}}
  /\ exposed' = IF calls' # {} \/ used'.crash # used.crash
                THEN exposed \cup {f \in Fids : FrozenStores(log, f) > 0} ELSE exposed

\* The call or the reply is lost; with c.late the server may go on with it.
TimedOut ==
  /\ pc \in {"reint", "close"}
  /\ \/ /\ \A q \in calls : ~q.mine
        /\ UNCHANGED <<calls, used>>
     \/ \E q \in calls :
          /\ q.mine /\ Fault("loss")
          /\ \/ (q.st # "run") /\ calls' = calls \ {q}
             \/ c.late /\ q.st # "done" /\ calls' = (calls \ {q}) \cup {[q EXCEPT !.mine = FALSE]}
  /\ Outcome("timedout", 0)
  /\ GivenUp
  /\ UNCHANGED <<c, todo, count, local, writing, more, server, others>>

\* After a wait the same round is threaded and sent again.
Resend ==
  /\ pc = "sleep"
  /\ Call("reint", IncThread(log, fsid), 0, 0)
  /\ pc' = "reint"
  /\ UNCHANGED <<c, client, shadow, log, more, server, others, used, history>>

\* After the checkpoint: drop the handle, CancelPending, HandleFailedMLE.
HandleFailure ==
  /\ pc = "check"
  /\ LET l == Map(log, LAMBDA m : IF m.tid THEN [m EXCEPT !.handle = 0, !.offset = 0] ELSE m) IN
     IF CanCancelPending(l) THEN SetLog(HandleFailedMLE(CancelPending(l))) /\ pc' = "idle"
     ELSE SetLog(l) /\ pc' = "dead"
  /\ UNCHANGED <<c, client, more, calls, server, others, used, history>>

Reintegrator ==
  \/ Reintegrate \/ PartialReintegrate \/ IncReintegrate \/ SendData \/ SendFails \/ Reply
  \/ Resend \/ HandleFailure \/ (TimedOut /\ UNCHANGED used)

-----------------------------------------------------------------------------
(* The server.  A call holds the volume's exclusive lock from ValidateReintegrate-  *)
(* Parms to PutReintegrateObjects; what it does becomes permanent as a whole.       *)
\* The answer to q, if somebody still waits for it.
Answer(q, code, ix) ==
  calls' = (calls \ {q}) \cup (IF q.mine THEN {[q EXCEPT !.st = "done", !.code = code, !.ix = ix]} ELSE {})
Locked == \E q \in calls : q.st = "run"

\* GetVolObj: the lock is taken by another of our calls, or by somebody else.
Refused(q) ==
  /\ \/ Locked /\ UNCHANGED used
     \/ ~Locked /\ Fault("busy")
  /\ Answer(q, "wouldblock", 0)

\* The first record was replayed before: say which one was the last.
Replay(q) == q.recs # << >> /\ q.recs[1].sid <= last

Accepted(q) ==
  /\ ~Locked /\ UNCHANGED used
  /\ IF Replay(q) THEN Answer(q, "already", last)
     ELSE calls' = (calls \ {q}) \cup {[q EXCEPT !.st = "run"]}

\* ValidateRHandle, ValidateReintegrateParms.
Start ==
  \E q \in calls :
    /\ q.st = "net"
    /\ IF q.kind = "close" /\ q.handle # epoch
       THEN Answer(q, "badf", 0) /\ UNCHANGED used
       ELSE Refused(q) \/ Accepted(q)
    /\ UNCHANGED <<c, client, shadow, log, pc, more, server, others, history>>

\* GetReintegrateObjects: the records whose file is not there, or is there already.
Missing(recs) ==
  {i \in DOMAIN recs :
     IF recs[i].op = "create" THEN srv[recs[i].fid].st # "absent"
     ELSE ~IsFile(srv[recs[i].fid]) /\ \A j \in 1 .. i - 1 : recs[j].fid # recs[i].fid}

\* The bug of a version check that accepts any version.
ReintNormalVCmp_Any(file, r) == TRUE

\* ReintNormalVCmp: the file has the version the client started from.
ReintNormalVCmp(file, r) == file.sid = r.base

\* CheckSemanticsAndPerform, one record: FALSE if a check fails.
CheckSemantics(files, r) ==
  CASE r.op = "create" -> <<"create", r.fid>> \notin taken
    [] r.op = "rename" -> <<"rename", r.fid>> \notin taken /\ ReintNormalVCmp(files[r.fid], r)
    [] OTHER -> ReintNormalVCmp(files[r.fid], r)

\* data[f] is what the bulk transfer brings for file f.
PerformOne(files, r, data) ==
  [files EXCEPT ![r.fid] =
     [st |-> IF r.op = "remove" THEN "gone" ELSE "file",
      at |-> [a \in Attrs |-> IF a \notin Writes(r.op) THEN @.at[a]
                              ELSE IF r.op = "store" /\ a = "data" THEN data[r.fid] ELSE r.val],
      sid |-> r.sid]]

\* The files after the records, and the first record that fails (0: none).
PerformAll(recs, data) ==
  FoldLeft(LAMBDA st, i : IF st.failed # 0 THEN st
                          ELSE IF CheckSemantics(st.files, recs[i])
                               THEN [st EXCEPT !.files = PerformOne(@, recs[i], data)]
                               ELSE [st EXCEPT !.failed = i],
           [files |-> srv, failed |-> 0],
           [i \in DOMAIN recs |-> i])

\* The stores of a batch whose data is fetched back: the last one of each file that
\* is not removed by the batch.
Backfetched(recs) ==
  {i \in DOMAIN recs : recs[i].op = "store" /\
     \A j \in i + 1 .. Len(recs) : recs[j].fid = recs[i].fid => recs[j].op \notin {"store", "remove"}}

\* CallBackFetch: from the shadow copy, or one made on the spot.
BackfetchData ==
  [f \in Fids |-> IF shadow[f].n > 0 THEN shadow[f].data ELSE local[f].at.data]
MakeShadows(fs) ==
  [f \in Fids |-> IF f \in fs /\ shadow[f].n = 0 THEN [n |-> 1, data |-> BackfetchData[f]]
                  ELSE shadow[f]]

Perform ==
  \E q \in calls :
    LET recs == q.recs
        data == IF q.kind = "close" THEN [f \in Fids |-> q.data] ELSE BackfetchData
        result == PerformAll(recs, data)
        fetched == IF q.kind = "close" THEN {} ELSE Backfetched(recs)
    IN
    /\ q.st = "run"
    /\ \/ /\ Missing(recs) # {}
          /\ Answer(q, "failed", Min(Missing(recs)))
          /\ UNCHANGED <<server, shadow>>
       \/ /\ Missing(recs) = {} /\ result.failed # 0
          /\ Answer(q, "failed", result.failed)
          /\ UNCHANGED <<server, shadow>>
       \/ /\ Missing(recs) = {} /\ result.failed = 0
          /\ \E i \in fetched : data[recs[i].fid] # recs[i].val   \* a length discrepancy
          /\ Answer(q, "failed", -1)
          /\ UNCHANGED server /\ shadow' = MakeShadows({recs[i].fid : i \in fetched})
       \/ /\ Missing(recs) = {} /\ result.failed = 0
          /\ Answer(q, "ok", 0)
          /\ srv' = result.files
          /\ last' = IF recs = << >> THEN last ELSE recs[Len(recs)].sid
          /\ applied' = applied \cup {recs[i].sid : i \in DOMAIN recs}
          /\ shadow' = MakeShadows({recs[i].fid : i \in fetched})
          /\ UNCHANGED epoch
    /\ UNCHANGED <<c, client, log, pc, more, others, used, history>>

Server == Start \/ Perform

-----------------------------------------------------------------------------
(* Another client, and failures.                                                   *)

\* Another client updates or removes a file, or uses a name we are going to use.
PartnerUpdate(f) ==
  /\ ~Locked /\ Fault("partner") /\ IsFile(srv[f])
  /\ \/ srv' = [srv EXCEPT ![f] = [@ EXCEPT !.at.data = -2 - used.partner, !.sid = -1 - used.partner]]
     \/ srv' = [srv EXCEPT ![f].st = "gone"]
  /\ touched' = touched \cup {f}
  /\ UNCHANGED <<c, client, shadow, log, pc, more, calls, last, epoch, applied, taken, history>>

PartnerTakes(op, f) ==
  /\ ~Locked /\ Fault("partner") /\ \E o \in c.ops : o[1] = op /\ o[2] = f
  /\ op = "create" => ~IsFile(srv[f])
  /\ taken' = taken \cup {<<op, f>>}
  /\ UNCHANGED <<c, client, shadow, log, pc, more, calls, server, touched, history>>

\* A clean file whose callback was broken is fetched again.
Refetch(f) ==
  /\ UserMayRun /\ f \in touched /\ f \notin writing
  /\ \A i \in DOMAIN log : log[i].fid # f
  /\ local' = [local EXCEPT ![f] = [st |-> srv[f].st, at |-> srv[f].at]]
  /\ fsid' = [fsid EXCEPT ![f] = srv[f].sid]
  /\ touched' = touched \ {f}
  /\ UNCHANGED <<c, todo, count, writing, shadow, log, pc, more, calls, server, taken, used, history>>

\* The server restarts: the volume's list of reintegrators was only in memory.  Calls
\* it had received are gone; one still to come finds the new incarnation.
Restart ==
  /\ Fault("restart")
  /\ last' = 0 /\ epoch' = epoch + 1
  /\ \E kept \in SUBSET {q \in calls : q.st = "net"} : calls' = kept
  /\ UNCHANGED <<c, client, shadow, log, pc, more, srv, applied, others, history>>

\* Venus restarts, with all of its transactions flushed and no call being executed:
\* the log and the cache are as they were, the shadow copies are gone.
VenusCrash ==
  /\ pc \notin Stopped /\ writing = {} /\ ~Locked /\ Fault("crash")
  /\ shadow' = [f \in Fids |-> NoShadow]
  /\ log' = Map(log, LAMBDA m : [m EXCEPT !.failed = FALSE, !.tid = FALSE])
  /\ pc' = "idle" /\ more' = FALSE /\ calls' = {}
  /\ GivenUp
  /\ UNCHANGED <<c, client, server, others, committed>>

User == \E f \in Fids : (\E op \in {o[1] : o \in todo} : LocalOp(op, f)) \/ Open(f) \/ Close(f)
Partner == \E f \in Fids : PartnerUpdate(f) \/ (\E op \in {"create", "rename"} : PartnerTakes(op, f))

Next ==
  \/ User \/ Reintegrator \/ Server \/ Partner \/ Restart \/ VenusCrash
  \/ (TimedOut /\ used' # used) \/ SendTimesOut
  \/ \E f \in Fids : Refetch(f)

\* Venus's volume daemon keeps starting reintegrations, and a call that is not lost
\* is executed and answered.
Fairness == WF_vars(Reintegrator) /\ WF_vars(Start) /\ WF_vars(Perform)
Spec == Init /\ [][Next]_vars /\ Fairness

-----------------------------------------------------------------------------
\* Every variable is in its range, and what the flags of a record say fits together.
TypeOK ==
  /\ pc \in {"idle", "iter", "handle", "close", "reint", "sleep", "check"} \cup Stopped
  /\ \A f \in Fids : local[f].st \in {"absent", "file", "gone"} /\ local[f].at \in [Attrs -> Int]
  /\ \A f \in Fids : shadow[f].n >= 0 /\ fsid[f] \in Int
  /\ \A i, j \in DOMAIN log : i < j => log[i].sid < log[j].sid
  /\ \A i \in DOMAIN log : log[i].tid => log[i].frozen
  /\ pc \in {"close", "reint"} => Cardinality({q \in calls : q.mine}) <= 1
  /\ writing \subseteq Fids

\* The types are right and no assertion fails, but for two cases.  IncCommit finds the
\* log empty only after a refused call, when CancelPending has emptied the round that is repeated;
\* WriteReintegrationHandle misses its data only after a restart of Venus, which
\* leaves a store frozen and drops its shadow copy.
LogOK ==
  /\ TypeOK /\ pc # "dead"
  /\ pc = "empty" => used.busy > 0 \/ (c.late /\ used.loss > 0)
  /\ pc = "choked" => used.crash > 0

\* CancelPending always follows an answer that settles its round: stores are in the
\* batch (CancelPending also follows a CloseReintHandle that timed out), no call is
\* executed late or refused, and the server has not forgotten what it performed.
AnswersSettle == c.backfetch /\ ~c.fat /\ ~c.late /\ used.busy + used.restart = 0
\* Otherwise what became of the records of a call that was given up is in doubt.
InDoubt == IF AnswersSettle THEN {} ELSE unsure

InLog(s) == \E i \in DOMAIN log : log[i].sid = s
\* A record in doubt was cancelled, and the server has performed it.
CancelledInDoubt == \E u \in InDoubt : u[1] \in applied \ committed /\ ~InLog(u[1])

\* What a user did is not lost, unless a record in doubt was cancelled: each attribute
\* of a cached file that no other client has touched has its value in a record of the
\* log or at the server, and a removed file is gone there or will be (or is left to
\* the repair of its create).
NoLostUpdate ==
  CancelledInDoubt \/
  \A f \in Fids \ touched :
    LET mine == {i \in DOMAIN log : log[i].fid = f} IN
    /\ IsFile(local[f]) =>
         \A a \in Attrs :
           \/ f \in writing /\ a \in {"data", "date"}
           \/ \E i \in mine : a \in Writes(log[i].op) /\ log[i].val = local[f].at[a]
           \/ IsFile(srv[f]) /\ srv[f].at[a] = local[f].at[a]
    /\ local[f].st = "gone" =>
         \/ \E i \in mine : log[i].op = "remove" \/ log[i].repair
         \/ ~IsFile(srv[f]) /\ mine = {}

\* A record the server performed is never cancelled: it stays until it is committed
\* (CancelPending is for failures whose outcome is known).
CancelSafe == \A s \in applied \ committed : InLog(s)

\* The server's version of f is from a record that has left the log, and the cached
\* file does not have that version.
Missed(f) == srv[f].sid \in applied /\ ~InLog(srv[f].sid) /\ fsid[f] # srv[f].sid

\* The log agrees with the server, however calls, answers, losses and retries
\* interleave.  A record leaves it as committed only after the server performed it,
\* unless one was cancelled in doubt (EALREADY then commits the whole round); one that
\* the server performed is cancelled only in doubt; and the cached file has the version
\* its committed records made, unless one of them was in doubt or, in a replicated
\* volume, EALREADY committed a part of a call that was given up.
LogAgrees ==
  /\ CancelledInDoubt \/ committed \subseteq applied
  /\ \A s \in applied \ committed : InLog(s) \/ \E u \in InDoubt : u[1] = s
  /\ \A f \in Fids : Missed(f) =>
       \E u \in (IF c.replicated THEN unsure ELSE InDoubt) : u[2] = f

\* The data of store i have been replaced, while its record was kept for a chown that
\* follows it, or was frozen when a later store, or the removal of the file, came.
Replaced(i) ==
  LET f == log[i].fid IN
  /\ log[i].op = "store" /\ log[i].val # local[f].at.data
  /\ local[f].st = "gone" \/ \E j \in Of(log, f, "chown") \cup Of(log, f, "store") : j > i

\* A local/global conflict has a cause: another client was there, or the cached file
\* misses a version this client made, or the data of a store (which fails its whole
\* batch) are no longer those of its record.  A loss, a busy volume or an update made
\* meanwhile is none by itself.  A restart can be one, and so can a loss and a refusal
\* together: the property is about the other behaviours.
ConflictIsReal ==
  used.restart + used.crash = 0 /\ (used.loss = 0 \/ used.busy = 0) =>
    LET conflicts == {i \in DOMAIN log : log[i].repair} IN
    \A i \in conflicts :
      LET f == log[i].fid IN
      \/ f \in touched \/ \E t \in taken : t[2] = f
      \/ Missed(f) \/ f \in exposed \/ \E j \in conflicts : Replaced(j)

\* Replaying the log never overwrites or removes another client's version of a file
\* that this client has not seen.
NoBlindUpdate ==
  [][\A f \in Fids : srv'[f] # srv[f] /\ f \in touched => used'.partner > used.partner]_vars

\* The data of a file somebody is writing do not reach the server: CancelStores and
\* the shadow copies see to it, but for a file that was open when Reintegrate went
\* another round, which CancelStores does not precede, or whose frozen store lost its
\* shadow copy before the server asked for it (exposed).
NoTornData == \A f \in Fids \ exposed : IsFile(srv[f]) => srv[f].at.data # TORN

\* The log is emptied or stops at a record to be repaired, unless Venus choked.
Drains == <>[](log = << >> \/ log[1].repair \/ pc = "choked")
=============================================================================
