---------------------------- MODULE Replication ----------------------------
(***************************************************************************)
(* Updates of one replicated file, and the resolution of its replicas.     *)
(*                                                                         *)
(* A client sends an update to all servers of the volume storage group     *)
(* (COP1, here the reintegration of a store).  A server that performs it   *)
(* counts it in its own slot of the version vector only, remembers it in   *)
(* the COP pending table and marks the vector COP2PENDING.  The client     *)
(* collects who performed it, the update set, and sends that in a second   *)
(* message (COP2), on which a server counts the update in the other slots. *)
(* Any of these messages may be lost or late.  A server that is asked to   *)
(* resolve the file locks the volume at all servers, reads the vectors and *)
(* forces the maximal vector, or the dominant contents, on the others, or  *)
(* marks the file inconsistent.                                            *)
(*                                                                         *)
(* hist, perf and fresh are history variables: the updates contained in    *)
(* the contents an update wrote, the updates each server performed, and    *)
(* the update a server has so far counted in its own slot only.            *)
(***************************************************************************)
EXTENDS ReplicationData, Sequences

CONSTANTS
    Clients,
    Configs    \* the environments the system is put in, see ConfigType

EnvElements ==
    {"cop2",     \* COP2s reach the servers
     "late",     \* a COP2 is processed after its update was counted otherwise
     "reply",    \* the reply of a call that was executed may be lost
     "cut",      \* calls of a coordinator time out
     "crash",    \* servers crash and restart
     "expire",   \* an entry of a COP pending table outlasts CPTIMEOUT
     "overrun"}  \* a resolution outlasts LQTIMEOUT

\* The servers of the VSG, those that may be asked to resolve, the active clients,
\* the StoreIds they have, what may happen, and bounds for the number of
\* resolutions and of faults.
ConfigType ==
    [hosts : SUBSET Slots, coords : SUBSET Slots, clients : SUBSET Clients,
     updates : SUBSET StoreIds, env : SUBSET EnvElements,
     resolutions : Nat, faults : Nat]

ASSUME ConfigAssumption == Configs \subseteq ConfigType

VARIABLES
    cf,            \* the configuration, never changes
    vv,            \* server: the version vector of the vnode (recoverable)
    pending,       \* server: its VV_COP2PENDING flag (recoverable)
    data,          \* server: the update whose contents the file has (recoverable)
    coppend,       \* server: StoreIds in the COP pending table
    reintegrators, \* server: the last StoreId reintegrated for each client
    vollock,       \* server: V_VolLock.IPAddress, the coordinator that has the volume
    cache,         \* client: stat.VV of the cached object
    op,            \* client: the ViceReintegrate it has out, or NULL
    cop2_list,     \* client: updates whose COP2 is to be sent, oldest first
    res,           \* server: the resolution it coordinates
    used,          \* the resolutions and faults there have been
    hist, perf, fresh

server == <<vv, pending, data, coppend, reintegrators>>
client == <<cache, op, cop2_list>>
history == <<hist, perf, fresh>>
vars == <<cf, server, vollock, client, res, used, history>>

Hosts == cf.hosts
May(e) == e \in cf.env

Fault(e) == May(e) /\ used.faults < cf.faults
Faults(n) == used' = [used EXCEPT !.faults = @ + n]

\* Whether the reply of a call that was executed comes back.
Replies == IF Fault("reply") THEN BOOLEAN ELSE {TRUE}
Reply(r) == Faults(IF r THEN 0 ELSE 1)

Init ==
    /\ cf \in Configs
    /\ vv = [s \in Slots |-> ZeroVV]
    /\ pending = [s \in Slots |-> FALSE]
    /\ data = [s \in Slots |-> NullSid]
    /\ coppend = [s \in Slots |-> {}]
    /\ reintegrators = [s \in Slots |-> [c \in Clients |-> NullSid]]
    /\ vollock = [s \in Slots |-> NULL]
    /\ cache = [c \in Clients |-> ZeroVV]
    /\ op = [c \in Clients |-> NULL]
    /\ cop2_list = [c \in Clients |-> << >>]
    /\ res = [s \in Slots |-> IdleRes]
    /\ used = [resolutions |-> 0, faults |-> 0]
    /\ hist = [u \in StoreIds |-> {}]
    /\ perf = [s \in Slots |-> {}]
    /\ fresh = [s \in Slots |-> NullSid]

-----------------------------------------------------------------------------
(* COP2 at a server.                                                       *)

(***************************************************************************)
(* The COP pending table once only update u, if any, is not counted in the *)
(* other slots: the entries of earlier updates are still there, unless     *)
(* CPTIMEOUT has passed by then, which is so if no COP2 is late.           *)
(***************************************************************************)
Outdated(entries, u) == IF May("late") THEN entries ELSE entries \cap {u}

(***************************************************************************)
(* InternalCOP2.  The entry leaves the COP pending table in any case; the  *)
(* vector changes if this server is in the update set and the vnode has    *)
(* the pending flag, whichever update set the flag.                        *)
(***************************************************************************)
InternalCOP2(s, u, US) ==
    /\ coppend' = [coppend EXCEPT ![s] = @ \ {u}]
    /\ IF u \in coppend[s] /\ s \in US /\ pending[s]
       THEN /\ vv' = [vv EXCEPT ![s] = COP2Update(@, s, US)]
            /\ pending' = [pending EXCEPT ![s] = FALSE]
            /\ fresh' = [fresh EXCEPT ![s] = NullSid]
       ELSE UNCHANGED <<vv, pending, fresh>>
    /\ UNCHANGED <<data, reintegrators>>

\* cpman::func: an entry older than CPTIMEOUT is dropped.
ExpireCOP2(s, u) ==
    /\ u \in coppend[s] /\ Fault("expire") /\ Faults(1)
    /\ coppend' = [coppend EXCEPT ![s] = @ \ {u}]
    /\ UNCHANGED <<cf, vv, pending, data, reintegrators, vollock, client, res, history>>

-----------------------------------------------------------------------------
(* The client: fetches, updates and COP2 messages.                         *)

(***************************************************************************)
(* GetAttr with the replies of the servers in G: without a dominant vector *)
(* the object has to be resolved first; otherwise the status of a dominant *)
(* host is taken.                                                          *)
(***************************************************************************)
GetAttr(c, G) ==
    /\ c \in cf.clients /\ op[c] = NULL
    /\ \E d \in G :
         /\ \A s \in G : VV_Cmp(vv[d], vv[s]) \in {"EQ", "DOM"}
         /\ cache' = [cache EXCEPT ![c] = vv[d]]
    /\ UNCHANGED <<cf, server, vollock, op, cop2_list, res, used, history>>

Unused(u) == u # NullSid /\ hist[u] = {}

\* A ViceReintegrate call to every server.
Call(u, base) ==
    [sid |-> u, base |-> base, todo |-> Hosts, UpdateSet |-> {}, codes |-> {}]

\* An update of the cached version, under a new StoreId, is sent to all servers.
BeginUpdate(c, u) ==
    /\ c \in cf.clients /\ u \in cf.updates /\ op[c] = NULL
    /\ Unused(u) /\ \A w \in StoreIds : Unused(w) => u <= w
    /\ op' = [op EXCEPT ![c] = Call(u, cache[c])]
    /\ hist' = [hist EXCEPT ![u] = hist[cache[c].StoreId] \cup {u}]
    /\ UNCHANGED <<cf, server, vollock, cache, cop2_list, res, used, perf, fresh>>

(***************************************************************************)
(* Phase 0 of FS_ViceReintegrate: the call carries the COP2s of the list,  *)
(* and they have been processed (DeliverCOP2) when the rest begins.        *)
(***************************************************************************)
Executes(c, s) ==
    /\ op[c] # NULL /\ s \in op[c].todo
    /\ \A i \in DOMAIN cop2_list[c] : cop2_list[c][i].sid \notin coppend[s]

\* Mutant: the version the update was made from is not compared.
Outcome_AnyVersion(c, s) ==
    IF vollock[s] # NULL THEN "busy"
    ELSE IF op[c].sid <= reintegrators[s][c] THEN "already"
    ELSE IF IsIncon(vv[s]) THEN "inconsistent" ELSE "ok"

\* The outcome of the reintegration at server s, by the checks in their order.
Outcome(c, s) ==
    IF vollock[s] # NULL THEN "busy"
    ELSE IF op[c].sid <= reintegrators[s][c] THEN "already"
    ELSE IF IsIncon(vv[s]) THEN "inconsistent"
    ELSE IF SID_EQ(vv[s], op[c].base) THEN "ok" ELSE "incompatible"

\* Phases I to IV: the update is performed.
COP1(c, s) ==
    /\ Executes(c, s) /\ Outcome(c, s) = "ok"
    /\ vv' = [vv EXCEPT ![s] =
                NewCOP1Update(HandleWeakEquality(@, op[c].base), s, op[c].sid)]
    /\ data' = [data EXCEPT ![s] = op[c].sid]
    /\ pending' = [pending EXCEPT ![s] = TRUE]
    /\ coppend' = [coppend EXCEPT ![s] = Outdated(@ \cup {op[c].sid}, op[c].sid)]
    /\ reintegrators' = [reintegrators EXCEPT ![s][c] = op[c].sid]
    /\ perf' = [perf EXCEPT ![s] = @ \cup {op[c].sid}]
    /\ fresh' = [fresh EXCEPT ![s] = op[c].sid]
    /\ \E r \in Replies : Reply(r) /\ op' = [op EXCEPT ![c] = Performed(@, s, r)]
    /\ UNCHANGED <<cf, vollock, cache, cop2_list, res, hist>>

\* The server refuses.
COP1Refused(c, s) ==
    /\ Executes(c, s) /\ Outcome(c, s) # "ok"
    /\ op' = [op EXCEPT ![c] = Refused(@, s, Outcome(c, s))]
    /\ UNCHANGED <<cf, server, vollock, cache, cop2_list, res, used, history>>

\* The server is out of reach, or the connection breaks.
COP1TimesOut(c, s) ==
    /\ op[c] # NULL /\ s \in op[c].todo
    /\ op' = [op EXCEPT ![c].todo = @ \ {s}]
    /\ UNCHANGED <<cf, server, vollock, cache, cop2_list, res, used, history>>

(***************************************************************************)
(* CheckReintegrate, IncCommit and cmlent::commit.  The update is          *)
(* committed if some server performed it now, or had performed it before,  *)
(* and its COP2 is queued.  Only a call that performed something clears    *)
(* the COP2s it carried.                                                   *)
(***************************************************************************)
Commit(c) ==
    /\ op[c] # NULL /\ op[c].todo = {}
    /\ op[c].UpdateSet # {} \/ "already" \in op[c].codes
    /\ cache' = [cache EXCEPT ![c] =
         [AddVVs(op[c].base, One(op[c].UpdateSet)) EXCEPT !.StoreId = op[c].sid]]
    /\ cop2_list' = [cop2_list EXCEPT ![c] =
         Append(IF op[c].UpdateSet = {} THEN @ ELSE << >>,
                [sid |-> op[c].sid, UpdateSet |-> op[c].UpdateSet])]
    /\ op' = [op EXCEPT ![c] = NULL]
    /\ UNCHANGED <<cf, server, vollock, res, used, history>>

Failed(c) ==
    op[c] # NULL /\ op[c].todo = {} /\ op[c].UpdateSet = {} /\ "already" \notin op[c].codes

\* ETIMEDOUT, EWOULDBLOCK, or ERETRY because the servers disagree: try again.
RetryUpdate(c) ==
    /\ Failed(c) /\ Cardinality(op[c].codes \ {"busy"}) # 1
    /\ op' = [op EXCEPT ![c] = Call(op[c].sid, op[c].base)]
    /\ UNCHANGED <<cf, server, vollock, cache, cop2_list, res, used, history>>

\* Other codes, or too many tries: the update becomes a local conflict.
GiveUp(c) ==
    /\ Failed(c) /\ op[c].codes # {}
    /\ op' = [op EXCEPT ![c] = NULL]
    /\ UNCHANGED <<cf, server, vollock, cache, cop2_list, res, used, history>>

(***************************************************************************)
(* FS_ViceCOP2 at server s, called from FlushCOP2 or carried by another    *)
(* call: the oldest update of the list that the server has pending.  A     *)
(* call that is lost, or repeated, changes nothing.                        *)
(***************************************************************************)
DeliverCOP2(c, s) ==
    /\ May("cop2")
    /\ \E i \in DOMAIN cop2_list[c] :
         LET e == cop2_list[c][i]
         IN /\ e.sid \in coppend[s]
            /\ \A j \in 1 .. i - 1 : cop2_list[c][j].sid \notin coppend[s]
            /\ InternalCOP2(s, e.sid, e.UpdateSet)
    /\ UNCHANGED <<cf, vollock, client, res, used, hist, perf>>

\* ClearCOP2: some server replied; or the list is lost when Venus restarts.
ClearCOP2(c) ==
    /\ cop2_list[c] # << >>
    /\ cop2_list' = [cop2_list EXCEPT ![c] = Tail(@)]
    /\ UNCHANGED <<cf, server, vollock, cache, op, res, used, history>>

-----------------------------------------------------------------------------
(* The coordinator of a resolution.  Its phases are lock, then forcevv, or *)
(* fetch and forcefile, or mark, and unlock; todo holds the servers the    *)
(* phase has still to hear from, members those of the group (res_mgrpent). *)

\* After a lock error only what this resolution is known to have locked.
ToUnlock(r) ==
    LET S == IF r.lockerror THEN r.members ELSE Hosts
    IN IF S = {} THEN IdleRes
       ELSE [IdleRes EXCEPT !.pc = "unlock", !.todo = S, !.held = r.held]

ToMark(r) ==
    IF r.members = {} THEN ToUnlock(r)
    ELSE [IdleRes EXCEPT !.pc = "mark", !.todo = r.members, !.members = r.members,
                         !.held = r.held, !.dead = r.dead]

\* What follows the locking: FileResolve, unless a lock or every server failed.
FileResolve(r) ==
    IF r.lockerror \/ r.members = {} THEN ToUnlock(r)
    ELSE IF r.weak THEN [r EXCEPT !.pc = "forcevv", !.todo = r.members]
    ELSE IF r.inc THEN ToMark(r)
    ELSE [r EXCEPT !.pc = "fetch"]

\* Server s has answered, or not; the last one ends the phase.
Proceed(r, s) ==
    LET q == [r EXCEPT !.todo = @ \ {s}]
    IN IF q.todo # {} THEN q
       ELSE CASE q.pc = "lock" -> FileResolve(q)
              [] q.pc \in {"forcevv", "forcefile"} ->
                    IF q.err THEN ToMark(q) ELSE ToUnlock(q)
              [] q.pc = "mark" -> ToUnlock(q)
              [] q.pc = "unlock" -> IdleRes

StartResolve(k) ==
    /\ k \in cf.coords /\ res[k].pc = "idle" /\ used.resolutions < cf.resolutions
    /\ used' = [used EXCEPT !.resolutions = @ + 1]
    /\ res' = [res EXCEPT ![k].pc = "lock", ![k].todo = Hosts]
    /\ UNCHANGED <<cf, server, vollock, client, history>>

\* The servers are called one by one, in the order of the slots.
NextToLock(k, s) ==
    /\ res[k].pc = "lock" /\ s \in res[k].todo
    /\ \A t \in res[k].todo : s <= t

\* The connection to s is broken, or the call times out.
Unreached(k, s) == (s \in res[k].dead /\ Faults(0)) \/ (Fault("cut") /\ Faults(1))

\* RS_LockAndFetch; without its reply the volume is locked all the same.
LockAndFetch(k, s) ==
    /\ NextToLock(k, s) /\ vollock[s] = NULL
    /\ vollock' = [vollock EXCEPT ![s] = k]
    /\ \E r \in Replies :
         /\ Reply(r)
         /\ LET q == [res[k] EXCEPT !.held = @ \cup {s}]
            IN res' = [res EXCEPT ![k] =
                         Proceed(IF r THEN AddAnswer(q, s, vv[s]) ELSE q, s)]
    /\ UNCHANGED <<cf, server, client, history>>

LockRefused(k, s) ==
    /\ NextToLock(k, s) /\ vollock[s] # NULL
    /\ res' = [res EXCEPT ![k] = Proceed([@ EXCEPT !.lockerror = TRUE], s)]
    /\ UNCHANGED <<cf, server, vollock, client, used, history>>

LockTimesOut(k, s) ==
    /\ NextToLock(k, s) /\ Fault("cut") /\ Faults(1)
    /\ res' = [res EXCEPT ![k] = Proceed(@, s)]
    /\ UNCHANGED <<cf, server, vollock, client, history>>

(***************************************************************************)
(* RS_ForceVV.  The vector is raised to the maximum, with the volume       *)
(* locked by the coordinator and the old vector not above the new one; the *)
(* pending flag is cleared, and the entry in the COP pending table stays.  *)
(***************************************************************************)
MayForce(k, s) ==
    /\ ~IsIncon(vv[s]) /\ vollock[s] = k
    /\ VV_Cmp(vv[s], res[k].newvv) \in {"EQ", "SUB"}

ForceVV(k, s) ==
    /\ res[k].pc = "forcevv" /\ s \in res[k].todo \ res[k].dead
    /\ IF MayForce(k, s)
       THEN /\ vv' = [vv EXCEPT ![s].Versions = res[k].newvv.Versions]
            /\ pending' = [pending EXCEPT ![s] = FALSE]
            /\ fresh' = [fresh EXCEPT ![s] = NullSid]
            /\ coppend' = [coppend EXCEPT ![s] = Outdated(@, NullSid)]
       ELSE UNCHANGED <<vv, pending, coppend, fresh>>
    /\ \E r \in Replies :
         /\ Reply(r)
         /\ res' = [res EXCEPT ![k] =
                      Proceed(IF r THEN [res[k] EXCEPT !.err = @ \/ ~MayForce(k, s)]
                              ELSE [res[k] EXCEPT !.members = @ \ {s}], s)]
    /\ UNCHANGED <<cf, data, reintegrators, vollock, client, hist, perf>>

\* Res_FetchFile succeeds.
Fetched(k) ==
    /\ res[k].pc = "fetch" /\ res[k].dix \notin res[k].dead
    /\ ~IsIncon(vv[res[k].dix])

\* The contents of the dominant file.
FetchFile(k) ==
    /\ Fetched(k) /\ Assertion(res[k])
    /\ res' = [res EXCEPT ![k].pc = "forcefile", ![k].todo = res[k].members,
                          ![k].file = data[res[k].dix]]
    /\ UNCHANGED <<cf, server, vollock, client, used, history>>

\* An error or a timeout: the object is marked inconsistent.
FetchFails(k) ==
    /\ res[k].pc = "fetch"
    /\ Unreached(k, res[k].dix) \/ (IsIncon(vv[res[k].dix]) /\ Faults(0))
    /\ res' = [res EXCEPT ![k] = ToMark(@)]
    /\ UNCHANGED <<cf, server, vollock, client, history>>

(***************************************************************************)
(* RS_ForceFile.  A server below the new vector takes contents, vector and *)
(* StoreId; but no contents are sent (OMITSE) to the undominated ones, and *)
(* the call fails there if the maximum is above their own vector.          *)
(***************************************************************************)
ForceFile(k, s) ==
    /\ res[k].pc = "forcefile" /\ s \in res[k].todo \ res[k].dead
    /\ LET sub == VV_Cmp(vv[s], res[k].newvv) = "SUB"
           ok == MayForce(k, s) /\ (sub => s \notin Undominated(res[k]))
       IN /\ IF ok /\ sub
             THEN /\ vv' = [vv EXCEPT ![s] = Forced(@, res[k].newvv)]
                  /\ data' = [data EXCEPT ![s] = res[k].file]
                  /\ fresh' = [fresh EXCEPT ![s] = NullSid]
                  /\ coppend' = [coppend EXCEPT ![s] = Outdated(@, NullSid)]
             ELSE UNCHANGED <<vv, data, coppend, fresh>>
          /\ \E r \in Replies :
               /\ Reply(r)
               /\ res' = [res EXCEPT ![k] =
                            Proceed(IF r /\ ok THEN res[k]
                                    ELSE [res[k] EXCEPT !.members = @ \ {s}, !.err = @ \/ r],
                                    s)]
    /\ UNCHANGED <<cf, pending, reintegrators, vollock, client, hist, perf>>

\* A ForceVV or ForceFile that is not executed: the server leaves the group.
ForceTimesOut(k, s) ==
    /\ res[k].pc \in {"forcevv", "forcefile"} /\ s \in res[k].todo
    /\ Unreached(k, s)
    /\ res' = [res EXCEPT ![k] = Proceed([res[k] EXCEPT !.members = @ \ {s}], s)]
    /\ UNCHANGED <<cf, server, vollock, client, history>>

\* RS_MarkInc, which does not look at the lock.
MarkInc(k, s) ==
    /\ res[k].pc = "mark" /\ s \in res[k].todo
    /\ \/ /\ s \notin res[k].dead
          /\ vv' = [vv EXCEPT ![s].Incon = TRUE] /\ Faults(0)
       \/ UNCHANGED vv /\ Unreached(k, s)
    /\ res' = [res EXCEPT ![k] = Proceed(@, s)]
    /\ UNCHANGED <<cf, pending, data, coppend, reintegrators, vollock, client, history>>

\* RS_UnlockVol, by the one that locked; the call may be lost.
UnlockVol(k, s) ==
    /\ res[k].pc = "unlock" /\ s \in res[k].todo
    /\ \/ vollock' = [vollock EXCEPT ![s] = IF @ = k THEN NULL ELSE @] /\ Faults(0)
       \/ UNCHANGED vollock /\ Unreached(k, s)
    /\ res' = [res EXCEPT ![k] = Proceed([res[k] EXCEPT !.held = @ \ {s}], s)]
    /\ UNCHANGED <<cf, server, client, history>>

(***************************************************************************)
(* lqman::func: a volume locked for LQTIMEOUT is unlocked.  Unless a       *)
(* resolution may take that long, the one that locked it is over.          *)
(***************************************************************************)
LockExpires(s) ==
    /\ vollock[s] # NULL
    /\ \/ s \notin res[vollock[s]].held /\ Faults(0)
       \/ Fault("overrun") /\ Faults(1)
    /\ vollock' = [vollock EXCEPT ![s] = NULL]
    /\ UNCHANGED <<cf, server, client, res, history>>

-----------------------------------------------------------------------------

(***************************************************************************)
(* Server s loses its tables and locks, the resolution it coordinates and  *)
(* its connections.                                                        *)
(***************************************************************************)
Restart(s) ==
    /\ coppend' = [coppend EXCEPT ![s] = {}]
    /\ reintegrators' = [reintegrators EXCEPT ![s] = [c \in Clients |-> NullSid]]
    /\ vollock' = [vollock EXCEPT ![s] = NULL]
    /\ res' = [k \in Slots |->
                 IF k = s \/ res[k].pc = "idle" THEN IdleRes
                 ELSE [res[k] EXCEPT !.dead = @ \cup {s}]]
    /\ op' = [c \in Clients |->
                IF op[c] = NULL THEN NULL ELSE [op[c] EXCEPT !.todo = @ \ {s}]]
    /\ UNCHANGED <<cf, vv, pending, data, cache, cop2_list, history>>

Crash(s) == Fault("crash") /\ s \in Hosts /\ Restart(s) /\ Faults(1)

\* The assertion fails: the coordinator dies.
AssertFails(k) == Fetched(k) /\ ~Assertion(res[k]) /\ Restart(k) /\ Faults(0)

ResolveStep(k) ==
    \/ \E s \in Slots :
         \/ LockAndFetch(k, s) \/ LockRefused(k, s) \/ LockTimesOut(k, s)
         \/ ForceVV(k, s) \/ ForceFile(k, s) \/ ForceTimesOut(k, s)
         \/ MarkInc(k, s) \/ UnlockVol(k, s)
    \/ FetchFile(k) \/ FetchFails(k) \/ AssertFails(k)

ClientStep(c) ==
    \/ \E G \in SUBSET Hosts : GetAttr(c, G)
    \/ \E u \in StoreIds : BeginUpdate(c, u)
    \/ Commit(c) \/ RetryUpdate(c) \/ GiveUp(c) \/ ClearCOP2(c)
    \/ \E s \in Slots :
         \/ COP1(c, s) \/ COP1Refused(c, s) \/ COP1TimesOut(c, s)
         \/ DeliverCOP2(c, s)

Next ==
    \/ \E c \in Clients : ClientStep(c)
    \/ \E k \in Slots : StartResolve(k) \/ ResolveStep(k)
    \/ \E s \in Slots : LockExpires(s) \/ Crash(s) \/ \E u \in StoreIds : ExpireCOP2(s, u)

Spec == Init /\ [][Next]_vars

-----------------------------------------------------------------------------

\* Every variable keeps its type, and the records of the coordinators are in order.
TypeOK ==
    /\ cf \in Configs
    /\ vv \in [Slots -> VV]
    /\ pending \in [Slots -> BOOLEAN]
    /\ data \in [Slots -> StoreIds]
    /\ coppend \in [Slots -> SUBSET StoreIds]
    /\ reintegrators \in [Slots -> [Clients -> StoreIds]]
    /\ vollock \in [Slots -> Slots \cup {NULL}]
    /\ cache \in [Clients -> VV]
    /\ op \in [Clients -> OpType \cup {NULL}]
    /\ cop2_list \in [Clients -> Seq(Entry)]
    /\ ResOK(res)
    /\ used \in [resolutions : Nat, faults : Nat]
    /\ hist \in [StoreIds -> SUBSET StoreIds]
    /\ perf \in [Slots -> SUBSET StoreIds]
    /\ fresh \in [Slots -> StoreIds]

\* A slot counts only updates that its server performed, among those the contents
\* include, and each of them once.
CountedOnce ==
    \A i, j \in Slots :
        vv[i].Versions[j] <= Cardinality(hist[vv[i].StoreId] \cap perf[j])

\* An update is counted once, by COP2, by a resolution or by the next update,
\* whichever comes first, unless a COP2 is late.
SlotsCounted == ~May("late") => CountedOnce

\* What version vectors are for: a replica that dominates or equals another has
\* every update the other has, so that resolution may overwrite the other.
DominanceIsNewer ==
    ~May("late") =>
        \A i, j \in Slots :
            VV_Cmp(vv[i], vv[j]) \in {"EQ", "DOM"} =>
                hist[vv[j].StoreId] \subseteq hist[vv[i].StoreId]

\* No step, of a client or of a resolution, takes an update away from a replica.
UpdatesKept ==
    [][~May("late") =>
         \A i \in Slots : hist[vv[i].StoreId] \subseteq hist'[vv'[i].StoreId]]_vars

\* The contents of a replica are those of the update its StoreId names, as long as
\* no resolution outlasts its volume locks.
DataOfSid ==
    ~May("overrun") => \A i \in Slots : data[i] = vv[i].StoreId

\* CODA_ASSERT in FileResolve: after the submissive vectors are excluded, what is
\* left is consistent or weakly equal.
AssertHolds == \A k \in Slots : Fetched(k) => Assertion(res[k])

=============================================================================
