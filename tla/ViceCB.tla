-------------------------------- MODULE ViceCB --------------------------------
(***************************************************************************)
(* The callback table of the file server (vice/vicecb.cc) and the threads   *)
(* that use it: fetches and volume validations add callbacks, updates break *)
(* them with a CallBack RPC to every host concerned, and the liveness check *)
(* and the bind of a callback connection (vice/clientproc.cc) remove and    *)
(* add hosts.  LWPs are not preempted: a thread runs from one wait (a lock, *)
(* an RPC) to the next, which the variable running enforces.                *)
(***************************************************************************)
EXTENDS Integers, Sequences, FiniteSets, FiniteSetsExt, Functions

CONSTANTS Threads,
          Hosts,    \* slots of hostTable[], the numbers are their addresses
          Files,    \* vnode numbers of the files, all in one volume
          Entries,  \* the FileEntry structures
          Ops,      \* the calls that arrive
          NONE

ASSUME ViceCBAssumption ==
  /\ IsFiniteSet(Threads) /\ IsFiniteSet(Hosts) /\ IsFiniteSet(Files) /\ IsFiniteSet(Entries)
  /\ Hosts \subseteq Nat /\ Files \subseteq Nat \ {0}
  /\ Cardinality(Entries) > Cardinality(Files)
  /\ Ops \subseteq {"fetch", "validate", "update", "remove", "check", "connect"}
  /\ NONE \notin Threads \cup Hosts \cup Entries

VolFid == 0                     \* Vnode = Unique = 0 names the volume
Fids == Files \cup {VolFid}

VARIABLES
  hashTable, \* FindEntry: the FileEntry of a fid
  FEFree,    \* the free list of FileEntries
  conns,     \* the hosts on the callBacks list of a FileEntry
  dead,      \* how many CallBackEntries of the list have conn = 0
  users,     \* FileEntry.users
  cblock,    \* the thread that holds FileEntry.cblock
  hlock,     \* the thread that holds HostTable.lock
  id,        \* whether HostTable.id, the callback connection, is set
  th,        \* what each thread is doing
  running    \* the thread that has not yet reached its next wait

vars == <<hashTable, FEFree, conns, dead, users, cblock, hlock, id, th, running>>
table == <<hashTable, FEFree, conns, dead, users>>

Idle == [pc |-> "idle", file |-> NONE, client |-> NONE, fid |-> NONE, tf |-> NONE,
         todo |-> {}, locked |-> {}, told |-> {}, gone |-> {}]

\* The orders of a finite set.
Orders(S) == Bijection(1 .. Cardinality(S), S)

\* InitCallBack, GetFEBlock and CLIENT_InitHostTable.  The order of the entries
\* in their block does not matter.
Init ==
  /\ hashTable = [f \in Fids |-> NONE]
  /\ FEFree \in Orders(Entries)
  /\ conns = [e \in Entries |-> {}]
  /\ dead = [e \in Entries |-> 0]
  /\ users = [e \in Entries |-> 0]
  /\ cblock = [e \in Entries |-> NONE]
  /\ hlock = [h \in Hosts |-> NONE]
  /\ id = [h \in Hosts |-> FALSE]
  /\ th = [t \in Threads |-> Idle]
  /\ running = NONE

FindEntry(f) == hashTable[f]
Busy(e) == cblock[e] # NONE    \* CheckLock; cblock is only write locked
AtPc(t, p) == th[t].pc = p /\ running \in {NONE, t}
Goto(t, p) == [th EXCEPT ![t].pc = p]

\* The vnode lock of a file: an update holds it for writing from its begin to
\* its end, a fetch for reading while the data are transferred.
Updating == {"find", "cblock", "hosts", "reply", "sweep", "done"}
WriteLocked(f) == \E t \in Threads : th[t].file = f /\ th[t].pc \in Updating
ReadLocked(f) == \E t \in Threads : th[t].file = f /\ th[t].pc = "fetch"

------------------------------------------------------------------------------
\* AddCallBack.  A new FileEntry comes from the head of the free list.
\* Mutant: the check for a break in progress is missing.
AddCallBack_DuringBreak(h, f) ==
  LET new == FindEntry(f) = NONE
      tf == IF new THEN Head(FEFree) ELSE FindEntry(f)
      had == IF new THEN {} ELSE conns[tf]
  IN  /\ hashTable' = [hashTable EXCEPT ![f] = tf]
      /\ FEFree' = IF new THEN Tail(FEFree) ELSE FEFree
      /\ conns' = [conns EXCEPT ![tf] = had \cup {h}]
      /\ dead' = IF new THEN [dead EXCEPT ![tf] = 0] ELSE dead
      /\ users' = [users EXCEPT ![tf] = (IF new THEN 0 ELSE @) + (IF h \in had THEN 0 ELSE 1)]

AddCallBack(h, f) ==
  LET new == FindEntry(f) = NONE
      tf == IF new THEN Head(FEFree) ELSE FindEntry(f)
      had == IF new THEN {} ELSE conns[tf]
      add == IF Busy(tf) THEN {} ELSE {h} \ had
  IN  /\ hashTable' = [hashTable EXCEPT ![f] = tf]
      /\ FEFree' = IF new THEN Tail(FEFree) ELSE FEFree
      /\ conns' = [conns EXCEPT ![tf] = had \cup add]
      /\ dead' = IF new THEN [dead EXCEPT ![tf] = 0] ELSE dead
      /\ users' = [users EXCEPT ![tf] = (IF new THEN 0 ELSE @) + Cardinality(add)]

\* DeleteFileStruct for the entries of the fids F: each goes to the head of the
\* free list, one after the other in the order of the hash buckets, which is any.
Unhashed(F) == [f \in Fids |-> IF f \in F THEN NONE ELSE hashTable[f]]
Freed(F) == {s \o FEFree : s \in Orders({hashTable[f] : f \in F})}

\* The effect on the table of SDeleteCallBack(h, FindEntry(f)) for every <<h, f>>
\* of D: on a busy entry conn is cleared, otherwise the CallBackEntry is freed,
\* and the FileEntry with it when it was the last.
Gone(e, D) == {h \in conns[e] : \E f \in Fids : hashTable[f] = e /\ <<h, f>> \in D}
Left(e, D) == IF Busy(e) THEN users[e] ELSE users[e] - Cardinality(Gone(e, D))

\* Mutant: a busy entry is treated like any other.
SDeleteCallBacks_IgnoresBusy(D) ==
  LET left(e) == users[e] - Cardinality(Gone(e, D))
      hit == {f \in Fids : /\ hashTable[f] # NONE
                           /\ \E h \in Hosts : <<h, f>> \in D
                           /\ left(hashTable[f]) <= 0}
  IN  /\ conns' = [e \in Entries |-> conns[e] \ Gone(e, D)]
      /\ users' = [e \in Entries |-> left(e)]
      /\ hashTable' = Unhashed(hit) /\ FEFree' \in Freed(hit)
      /\ UNCHANGED dead

SDeleteCallBacks(D) ==
  LET hit == {f \in Fids : /\ hashTable[f] # NONE /\ ~Busy(hashTable[f])
                           /\ \E h \in Hosts : <<h, f>> \in D
                           /\ Left(hashTable[f], D) <= 0}
  IN  /\ conns' = [e \in Entries |-> conns[e] \ Gone(e, D)]
      /\ dead' = [e \in Entries |-> dead[e] + IF Busy(e) THEN Cardinality(Gone(e, D)) ELSE 0]
      /\ users' = [e \in Entries |-> Left(e, D)]
      /\ hashTable' = Unhashed(hit) /\ FEFree' \in Freed(hit)

\* DeleteVenus walks the whole table.
DeleteVenus(H) == H \X Fids

------------------------------------------------------------------------------
\* ViceFetch and ViceGetAttr: the callback is added when the transfer, during
\* which the thread waits, is over; the host may be gone by then.
BeginFetch(t, h, f) ==
  /\ "fetch" \in Ops
  /\ AtPc(t, "idle") /\ id[h] /\ ~WriteLocked(f)
  /\ th' = [th EXCEPT ![t] = [Idle EXCEPT !.pc = "fetch", !.file = f, !.client = h]]
  /\ UNCHANGED <<table, cblock, hlock, id, running>>

EndFetch(t) ==
  /\ AtPc(t, "fetch")
  /\ AddCallBack(th[t].client, th[t].file)
  /\ th' = [th EXCEPT ![t] = Idle]
  /\ UNCHANGED <<cblock, hlock, id, running>>

\* ViceGetVolVS and ViceValidateVols take no vnode lock and do not wait.
ValidateVolume(t, h) ==
  /\ "validate" \in Ops
  /\ AtPc(t, "idle") /\ id[h]
  /\ AddCallBack(h, VolFid)
  /\ UNCHANGED <<cblock, hlock, id, th, running>>

\* An update of the file f on behalf of the host c (NONE: a server): the vnode
\* is write locked and CodaBreakCallBack breaks the file's, then the volume's
\* callbacks.
\* Mutant: a fetch in progress does not hold the update up.
BeginUpdate_NoVnodeLock(t, c, f) ==
  /\ AtPc(t, "idle") /\ ~WriteLocked(f)
  /\ c # NONE => id[c]
  /\ th' = [th EXCEPT ![t] = [Idle EXCEPT !.pc = "find", !.file = f, !.client = c, !.fid = f]]
  /\ running' = t
  /\ UNCHANGED <<table, cblock, hlock, id>>

BeginUpdate(t, c, f) ==
  /\ AtPc(t, "idle") /\ ~WriteLocked(f) /\ ~ReadLocked(f)
  /\ c # NONE => id[c]
  /\ th' = [th EXCEPT ![t] = [Idle EXCEPT !.pc = "find", !.file = f, !.client = c, !.fid = f]]
  /\ running' = t
  /\ UNCHANGED <<table, cblock, hlock, id>>

\* BreakCallBack returns: on to the next fid, or back to the update.
Returned(r) ==
  [r EXCEPT !.pc = IF r.fid # VolFid THEN "find" ELSE "done",
            !.fid = VolFid, !.tf = NONE, !.locked = {}, !.told = {}, !.gone = {}]

\* BreakCallBack up to the lock.
BreakFind(t) ==
  /\ AtPc(t, "find")
  /\ th' = [th EXCEPT ![t] = IF FindEntry(th[t].fid) = NONE THEN Returned(@)
                             ELSE [@ EXCEPT !.pc = "cblock", !.tf = FindEntry(th[t].fid)]]
  /\ UNCHANGED <<table, cblock, hlock, id, running>>

\* A thread that finds a lock taken waits; others run.
LockWait(t) ==
  /\ running = t
  /\ \/ AtPc(t, "cblock") /\ Busy(th[t].tf)
     \/ AtPc(t, "hosts") /\ th[t].todo # {} /\ hlock[Min(th[t].todo)] # NONE
     \/ th[t].pc \in {"check", "connect"} /\ hlock[th[t].client] # NONE
  /\ running' = NONE
  /\ UNCHANGED <<table, cblock, hlock, id, th>>

\* The write lock is obtained, and the entry looked up again.
\* Mutant: the entry is not looked up again.
BreakLock_NoRecheck(t) ==
  LET r == th[t] IN
  /\ AtPc(t, "cblock") /\ ~Busy(r.tf)
  /\ cblock' = [cblock EXCEPT ![r.tf] = t]
  /\ th' = [th EXCEPT ![t].pc = "hosts", ![t].todo = conns[r.tf] \ {r.client}]
  /\ running' = t
  /\ UNCHANGED <<table, hlock, id>>

BreakLock(t) ==
  LET r == th[t] IN
  /\ AtPc(t, "cblock") /\ ~Busy(r.tf)
  /\ IF FindEntry(r.fid) # r.tf
     THEN /\ th' = [th EXCEPT ![t] = Returned(@)]
          /\ UNCHANGED cblock
     ELSE /\ cblock' = [cblock EXCEPT ![r.tf] = t]
          /\ th' = [th EXCEPT ![t].pc = "hosts", ![t].todo = conns[r.tf] \ {r.client}]
  /\ running' = t
  /\ UNCHANGED <<table, hlock, id>>

\* The hosts are locked in the order of their addresses (order_helist compares
\* the pointers); one whose callback connection is gone is let go.
\* Mutant: the hosts are locked in the order of the callback list, which can
\* be any.
BreakHosts_ListOrder(t) ==
  \E h \in th[t].todo :
    /\ AtPc(t, "hosts")
    /\ hlock[h] = NONE
    /\ hlock' = IF id[h] THEN [hlock EXCEPT ![h] = t] ELSE hlock
    /\ th' = IF id[h] THEN [th EXCEPT ![t].todo = @ \ {h}, ![t].locked = @ \cup {h}]
             ELSE [th EXCEPT ![t].todo = @ \ {h}, ![t].gone = @ \cup {h}]
    /\ running' = t
    /\ UNCHANGED <<table, cblock, id>>

BreakHosts(t) ==
  LET h == Min(th[t].todo) IN
  /\ AtPc(t, "hosts") /\ th[t].todo # {}
  /\ hlock[h] = NONE
  /\ hlock' = IF id[h] THEN [hlock EXCEPT ![h] = t] ELSE hlock
  /\ th' = IF id[h] THEN [th EXCEPT ![t].todo = @ \ {h}, ![t].locked = @ \cup {h}]
           ELSE [th EXCEPT ![t].todo = @ \ {h}, ![t].gone = @ \cup {h}]
  /\ running' = t
  /\ UNCHANGED <<table, cblock, id>>

\* MRPC_MakeMulti to the locked hosts; with none there is no call and no wait.
BreakSend(t) ==
  /\ AtPc(t, "hosts") /\ th[t].todo = {}
  /\ th' = Goto(t, IF th[t].locked = {} THEN "sweep" ELSE "reply")
  /\ running' = IF th[t].locked = {} THEN t ELSE NONE
  /\ UNCHANGED <<table, cblock, hlock, id>>

\* The MultiRPC is over; the calls to the hosts of failed timed out.
\* CLIENT_CleanUpHost forgets those hosts.
BreakReply(t, failed) ==
  LET r == th[t]
      D == (IF r.fid = VolFid THEN {} ELSE r.locked \X {VolFid}) \cup DeleteVenus(failed)
  IN  /\ AtPc(t, "reply") /\ failed \subseteq r.locked
      /\ SDeleteCallBacks(D)
      /\ id' = [h \in Hosts |-> id[h] /\ h \notin failed]
      /\ hlock' = [h \in Hosts |-> IF h \in r.locked THEN NONE ELSE hlock[h]]
      /\ th' = [th EXCEPT ![t].pc = "sweep", ![t].told = @ \cup r.locked, ![t].locked = {}]
      /\ running' = t
      /\ UNCHANGED cblock

\* The end of BreakCallBack: every CallBackEntry but the client's is freed.
BreakSweep(t) ==
  LET r == th[t]
      goodc == conns[r.tf] \cap {r.client}
  IN  /\ AtPc(t, "sweep")
      /\ cblock' = [cblock EXCEPT ![r.tf] = NONE]
      /\ conns' = [conns EXCEPT ![r.tf] = goodc]
      /\ dead' = [dead EXCEPT ![r.tf] = 0]
      /\ users' = IF goodc = {} THEN users ELSE [users EXCEPT ![r.tf] = 1]
      /\ hashTable' = IF goodc = {} THEN Unhashed({r.fid}) ELSE hashTable
      /\ FEFree' \in IF goodc = {} THEN Freed({r.fid}) ELSE {FEFree}
      /\ th' = [th EXCEPT ![t] = Returned(@)]
      /\ running' = t
      /\ UNCHANGED <<hlock, id>>

\* The update commits and unlocks the vnode; DeleteFile, if it removed the file.
EndUpdate(t, removed) ==
  LET f == th[t].file
      tf == FindEntry(f)
  IN  /\ AtPc(t, "done")
      /\ removed => "remove" \in Ops
      /\ IF ~removed \/ tf = NONE
         THEN UNCHANGED table
         ELSE IF Busy(tf)
         THEN /\ conns' = [conns EXCEPT ![tf] = {}]
              /\ dead' = [dead EXCEPT ![tf] = @ + Cardinality(conns[tf])]
              /\ UNCHANGED <<hashTable, FEFree, users>>
         ELSE /\ conns' = [conns EXCEPT ![tf] = {}]
              /\ hashTable' = Unhashed({f}) /\ FEFree' \in Freed({f})
              /\ UNCHANGED <<dead, users>>
      /\ th' = [th EXCEPT ![t] = Idle]
      /\ running' = NONE
      /\ UNCHANGED <<cblock, hlock, id>>

\* CLIENT_CallBackCheck (p = "check") probes a host that has been quiet, and
\* ViceNewConnectFS (p = "connect") builds the callback connection of a host.
BeginHost(t, p, h) ==
  /\ p \in Ops
  /\ AtPc(t, "idle")
  /\ p = "check" => id[h]
  /\ th' = [th EXCEPT ![t] = [Idle EXCEPT !.pc = p, !.client = h]]
  /\ running' = t
  /\ UNCHANGED <<table, cblock, hlock, id>>

\* The host is locked and called, unless the check finds its connection gone.
LockHost(t) ==
  LET h == th[t].client
      abandoned == th[t].pc = "check" /\ ~id[h]
  IN  /\ AtPc(t, "check") \/ AtPc(t, "connect")
      /\ hlock[h] = NONE
      /\ hlock' = [hlock EXCEPT ![h] = t]
      /\ th' = Goto(t, IF abandoned THEN "abandoned"
                       ELSE IF th[t].pc = "check" THEN "probe" ELSE "bind")
      /\ running' = IF abandoned THEN t ELSE NONE
      /\ UNCHANGED <<table, cblock, id>>

\* The calls are over: the host is up, or CLIENT_CleanUpHost forgets it.
EndHost(t, up) ==
  LET h == th[t].client IN
  /\ AtPc(t, "probe") \/ AtPc(t, "bind") \/ (AtPc(t, "abandoned") /\ ~up)
  /\ IF up THEN UNCHANGED table ELSE SDeleteCallBacks(DeleteVenus({h}))
  /\ id' = [id EXCEPT ![h] = up]
  /\ hlock' = [hlock EXCEPT ![h] = NONE]
  /\ th' = [th EXCEPT ![t] = Idle]
  /\ running' = NONE
  /\ UNCHANGED cblock

Next ==
  \E t \in Threads :
    \/ \E h \in Hosts, f \in Files : BeginFetch(t, h, f)
    \/ EndFetch(t)
    \/ \E h \in Hosts : ValidateVolume(t, h)
    \/ \E c \in Hosts \cup {NONE}, f \in Files : BeginUpdate(t, c, f)
    \/ BreakFind(t)
    \/ LockWait(t)
    \/ BreakLock(t)
    \/ BreakHosts(t)
    \/ BreakSend(t)
    \/ \E failed \in SUBSET Hosts : BreakReply(t, failed)
    \/ BreakSweep(t)
    \/ \E removed \in BOOLEAN : EndUpdate(t, removed)
    \/ \E p \in {"check", "connect"}, h \in Hosts : BeginHost(t, p, h)
    \/ LockHost(t)
    \/ \E up \in BOOLEAN : EndHost(t, up)

Spec == Init /\ [][Next]_vars

------------------------------------------------------------------------------
InTable == {hashTable[f] : f \in Fids} \ {NONE}

\* What a thread is doing.
Thread ==
  [pc : Updating \cup {"idle", "fetch", "check", "connect", "probe", "bind", "abandoned"},
   file : Files \cup {NONE}, client : Hosts \cup {NONE}, fid : Fids \cup {NONE},
   tf : Entries \cup {NONE}, todo : SUBSET Hosts, locked : SUBSET Hosts,
   told : SUBSET Hosts, gone : SUBSET Hosts]

\* Every variable has its type.
TypeOK ==
  /\ hashTable \in [Fids -> Entries \cup {NONE}]
  /\ FEFree \in Seq(Entries)
  /\ conns \in [Entries -> SUBSET Hosts]
  /\ dead \in [Entries -> Nat] /\ users \in [Entries -> Nat]
  /\ cblock \in [Entries -> Threads \cup {NONE}]
  /\ hlock \in [Hosts -> Threads \cup {NONE}]
  /\ id \in [Hosts -> BOOLEAN]
  /\ th \in [Threads -> Thread]
  /\ running \in Threads \cup {NONE}

\* A FileEntry is either in the hash table, under one fid, or once on the free
\* list (GetFE, DeleteFileStruct, FreeFE): whatever the interleaving, none is
\* freed twice, leaked or hashed under two fids.
EntriesPartitioned ==
  /\ IsInjective(FEFree)
  /\ Range(FEFree) = Entries \ InTable
  /\ \A f, g \in Fids : f # g /\ hashTable[f] # NONE => hashTable[f] # hashTable[g]

\* FileEntry.users counts the CallBackEntries of the list, the ones whose conn a
\* concurrent SDeleteCallBack cleared included (BreakCallBack sizes its arrays by
\* it), and an entry nobody is breaking has one at least and none with conn = 0.
UsersCount ==
  \A e \in InTable :
    /\ users[e] = Cardinality(conns[e]) + dead[e]
    /\ ~Busy(e) => dead[e] = 0 /\ users[e] > 0

\* Both hold, and every variable has its type.
TablesOK == TypeOK /\ EntriesPartitioned /\ UsersCount

\* While a thread breaks the callbacks of a fid, across all its waits for host
\* locks and for the RPC, its FileEntry stays in the table under that fid and
\* locked by it: no DeleteVenus, DeleteFile or second break frees or reuses it.
BreakerOwnsEntry ==
  \A t \in Threads : th[t].pc \in {"hosts", "reply", "sweep"} =>
    FindEntry(th[t].fid) = th[t].tf /\ cblock[th[t].tf] = t

\* BreakCallBack takes a host off the list only if it called it, or found its
\* callback connection gone: a host never loses a callback in silence.
NoSilentDrop ==
  \A t \in Threads : th[t].pc = "sweep" =>
    conns[th[t].tf] \subseteq th[t].told \cup th[t].gone \cup {th[t].client}

\* When the two breaks of CodaBreakCallBack have returned and the vnode is about
\* to change, no host but the writer's has a callback on the file.
FileBroken ==
  \A t \in Threads : th[t].pc = "done" /\ FindEntry(th[t].file) # NONE =>
    conns[FindEntry(th[t].file)] \subseteq {th[t].client}

\* t waits for a lock that u holds.
Waits(t, u) ==
  \/ th[t].pc = "cblock" /\ cblock[th[t].tf] = u
  \/ th[t].pc = "hosts" /\ th[t].todo # {} /\ hlock[Min(th[t].todo)] = u
  \/ th[t].pc \in {"check", "connect"} /\ hlock[th[t].client] = u

\* Threads that wait for cblocks and host locks never wait for one another in a
\* circle: BreakCallBack sorts the hosts before it locks them, and holds no host
\* lock while it waits for a cblock.
NoWaitCycle ==
  \A T \in SUBSET {t \in Threads : th[t].pc \in {"cblock", "hosts", "check", "connect"}} :
     T # {} => \E t \in T : \A u \in T : ~Waits(t, u)

\* As FileBroken for the volume: when the update is about to change the volume's
\* version stamp, no host but the writer's has a callback on the volume.
VolumeBroken ==
  \A t \in Threads : th[t].pc = "done" /\ FindEntry(VolFid) # NONE =>
    conns[FindEntry(VolFid)] \subseteq {th[t].client}
===============================================================================
