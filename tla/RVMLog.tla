------------------------------- MODULE RVMLog -------------------------------
(***************************************************************************)
(* RVM, the recoverable virtual memory under Venus and the file server:     *)
(* transactions, the flush list, the circular log, truncation by a daemon,  *)
(* by a flusher that lacks space or by rvm_truncate, and recovery           *)
(* (rvm_trans.c, rvm_logflush.c, rvm_logstatus.c, rvm_logrecovr.c).         *)
(*                                                                         *)
(* Threads are LWPs.  A flusher yields only where it waits for the daemon   *)
(* or for a truncation; between its other steps only a crash can come.      *)
(* Crashes are process crashes, power failures and raw devices whose write  *)
(* buffer is lost, as cfg.dev says.                                         *)
(***************************************************************************)
EXTENDS RVMRecords

CONSTANTS
  Keys,            \* the ranges of the segment, in address order
  Configs,         \* client configurations: see ConfigAssumption
  UPDATE_STATUS,   \* records between two writes of the status block
  MaxTrans,        \* bound: transactions begun
  MaxCrash         \* bound: crashes

\* coalesce: RVM_COALESCE_TRANS is set; daemon: a truncation threshold is set;
\* modes: the commit modes used; abort: transactions are restore mode and may be
\* aborted; past: the one-range transactions that earlier runs of the process left
\* behind the head of the log; size: the cells of the log; dev: "proc" is a log file and a process
\* crash, "power" a log file and a power failure, "raw" a partition behind
\* RVM's own write buffer.
ASSUME ConfigAssumption ==
  /\ Keys \subseteq Nat
  /\ \A c \in Configs : /\ c.coalesce \in BOOLEAN /\ c.daemon \in BOOLEAN
                        /\ c.modes \subseteq {"flush", "no_flush"}
                        /\ c.abort \in BOOLEAN /\ c.size \in Nat /\ c.past \in Nat
                        /\ c.dev \in {"proc", "power", "raw"}
  /\ {UPDATE_STATUS, MaxTrans, MaxCrash} \subseteq Nat

VARIABLES
  cfg,       \* the configuration, a member of Configs
  up,        \* "up", "down", "recover", or the assertion that ended the process
  mem,       \* the mapped region: the id of the last writer of each range
  open,      \* the open transaction: its id and the old values it saved
  flist,     \* log->flush_list: queued transactions
  segs,      \* log->special_list: how many segment definitions are queued
  st,        \* log->status
  log,       \* the log device as read back through the cache
  dirty,     \* the offsets written and not yet synced
  fl,        \* the flusher: pc, where it goes on after a wait or a status write,
             \* the ranges of a last part, what its caller does next
  want,      \* a commit or rvm_truncate is waiting to flush: "no", "flush", "trunc"
  daemon,    \* daemon->state
  call,      \* rvm_truncate has flushed and is about to truncate
  tr,        \* the truncation: pc, who runs it, change tree, new_1st_rec_num
  dict,      \* seg_dict_vec holds the segment
  ldisk,     \* the log records that survive a crash
  sdisk,     \* the status block that survives a crash
  seg,       \* the segment file
  now,       \* the uname clock
  nid,       \* next transaction id
  hist,      \* the committed transactions, in commit order
  logged,    \* how many of them are in the log or in the segment
  flushed,   \* how many of them a completed flush has covered
  crashes

memv == <<mem, open, nid, hist>>
logv == <<st, log, dirty, ldisk, sdisk>>
vars == <<cfg, up, memv, flist, segs, logv, fl, want, daemon, call, tr, dict,
          seg, now, logged, flushed, crashes>>

\* The records of n truncated transactions, and the status block and the clock
\* they leave (init_log_status for n = 0).
Past(n) ==
  IF n = 0 THEN <<>>
  ELSE SegRecord(1, 2) \o FlattenSeq([i \in 1 .. n |->
         TransRecord(i + 1, i + 2, [k \in Keys |-> 0], <<Min(Keys)>>, 0, TRUE, TRUE)])
Status0(n) ==
  [head |-> Len(Past(n)) + 1, tail |-> Len(Past(n)) + 1, phead |-> 0, ptail |-> 0,
   first |-> 0, next |-> n + 2, ltrunc |-> n + 3, ptrunc |-> n + 3, cnt |-> UPDATE_STATUS]
NoFlush == [pc |-> "idle", ret |-> "idle", rest |-> <<>>, then |-> "no"]
NoTrunc == [pc |-> "idle", by |-> "none", tree |-> <<>>, left |-> {}, new1st |-> 0]
NoOpen == [id |-> 0, ov |-> <<>>]
Image(h) == [k \in Keys |-> LET W == {i \in DOMAIN h : k \in DOMAIN h[i]}
                            IN  IF W = {} THEN 0 ELSE h[Max(W)][k]]

\* A log without records, then rvm_initialize and rvm_map of one segment (define_seg).
Init ==
  /\ cfg \in Configs
  /\ up = "up" /\ mem = [k \in Keys |-> 0] /\ open = NoOpen
  /\ flist = <<>> /\ segs = 1 /\ st = Status0(cfg.past)
  /\ log = [i \in 1 .. cfg.size |-> IF i < st.head THEN Past(cfg.past)[i] ELSE Pad]
  /\ ldisk = log /\ sdisk = st
  /\ dirty = <<>> /\ fl = NoFlush /\ want = "no" /\ daemon = "idle" /\ call = FALSE
  /\ tr = NoTrunc /\ dict = FALSE /\ seg = mem /\ now = cfg.past + 4 /\ nid = 1
  /\ hist = <<>> /\ logged = 0 /\ flushed = 0 /\ crashes = 0
-----------------------------------------------------------------------------
\* No LWP is between two yields: another one may run.
Yielded == fl.pc \in {"idle", "flag", "wait", "strunc"} /\ tr.pc # "fsync"
Running == up = "up" /\ Yielded

\* rvm_begin_transaction and rvm_set_range.  The client serialises access to a
\* range until the transaction that wrote it has been committed: a flush commit
\* reads its new values from the region when they are logged.
SetRange(k) ==
  /\ Running
  /\ open.id = 0 => nid <= MaxTrans
  /\ k \notin DOMAIN open.ov
  /\ \A i \in DOMAIN flist : flist[i].flush => k \notin DOMAIN flist[i].nv
  /\ open' = [id |-> IF open.id = 0 THEN nid ELSE open.id, ov |-> open.ov @@ (k :> mem[k])]
  /\ nid' = IF open.id = 0 THEN nid + 1 ELSE nid
  /\ mem' = [mem EXCEPT ![k] = open'.id]
  /\ UNCHANGED <<cfg, up, hist, flist, segs, logv, fl, want, daemon, call, tr, dict,
                 seg, now, logged, flushed, crashes>>

\* rvm_abort_transaction: restore_ov.
Abort ==
  /\ Running /\ cfg.abort /\ open.id # 0
  /\ mem' = open.ov @@ mem
  /\ open' = NoOpen
  /\ UNCHANGED <<cfg, up, nid, hist, flist, segs, logv, fl, want, daemon, call, tr, dict,
                 seg, now, logged, flushed, crashes>>

\* get_queued_tid: the queued transaction that the committing one merges with.
Mergeable(n) ==
  /\ flist # <<>>
  /\ LET q == Last(flist)
     IN  ~q.mark /\ q.coal /\ q.size + n + TRANS_SIZE + MIN_TRANS_SIZE <= cfg.size

\* queue_tid: merge with the last queued transaction (coalesce_trans; its log_size
\* counts ranges only), or append.
Queue(nv, mode, h) ==
  LET n == Cardinality(DOMAIN nv)
      tid == [nv |-> nv, flush |-> mode = "flush", mark |-> FALSE, upto |-> Len(h),
              coal |-> cfg.coalesce, uname |-> open.id, size |-> n + TRANS_SIZE + MIN_TRANS_SIZE]
      q == Last(flist)
      both == nv @@ q.nv
  IN  IF cfg.coalesce /\ Mergeable(n)
      THEN Front(flist) \o << [q EXCEPT !.nv = both, !.upto = Len(h),
                                        !.size = Cardinality(DOMAIN both)] >>
      ELSE IF cfg.coalesce /\ mode = "no_flush"
      THEN Append(flist, [tid EXCEPT !.size = n])
      ELSE Append(flist, tid)

\* rvm_end_transaction; a transaction too big for the log is refused.
EndTrans(mode) ==
  LET nv == [k \in DOMAIN open.ov |-> mem[k]]
  IN  /\ Running /\ mode \in cfg.modes /\ open.id # 0
      /\ Cardinality(DOMAIN nv) + TRANS_SIZE + MIN_TRANS_SIZE <= cfg.size
      /\ hist' = Append(hist, nv)
      /\ flist' = Queue(nv, mode, hist')
      /\ want' = IF mode = "flush" /\ want = "no" THEN "flush" ELSE want
      /\ open' = NoOpen
      /\ UNCHANGED <<cfg, up, mem, nid, segs, logv, fl, daemon, call, tr, dict,
                     seg, now, logged, flushed, crashes>>

\* The client calls rvm_flush or rvm_truncate.
Request(w) ==
  /\ Running /\ want = "no" /\ ~call
  /\ w = "flush" => flist # <<>>
  /\ w = "trunc" => flist # <<>> \/ st.head # st.tail
  /\ want' = w
  /\ UNCHANGED <<cfg, up, memv, flist, segs, logv, fl, daemon, call, tr, dict,
                 seg, now, logged, flushed, crashes>>
-----------------------------------------------------------------------------
EffHead == IF st.phead # 0 THEN st.phead ELSE st.head
NotWrapped == st.tail >= st.head /\ st.tail >= st.phead
NumBytes == cfg.size + 1

\* log_tail_length
TailLength ==
  IF NotWrapped
  THEN (IF NumBytes - st.tail < MIN_TRANS_SIZE THEN 0 ELSE NumBytes - st.tail) + EffHead - 1
  ELSE EffHead - st.tail

\* log_tail_sngl_w
SnglW == (IF NotWrapped THEN NumBytes ELSE EffHead) - st.tail

\* gather_write_dev: the cells cs go to the cached device at the log tail.
Gather(cs) ==
  /\ log' = SubSeq(log, 1, st.tail - 1) \o cs \o SubSeq(log, st.tail + Len(cs), Len(log))
  /\ dirty' = dirty \o [i \in 1 .. Len(cs) |-> st.tail + i - 1]
  /\ UNCHANGED <<ldisk, sdisk>>

\* The status after make_rec_num has given out n numbers.
Numbered(n) == [st EXCEPT !.first = IF @ = 0 THEN st.next ELSE @, !.next = @ + n]

\* Wrap marker with the padding that kills an older one (write_log_wrap), to be
\* written n cells after the tail.
WrapCells(n, rec, ts) ==
  <<Wrap(rec, ts)>> \o [i \in 1 .. NumBytes - st.tail - n - 1 |-> Pad]

\* update_log_tail after a record of len cells: the status block is due, or the
\* flusher goes on at pc.
Advance(s, len, pc) ==
  /\ st' = [s EXCEPT !.tail = @ + len, !.cnt = @ - 1]
  /\ fl' = IF s.cnt = 1 THEN [fl EXCEPT !.pc = "stat", !.ret = pc] ELSE [fl EXCEPT !.pc = pc]

\* write_log_wrap when the flusher goes on at pc.  Behind the end of a wrapped
\* log there is no room for the padding: make_pad_buf asserts.
WriteWrap(pc) ==
  IF NotWrapped
  THEN /\ Gather(WrapCells(0, st.next, now))
       /\ st' = Numbered(1)
       /\ fl' = [fl EXCEPT !.pc = "wrap", !.ret = pc]
       /\ now' = now + 1 /\ UNCHANGED up
  ELSE up' = "space" /\ UNCHANGED <<logv, fl, now>>

\* flush_log: mark the last transaction queued.
StartFlush ==
  /\ Running /\ fl.pc = "idle" /\ want # "no"
  /\ fl' = [NoFlush EXCEPT !.pc = "loop", !.then = want]
  /\ want' = "no"
  /\ flist' = [i \in DOMAIN flist |-> IF i = Len(flist) THEN [flist[i] EXCEPT !.mark = TRUE]
                                      ELSE flist[i]]
  /\ UNCHANGED <<cfg, up, memv, segs, logv, daemon, call, tr, dict, seg, now, logged,
                 flushed, crashes>>

\* flush_log takes the next transaction; log_tid asks the daemon for a truncation
\* when the log is at the threshold, which may be anywhere (initiate_truncation).
NextTid ==
  /\ up = "up" /\ fl.pc = "loop"
  /\ \/ flist = <<>> /\ fl' = [fl EXCEPT !.pc = "sync"] /\ UNCHANGED daemon
     \/ flist # <<>> /\ fl' = [fl EXCEPT !.pc = "spec"] /\ UNCHANGED daemon
     \/ /\ flist # <<>> /\ cfg.daemon /\ daemon = "idle"
        /\ daemon' = "truncating"
        /\ fl' = [fl EXCEPT !.pc = "flag"]
  /\ UNCHANGED <<cfg, up, memv, flist, segs, logv, want, call, tr, dict, seg, now, logged,
                 flushed, crashes>>

\* wait_for_space gives up the log device: wait_for_truncation.
WaitSpace(pc) ==
  /\ fl' = [fl EXCEPT !.ret = pc,
                      !.pc = IF cfg.daemon /\ daemon = "truncating" THEN "wait" ELSE "strunc"]
  /\ UNCHANGED <<up, logv, now>>

\* flush_log_special, log_special: one segment definition.
LogSpecial ==
  LET special_size == SEG_SIZE + WRAP + REC_END
  IN  /\ up = "up" /\ fl.pc = "spec"
      /\ IF segs = 0
         THEN fl' = [fl EXCEPT !.pc = "tid"] /\ UNCHANGED <<up, segs, logv, now>>
         ELSE IF TailLength < special_size THEN WaitSpace("spec") /\ UNCHANGED segs
         ELSE IF SnglW < special_size THEN WriteWrap("spec") /\ UNCHANGED segs
         ELSE /\ Gather(SegRecord(st.next, now))
              /\ Advance(Numbered(1), SEG_SIZE + REC_END, "spec")
              /\ segs' = segs - 1 /\ now' = now + 1 /\ UNCHANGED up
      /\ UNCHANGED <<cfg, memv, flist, want, daemon, call, tr, dict, seg, logged, flushed,
                     crashes>>

\* The end of write_tid and log_tid: record cs is written, the transaction is freed.
Written(cs) ==
  /\ Gather(cs)
  /\ Advance(Numbered(1), Len(cs), IF Head(flist).mark THEN "sync" ELSE "loop")
  /\ flist' = Tail(flist)
  /\ logged' = Head(flist).upto
  /\ now' = now + 1 /\ UNCHANGED up

\* write_tid: the whole transaction in one record, or a first part up to the end
\* of the device with a wrap marker behind it (write_range, split_range).
WriteTid ==
  LET tid == Head(flist)
      nv == IF tid.flush THEN mem ELSE tid.nv
      rs == SetToSortSeq(DOMAIN tid.nv, <)
      fit == SnglW - TRANS_SIZE - WRAP
      part == TransRecord(st.next, now, nv, SubSeq(rs, 1, fit), tid.uname, TRUE, FALSE)
  IN  IF Len(rs) <= fit
      THEN Written(TransRecord(st.next, now, nv, rs, tid.uname, TRUE, TRUE))
      ELSE /\ UNCHANGED <<flist, logged>>
           /\ IF fit < 0 \/ ~NotWrapped THEN up' = "space" /\ UNCHANGED <<logv, fl, now>>
              ELSE /\ Gather(part \o WrapCells(Len(part), st.next + 1, now + 1))
                   /\ st' = Numbered(2)
                   /\ fl' = [fl EXCEPT !.pc = "wrap", !.ret = "rest",
                                       !.rest = SubSeq(rs, fit + 1, Len(rs))]
                   /\ now' = now + 2 /\ UNCHANGED up

\* log_tid: wait for space, wrap first where less than a record fits, write.
LogTid ==
  /\ up = "up" /\ fl.pc \in {"tid", "tid2"}
  /\ IF fl.pc = "tid" /\ TailLength < Head(flist).size + WRAP + REC_END
     THEN WaitSpace("tid") /\ UNCHANGED <<flist, logged>>
     ELSE IF fl.pc = "tid" /\ SnglW < MIN_TRANS_SIZE
     THEN WriteWrap("tid2") /\ UNCHANGED <<flist, logged>>
     ELSE WriteTid
  /\ UNCHANGED <<cfg, memv, segs, want, daemon, call, tr, dict, seg, flushed, crashes>>

\* The last part of a split transaction.
WriteRest ==
  LET tid == Head(flist)
      nv == IF tid.flush THEN mem ELSE tid.nv
  IN  /\ up = "up" /\ fl.pc = "rest"
      /\ IF Len(fl.rest) <= SnglW - TRANS_SIZE - WRAP
         THEN Written(TransRecord(st.next, now, nv, fl.rest, tid.uname, FALSE, TRUE))
         ELSE up' = "space" /\ UNCHANGED <<logv, fl, now, flist, logged>>
      /\ UNCHANGED <<cfg, memv, segs, want, daemon, call, tr, dict, seg, flushed, crashes>>

\* sync_dev
Sync == ldisk' = log /\ dirty' = <<>> /\ UNCHANGED log

\* update_log_tail, the part after a wrap or every UPDATE_STATUS records.
StatusWrite ==
  /\ up = "up" /\ fl.pc \in {"stat", "wrap"}
  /\ Sync
  /\ st' = [st EXCEPT !.cnt = UPDATE_STATUS, !.tail = IF fl.pc = "wrap" THEN 1 ELSE @]
  /\ sdisk' = st'
  /\ fl' = [fl EXCEPT !.pc = fl.ret]
  /\ UNCHANGED <<cfg, up, memv, flist, segs, want, daemon, call, tr, dict, seg, now, logged,
                 flushed, crashes>>

\* The end of flush_log; rvm_truncate goes on to truncate.
SyncEnd ==
  /\ up = "up" /\ fl.pc = "sync"
  /\ Sync
  /\ flushed' = logged
  /\ call' = (call \/ fl.then = "trunc")
  /\ fl' = NoFlush
  /\ UNCHANGED <<cfg, up, memv, flist, segs, st, sdisk, want, daemon, tr, dict, seg, now,
                 logged, crashes>>

\* wait_for_truncation returns when the daemon is idle again.
TruncationDone ==
  /\ up = "up" /\ fl.pc = "wait" /\ daemon = "idle" /\ tr.pc # "fsync"
  /\ fl' = [fl EXCEPT !.pc = fl.ret]
  /\ UNCHANGED <<cfg, up, memv, flist, segs, logv, want, daemon, call, tr, dict, seg, now,
                 logged, flushed, crashes>>
-----------------------------------------------------------------------------
\* new_epoch, on the status s: the records up to the tail are to be truncated.
NewEpoch(s, t) ==
  [s EXCEPT !.phead = s.head, !.head = s.tail, !.ptail = s.tail, !.ltrunc = t,
            !.cnt = UPDATE_STATUS]

\* status_update: the status block of a log whose old epoch is gone.
Updated(s, new1st) ==
  LET s1 == [s EXCEPT !.ptrunc = s.ltrunc, !.cnt = UPDATE_STATUS]
  IN  IF s.head = s.tail THEN Cleared(s1)
      ELSE [s1 EXCEPT !.phead = 0, !.ptail = 0, !.first = new1st]

\* Mutant: the epoch to be truncated is not synced first.
Recover_Unsynced(by) ==
  /\ Running /\ tr.pc = "idle" /\ st.head # st.tail
  /\ CASE by = "daemon"  -> daemon = "truncating"
       [] by = "flusher" -> fl.pc = "strunc"
       [] by = "call"    -> call
  /\ tr' = [NoTrunc EXCEPT !.pc = "build", !.by = by, !.new1st = st.next]
  /\ st' = NewEpoch(st, now) /\ sdisk' = st'
  /\ segs' = segs + 1 /\ now' = now + 1
  /\ fl' = IF by = "daemon" /\ fl.pc = "flag" THEN [fl EXCEPT !.pc = "spec"] ELSE fl
  /\ UNCHANGED <<cfg, up, memv, flist, log, dirty, ldisk, want, daemon, call, dict, seg, logged,
                 flushed, crashes>>

\* log_recover up to the release of the log device: a new epoch if the log holds
\* records, else straight to status_update.  The daemon then releases the flusher
\* that woke it.
Recover(by) ==
  /\ Running /\ tr.pc = "idle"
  /\ CASE by = "daemon"  -> daemon = "truncating"
       [] by = "flusher" -> fl.pc = "strunc"
       [] by = "call"    -> call
  /\ IF st.head = st.tail
     THEN /\ tr' = [NoTrunc EXCEPT !.pc = "fsync", !.by = by]
          /\ st' = Updated(st, 0) /\ sdisk' = st'
          /\ UNCHANGED <<log, dirty, ldisk, segs, now>>
     ELSE /\ tr' = [NoTrunc EXCEPT !.pc = "build", !.by = by, !.new1st = st.next]
          /\ Sync
          /\ st' = NewEpoch(st, now) /\ sdisk' = st'
          /\ segs' = segs + 1
          /\ now' = now + 1
  /\ fl' = IF by = "daemon" /\ fl.pc = "flag" THEN [fl EXCEPT !.pc = "spec"] ELSE fl
  /\ UNCHANGED <<cfg, up, memv, flist, want, daemon, call, dict, seg, logged, flushed, crashes>>

\* log_recover in recovery: the process starts on what the crash left.
Restart ==
  /\ up = "down"
  /\ up' = "recover"
  /\ log' = ldisk
  /\ \E s \in {LocateTail(ldisk, sdisk, now)} :
       IF s.head = s.tail
       THEN /\ tr' = [NoTrunc EXCEPT !.pc = "upd", !.by = "restart"]
            /\ st' = s /\ UNCHANGED sdisk
       ELSE /\ tr' = [NoTrunc EXCEPT !.pc = "build", !.by = "restart", !.new1st = s.next]
            /\ st' = NewEpoch(s, now + 1) /\ sdisk' = st'
  /\ now' = now + 2
  /\ UNCHANGED <<cfg, memv, flist, segs, dirty, fl, want, daemon, call, dict, ldisk, seg,
                 logged, flushed, crashes>>

Truncating == Running \/ up = "recover"

\* build_tree; apply_mods can only open a segment whose definition was met.
BuildChanges ==
  /\ Truncating /\ tr.pc = "build"
  /\ \E rs \in {ScanReverse(log, st)} :
       IF 0 \in Range(rs) THEN up' = "damage" /\ UNCHANGED <<tr, dict>>
       ELSE \E tree \in {ChangeTree(log, rs)} :
            /\ dict' = (dict \/ DefineSeg(log, rs))
            /\ IF tree # <<>> /\ ~dict' THEN up' = "noseg" /\ UNCHANGED tr
               ELSE /\ tr' = [tr EXCEPT !.pc = "apply", !.tree = tree, !.left = DOMAIN tree]
                    /\ UNCHANGED up
  /\ UNCHANGED <<cfg, memv, flist, segs, logv, fl, want, daemon, call, seg, now, logged,
                 flushed, crashes>>

\* update_seg: the next range of the segment is written, and synced.
ApplyMods ==
  /\ Truncating /\ tr.pc = "apply"
  /\ IF tr.left = {} THEN tr' = [tr EXCEPT !.pc = "upd"] /\ UNCHANGED seg
     ELSE LET k == Min(tr.left)
          IN  /\ seg' = [seg EXCEPT ![k] = tr.tree[k]]
              /\ tr' = [tr EXCEPT !.left = @ \ {k}]
  /\ UNCHANGED <<cfg, up, memv, flist, segs, logv, fl, want, daemon, call, dict, now, logged,
                 flushed, crashes>>

\* status_update: the status block is written ...
StatusUpdate ==
  /\ Truncating /\ tr.pc = "upd"
  /\ st' = Updated(st, tr.new1st) /\ sdisk' = st'
  /\ tr' = [tr EXCEPT !.pc = "fsync"]
  /\ UNCHANGED <<cfg, up, memv, flist, segs, log, dirty, ldisk, fl, want, daemon, call, dict,
                 seg, now, logged, flushed, crashes>>

\* How much of the history the segment file holds after a restart; the longest
\* prefix that explains it.
Explained == {n \in flushed .. Len(hist) : Image(SubSeq(hist, 1, n)) = seg}

\* Mutant: the daemon does not say that it is idle again.
EndTruncation_StaysBusy ==
  /\ up \in {"up", "recover"} /\ tr.pc = "fsync"
  /\ tr' = NoTrunc
  /\ IF cfg.dev = "raw" THEN UNCHANGED <<log, dirty, ldisk>> ELSE Sync
  /\ fl' = IF tr.by = "flusher" THEN [fl EXCEPT !.pc = fl.ret] ELSE fl
  /\ call' = (call /\ tr.by # "call")
  /\ up' = "up" /\ mem' = IF tr.by = "restart" THEN seg ELSE mem
  /\ UNCHANGED <<cfg, open, nid, flist, st, sdisk, want, seg, now, crashes, daemon, segs,
                 dict, hist, logged, flushed>>

\* ... and synced together with the log file (write_dev; a partition has no such
\* sync).  The truncation is over; after a restart the segment is mapped.
EndTruncation ==
  /\ up \in {"up", "recover"} /\ tr.pc = "fsync"
  /\ tr' = NoTrunc
  /\ IF cfg.dev = "raw" THEN UNCHANGED <<log, dirty, ldisk>> ELSE Sync
  /\ daemon' = IF tr.by = "daemon" THEN "idle" ELSE daemon
  /\ fl' = IF tr.by = "flusher" THEN [fl EXCEPT !.pc = fl.ret] ELSE fl
  /\ call' = (call /\ tr.by # "call")
  /\ IF tr.by = "restart"
     THEN /\ up' = "up" /\ mem' = seg /\ segs' = 1 /\ dict' = FALSE
          /\ hist' = IF Explained = {} THEN <<seg>> ELSE SubSeq(hist, 1, Max(Explained))
          /\ logged' = Len(hist') /\ flushed' = Len(hist')
     ELSE UNCHANGED <<up, mem, segs, dict, hist, logged, flushed>>
  /\ UNCHANGED <<cfg, open, nid, flist, st, sdisk, want, seg, now, crashes>>

\* What a crash leaves of the cells that were not synced.
Surviving ==
  CASE cfg.dev = "proc"  -> {Range(dirty)}
    [] cfg.dev = "power" -> SUBSET Range(dirty)
    [] cfg.dev = "raw"   -> {{}}

Crash ==
  /\ up \in {"up", "recover"} /\ crashes < MaxCrash
  /\ \E D \in Surviving : ldisk' = [i \in DOMAIN ldisk |-> IF i \in D THEN log[i] ELSE ldisk[i]]
  /\ up' = "down" /\ crashes' = crashes + 1
  /\ mem' = [k \in Keys |-> 0] /\ open' = NoOpen /\ flist' = <<>> /\ segs' = 0
  /\ log' = ldisk' /\ dirty' = <<>> /\ st' = sdisk
  /\ fl' = NoFlush /\ want' = "no" /\ daemon' = "idle" /\ call' = FALSE
  /\ tr' = NoTrunc /\ dict' = FALSE
  /\ UNCHANGED <<cfg, nid, hist, sdisk, seg, now, logged, flushed>>

Flusher == StartFlush \/ NextTid \/ LogSpecial \/ LogTid \/ WriteRest \/ StatusWrite
           \/ SyncEnd \/ TruncationDone
Truncation == (\E by \in {"daemon", "flusher", "call"} : Recover(by)) \/ Restart
              \/ BuildChanges \/ ApplyMods \/ StatusUpdate \/ EndTruncation
Client == \/ \E k \in Keys : SetRange(k)
          \/ Abort
          \/ \E mode \in {"flush", "no_flush"} : EndTrans(mode)
          \/ \E w \in {"flush", "trunc"} : Request(w)

Next == Client \/ Flusher \/ Truncation \/ Crash

\* A thread that can run does; a process that crashed is started again.
Spec == Init /\ [][Next]_vars /\ WF_vars(Flusher) /\ WF_vars(Truncation)
-----------------------------------------------------------------------------
\* The variables have their types; every offset is a cell or the null offset.
TypeOK ==
  /\ cfg \in Configs /\ up \in {"up", "down", "recover", "space", "damage", "noseg"}
  /\ DOMAIN mem = Keys /\ DOMAIN seg = Keys /\ DOMAIN open.ov \subseteq Keys
  /\ Len(log) = cfg.size /\ Len(ldisk) = cfg.size
  /\ \A i \in DOMAIN dirty : dirty[i] \in 1 .. cfg.size
  /\ \A s \in {st, sdisk} : /\ {s.head, s.tail} \subseteq 1 .. cfg.size
                            /\ {s.phead, s.ptail} \subseteq 0 .. cfg.size
                            /\ s.cnt \in 1 .. UPDATE_STATUS \cup {0}
  /\ fl.pc \in {"idle", "loop", "flag", "spec", "tid", "tid2", "rest", "wrap", "stat", "sync",
                "wait", "strunc"}
  /\ tr.pc \in {"idle", "build", "apply", "upd", "fsync"}
  /\ want \in {"no", "flush", "trunc"} /\ daemon \in {"idle", "truncating"}
  /\ flushed <= logged /\ logged <= Len(hist)

\* The promise of RVM: after a crash the memory is the effect of a prefix of the
\* committed transactions that has every flushed one (RVMStore).  It says nothing once
\* a truncation or a recovery has found no definition of the segment: the process
\* ends in "noseg", and what it had flushed is not recovered (SegDefined).
Store == INSTANCE RVMStore WITH
           Trans <- UNION {[D -> 1 .. MaxTrans] : D \in SUBSET Keys \ {{}}}
StoreSpec == Store!Spec

\* From the start of an epoch's truncation to the status block that ends it, the
\* durable records of the epoch are the ones the truncation works from, whatever
\* the flusher writes meanwhile: a crash at any point can start it again
\* (log_tail_length, new_epoch, locate_tail).
EpochIntact ==
  tr.pc \in {"apply", "upd"} /\ st.phead # 0
    => LET rs == ScanReverse(ldisk, st)
       IN  0 \notin Range(rs) /\ ChangeTree(ldisk, rs) = tr.tree

\* What chk_tail asserts of head and tail of the two epochs.
ChkTail ==
  st.phead # 0 =>
    /\ st.head = st.ptail
    /\ IF st.head > st.tail THEN st.phead <= st.ptail /\ st.phead >= st.tail
       ELSE IF st.phead > st.ptail THEN st.phead > st.tail
       ELSE st.head > st.phead

\* After a process crash the reverse scan of recovery meets no invalid record, and
\* neither does a truncation (the assertions of build_tree).
NoDamage == up # "damage"

\* The log is in order: every variable has its type, the epoch under truncation
\* stays intact, head and tail pass chk_tail, and no scan meets an invalid record.
LogOK == TypeOK /\ EpochIntact /\ ChkTail /\ NoDamage

\* Transactions in the log can be applied: the epoch that holds them holds the
\* definition of their segment (new_epoch, flush_log_special, apply_mods).
SegDefined == up # "noseg"

\* A flush that has started ends, unless the process does (wait_for_space,
\* initiate_truncation, wait_for_truncation, log_daemon).
FlushCompletes == fl.pc # "idle" ~> fl.pc = "idle" \/ up \notin {"up"}
=============================================================================
