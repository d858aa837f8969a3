--------------------------------- MODULE CML ---------------------------------
(* The client modify log of one volume (class ClientModifyLog and class cmlent,  *)
(* coda-src/venus/vol_cml.cc): what logging an operation does to the records      *)
(* already there (the cancellation optimisations), and how a range of records is  *)
(* threaded for the server and taken off the log again.                            *)
(*                                                                                 *)
(* A log is a sequence of records.  A record names one file; "val" is the number   *)
(* of the operation that logged it and stands for the data or the attribute value  *)
(* it carries.  Directories and their version state are left out: the server       *)
(* makes no version check on them.                                                 *)
EXTENDS Integers, SequencesExt, FiniteSetsExt

Attrs == {"data", "mode", "owner", "date", "name"}

\* The attributes of its file an operation sets.
Writes(op) ==
  CASE op = "store" -> {"data", "date"}
    [] op = "chmod" -> {"mode"}
    [] op = "chown" -> {"owner"}
    [] op = "utimes" -> {"date"}
    [] op = "rename" -> {"name"}
    [] op = "create" -> Attrs
    [] op = "remove" -> {}

\* cmlent::cmlent: an unfrozen record with the next store identifier.  "handle" is
\* the server incarnation its reintegration handle is good for (0: none), "offset"
\* how much of the data the client knows to be there (2: all) and "data" which, "tid"
\* that it is marked with the transaction identifier of the current round.
cmlent(op, f, n, s) ==
  [op |-> op, fid |-> f, val |-> n, sid |-> s, frozen |-> FALSE, pending |-> FALSE,
   failed |-> FALSE, repair |-> FALSE, tid |-> FALSE, handle |-> 0, offset |-> 0, data |-> 0]

\* Op(v), with v evaluated once.
With(v, Op(_)) == CHOOSE r \in {Op(x) : x \in {v}} : TRUE

Pos(log, s) == CHOOSE i \in DOMAIN log : log[i].sid = s
Without(log, s) == SelectSeq(log, LAMBDA m : m.sid # s)
Update(log, s, Op(_)) == [i \in DOMAIN log |-> IF log[i].sid = s THEN Op(log[i]) ELSE log[i]]
Map(log, Op(_)) == [i \in DOMAIN log |-> Op(log[i])]
MarkPending(log, s) == Update(log, s, LAMBDA m : [m EXCEPT !.pending = TRUE])

\* The records for one file, and the places of those of one kind.
RecordsOf(log, f) == {m \in Range(log) : m.fid = f}
Of(log, f, op) == {i \in DOMAIN log : log[i].fid = f /\ log[i].op = op}

(* cmlent::cancel.  A record to be repaired stays; a frozen one is only marked;    *)
(* otherwise the record goes, after the records its presence had kept: the chmod   *)
(* before a store that another chmod follows, the store before a chown that        *)
(* another store follows.                                                          *)
\* The bug of cancelling a frozen record at once: the server may have it already.
CancelLeaf_Frozen(log, s) ==
  IF log[Pos(log, s)].repair THEN log ELSE Without(log, s)

CancelLeaf(log, s) ==
  LET m == log[Pos(log, s)] IN
  IF m.repair THEN log
  ELSE IF m.frozen THEN MarkPending(log, s)
  ELSE Without(log, s)

\* The record, if any, that the presence of a removable record s has kept.
Kept(log, s, op) ==
  LET i == Pos(log, s)
      same == Of(log, log[i].fid, op)
      pre == {j \in same : j < i}
  IN  IF ~log[i].repair /\ ~log[i].frozen /\ pre # {} /\ (\E j \in same : j > i)
      THEN {log[Max(pre)].sid} ELSE {}

CancelStore(log, s) ==
  LET kept == Kept(log, s, "chmod")
  IN  With(IF kept = {} THEN log ELSE CancelLeaf(log, CHOOSE k \in kept : TRUE),
           LAMBDA l : CancelLeaf(l, s))

CancelChown(log, s) ==
  LET kept == Kept(log, s, "store")
  IN  With(IF kept = {} THEN log ELSE CancelStore(log, CHOOSE k \in kept : TRUE),
           LAMBDA l : CancelLeaf(l, s))

cancel(log, s) ==
  IF \A i \in DOMAIN log : log[i].sid # s THEN log
  ELSE LET op == log[Pos(log, s)].op
       IN  CASE op = "store" -> CancelStore(log, s)
             [] op = "chown" -> CancelChown(log, s)
             [] OTHER -> CancelLeaf(log, s)

\* Walk the log from its tail and cancel the records that are in hit.
CancelThose(log, hit) ==
  FoldRight(LAMBDA m, l : IF m \in hit THEN With(l, LAMBDA x : cancel(x, m.sid)) ELSE l, log, log)

\* No record of kind op for m's file comes after m.
NoneAfter(log, m, op) == \A i \in Of(log, m.fid, op) : i < Pos(log, m.sid)

(* The Log* operations: what an operation's record makes superfluous.              *)
LogStore(log, f, n, s) ==
  Append(CancelThose(log, {m \in RecordsOf(log, f) : \/ m.op = "store" /\ NoneAfter(log, m, "chown")
                                                    \/ m.op = "utimes"}),
         cmlent("store", f, n, s))

LogChmod(log, f, n, s) ==
  Append(CancelThose(log, {m \in RecordsOf(log, f) : m.op = "chmod" /\ NoneAfter(log, m, "store")}),
         cmlent("chmod", f, n, s))

\* LogUtimes and LogChown replace the earlier record of their kind; LogCreate and
\* LogRename (onto a free name) only add a record.
LogOther(log, op, f, n, s) ==
  Append(CancelThose(log, {m \in RecordsOf(log, f) : m.op = op /\ op \in {"utimes", "chown"}}),
         cmlent(op, f, n, s))

\* The bug of cancelling what was frozen: the create may be at the server.
LogRemove_Frozen(log, f, n, s) ==
  LET mine == {i \in DOMAIN log : log[i].fid = f}
      created == mine # {} /\ log[Min(mine)].op = "create"
  IN  IF created THEN SelectSeq(log, LAMBDA m : m.fid # f)
      ELSE Append(CancelThose(log, {m \in RecordsOf(log, f) : m.op # "rename"}),
                  cmlent("remove", f, n, s))

\* LogRemove, for a file with one link.  A file created in this log disappears from
\* it with its remove, unless the create is frozen: the server may have it already,
\* and the records are only marked, to be cancelled if the reintegration fails.
LogRemove(log, f, n, s) ==
  LET mine == {i \in DOMAIN log : log[i].fid = f}
      created == mine # {} /\ log[Min(mine)].op = "create"
      creating == created /\ log[Min(mine)].frozen /\ ~log[Min(mine)].repair
      names == {"create", "remove", "rename"}
      cancelled == CancelThose(log,
                       {m \in RecordsOf(log, f) : m.op \in names => created /\ ~creating})
      marked == IF creating
                THEN Map(cancelled, LAMBDA m : IF m.fid = f /\ m.op \in names
                                               THEN [m EXCEPT !.pending = TRUE] ELSE m)
                ELSE cancelled
  IN  IF created /\ ~creating THEN marked
      ELSE Append(marked, [cmlent("remove", f, n, s) EXCEPT !.pending = created])

Log(log, op, f, n, s) ==
  CASE op = "store" -> LogStore(log, f, n, s)
    [] op = "chmod" -> LogChmod(log, f, n, s)
    [] op = "remove" -> LogRemove(log, f, n, s)
    [] OTHER -> LogOther(log, op, f, n, s)

\* cmlent::Freeze and cmlent::Thaw, the flag (the shadow is Reint's).
Freeze(m) == [m EXCEPT !.frozen = TRUE]

\* The records marked with the current transaction identifier, in commit order.
Marked(log) == SelectSeq(log, LAMBDA m : m.tid)

\* The bug of threading every record from the cached version.
IncThread_Flat(log, fsid) ==
  LET b == Marked(log) IN
  [i \in DOMAIN b |-> [op |-> b[i].op, fid |-> b[i].fid, val |-> b[i].val, sid |-> b[i].sid,
                       base |-> fsid[b[i].fid]]]

\* IncThread, cmlent::thread: every marked record carries the store identifier its
\* file will have when the server gets to it, starting from the cached one.
IncThread(log, fsid) ==
  LET b == Marked(log) IN
  [i \in DOMAIN b |->
     [op |-> b[i].op, fid |-> b[i].fid, val |-> b[i].val, sid |-> b[i].sid,
      base |-> LET prev == {j \in 1 .. i - 1 : b[j].fid = b[i].fid}
               IN  IF prev = {} THEN fsid[b[i].fid] ELSE b[Max(prev)].sid]]

\* IncCommit: the marked records that go, up to the one the server said it had last
\* (all of them when that one is not here, or the server did them all).
Committed(log, last) ==
  LET b == Marked(log)
      at == {i \in DOMAIN b : b[i].sid = last}
      n == IF at = {} THEN Len(b) ELSE Max(at)
  IN  {b[i].sid : i \in 1 .. n}

\* FinalCmlent, cmlent::commit: a record that goes leaves its store identifier with
\* its file; in a replicated volume only if it is the file's last marked record.
NewSids(log, gone, fsid, replicated) ==
  LET b == Marked(log) IN
  [f \in DOMAIN fsid |->
     LET mine == {i \in DOMAIN b : b[i].fid = f}
         done == {i \in mine : b[i].sid \in gone /\ (replicated => i = Max(mine))}
     IN  IF done = {} THEN fsid[f] ELSE b[Max(done)].sid]

\* ClearPending.
ClearPending(log) == Map(log, LAMBDA m : [m EXCEPT !.pending = FALSE])

(* CancelPending: thaw and cancel the marked records, first to last; cancel must   *)
(* remove the record, which it does not if the record is to be repaired.           *)
FirstPending(log) == Min({i \in DOMAIN log : log[i].pending})
CancelOne(log) ==
  IF \E i \in DOMAIN log : log[i].pending
  THEN LET s == log[FirstPending(log)].sid
       IN  With(Update(log, s, LAMBDA m : [m EXCEPT !.frozen = FALSE]), LAMBDA l : cancel(l, s))
  ELSE log
CancelPending(log) == FoldLeft(LAMBDA l, m : With(l, CancelOne), log, log)
CanCancelPending(log) == \A i \in DOMAIN log : log[i].pending => ~log[i].repair

\* MarkFailedMLE, and what HandleFailedMLE makes of the mark: SetRepairFlag.
MarkFailedMLE(log, ix) ==
  LET b == Marked(log) IN
  Map(log, LAMBDA m : IF m.tid /\ (ix = -1 \/ m.sid = b[ix].sid) THEN [m EXCEPT !.failed = TRUE] ELSE m)
HandleFailedMLE(log) ==
  Map(log, LAMBDA m : IF m.failed THEN [m EXCEPT !.failed = FALSE, !.repair = TRUE, !.tid = FALSE]
                      ELSE m)
=============================================================================
