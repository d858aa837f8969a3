----------------------------- MODULE RVMRecords -----------------------------
(***************************************************************************)
(* The records of the RVM log and the two scans recovery makes over them    *)
(* (rvm/rvm_logrecovr.c).  The log device is a sequence of cells, the unit  *)
(* that a crash keeps or loses as a whole: a transaction record is a header *)
(* cell, one cell for each range with its new values, and an end marker.    *)
(* In a device d, cell 1 is log_start and Len(d) + 1 is dev.num_bytes;      *)
(* offset 0 is the null offset.  Time is the uname counter.                 *)
(***************************************************************************)
EXTENDS Integers, SequencesExt

\* Sizes of rvm_private.h, in cells.
WRAP == 1                                    \* log_wrap_t
REC_END == 1                                 \* rec_end_t
TRANS_SIZE == 2                              \* trans_hdr_t and rec_end_t
RANGE_SIZE == 1                              \* nv_range_t and its values
MIN_TRANS_SIZE == TRANS_SIZE + RANGE_SIZE + WRAP
SEG_SIZE == 1                                \* rec_length of a log_seg record

Pad == [t |-> "pad"]
Wrap(n, ts) == [t |-> "wrap", rec |-> n, ts |-> ts]
RecEnd(n, ts, ty, len) == [t |-> "end", rec |-> n, ts |-> ts, ty |-> ty, len |-> len]
SegRecord(n, ts) ==
  << [t |-> "seg", rec |-> n, ts |-> ts, len |-> SEG_SIZE], RecEnd(n, ts, "seg", SEG_SIZE) >>

\* build_trans_hdr, build_nv_range for every range of rs, build_rec_end.
TransRecord(n, ts, nv, rs, uname, first, last) ==
  << [t |-> "hdr", rec |-> n, ts |-> ts, len |-> 1 + Len(rs),
      first |-> first, last |-> last, uname |-> uname] >>
  \o [i \in 1 .. Len(rs) |-> [t |-> "nv", rec |-> n, ts |-> ts, key |-> rs[i], val |-> nv[rs[i]]]]
  \o << RecEnd(n, ts, "hdr", 1 + Len(rs)) >>

-----------------------------------------------------------------------------
\* chk_hdr_type and chk_hdr_currency; now is last_trunc.
Current(c, s, now) ==
  /\ c.t \in {"hdr", "seg", "wrap"}
  /\ s.first # 0 => c.rec >= s.first
  /\ s.ptrunc <= c.ts /\ c.ts <= now

\* chk_hdr_sequence; the record numbers are 0 when the checks have been reset.
InSequence(c, prev, dir) ==
  prev.rec # 0 => c.rec = prev.rec + dir /\ dir * (c.ts - prev.ts) >= 0

Reset == [rec |-> 0, ts |-> 0]
Hide(c) == [rec |-> c.rec, ts |-> c.ts]

\* chk_hdr: the end marker that belongs to the header at h.
Ended(d, h) ==
  LET c == d[h]  e == h + c.len
  IN  e <= Len(d) /\ d[e] = RecEnd(c.rec, c.ts, c.t, c.len)

\* The cells of the ranges of the record at h.
Body(d, h) == [i \in 1 .. d[h].len - 1 |-> d[h + i]]

\* set_trans_status: every range is there and passes its checksum.  The range
\* headers are compared with the record number only.
RangesOK(d, h) ==
  d[h].t = "hdr" => \A i \in DOMAIN Body(d, h) : /\ Body(d, h)[i].t = "nv"
                                                 /\ Body(d, h)[i].rec = d[h].rec

Seen == [rec : Nat, ts : Nat]

\* The forward scan of locate_tail: where the log ends, and the number of the
\* last record looked at (a record with a bad range included).
ScanTail(d, s, now) ==
  LET scan[p \in DOMAIN d, prev \in Seen, last \in Nat] ==
        LET c == d[p]
            ok == Current(c, s, now) /\ InSequence(c, prev, 1)
        IN  IF ok /\ c.t = "wrap" THEN scan[1, Hide(c), c.rec]
            ELSE IF ok /\ Ended(d, p)
            THEN IF RangesOK(d, p) THEN scan[p + c.len + REC_END, Hide(c), c.rec]
                 ELSE [tail |-> p, last |-> c.rec]
            ELSE [tail |-> p, last |-> last]
  IN  scan[s.tail, Reset, 0]

\* clear_log_status
Cleared(s) == [s EXCEPT !.first = 0, !.phead = 0, !.ptail = 0]

\* Mutant: a truncation caught by the crash is not done again.
LocateTail_NewEpoch(d, s, now) ==
  LET c == d[s.head]
      s1 == [s EXCEPT !.first = IF @ = 0 THEN c.rec ELSE @]
      z == ScanTail(d, s1, now)
  IN  IF ~Current(c, s, now) \/ z.tail = s.head THEN Cleared([s EXCEPT !.tail = s.head])
      ELSE [s1 EXCEPT !.tail = z.tail, !.next = Max({@, z.last + 1})]

\* locate_tail: the status block once the records behind it have been found.  A
\* truncation caught by the crash is done again from its head.
LocateTail(d, s0, now) ==
  LET s == IF s0.phead # 0 THEN [s0 EXCEPT !.head = s0.phead] ELSE s0
      c == d[s.head]
      s1 == [s EXCEPT !.first = IF @ = 0 THEN c.rec ELSE @]
      z == ScanTail(d, s1, now)
      s2 == [s1 EXCEPT !.tail = z.tail]
  IN  IF ~Current(c, s, now) THEN Cleared([s EXCEPT !.tail = s.head])
      ELSE IF z.tail = s.head THEN Cleared(s2)
      ELSE [s2 EXCEPT !.next = Max({@, z.last + 1})]
-----------------------------------------------------------------------------
\* scan_wrap_reverse: the last wrap marker of the device, 0 if there is none.
WrapMark(d) == Max({0} \cup {q \in 1 .. Len(d) : d[q].t = "wrap"})

\* validate_rec_reverse: the header of the valid record that ends before p, else 0.
PrevRecord(d, s, p, prev) ==
  LET e == d[p - 1]
      h == p - 1 - e.len
  IN  IF /\ e.t = "end" /\ h >= 1
         /\ Current(d[h], s, s.ltrunc) /\ d[h].t # "wrap" /\ d[h].len = e.len
         /\ Ended(d, h) /\ InSequence(d[h], prev, -1)
      THEN h ELSE 0

\* chk_wrap: the record before the wrap marker is the first part of the
\* transaction whose last part has its header at h.
SplitOK(d, s, h) ==
  LET w == WrapMark(d)
      f == PrevRecord(d, s, w, Hide(d[w]))
  IN  /\ h = 1 /\ w # 0 /\ Current(d[w], s, s.ltrunc) /\ d[w].rec = d[h].rec - 1
      /\ w > 1 /\ f # 0 /\ d[f].t = "hdr" /\ d[f].first
      /\ d[f].uname = d[h].uname /\ d[f].rec = d[h].rec - 2

\* do_trans and do_nv: what they assert of the ranges they meet; the timestamps
\* of a skipped transaction are not looked at.
TransIntact(d, h, skip) ==
  \A i \in DOMAIN Body(d, h) : /\ Body(d, h)[i].t = "nv"
                               /\ skip \/ Body(d, h)[i].ts = d[h].ts

\* do_nv: the new values of the record at h.
NewValues(d, h) ==
  LET b == Body(d, h)
  IN  [k \in {b[i].key : i \in DOMAIN b} |-> b[CHOOSE i \in DOMAIN b : b[i].key = k].val]

\* scan_reverse from offset p: the record or wrap marker before it; NONE at
\* prev_log_head, 0 where there is no valid record.
NONE == -1
Before(d, s, p, prev) ==
  LET w == WrapMark(d)
  IN  IF p = s.phead THEN NONE
      ELSE IF p # 1 THEN PrevRecord(d, s, p, prev)
      ELSE IF w # 0 /\ Current(d[w], s, s.ltrunc) /\ InSequence(d[w], prev, -1) THEN w
      ELSE 0

\* build_tree: the reverse scan from prev_log_tail to prev_log_head.  force is
\* force_wrap_chk, split is split_ok.  The result is the sequence of the records
\* that count, newest first; it ends in 0 where the code's assertions fail.
ScanReverse(d, s) ==
  LET scan[h \in NONE .. Len(d), force \in BOOLEAN, split \in BOOLEAN] ==
        LET c == d[h]
            split2 == split /\ ~((force \/ h = 1) /\ ~c.last)
            whole == \/ ~force /\ h # 1
                     \/ c.first /\ c.last
                     \/ ~c.last /\ split
            skip == ~whole /\ ~c.last /\ force
        IN  CASE h = NONE -> <<>>
              [] h = 0 -> <<0>>
              [] OTHER ->
                 IF c.t = "wrap" THEN scan[Before(d, s, h, Hide(c)), force \/ ~split, split]
                 ELSE IF c.t = "seg" THEN <<h>> \o scan[Before(d, s, h, Hide(c)), force, split]
                 ELSE IF ~TransIntact(d, h, skip) THEN <<0>>
                 ELSE IF whole THEN <<h>> \o scan[Before(d, s, h, Hide(c)), FALSE, split2]
                 ELSE IF skip THEN scan[Before(d, s, h, Hide(c)), FALSE, split]
                 ELSE IF SplitOK(d, s, h) THEN <<h>> \o scan[Before(d, s, h, Reset), FALSE, TRUE]
                 ELSE <<0>>
  IN  scan[Before(d, s, s.ptail, Reset), FALSE, FALSE]

\* The records rs define the segment; the change tree they build, in which older
\* values never replace newer ones (change_tree_insert).
DefineSeg(d, rs) == \E h \in Range(rs) : d[h].t = "seg"
ChangeTree(d, rs) ==
  LET sets(k) == {i \in DOMAIN rs : d[rs[i]].t = "hdr" /\ k \in DOMAIN NewValues(d, rs[i])}
      keys == UNION {DOMAIN NewValues(d, h) : h \in {g \in Range(rs) : d[g].t = "hdr"}}
  IN  [k \in keys |-> NewValues(d, rs[Min(sets(k))])[k]]
=============================================================================
