------------------------- MODULE ReplicationProofs --------------------------
(***************************************************************************)
(* Proofs about Replication, for any number of servers, clients and        *)
(* updates and for any faults: type correctness in every environment; the  *)
(* counts of the slots, with what follows from them, in all behaviours     *)
(* without late COP2s; the contents of the replicas in all behaviours in   *)
(* which no resolution outlasts its volume locks.                          *)
(***************************************************************************)
EXTENDS Replication, FiniteSetTheorems, TLAPS

\* Leaves that cite no prover need no arithmetic and are left to Zenon.
USE Zenon

-----------------------------------------------------------------------------
(* What the operators of ReplicationData compute: the types of the records *)
(* they return, and what each kind of update of a version vector does to   *)
(* the counts of its slots.  Only sets of updates are counted: what is     *)
(* needed of their cardinality is the assumption Counting of the lemmas.   *)

\* The vector of a new file.
LEMMA ZeroVVType == ZeroVV \in VV
  BY SMTT(60), SidAssumption DEF ZeroVV, VV, Versions

\* The record of a server that coordinates nothing.
LEMMA IdleResType == IdleRes \in ResType /\ Answered(IdleRes) /\ IdleOK(IdleRes)
  BY ZeroVVType, SidAssumption DEF IdleRes, ResType, Answered, IdleOK

\* AddVVs adds slot by slot.
LEMMA AddVVsType ==
  ASSUME NEW v \in VV, NEW S
  PROVE  /\ AddVVs(v, One(S)) \in VV
         /\ \A j \in Slots :
              AddVVs(v, One(S)).Versions[j] = v.Versions[j] + (IF j \in S THEN 1 ELSE 0)
         /\ AddVVs(v, One(S)).StoreId = v.StoreId
  BY SMTT(60) DEF AddVVs, One, VV, Versions

\* Each slot of the maximum is the larger one of the two.
LEMMA MaxVersionsType ==
  ASSUME NEW a \in VV, NEW b \in VV
  PROVE  /\ MaxVersions(a, b) \in [Slots -> Int]
         /\ \A j \in Slots : /\ MaxVersions(a, b)[j] \in {a.Versions[j], b.Versions[j]}
                             /\ MaxVersions(a, b)[j] >= a.Versions[j]
                             /\ MaxVersions(a, b)[j] >= b.Versions[j]
  BY SMTT(60) DEF MaxVersions, VV, Versions

\* Records with other values in some of the fields.
Raised(v, w, t) == [v EXCEPT !.Versions = w, !.StoreId = t]

\* A vector with other versions and another StoreId.
LEMMA RaisedType ==
  ASSUME NEW v \in VV, NEW w \in [Slots -> Int], NEW t \in StoreIds
  PROVE  /\ Raised(v, w, t) \in VV
         /\ Raised(v, w, t).Versions = w /\ Raised(v, w, t).StoreId = t
  BY DEF VV, Versions, Raised

\* A record of answers with other values in the fields AddAnswer changes.
Answer(r, f, M, wk, ic, x, n) ==
    [r EXCEPT !.VV = f, !.members = M, !.weak = wk, !.inc = ic, !.dix = x, !.newvv = n]

\* Such a record has the right type, and these values.
LEMMA AnswerType ==
  ASSUME NEW r \in ResType, NEW f \in [Slots -> VV \cup {NULL}], NEW M \in SUBSET Slots,
         NEW wk \in BOOLEAN, NEW ic \in BOOLEAN, NEW x \in Slots \cup {NULL}, NEW n \in VV
  PROVE  LET a == Answer(r, f, M, wk, ic, x, n)
         IN /\ a \in ResType /\ a.pc = r.pc /\ a.todo = r.todo /\ a.members = M
            /\ a.VV = f /\ a.dix = x /\ a.weak = wk /\ a.inc = ic /\ a.newvv = n
  BY DEF ResType, Answer

\* What AddAnswer makes of the record r: a.
AnswerAdded(a, r, s, v) ==
    /\ a \in ResType
    /\ a.pc = r.pc /\ a.todo = r.todo /\ a.members = r.members \cup {s}
    /\ a.VV = [r.VV EXCEPT ![s] = v]
    /\ r.dix = NULL =>
         /\ a.dix = s /\ a.weak = r.weak /\ a.inc = r.inc
         /\ a.newvv.Versions = v.Versions /\ a.newvv.StoreId = v.StoreId
    /\ r.dix # NULL =>
         /\ a.dix = IF VV_Cmp(v, r.VV[r.dix]) = "DOM" THEN s ELSE r.dix
         /\ a.weak = (r.weak /\ SID_EQ(v, r.VV[r.dix]))
         /\ a.inc = (r.inc \/ (VV_Cmp(v, r.VV[r.dix]) = "INC" /\ ~SID_EQ(v, r.VV[r.dix])))
         /\ a.newvv.Versions = MaxVersions(r.newvv, v)
         /\ a.newvv.StoreId = IF VV_Cmp(v, r.VV[r.dix]) = "DOM" THEN v.StoreId
                              ELSE r.newvv.StoreId

\* What AddAnswer changes, field by field.
LEMMA AddAnswerFields ==
  ASSUME NEW r \in ResType, NEW s \in Slots, NEW v \in VV
  PROVE  AnswerAdded(AddAnswer(r, s, v), r, s, v)
  <1> DEFINE f == [r.VV EXCEPT ![s] = v]
             d == r.VV[r.dix]
             dom == VV_Cmp(v, d) = "DOM"
             n == [v EXCEPT !.Incon = FALSE]
             m == GetMaxVV(r.newvv, v, dom)
             wk == r.weak /\ SID_EQ(v, d)
             ic == r.inc \/ (VV_Cmp(v, d) = "INC" /\ ~SID_EQ(v, d))
             x == IF dom THEN s ELSE r.dix
             M == r.members \cup {s}
  <1>0. /\ r.newvv \in VV /\ r.VV \in [Slots -> VV \cup {NULL}] /\ M \in SUBSET Slots
        /\ r.weak \in BOOLEAN /\ r.inc \in BOOLEAN
    BY DEF ResType
  <1>1. f \in [Slots -> VV \cup {NULL}]
    BY <1>0
  <1>2. n \in VV /\ n.Versions = v.Versions /\ n.StoreId = v.StoreId
    BY DEF VV
  <1>3. m \in VV /\ m.Versions = MaxVersions(r.newvv, v)
        /\ m.StoreId = IF dom THEN v.StoreId ELSE r.newvv.StoreId
    <2> DEFINE w == MaxVersions(r.newvv, v)
               t == IF dom THEN v.StoreId ELSE r.newvv.StoreId
    <2>1. w \in [Slots -> Int]
      BY <1>0, MaxVersionsType
    <2>2. t \in StoreIds
      BY <1>0 DEF VV
    <2>3. m = Raised(r.newvv, w, t)
      BY DEF GetMaxVV, Raised
    <2> HIDE DEF m, w, t
    <2>4. m \in VV /\ m.Versions = w /\ m.StoreId = t
      BY SMTT(60), <1>0, <2>1, <2>2, <2>3, RaisedType
    <2> QED
      BY <2>4 DEF w, t
  <1>4. wk \in BOOLEAN /\ ic \in BOOLEAN /\ x \in Slots \cup {NULL}
    BY <1>0 DEF ResType
  <1>5. r.dix = NULL => AddAnswer(r, s, v) = Answer(r, f, M, r.weak, r.inc, s, n)
    BY DEF AddAnswer, Answer, ResType
  <1>6. r.dix # NULL => AddAnswer(r, s, v) = Answer(r, f, M, wk, ic, x, m)
    BY DEF AddAnswer, Answer
  <1> HIDE DEF f, n, m, wk, ic, x, dom, d, M
  <1>7. CASE r.dix = NULL
    BY SMTT(60), <1>0, <1>1, <1>2, <1>5, <1>7, AnswerType DEF f, M, AnswerAdded
  <1>8. CASE r.dix # NULL
    <2> DEFINE a == AddAnswer(r, s, v)
    <2>1. a = Answer(r, f, M, wk, ic, x, m)
      BY <1>6, <1>8
    <2> HIDE DEF a
    <2>2. /\ a \in ResType /\ a.pc = r.pc /\ a.todo = r.todo /\ a.members = M
          /\ a.VV = f /\ a.dix = x /\ a.weak = wk /\ a.inc = ic /\ a.newvv = m
      BY SMTT(60), <1>0, <1>1, <1>3, <1>4, <2>1, AnswerType
    <2>3. a.members = r.members \cup {s} /\ a.VV = [r.VV EXCEPT ![s] = v]
      BY <2>2 DEF f, M
    <2>4. /\ a.dix = IF VV_Cmp(v, r.VV[r.dix]) = "DOM" THEN s ELSE r.dix
          /\ a.weak = (r.weak /\ SID_EQ(v, r.VV[r.dix]))
          /\ a.inc = (r.inc \/ (VV_Cmp(v, r.VV[r.dix]) = "INC" /\ ~SID_EQ(v, r.VV[r.dix])))
      BY <2>2 DEF x, wk, ic, d, dom
    <2>5. /\ a.newvv.Versions = MaxVersions(r.newvv, v)
          /\ a.newvv.StoreId = IF VV_Cmp(v, r.VV[r.dix]) = "DOM" THEN v.StoreId
                               ELSE r.newvv.StoreId
      BY <1>3, <2>2 DEF d, dom
    <2> QED
      BY <1>8, <2>2, <2>3, <2>4, <2>5 DEF a, AnswerAdded
  <1> QED
    BY <1>7, <1>8

\* AddAnswer returns a record whose dominant answer has a vector.
LEMMA AddAnswerType ==
  ASSUME NEW r \in ResType, Answered(r), NEW s \in Slots, NEW v \in VV,
         r.pc = "lock"
  PROVE  /\ AddAnswer(r, s, v) \in ResType /\ Answered(AddAnswer(r, s, v))
         /\ AddAnswer(r, s, v).pc = "lock" /\ AddAnswer(r, s, v).todo = r.todo
         /\ AddAnswer(r, s, v).dix \in {s, r.dix}
  <1> DEFINE a == AddAnswer(r, s, v)
  <1>1. /\ a \in ResType /\ a.pc = "lock" /\ a.members = r.members \cup {s}
        /\ a.VV = [r.VV EXCEPT ![s] = v] /\ a.dix \in {s, r.dix} /\ a.dix # NULL
        /\ a.todo = r.todo
    <2>1. AnswerAdded(a, r, s, v)
      BY AddAnswerFields
    <2> HIDE DEF a
    <2> QED
      BY <2>1, NullAssumption DEF AnswerAdded
  <1>2. r.VV \in [Slots -> VV \cup {NULL}] /\ r.members \subseteq Slots /\ r.dix \in Slots \cup {NULL}
    BY DEF ResType
  <1>3. /\ \A t \in r.members : r.VV[t] \in VV
        /\ r.dix # NULL => r.VV[r.dix] \in VV
    BY DEF Answered
  <1>4. \A t \in Slots : a.VV[t] = IF t = s THEN v ELSE r.VV[t]
    <2> HIDE DEF a
    <2> QED
      BY <1>1, <1>2
  <1>5. a.VV[a.dix] \in VV
    <2> HIDE DEF a
    <2>1. CASE a.dix = s
      BY <1>4, <2>1
    <2>2. CASE a.dix # s
      <3>1. a.dix = r.dix /\ r.dix # NULL
        BY <1>1, <2>2
      <3> QED
        BY <1>2, <1>3, <1>4, <2>2, <3>1
    <2> QED
      BY <2>1, <2>2
  <1>6. \A t \in a.members : a.VV[t] \in VV
    <2> HIDE DEF a
    <2> QED
      BY <1>1, <1>2, <1>3, <1>4
  <1> QED
    BY <1>1, <1>5, <1>6 DEF Answered

\* HandleWeakEquality keeps the StoreId and raises at most the versions.
LEMMA HandleWeakEqualityType ==
  ASSUME NEW v \in VV, NEW w \in VV
  PROVE  /\ HandleWeakEquality(v, w) \in VV
         /\ HandleWeakEquality(v, w).StoreId = v.StoreId
         /\ HandleWeakEquality(v, w) = v
              \/ (v.StoreId = w.StoreId /\ HandleWeakEquality(v, w).Versions = MaxVersions(v, w))
  <1>1. MaxVersions(v, w) \in [Slots -> Int]
    BY MaxVersionsType
  <1> QED
    BY <1>1 DEF HandleWeakEquality, SID_EQ, VV, Versions

\* NewCOP1Update counts one more in the slot of the server, and in no other.
LEMMA NewCOP1UpdateType ==
  ASSUME NEW v \in VV, NEW s \in Slots, NEW u \in StoreIds
  PROVE  /\ NewCOP1Update(v, s, u) \in VV
         /\ NewCOP1Update(v, s, u).StoreId = u
         /\ NewCOP1Update(v, s, u).Versions[s] = v.Versions[s] + 1
         /\ \A j \in Slots \ {s} : NewCOP1Update(v, s, u).Versions[j] = v.Versions[j]
  <1> DEFINE w == AddVVs(v, One({s}))
  <1>1. w \in VV /\ \A j \in Slots : w.Versions[j] = v.Versions[j] + (IF j \in {s} THEN 1 ELSE 0)
    BY AddVVsType
  <1>2. NewCOP1Update(v, s, u) = [w EXCEPT !.StoreId = u]
    BY DEF NewCOP1Update
  <1>3. v.Versions \in [Slots -> Int]
    BY DEF VV, Versions
  <1> HIDE DEF w
  <1>4. [w EXCEPT !.StoreId = u] \in VV /\ [w EXCEPT !.StoreId = u].StoreId = u
        /\ [w EXCEPT !.StoreId = u].Versions = w.Versions
    BY <1>1 DEF VV
  <1> QED
    BY SMTT(60), <1>1, <1>2, <1>3, <1>4

\* A reply adds at most its server to the update set.
LEMMA PerformedType ==
  ASSUME NEW o \in OpType, NEW s \in Slots, NEW r \in BOOLEAN
  PROVE  /\ Performed(o, s, r) \in OpType
         /\ Performed(o, s, r).sid = o.sid /\ Performed(o, s, r).base = o.base
         /\ Performed(o, s, r).UpdateSet \subseteq o.UpdateSet \cup {s}
  <1> DEFINE T == o.todo \ {s}
             U == IF r THEN o.UpdateSet \cup {s} ELSE o.UpdateSet
  <1>1. T \in SUBSET Slots /\ U \in SUBSET Slots /\ U \subseteq o.UpdateSet \cup {s}
    BY DEF OpType
  <1>2. Performed(o, s, r) = [o EXCEPT !.todo = T, !.UpdateSet = U]
    BY DEF Performed
  <1> DEFINE q == [o EXCEPT !.todo = T, !.UpdateSet = U]
  <1> HIDE DEF T, U
  <1>3. q \in OpType /\ q.sid = o.sid /\ q.base = o.base /\ q.UpdateSet = U
    BY <1>1 DEF OpType
  <1> HIDE DEF q
  <1> QED
    BY <1>1, <1>2, <1>3 DEF q

\* A refusal adds nobody to the update set.
LEMMA RefusedType ==
  ASSUME NEW o \in OpType, NEW s \in Slots, NEW code \in CallCodes
  PROVE  /\ Refused(o, s, code) \in OpType
         /\ Refused(o, s, code).sid = o.sid /\ Refused(o, s, code).base = o.base
         /\ Refused(o, s, code).UpdateSet = o.UpdateSet
  <1> DEFINE T == o.todo \ {s}
             C == o.codes \cup {code}
  <1>1. T \in SUBSET Slots /\ C \in SUBSET CallCodes
    BY DEF OpType
  <1>2. Refused(o, s, code) = [o EXCEPT !.todo = T, !.codes = C]
    BY DEF Refused
  <1> DEFINE q == [o EXCEPT !.todo = T, !.codes = C]
  <1> HIDE DEF T, C
  <1>3. q \in OpType /\ q.sid = o.sid /\ q.base = o.base /\ q.UpdateSet = o.UpdateSet
    BY <1>1 DEF OpType
  <1> HIDE DEF q
  <1> QED
    BY <1>1, <1>2, <1>3 DEF q

-----------------------------------------------------------------------------
(* Counting.  h, p and x stand for hist, perf and vv.                      *)

\* How many of the updates that t contains server j performed.
Count(h, p, t, j) == Cardinality(h[t] \cap p[j])

\* Every slot of v counts at most the updates it may count.
Bounded(h, p, v) ==
    \A j \in Slots : v.Versions[j] <= Count(h, p, v.StoreId, j)

\* Some server that performed the latest update of v is fully counted in v.
Witnessed(h, p, v) ==
    \/ v.StoreId = NullSid
    \/ \E k \in Slots : /\ v.StoreId \in p[k]
                        /\ v.Versions[k] >= Count(h, p, v.StoreId, k)

\* The StoreId is that of an update that was made.
Known(h, t) == t = NullSid \/ h[t] # {}

\* An update contains itself and all that its contents contain, and a server
\* performs one update on top of the other.
HistOK(h, p) ==
    /\ h \in [StoreIds -> SUBSET StoreIds] /\ p \in [Slots -> SUBSET StoreIds]
    /\ h[NullSid] = {}
    /\ \A t \in StoreIds : h[t] # {} => t \in h[t]
    /\ \A t \in StoreIds : \A x \in h[t] : x \in h[x] /\ h[x] \subseteq h[t]
    /\ \A k \in Slots : \A x \in p[k] : x \in h[x]
    /\ \A k \in Slots : \A x, y \in p[k] : x \in h[y] \/ y \in h[x]

\* What a step may do to the histories.
Grows(h, p, h2, p2) ==
    /\ \A t \in StoreIds : Known(h, t) => h2[t] = h[t]
    /\ \A k \in Slots : p[k] \subseteq p2[k]
    /\ \A k \in Slots : \A t \in p[k] : h[t] \cap p2[k] = h[t] \cap p[k]

\* What is needed of the cardinality of sets of updates.
Counting ==
    /\ Cardinality({}) = 0
    /\ \A A \in SUBSET StoreIds : \A B \in SUBSET A :
         /\ Cardinality(A) \in Nat /\ Cardinality(B) \in Nat
         /\ Cardinality(B) <= Cardinality(A)
         /\ A # B => Cardinality(B) < Cardinality(A)
    /\ \A A \in SUBSET StoreIds : \A u \in StoreIds \ A :
         Cardinality(A \cup {u}) = Cardinality(A) + 1

\* A smaller set of updates has a smaller cardinality.
LEMMA CardSubset ==
  ASSUME Counting, NEW A, NEW B, A \subseteq B, B \subseteq StoreIds
  PROVE  /\ Cardinality(A) \in Nat /\ Cardinality(B) \in Nat
         /\ Cardinality(A) <= Cardinality(B)
         /\ A # B => Cardinality(A) < Cardinality(B)
  BY DEF Counting

\* One more update is counted by one more.
LEMMA CardAdd ==
  ASSUME Counting, NEW A, A \subseteq StoreIds, NEW u \in StoreIds, u \notin A
  PROVE  /\ Cardinality(A) \in Nat
         /\ Cardinality(A \cup {u}) = Cardinality(A) + 1
  BY DEF Counting

\* A vector that is not below another contains what the other contains.
LEMMA Dominance ==
  ASSUME Counting, NEW h, NEW p, HistOK(h, p), NEW a \in VV, NEW b \in VV,
         Bounded(h, p, a), Witnessed(h, p, b), AllGeq(a, b)
  PROVE  h[b.StoreId] \subseteq h[a.StoreId]
  <1>0. a.StoreId \in StoreIds /\ b.StoreId \in StoreIds
    BY DEF VV
  <1>1. CASE b.StoreId = NullSid
    BY <1>1 DEF HistOK
  <1>2. ASSUME NEW k \in Slots, b.StoreId \in p[k],
               b.Versions[k] >= Count(h, p, b.StoreId, k)
        PROVE  h[b.StoreId] \subseteq h[a.StoreId]
    <2> DEFINE A == h[a.StoreId] \cap p[k]
               B == h[b.StoreId] \cap p[k]
    <2>1. A \subseteq StoreIds /\ B \subseteq StoreIds
      BY <1>0 DEF HistOK
    <2>2. b.StoreId \in B
      BY <1>2 DEF HistOK
    <2>3. Cardinality(A) >= Cardinality(B)
      <3>1. a.Versions[k] >= b.Versions[k] /\ a.Versions[k] <= Cardinality(A)
        BY DEF AllGeq, Bounded, Count
      <3>2. a.Versions[k] \in Int /\ b.Versions[k] \in Int
        BY DEF VV, Versions
      <3>3. Cardinality(A) \in Nat /\ Cardinality(B) \in Nat
        BY <2>1, CardSubset
      <3>4. b.Versions[k] >= Cardinality(B)
        BY <1>2 DEF Count
      <3> HIDE DEF A, B
      <3> QED
        BY SMTT(60), <3>1, <3>2, <3>3, <3>4
    <2>4. ASSUME b.StoreId \notin h[a.StoreId] PROVE FALSE
      <3>1. A \subseteq B
        BY <1>0, <1>2, <2>4 DEF HistOK
      <3>2. A # B
        BY <2>2, <2>4
      <3>3. Cardinality(A) < Cardinality(B)
        BY <2>1, <3>1, <3>2, CardSubset
      <3>4. Cardinality(A) \in Nat /\ Cardinality(B) \in Nat
        BY <2>1, CardSubset
      <3> QED
        BY SMTT(60), <2>3, <3>3, <3>4
    <2> QED
      BY <1>0, <2>4 DEF HistOK
  <1> QED
    BY <1>1, <1>2 DEF Witnessed

\* What is counted stays counted.
LEMMA CountGrows ==
  ASSUME Counting, NEW h, NEW p, NEW h2, NEW p2, HistOK(h, p), HistOK(h2, p2),
         Grows(h, p, h2, p2), NEW t \in StoreIds, Known(h, t), NEW j \in Slots
  PROVE  /\ Count(h, p, t, j) \in Nat /\ Count(h2, p2, t, j) \in Nat
         /\ Count(h, p, t, j) <= Count(h2, p2, t, j)
         /\ t \in p[j] => Count(h, p, t, j) = Count(h2, p2, t, j)
  <1>1. h2[t] = h[t] /\ p[j] \subseteq p2[j]
    BY DEF Grows
  <1>2. h[t] \cap p[j] \subseteq h2[t] \cap p2[j] /\ h2[t] \cap p2[j] \subseteq StoreIds
    BY <1>1 DEF HistOK
  <1>3. t \in p[j] => h[t] \cap p[j] = h2[t] \cap p2[j]
    BY <1>1 DEF Grows
  <1> QED
    BY <1>2, <1>3, CardSubset DEF Count

\* Bounds stay bounds.
LEMMA BoundedGrows ==
  ASSUME Counting, NEW h, NEW p, NEW h2, NEW p2, HistOK(h, p), HistOK(h2, p2),
         Grows(h, p, h2, p2), NEW v \in VV, Known(h, v.StoreId), Bounded(h, p, v)
  PROVE  Bounded(h2, p2, v)
  <1>1. v.StoreId \in StoreIds /\ v.Versions \in [Slots -> Int]
    BY DEF VV, Versions
  <1>2. SUFFICES ASSUME NEW j \in Slots
                 PROVE  v.Versions[j] <= Count(h2, p2, v.StoreId, j)
    BY DEF Bounded
  <1>3. v.Versions[j] \in Int /\ v.Versions[j] <= Count(h, p, v.StoreId, j)
    BY <1>1 DEF Bounded
  <1> QED
    BY SMTT(60), <1>1, <1>3, CountGrows

\* The witness of a vector stays a witness.
LEMMA WitnessedGrows ==
  ASSUME Counting, NEW h, NEW p, NEW h2, NEW p2, HistOK(h, p), HistOK(h2, p2),
         Grows(h, p, h2, p2), NEW v \in VV, Witnessed(h, p, v)
  PROVE  Witnessed(h2, p2, v) /\ Known(h, v.StoreId) /\ Known(h2, v.StoreId)
  <1>0. v.StoreId \in StoreIds
    BY DEF VV
  <1>1. CASE v.StoreId = NullSid
    BY <1>1 DEF Witnessed, Known
  <1>2. ASSUME NEW k \in Slots, v.StoreId \in p[k],
               v.Versions[k] >= Count(h, p, v.StoreId, k)
        PROVE  Witnessed(h2, p2, v) /\ Known(h, v.StoreId) /\ Known(h2, v.StoreId)
    <2>1. Known(h, v.StoreId)
      BY <1>2 DEF HistOK, Known
    <2>2. Count(h, p, v.StoreId, k) = Count(h2, p2, v.StoreId, k) /\ v.StoreId \in p2[k]
      BY SMTT(60), <1>0, <1>2, <2>1, CountGrows DEF Grows
    <2>3. Known(h2, v.StoreId)
      BY <2>2 DEF HistOK, Known
    <2> QED
      BY <1>2, <2>1, <2>2, <2>3 DEF Witnessed
  <1> QED
    BY <1>1, <1>2 DEF Witnessed

-----------------------------------------------------------------------------
(***************************************************************************)
(* The inductive invariant of a server, a client and a coordinator.        *)
(***************************************************************************)

\* A server counts all it has performed in its own slot, and its contents contain
\* what it has performed.
Replica(h, p, s, v) ==
    /\ Bounded(h, p, v) /\ Witnessed(h, p, v)
    /\ p[s] \subseteq h[v.StoreId]
    /\ Cardinality(p[s]) <= v.Versions[s]

\* Only the latest update can have a COP2 outstanding, and then no other slot of
\* the vector counts it.
Fresh(h, p, s, v, f, entries) ==
    /\ entries \subseteq {f} /\ NullSid \notin entries
    /\ f # NullSid =>
         /\ v.StoreId = f /\ h[f] # {}
         /\ \A j \in Slots \ {s} : v.Versions[j] <= Cardinality((h[f] \ {f}) \cap p[j])

\* What a client has cached is a version there was.
Cached(h, p, v) == Bounded(h, p, v) /\ Known(h, v.StoreId)

\* An update that is being made extends the cached version, and the servers of the
\* update set have performed it.
Open(h, p, o) ==
    /\ o.sid # NullSid /\ o.sid \notin h[o.base.StoreId]
    /\ h[o.sid] = h[o.base.StoreId] \cup {o.sid}
    /\ Cached(h, p, o.base)
    /\ \A i \in o.UpdateSet : o.sid \in p[i]

\* The COP2 of an update lists servers that performed it.
Listed(p, e) == \A i \in e.UpdateSet : e.sid \in p[i]

\* What a coordinator has found: newvv names the update of the dominant answer,
\* stays within what may be counted unless the answers conflict, and of weakly
\* equal answers every member contains it.
Found(h, p, x, r) ==
    /\ r.weak => ~r.inc
    /\ Witnessed(h, p, r.newvv)
    /\ ~r.inc => Bounded(h, p, r.newvv)
    /\ r.dix # NULL => /\ Bounded(h, p, r.VV[r.dix]) /\ Witnessed(h, p, r.VV[r.dix])
                       /\ r.newvv.StoreId = r.VV[r.dix].StoreId
    /\ r.weak => \A s \in r.members : h[r.newvv.StoreId] \subseteq h[x[s].StoreId]

\* What the phases of a resolution build on.
Coordinates(h, p, x, r) ==
    /\ r.pc \in {"lock", "forcevv", "fetch", "forcefile"} => Found(h, p, x, r)
    /\ r.pc = "lock" => r.dix \notin r.todo
    /\ r.pc = "forcevv" => r.weak /\ r.todo \subseteq r.members
    /\ r.pc \in {"fetch", "forcefile"} => ~r.inc

-----------------------------------------------------------------------------
(* What a step leaves alone stays right when histories grow.               *)

\* A replica that takes no part in a step stays right.
LEMMA ReplicaGrows ==
  ASSUME Counting, NEW h, NEW p, NEW h2, NEW p2, HistOK(h, p), HistOK(h2, p2), Grows(h, p, h2, p2),
         NEW s \in Slots, NEW v \in VV, Replica(h, p, s, v), p2[s] = p[s]
  PROVE  Replica(h2, p2, s, v)
  <1>1. v.StoreId \in StoreIds
    BY DEF VV
  <1>2. Witnessed(h2, p2, v) /\ Known(h, v.StoreId)
    BY WitnessedGrows DEF Replica
  <1>3. Bounded(h2, p2, v)
    BY <1>2, BoundedGrows DEF Replica
  <1>4. h2[v.StoreId] = h[v.StoreId]
    BY <1>1, <1>2 DEF Grows
  <1> QED
    BY <1>2, <1>3, <1>4 DEF Replica

\* So does what is known of its latest update,
LEMMA FreshGrows ==
  ASSUME Counting, NEW h, NEW p, NEW h2, NEW p2, HistOK(h, p), HistOK(h2, p2), Grows(h, p, h2, p2),
         NEW s \in Slots, NEW v \in VV, NEW f \in StoreIds, NEW E, NEW E2, E2 \subseteq E,
         Fresh(h, p, s, v, f, E)
  PROVE  Fresh(h2, p2, s, v, f, E2)
  <1>1. E2 \subseteq {f} /\ NullSid \notin E2
    BY DEF Fresh
  <1>2. ASSUME f # NullSid
        PROVE  /\ v.StoreId = f /\ h2[f] # {}
               /\ \A j \in Slots \ {s} : v.Versions[j] <= Cardinality((h2[f] \ {f}) \cap p2[j])
    <2>1. v.StoreId = f /\ h[f] # {} /\ h2[f] = h[f]
      BY <1>2 DEF Fresh, Grows, Known
    <2>2. ASSUME NEW j \in Slots \ {s}
          PROVE  v.Versions[j] <= Cardinality((h2[f] \ {f}) \cap p2[j])
      <3> DEFINE A == (h[f] \ {f}) \cap p[j]
                 B == (h2[f] \ {f}) \cap p2[j]
      <3>1. A \subseteq B /\ B \subseteq StoreIds
        BY <2>1 DEF Grows, HistOK
      <3>2. Cardinality(A) \in Nat /\ Cardinality(B) \in Nat /\ Cardinality(A) <= Cardinality(B)
        BY <3>1, CardSubset
      <3>3. v.Versions[j] <= Cardinality(A) /\ v.Versions[j] \in Int
        BY <1>2 DEF Fresh, VV, Versions
      <3> HIDE DEF A, B
      <3>4. v.Versions[j] <= Cardinality(B)
        BY SMTT(60), <3>2, <3>3
      <3> QED
        BY <3>4 DEF B
    <2> QED
      BY <2>1, <2>2
  <1> QED
    BY <1>1, <1>2 DEF Fresh

\* the version a client has cached,
LEMMA CachedGrows ==
  ASSUME Counting, NEW h, NEW p, NEW h2, NEW p2, HistOK(h, p), HistOK(h2, p2), Grows(h, p, h2, p2),
         NEW v \in VV, Cached(h, p, v)
  PROVE  Cached(h2, p2, v) /\ h2[v.StoreId] = h[v.StoreId]
  <1>1. v.StoreId \in StoreIds
    BY DEF VV
  <1>2. h2[v.StoreId] = h[v.StoreId]
    BY <1>1 DEF Cached, Grows
  <1>3. Known(h2, v.StoreId)
    BY <1>2 DEF Cached, Known
  <1> QED
    BY <1>2, <1>3, BoundedGrows DEF Cached

\* the update a client is making,
LEMMA OpenGrows ==
  ASSUME Counting, NEW h, NEW p, NEW h2, NEW p2, HistOK(h, p), HistOK(h2, p2), Grows(h, p, h2, p2),
         NEW o \in OpType, Open(h, p, o)
  PROVE  Open(h2, p2, o)
  <1>1. o.sid \in StoreIds /\ o.base \in VV /\ o.UpdateSet \subseteq Slots
    BY DEF OpType
  <1>2. Cached(h2, p2, o.base) /\ h2[o.base.StoreId] = h[o.base.StoreId]
    <2>1. Cached(h, p, o.base)
      BY DEF Open
    <2> QED
      BY <1>1, <2>1, CachedGrows
  <1>3. Known(h, o.sid)
    BY DEF Open, Known
  <1>4. h2[o.sid] = h[o.sid]
    BY <1>1, <1>3 DEF Grows
  <1>5. \A i \in o.UpdateSet : o.sid \in p2[i]
    BY <1>1 DEF Open, Grows
  <1> QED
    BY <1>2, <1>4, <1>5 DEF Open

\* and what a coordinator has found, as no replica loses an update.
LEMMA CoordinatesGrows ==
  ASSUME Counting, NEW h, NEW p, NEW h2, NEW p2, HistOK(h, p), HistOK(h2, p2), Grows(h, p, h2, p2),
         NEW x, NEW x2,
         \A i \in Slots : h[x[i].StoreId] \subseteq h2[x2[i].StoreId],
         NEW r \in ResType, Answered(r), Coordinates(h, p, x, r)
  PROVE  Coordinates(h2, p2, x2, r)
  <1> SUFFICES ASSUME r.pc \in {"lock", "forcevv", "fetch", "forcefile"}
               PROVE  Coordinates(h2, p2, x2, r)
    BY DEF Coordinates, Found
  <1>1. r.newvv \in VV /\ r.newvv.StoreId \in StoreIds /\ r.members \subseteq Slots
    BY DEF ResType, VV
  <1>2. Witnessed(h, p, r.newvv)
    BY DEF Coordinates, Found
  <1>3. Witnessed(h2, p2, r.newvv) /\ Known(h, r.newvv.StoreId)
    BY <1>1, <1>2, WitnessedGrows
  <1>4. ~r.inc => Bounded(h2, p2, r.newvv)
    BY <1>1, <1>3, BoundedGrows DEF Coordinates, Found
  <1>5. ASSUME r.dix # NULL
        PROVE  /\ Bounded(h2, p2, r.VV[r.dix]) /\ Witnessed(h2, p2, r.VV[r.dix])
               /\ r.newvv.StoreId = r.VV[r.dix].StoreId
    <2>1. r.VV[r.dix] \in VV
      BY <1>5 DEF Answered
    <2>2. /\ Bounded(h, p, r.VV[r.dix]) /\ Witnessed(h, p, r.VV[r.dix])
          /\ r.newvv.StoreId = r.VV[r.dix].StoreId
      BY <1>5 DEF Coordinates, Found
    <2> QED
      BY SMTT(60), <1>3, <2>1, <2>2, WitnessedGrows, BoundedGrows
  <1>6. ASSUME r.weak, NEW s \in r.members
        PROVE  h2[r.newvv.StoreId] \subseteq h2[x2[s].StoreId]
    <2>1. h2[r.newvv.StoreId] = h[r.newvv.StoreId]
      BY <1>1, <1>3 DEF Grows
    <2>2. h[r.newvv.StoreId] \subseteq h[x[s].StoreId]
      BY <1>6 DEF Coordinates, Found
    <2> QED
      BY <1>1, <2>1, <2>2
  <1> QED
    BY <1>3, <1>4, <1>5, <1>6 DEF Coordinates, Found

-----------------------------------------------------------------------------
(* What each kind of step does to the vector of a replica.                 *)

\* Only the versions and the StoreId matter.
LEMMA ReplicaSame ==
  ASSUME Counting, NEW h, NEW p, NEW s, NEW v, NEW w, NEW f, NEW E,
         w.Versions = v.Versions, w.StoreId = v.StoreId
  PROVE  /\ Replica(h, p, s, v) => Replica(h, p, s, w)
         /\ Fresh(h, p, s, v, f, E) => Fresh(h, p, s, w, f, E)
  BY DEF Replica, Fresh, Bounded, Witnessed

\* COP2: the others count the update their servers performed.
LEMMA COP2Effect ==
  ASSUME Counting, NEW h, NEW p, HistOK(h, p), NEW s \in Slots, NEW v \in VV, NEW f \in StoreIds, NEW E,
         Replica(h, p, s, v), Fresh(h, p, s, v, f, E), f # NullSid,
         NEW US, \A i \in US : f \in p[i]
  PROVE  Replica(h, p, s, COP2Update(v, s, US)) /\ COP2Update(v, s, US).StoreId = v.StoreId
  <1> DEFINE w == COP2Update(v, s, US)
  <1>1. /\ w \in VV /\ w.StoreId = v.StoreId
        /\ \A j \in Slots : w.Versions[j] = v.Versions[j] + (IF j \in US \ {s} THEN 1 ELSE 0)
    BY SMTT(60), AddVVsType DEF COP2Update
  <1>2. v.StoreId = f /\ f \in h[f] /\ v.Versions \in [Slots -> Int]
    BY DEF Fresh, HistOK, VV, Versions
  <1> HIDE DEF w
  <1>3. \A j \in Slots : w.Versions[j] \in Int /\ w.Versions[j] >= v.Versions[j]
    BY SMTT(60), <1>1, <1>2
  <1>4. ASSUME NEW j \in Slots
        PROVE  w.Versions[j] <= Count(h, p, f, j)
    <2> DEFINE A == (h[f] \ {f}) \cap p[j]
    <2>1. CASE j \in US \ {s}
      <3>1. A \subseteq StoreIds /\ f \notin A /\ h[f] \cap p[j] = A \cup {f}
        BY SMTT(60), <1>2, <2>1 DEF HistOK
      <3>2. Cardinality(A) \in Nat /\ Cardinality(A \cup {f}) = Cardinality(A) + 1
        BY <3>1, CardAdd
      <3>3. v.Versions[j] <= Cardinality(A) /\ v.Versions[j] \in Int
        BY <1>2, <2>1 DEF Fresh
      <3> HIDE DEF A
      <3>4. Count(h, p, f, j) = Cardinality(A) + 1
        BY <3>1, <3>2 DEF Count
      <3>5. w.Versions[j] = v.Versions[j] + 1
        BY <1>1, <2>1
      <3> QED
        BY SMTT(60), <3>2, <3>3, <3>4, <3>5
    <2>2. CASE j \notin US \ {s}
      <3>1. v.Versions[j] <= Count(h, p, f, j)
        BY <1>2 DEF Replica, Bounded
      <3> QED
        BY SMTT(60), <1>1, <1>2, <2>2, <3>1
    <2> QED
      BY <2>1, <2>2
  <1>5. Witnessed(h, p, w)
    <2>1. PICK k \in Slots : f \in p[k] /\ v.Versions[k] >= Count(h, p, f, k)
      BY <1>2 DEF Replica, Witnessed
    <2>2. Count(h, p, f, k) \in Nat
      BY CardSubset DEF Count, HistOK
    <2>3. w.Versions[k] >= Count(h, p, f, k)
      BY SMTT(60), <1>2, <1>3, <2>1, <2>2
    <2> QED
      BY <1>1, <1>2, <2>1, <2>3 DEF Witnessed
  <1>6. Cardinality(p[s]) <= w.Versions[s]
    BY SMTT(60), <1>1, <1>2 DEF Replica
  <1> QED
    BY <1>1, <1>2, <1>4, <1>5, <1>6 DEF Replica, Bounded, w

\* A vector that is raised to one whose updates it has.
LEMMA RaiseEffect ==
  ASSUME Counting, NEW h, NEW p, HistOK(h, p), NEW s \in Slots, NEW v \in VV, NEW n \in VV, NEW w \in VV,
         Replica(h, p, s, v), Bounded(h, p, n), AllGeq(n, v),
         h[n.StoreId] \subseteq h[v.StoreId],
         w.Versions = n.Versions, w.StoreId = v.StoreId
  PROVE  Replica(h, p, s, w)
  <1>1. /\ v.StoreId \in StoreIds /\ n.StoreId \in StoreIds
        /\ v.Versions \in [Slots -> Int] /\ n.Versions \in [Slots -> Int]
    BY DEF VV, Versions
  <1>2. \A j \in Slots : n.Versions[j] >= v.Versions[j]
    BY DEF AllGeq
  <1>3. ASSUME NEW j \in Slots
        PROVE  n.Versions[j] <= Count(h, p, v.StoreId, j)
    <2>1. h[n.StoreId] \cap p[j] \subseteq h[v.StoreId] \cap p[j]
          /\ h[v.StoreId] \cap p[j] \subseteq StoreIds
      BY <1>1 DEF HistOK
    <2>2. /\ Count(h, p, n.StoreId, j) \in Nat /\ Count(h, p, v.StoreId, j) \in Nat
          /\ Count(h, p, n.StoreId, j) <= Count(h, p, v.StoreId, j)
      BY <2>1, CardSubset DEF Count
    <2>3. n.Versions[j] <= Count(h, p, n.StoreId, j) /\ n.Versions[j] \in Int
      BY <1>1 DEF Bounded
    <2> QED
      BY SMTT(60), <2>2, <2>3
  <1>4. Bounded(h, p, w)
    BY <1>3 DEF Bounded
  <1>5. Witnessed(h, p, w)
    <2>1. CASE v.StoreId = NullSid
      BY <2>1 DEF Witnessed
    <2>2. CASE v.StoreId # NullSid
      <3>1. PICK k \in Slots : v.StoreId \in p[k] /\ v.Versions[k] >= Count(h, p, v.StoreId, k)
        BY <2>2 DEF Replica, Witnessed
      <3>2. Count(h, p, v.StoreId, k) \in Nat
        BY <1>1, CardSubset DEF Count, HistOK
      <3>3. n.Versions[k] >= Count(h, p, v.StoreId, k)
        BY SMTT(60), <1>1, <1>2, <3>1, <3>2
      <3> QED
        BY <3>1, <3>3 DEF Witnessed
    <2> QED
      BY <2>1, <2>2
  <1>6. Cardinality(p[s]) <= n.Versions[s]
    <2>1. Cardinality(p[s]) \in Nat
      BY CardSubset DEF HistOK
    <2> QED
      BY SMTT(60), <1>1, <1>2, <2>1 DEF Replica
  <1> QED
    BY <1>4, <1>5, <1>6 DEF Replica

\* A replica that takes the contents of a version above its own.
LEMMA OverwriteEffect ==
  ASSUME Counting, NEW h, NEW p, HistOK(h, p), NEW s \in Slots, NEW v \in VV, NEW n \in VV, NEW w \in VV,
         Replica(h, p, s, v), Bounded(h, p, n), Witnessed(h, p, n), AllGeq(n, v),
         w.Versions = n.Versions, w.StoreId = n.StoreId
  PROVE  Replica(h, p, s, w) /\ h[v.StoreId] \subseteq h[w.StoreId]
  <1>1. h[v.StoreId] \subseteq h[n.StoreId]
    BY Dominance DEF Replica
  <1>2. Bounded(h, p, w) /\ Witnessed(h, p, w)
    BY DEF Bounded, Witnessed
  <1>3. Cardinality(p[s]) <= n.Versions[s]
    <2>1. Cardinality(p[s]) \in Nat
      BY CardSubset DEF HistOK
    <2> QED
      BY SMTT(60), <2>1 DEF Replica, AllGeq, VV, Versions
  <1> QED
    BY <1>1, <1>2, <1>3 DEF Replica

\* A new update extends a version there was.
LEMMA BeginEffect ==
  ASSUME Counting, NEW h, NEW p, HistOK(h, p), NEW v \in VV, Cached(h, p, v),
         NEW u \in StoreIds, u # NullSid, h[u] = {}, NEW h2,
         h2 = [h EXCEPT ![u] = h[v.StoreId] \cup {u}]
  PROVE  /\ HistOK(h2, p) /\ Grows(h, p, h2, p)
         /\ u \notin h[v.StoreId] /\ u # v.StoreId
  <1>1. v.StoreId \in StoreIds /\ Known(h, v.StoreId)
    BY DEF VV, Cached
  <1>2. \A t \in StoreIds : u \notin h[t]
    BY DEF HistOK
  <1>3. u # v.StoreId
    BY <1>1 DEF Known
  <1>4. h2 \in [StoreIds -> SUBSET StoreIds] /\ h2[u] = h[v.StoreId] \cup {u}
        /\ \A t \in StoreIds \ {u} : h2[t] = h[t]
    BY SMTT(60), <1>1 DEF HistOK
  <1>5. \A t \in StoreIds : h2[t] # {} => t \in h2[t]
    BY <1>4 DEF HistOK
  <1>6. ASSUME NEW t \in StoreIds, NEW x \in h2[t]
        PROVE  x \in h2[x] /\ h2[x] \subseteq h2[t]
    <2>1. CASE t # u
      BY <1>2, <1>4, <1>6, <2>1 DEF HistOK
    <2>2. CASE t = u /\ x = u
      BY <1>4, <2>2
    <2>3. CASE t = u /\ x # u
      <3>1. x \in h[v.StoreId] /\ x \in StoreIds
        BY <1>1, <1>4, <1>6, <2>3 DEF HistOK
      <3>2. x \in h[x] /\ h[x] \subseteq h[v.StoreId]
        BY <1>1, <3>1 DEF HistOK
      <3> QED
        BY <1>4, <2>3, <3>1, <3>2
    <2> QED
      BY <2>1, <2>2, <2>3
  <1>7. \A k \in Slots : \A x \in p[k] : x \in StoreIds /\ x # u
    BY DEF HistOK
  <1>8. HistOK(h2, p)
    <2>1. \A k \in Slots : \A x \in p[k] : x \in h2[x]
      BY <1>4, <1>7 DEF HistOK
    <2>2. \A k \in Slots : \A x, y \in p[k] : x \in h2[y] \/ y \in h2[x]
      BY <1>4, <1>7 DEF HistOK
    <2>3. h2[NullSid] = {}
      BY <1>4, SidAssumption DEF HistOK
    <2> QED
      BY <1>4, <1>5, <1>6, <2>1, <2>2, <2>3 DEF HistOK
  <1>9. Grows(h, p, h2, p)
    BY <1>4 DEF Grows, Known
  <1> QED
    BY <1>1, <1>2, <1>3, <1>8, <1>9

\* Server s performs update u.
Performing(p, s, u, p2) == p2 = [p EXCEPT ![s] = p[s] \cup {u}]

\* The vector of server s once it has performed the call o.
Updated(v, s, o) == NewCOP1Update(HandleWeakEquality(v, o.base), s, o.sid)

\* A server performs an update of the version it has.
LEMMA COP1Effect ==
  ASSUME Counting, NEW h, NEW p, HistOK(h, p), NEW s \in Slots, NEW v \in VV, Replica(h, p, s, v),
         NEW o \in OpType, Open(h, p, o), v.StoreId = o.base.StoreId,
         NEW p2, Performing(p, s, o.sid, p2)
  PROVE  LET w == Updated(v, s, o)
         IN /\ HistOK(h, p2) /\ Grows(h, p, h, p2)
            /\ Replica(h, p2, s, w) /\ Fresh(h, p2, s, w, o.sid, {o.sid})
            /\ w.StoreId = o.sid /\ h[v.StoreId] \subseteq h[o.sid]
  <1> DEFINE u == o.sid
             t == v.StoreId
             m == HandleWeakEquality(v, o.base)
             w == Updated(v, s, o)
  <1>1. /\ u \in StoreIds /\ t \in StoreIds /\ o.base \in VV /\ u # NullSid
        /\ h[u] = h[t] \cup {u} /\ u \notin h[t] /\ p[s] \subseteq h[t]
        /\ h[t] \subseteq StoreIds
    BY DEF OpType, VV, Open, Replica, HistOK
  <1>2. u \notin p[s]
    BY <1>1
  <1>3. /\ p2 \in [Slots -> SUBSET StoreIds] /\ p2[s] = p[s] \cup {u}
        /\ \A j \in Slots \ {s} : p2[j] = p[j]
    BY <1>1 DEF HistOK, Performing
  <1>4. HistOK(h, p2)
    <2>1. \A k \in Slots : \A x \in p2[k] : x \in h[x]
      BY <1>1, <1>3 DEF HistOK
    <2>2. ASSUME NEW k \in Slots, NEW x \in p2[k], NEW y \in p2[k]
          PROVE  x \in h[y] \/ y \in h[x]
      <3>1. CASE k # s
        BY <1>3, <2>2, <3>1 DEF HistOK
      <3>2. CASE k = s /\ x \in p[s] /\ y \in p[s]
        BY <3>2 DEF HistOK
      <3>3. CASE k = s /\ (x = u \/ y = u)
        BY <1>1, <1>3, <2>2, <3>3
      <3> QED
        BY <1>3, <2>2, <3>1, <3>2, <3>3
    <2> QED
      BY <1>3, <2>1, <2>2 DEF HistOK
  <1>5. Grows(h, p, h, p2)
    <2>1. ASSUME NEW k \in Slots, NEW y \in p[k]
          PROVE  h[y] \cap p2[k] = h[y] \cap p[k]
      <3>1. CASE k # s
        BY <1>3, <3>1
      <3>2. CASE k = s
        <4>1. y \in h[t] /\ h[y] \subseteq h[t]
          BY <1>1, <2>1, <3>2 DEF HistOK
        <4> QED
          BY <1>1, <1>3, <3>2, <4>1
      <3> QED
        BY <3>1, <3>2
    <2>2. \A k \in Slots : p[k] \subseteq p2[k]
      BY <1>3
    <2> QED
      BY <2>1, <2>2 DEF Grows
  <1>6. /\ m \in VV /\ m.StoreId = t
        /\ m = v \/ (t = o.base.StoreId /\ m.Versions = MaxVersions(v, o.base))
    BY <1>1, HandleWeakEqualityType
  <1>7. /\ w \in VV /\ w.StoreId = u /\ w.Versions[s] = m.Versions[s] + 1
        /\ \A j \in Slots \ {s} : w.Versions[j] = m.Versions[j]
    BY SMTT(60), <1>1, <1>6, NewCOP1UpdateType DEF Updated
  <1> HIDE DEF m, w
  <1>8. /\ v.Versions \in [Slots -> Int] /\ m.Versions \in [Slots -> Int]
        /\ o.base.Versions \in [Slots -> Int] /\ w.Versions \in [Slots -> Int]
    BY <1>1, <1>6, <1>7 DEF VV, Versions
  <1>9. \A j \in Slots : /\ m.Versions[j] >= v.Versions[j]
                         /\ m.Versions[j] \in {v.Versions[j], o.base.Versions[j]}
    <2>1. CASE m = v
      BY SMTT(60), <1>8, <2>1
    <2>2. CASE m.Versions = MaxVersions(v, o.base)
      BY <1>1, <2>2, MaxVersionsType
    <2> QED
      BY <1>6, <2>1, <2>2
  <1>10. \A j \in Slots : /\ Count(h, p, t, j) \in Nat /\ m.Versions[j] <= Count(h, p, t, j)
    <2>1. \A j \in Slots : Count(h, p, t, j) \in Nat
      BY <1>1, CardSubset DEF Count, HistOK
    <2>2. \A j \in Slots : /\ v.Versions[j] <= Count(h, p, t, j)
                           /\ o.base.Versions[j] <= Count(h, p, t, j)
      BY DEF Replica, Open, Cached, Bounded
    <2> QED
      BY <1>9, <2>1, <2>2
  <1> HIDE DEF u, t
  <1>11. ASSUME NEW j \in Slots \ {s}
         PROVE  /\ w.Versions[j] <= Cardinality((h[u] \ {u}) \cap p2[j])
                /\ w.Versions[j] <= Count(h, p2, u, j)
    <2>1. (h[u] \ {u}) \cap p2[j] = h[t] \cap p[j]
      BY <1>1, <1>3
    <2>2. Cardinality((h[u] \ {u}) \cap p2[j]) = Count(h, p, t, j)
      BY <2>1 DEF Count
    <2>3. h[t] \cap p[j] \subseteq h[u] \cap p2[j] /\ h[u] \cap p2[j] \subseteq StoreIds
      BY <1>1, <1>3
    <2>4. Count(h, p, t, j) <= Count(h, p2, u, j) /\ Count(h, p2, u, j) \in Nat
      BY <2>3, CardSubset DEF Count
    <2> QED
      BY SMTT(60), <1>7, <1>8, <1>10, <2>2, <2>4
  <1>12. w.Versions[s] <= Count(h, p2, u, s)
    <2> DEFINE A == h[t] \cap p[s]
    <2>1. h[u] \cap p2[s] = A \cup {u} /\ u \notin A /\ A \subseteq StoreIds
      BY <1>1, <1>2, <1>3
    <2>2. Cardinality(A \cup {u}) = Cardinality(A) + 1
      BY <1>1, <2>1, CardAdd
    <2>3. Count(h, p2, u, s) = Count(h, p, t, s) + 1
      BY <2>1, <2>2 DEF Count
    <2> QED
      BY SMTT(60), <1>7, <1>8, <1>10, <2>3
  <1>13. Cardinality(p2[s]) <= w.Versions[s] /\ Count(h, p2, u, s) <= w.Versions[s]
    <2>1. p[s] \subseteq StoreIds /\ p2[s] \subseteq StoreIds
      BY <1>3 DEF HistOK
    <2>2. Cardinality(p2[s]) = Cardinality(p[s]) + 1 /\ Cardinality(p[s]) \in Nat
      BY <1>1, <1>2, <1>3, <2>1, CardAdd
    <2>3. Cardinality(p[s]) <= v.Versions[s]
      BY DEF Replica
    <2>4. Cardinality(p2[s]) <= w.Versions[s]
      BY SMTT(60), <1>7, <1>8, <1>9, <2>2, <2>3
    <2>5. /\ Cardinality(h[u] \cap p2[s]) \in Nat /\ Cardinality(p2[s]) \in Nat
          /\ Cardinality(h[u] \cap p2[s]) <= Cardinality(p2[s])
      BY <2>1, CardSubset
    <2> QED
      BY SMTT(60), <1>8, <2>4, <2>5 DEF Count
  <1>14. Replica(h, p2, s, w)
    <2>1. Bounded(h, p2, w)
      BY <1>7, <1>11, <1>12 DEF Bounded
    <2>2. Witnessed(h, p2, w)
      BY <1>3, <1>7, <1>13 DEF Witnessed
    <2>3. p2[s] \subseteq h[u]
      BY <1>1, <1>3
    <2> QED
      BY <1>7, <1>13, <2>1, <2>2, <2>3 DEF Replica
  <1>15. Fresh(h, p2, s, w, u, {u})
    BY <1>1, <1>7, <1>11 DEF Fresh
  <1> QED
    BY <1>1, <1>4, <1>5, <1>7, <1>14, <1>15 DEF u, t, w

-----------------------------------------------------------------------------
(* The coordinator.                                                        *)

\* Nothing was found in the phases that use no answers.
LEMMA IdleCoordinates ==
  ASSUME Counting, NEW h, NEW p, NEW x, NEW r, r = IdleRes \/ r.pc \in {"unlock", "mark"}
  PROVE  Coordinates(h, p, x, r)
  BY SMTT(60) DEF Coordinates, IdleRes

\* One more answer.
LEMMA AddAnswerEffect ==
  ASSUME Counting, NEW h, NEW p, HistOK(h, p), NEW x, NEW s \in Slots, x[s] \in VV,
         Bounded(h, p, x[s]), Witnessed(h, p, x[s]),
         NEW r \in ResType, Answered(r), r.pc = "lock", r.dix # s, Found(h, p, x, r)
  PROVE  Found(h, p, x, AddAnswer(r, s, x[s]))
  <1> DEFINE a == AddAnswer(r, s, x[s])
             v == x[s]
             d == r.VV[r.dix]
             dom == VV_Cmp(v, d) = "DOM"
  <1>0. v.StoreId \in StoreIds /\ r.dix \in Slots \cup {NULL} /\ r.members \subseteq Slots
    BY DEF VV, ResType
  <1>a. AnswerAdded(a, r, s, v)
    BY AddAnswerFields
  <1>1. CASE r.dix = NULL
    <2>1. /\ a.dix = s /\ a.weak = r.weak /\ a.inc = r.inc /\ a.VV = [r.VV EXCEPT ![s] = v]
          /\ a.newvv.Versions = v.Versions /\ a.newvv.StoreId = v.StoreId
          /\ a.members = r.members \cup {s}
      BY <1>1, <1>a DEF AnswerAdded
    <2>2. r.members = {} /\ r.VV \in [Slots -> VV \cup {NULL}]
      BY <1>1 DEF Answered, ResType
    <2>3. a.VV[a.dix] = v
      BY <2>1, <2>2
    <2> HIDE DEF a, v
    <2>4. Bounded(h, p, a.newvv) /\ Witnessed(h, p, a.newvv)
      BY <2>1 DEF Bounded, Witnessed, v
    <2> QED
      BY <2>1, <2>2, <2>3, <2>4 DEF Found, a, v
  <1>2. CASE r.dix # NULL
    <2>0. /\ d \in VV /\ Bounded(h, p, d) /\ Witnessed(h, p, d) /\ d.StoreId \in StoreIds
          /\ r.newvv \in VV /\ r.newvv.StoreId = d.StoreId
          /\ r.VV \in [Slots -> VV \cup {NULL}]
      BY <1>2 DEF Answered, Found, VV, ResType
    <2>1. /\ a.dix = IF dom THEN s ELSE r.dix
          /\ a.weak = (r.weak /\ SID_EQ(v, d))
          /\ a.inc = (r.inc \/ (VV_Cmp(v, d) = "INC" /\ ~SID_EQ(v, d)))
          /\ a.newvv.Versions = MaxVersions(r.newvv, v)
          /\ a.newvv.StoreId = IF dom THEN v.StoreId ELSE d.StoreId
          /\ a.VV = [r.VV EXCEPT ![s] = v] /\ a.members = r.members \cup {s}
      BY <1>2, <1>a, <2>0 DEF AnswerAdded
    <2>2. /\ dom => h[d.StoreId] \subseteq h[v.StoreId]
          /\ VV_Cmp(v, d) \in {"EQ", "SUB"} => h[v.StoreId] \subseteq h[d.StoreId]
      <3>1. dom => AllGeq(v, d)
        BY DEF VV_Cmp, VV_Cmp_IgnoreInc
      <3>2. VV_Cmp(v, d) \in {"EQ", "SUB"} => AllGeq(d, v)
        BY DEF VV_Cmp, VV_Cmp_IgnoreInc
      <3>3. AllGeq(v, d) => h[d.StoreId] \subseteq h[v.StoreId]
        BY <2>0, Dominance
      <3>4. AllGeq(d, v) => h[v.StoreId] \subseteq h[d.StoreId]
        BY <2>0, Dominance
      <3> QED
        BY <3>1, <3>2, <3>3, <3>4
    <2>3. VV_Cmp(v, d) \in {"EQ", "DOM", "SUB", "INC"}
      BY DEF VV_Cmp, VV_Cmp_IgnoreInc
    <2>4. a.VV[a.dix] = IF dom THEN v ELSE d
      BY <1>0, <1>2, <2>0, <2>1
    <2>5. \A j \in Slots : /\ a.newvv.Versions[j] \in {r.newvv.Versions[j], v.Versions[j]}
                           /\ a.newvv.Versions[j] >= r.newvv.Versions[j]
                           /\ a.newvv.Versions[j] >= v.Versions[j]
      BY <2>0, <2>1, MaxVersionsType
    <2>6. r.newvv.Versions \in [Slots -> Int] /\ v.Versions \in [Slots -> Int]
      BY <2>0 DEF VV, Versions
    <2>7. Witnessed(h, p, a.newvv)
      <3>1. \E y \in {r.newvv, v} : /\ y.StoreId = a.newvv.StoreId /\ Witnessed(h, p, y)
                                    /\ \A j \in Slots : /\ a.newvv.Versions[j] >= y.Versions[j]
                                                        /\ y.Versions[j] \in Int
        BY <2>0, <2>1, <2>5, <2>6 DEF Found
      <3>2. PICK y : /\ y.StoreId = a.newvv.StoreId /\ Witnessed(h, p, y)
                     /\ \A j \in Slots : /\ a.newvv.Versions[j] >= y.Versions[j]
                                         /\ y.Versions[j] \in Int
        BY <3>1
      <3>3. \A j \in Slots : Count(h, p, y.StoreId, j) \in Nat
        <4>1. y.StoreId \in StoreIds
          BY <1>0, <2>0, <2>1, <3>2
        <4> QED
          BY <4>1, CardSubset DEF Count, HistOK
      <3>4. \A j \in Slots : a.newvv.Versions[j] \in Int
        BY <2>5, <2>6
      <3> HIDE DEF a
      <3> QED
        BY SMTT(60), <3>2, <3>3, <3>4 DEF Witnessed
    <2>8. ASSUME ~a.inc
          PROVE  Bounded(h, p, a.newvv)
      <3>1. ~r.inc /\ (VV_Cmp(v, d) # "INC" \/ SID_EQ(v, d))
        BY <2>1, <2>8
      <3>2. h[d.StoreId] \subseteq h[a.newvv.StoreId] /\ h[v.StoreId] \subseteq h[a.newvv.StoreId]
        BY <2>1, <2>2, <2>3, <3>1 DEF SID_EQ
      <3>3. a.newvv.StoreId \in StoreIds
        BY <1>0, <2>0, <2>1
      <3>4. ASSUME NEW j \in Slots
            PROVE  a.newvv.Versions[j] <= Count(h, p, a.newvv.StoreId, j)
        <4>1. r.newvv.Versions[j] <= Count(h, p, d.StoreId, j)
              /\ v.Versions[j] <= Count(h, p, v.StoreId, j)
          BY <2>0, <3>1 DEF Found, Bounded
        <4>2. /\ h[d.StoreId] \cap p[j] \subseteq h[a.newvv.StoreId] \cap p[j]
              /\ h[v.StoreId] \cap p[j] \subseteq h[a.newvv.StoreId] \cap p[j]
              /\ h[a.newvv.StoreId] \cap p[j] \subseteq StoreIds
          BY <3>2, <3>3 DEF HistOK
        <4>3. /\ Count(h, p, d.StoreId, j) <= Count(h, p, a.newvv.StoreId, j)
              /\ Count(h, p, v.StoreId, j) <= Count(h, p, a.newvv.StoreId, j)
              /\ Count(h, p, d.StoreId, j) \in Nat /\ Count(h, p, v.StoreId, j) \in Nat
              /\ Count(h, p, a.newvv.StoreId, j) \in Nat
          BY <4>2, CardSubset DEF Count
        <4>4. r.newvv.Versions[j] \in Int /\ v.Versions[j] \in Int
          BY <2>6
        <4> HIDE DEF a, v, d
        <4> QED
          BY SMTT(60), <2>5, <4>1, <4>3, <4>4
      <3> QED
        BY <3>4 DEF Bounded
    <2>9. a.dix # NULL =>
            /\ Bounded(h, p, a.VV[a.dix]) /\ Witnessed(h, p, a.VV[a.dix])
            /\ a.newvv.StoreId = a.VV[a.dix].StoreId
      BY <2>0, <2>1, <2>4
    <2>10. a.weak => ~a.inc
      BY <2>1 DEF Found
    <2>11. ASSUME a.weak, NEW i \in a.members
           PROVE  h[a.newvv.StoreId] \subseteq h[x[i].StoreId]
      <3>1. r.weak /\ v.StoreId = d.StoreId /\ a.newvv.StoreId = r.newvv.StoreId
        BY <2>0, <2>1, <2>11 DEF SID_EQ
      <3>2. CASE i = s
        BY <2>0, <3>1, <3>2
      <3>3. CASE i \in r.members
        BY <3>1, <3>3 DEF Found
      <3> QED
        BY <2>1, <2>11, <3>2, <3>3
    <2> HIDE DEF a
    <2> QED
      BY <2>7, <2>8, <2>9, <2>10, <2>11 DEF Found, a
  <1> QED
    BY <1>1, <1>2

-----------------------------------------------------------------------------
(* Type correctness.                                                       *)

\* The servers, clients and updates of a configuration are among the constants.
LEMMA ConfigTypes ==
  ASSUME TypeOK
  PROVE  Hosts \subseteq Slots /\ cf.clients \subseteq Clients /\ cf.updates \subseteq StoreIds
  BY ConfigAssumption DEF TypeOK, Hosts, ConfigType

\* The phases that begin with ToUnlock,
LEMMA ToUnlockType ==
  ASSUME Hosts \subseteq Slots, NEW r \in ResType
  PROVE  /\ ToUnlock(r) \in ResType
         /\ ToUnlock(r) = IdleRes \/ ToUnlock(r).pc = "unlock"
  <1> DEFINE S == IF r.lockerror THEN r.members ELSE Hosts
  <1>1. S \in SUBSET Slots /\ r.held \in SUBSET Slots
    BY DEF ResType
  <1>2. ToUnlock(r) = IF S = {} THEN IdleRes
                      ELSE [IdleRes EXCEPT !.pc = "unlock", !.todo = S, !.held = r.held]
    BY DEF ToUnlock
  <1> HIDE DEF S
  <1>3. [IdleRes EXCEPT !.pc = "unlock", !.todo = S, !.held = r.held] \in ResType
    BY <1>1, IdleResType DEF ResType
  <1>4. [IdleRes EXCEPT !.pc = "unlock", !.todo = S, !.held = r.held].pc = "unlock"
    BY IdleResType DEF ResType
  <1> QED
    BY <1>2, <1>3, <1>4, IdleResType

\* with ToMark,
LEMMA ToMarkType ==
  ASSUME Hosts \subseteq Slots, NEW r \in ResType
  PROVE  /\ ToMark(r) \in ResType
         /\ ToMark(r) = IdleRes \/ ToMark(r).pc \in {"unlock", "mark"}
  BY IdleResType, ToUnlockType DEF ToMark, ResType

\* and with FileResolve.
LEMMA FileResolveType ==
  ASSUME Hosts \subseteq Slots, NEW r \in ResType, Answered(r), r.pc = "lock"
  PROVE  FileResolve(r) \in ResType /\ Answered(FileResolve(r)) /\ IdleOK(FileResolve(r))
  <1>1. CASE FileResolve(r) = ToUnlock(r)
    BY <1>1, ToUnlockType, IdleResType DEF Answered, IdleOK
  <1>2. CASE FileResolve(r) = ToMark(r)
    BY <1>2, ToMarkType, IdleResType DEF Answered, IdleOK
  <1>3. CASE FileResolve(r) = [r EXCEPT !.pc = "forcevv", !.todo = r.members]
    BY <1>3 DEF Answered, IdleOK, ResType
  <1>4. CASE FileResolve(r) = [r EXCEPT !.pc = "fetch"] /\ r.members # {}
    BY <1>4 DEF Answered, IdleOK, ResType
  <1> QED
    BY <1>1, <1>2, <1>3, <1>4 DEF FileResolve

\* Whatever phase follows, the record has the right type.
LEMMA ProceedType ==
  ASSUME Hosts \subseteq Slots, NEW r \in ResType, Answered(r), NEW s,
         r.pc \in {"lock", "forcevv", "forcefile", "mark", "unlock"}
  PROVE  Proceed(r, s) \in ResType /\ Answered(Proceed(r, s)) /\ IdleOK(Proceed(r, s))
  <1> DEFINE q == [r EXCEPT !.todo = @ \ {s}]
  <1>1. q \in ResType /\ Answered(q) /\ IdleOK(q) /\ q.pc = r.pc
    BY DEF ResType, Answered, IdleOK
  <1>2. CASE Proceed(r, s) = q
    BY <1>1, <1>2
  <1>3. CASE Proceed(r, s) = FileResolve(q) /\ q.pc = "lock"
    BY <1>1, <1>3, FileResolveType
  <1>4. CASE Proceed(r, s) = ToMark(q)
    BY <1>1, <1>4, ToMarkType, IdleResType DEF Answered, IdleOK
  <1>5. CASE Proceed(r, s) = ToUnlock(q)
    BY <1>1, <1>5, ToUnlockType, IdleResType DEF Answered, IdleOK
  <1>6. CASE Proceed(r, s) = IdleRes
    BY <1>6, IdleResType
  <1> QED
    BY <1>1, <1>2, <1>3, <1>4, <1>5, <1>6 DEF Proceed

\* One coordinator changes its record.
LEMMA ResOKUpdate ==
  ASSUME ResOK(res), NEW k \in Slots, NEW x \in ResType, Answered(x), IdleOK(x)
  PROVE  ResOK([res EXCEPT ![k] = x])
  BY DEF ResOK

\* A phase goes on, or ends, with a record of the right type.
LEMMA ProceedRes ==
  ASSUME Hosts \subseteq Slots, ResOK(res), NEW k \in Slots, NEW q \in ResType, Answered(q),
         q.pc \in {"lock", "forcevv", "forcefile", "mark", "unlock"}, NEW s
  PROVE  ResOK([res EXCEPT ![k] = Proceed(q, s)])
  <1>1. Proceed(q, s) \in ResType /\ Answered(Proceed(q, s)) /\ IdleOK(Proceed(q, s))
    BY SMTT(60), ProceedType
  <1> QED
    BY <1>1, ResOKUpdate

\* A server restarts: its resolution is gone, the others note that it is dead.
LEMMA RestartRes ==
  ASSUME ResOK(res), NEW s \in Slots, Restart(s)
  PROVE  ResOK(res')
  <1>1. \A k \in Slots : res'[k] = IF k = s \/ res[k].pc = "idle" THEN IdleRes
                                   ELSE [res[k] EXCEPT !.dead = @ \cup {s}]
    BY DEF Restart
  <1>2. ASSUME NEW r \in ResType, Answered(r), r.pc # "idle"
        PROVE  LET q == [r EXCEPT !.dead = @ \cup {s}]
               IN q \in ResType /\ Answered(q) /\ IdleOK(q)
    BY <1>2 DEF ResType, Answered, IdleOK
  <1>3. \A k \in Slots : res'[k] \in ResType /\ Answered(res'[k]) /\ IdleOK(res'[k])
    <2> SUFFICES ASSUME NEW k \in Slots
                 PROVE  res'[k] \in ResType /\ Answered(res'[k]) /\ IdleOK(res'[k])
      OBVIOUS
    <2>1. CASE k = s \/ res[k].pc = "idle"
      BY <1>1, <2>1, IdleResType
    <2>2. CASE ~(k = s \/ res[k].pc = "idle")
      <3>1. res[k] \in ResType /\ Answered(res[k])
        BY DEF ResOK
      <3>2. res'[k] = [res[k] EXCEPT !.dead = @ \cup {s}]
        BY <1>1, <2>2
      <3> QED
        BY <1>2, <2>2, <3>1, <3>2
    <2> QED
      BY <2>1, <2>2
  <1>4. res' = [k \in Slots |-> res'[k]]
    BY DEF Restart
  <1> QED
    BY <1>3, <1>4 DEF ResOK

\* No step spoils the record of a coordinator.
LEMMA ResTypeStep ==
  ASSUME TypeOK, Next
  PROVE  ResOK(res')
  <1> ResOK(res)
    BY DEF TypeOK
  <1>0. Hosts \subseteq Slots /\ vv \in [Slots -> VV] /\ data \in [Slots -> StoreIds]
    BY ConfigTypes DEF TypeOK
  <1>1. CASE \E c \in Clients : ClientStep(c)
    <2>0. PICK c \in Clients : ClientStep(c)
      BY <1>1
    <2>a. \A G : GetAttr(c, G) => res' = res
      BY DEF GetAttr
    <2>b. \A u : BeginUpdate(c, u) => res' = res
      BY DEF BeginUpdate
    <2>c. Commit(c) \/ RetryUpdate(c) \/ GiveUp(c) \/ ClearCOP2(c) => res' = res
      BY DEF Commit, RetryUpdate, GiveUp, ClearCOP2
    <2>d. \A s : COP1(c, s) \/ COP1Refused(c, s) \/ COP1TimesOut(c, s) => res' = res
      BY DEF COP1, COP1Refused, COP1TimesOut
    <2>e. \A s : DeliverCOP2(c, s) => res' = res
      BY DEF DeliverCOP2
    <2>1. res' = res
      BY <2>0, <2>a, <2>b, <2>c, <2>d, <2>e DEF ClientStep
    <2> QED
      BY <2>1
  <1>2. ASSUME NEW k \in Slots, StartResolve(k)
        PROVE  ResOK(res')
    <2> DEFINE q == [IdleRes EXCEPT !.pc = "lock", !.todo = Hosts]
    <2>1. res[k] = IdleRes
      BY <1>2 DEF StartResolve, ResOK, IdleOK
    <2>2. res' = [res EXCEPT ![k] = q]
      BY <1>2, <2>1 DEF StartResolve
    <2>3. q \in ResType /\ Answered(q) /\ IdleOK(q)
      <3>1. IdleRes.members = {} /\ IdleRes.dix = NULL
        BY DEF IdleRes
      <3> QED
        BY <1>0, <3>1, IdleResType DEF ResType, Answered, IdleOK
    <2> HIDE DEF q
    <2> QED
      BY <2>2, <2>3, ResOKUpdate
  <1>3. ASSUME NEW k \in Slots, ResolveStep(k)
        PROVE  ResOK(res')
    <2>0. res[k] \in ResType /\ Answered(res[k])
      BY DEF ResOK
    <2>2. ASSUME NEW s \in Slots, LockAndFetch(k, s)
          PROVE  ResOK(res')
      <3> DEFINE q == [res[k] EXCEPT !.held = @ \cup {s}]
                 a == AddAnswer(q, s, vv[s])
      <3>1. q \in ResType /\ Answered(q) /\ q.pc = res[k].pc /\ res[k].pc = "lock"
        BY <2>0, <2>2 DEF ResType, Answered, LockAndFetch, NextToLock
      <3>2. \/ res' = [res EXCEPT ![k] = Proceed(a, s)]
            \/ res' = [res EXCEPT ![k] = Proceed(q, s)]
        BY <2>2 DEF LockAndFetch
      <3>3. vv[s] \in VV
        BY <1>0
      <3> HIDE DEF q
      <3>4. a \in ResType /\ Answered(a) /\ a.pc = q.pc
        BY SMTT(60), <3>1, <3>3, AddAnswerType
      <3> HIDE DEF a
      <3> QED
        BY SMTT(60), <1>0, ProceedRes, <3>1, <3>2, <3>4
    <2>3. ASSUME NEW s \in Slots, LockRefused(k, s)
          PROVE  ResOK(res')
      <3> DEFINE q == [res[k] EXCEPT !.lockerror = TRUE]
      <3>1. q \in ResType /\ Answered(q) /\ q.pc = res[k].pc /\ res[k].pc = "lock"
        BY <2>0, <2>3 DEF ResType, Answered, LockRefused, NextToLock
      <3>2. res' = [res EXCEPT ![k] = Proceed(q, s)]
        BY <2>3 DEF LockRefused
      <3> HIDE DEF q
      <3> QED
        BY <1>0, ProceedRes, <3>1, <3>2
    <2>4. ASSUME NEW s \in Slots, LockTimesOut(k, s) \/ MarkInc(k, s)
          PROVE  ResOK(res')
      <3>1. /\ res[k].pc \in {"lock", "mark"}
            /\ res' = [res EXCEPT ![k] = Proceed(res[k], s)]
        BY <2>4 DEF LockTimesOut, NextToLock, MarkInc
      <3> QED
        BY <1>0, <2>0, ProceedRes, <3>1
    <2>5. ASSUME NEW s \in Slots, ForceVV(k, s)
          PROVE  ResOK(res')
      <3> DEFINE b == res[k].err \/ ~MayForce(k, s)
                 q == [res[k] EXCEPT !.err = b]
                 m == [res[k] EXCEPT !.members = @ \ {s}]
      <3>1. /\ res[k].pc = "forcevv"
            /\ \/ res' = [res EXCEPT ![k] = Proceed(q, s)]
               \/ res' = [res EXCEPT ![k] = Proceed(m, s)]
        BY <2>5 DEF ForceVV
      <3>2. b \in BOOLEAN
        OBVIOUS
      <3> HIDE DEF b
      <3>3. q \in ResType /\ Answered(q) /\ q.pc = res[k].pc
        BY <2>0, <3>2 DEF ResType, Answered
      <3>4. m \in ResType /\ Answered(m) /\ m.pc = res[k].pc
        BY <2>0 DEF ResType, Answered
      <3> HIDE DEF q, m
      <3> QED
        BY SMTT(60), <1>0, ProceedRes, <3>1, <3>3, <3>4
    <2>6. ASSUME NEW s \in Slots, ForceFile(k, s)
          PROVE  ResOK(res')
      <3>1. /\ res[k].pc = "forcefile"
            /\ \E r \in BOOLEAN : \/ res' = [res EXCEPT ![k] = Proceed(res[k], s)]
                                  \/ res' = [res EXCEPT ![k] =
                                       Proceed([res[k] EXCEPT !.members = @ \ {s},
                                                              !.err = @ \/ r], s)]
        BY <2>6 DEF ForceFile, Replies
      <3>2. ASSUME NEW r \in BOOLEAN
            PROVE  LET q == [res[k] EXCEPT !.members = @ \ {s}, !.err = @ \/ r]
                   IN q \in ResType /\ Answered(q) /\ q.pc = res[k].pc
        BY <2>0 DEF ResType, Answered
      <3>3. CASE res' = [res EXCEPT ![k] = Proceed(res[k], s)]
        BY <1>0, <2>0, ProceedRes, <3>1, <3>3
      <3>4. ASSUME NEW r \in BOOLEAN,
                   res' = [res EXCEPT ![k] =
                     Proceed([res[k] EXCEPT !.members = @ \ {s}, !.err = @ \/ r], s)]
            PROVE  ResOK(res')
        <4> DEFINE q == [res[k] EXCEPT !.members = @ \ {s}, !.err = @ \/ r]
        <4>1. q \in ResType /\ Answered(q) /\ q.pc = res[k].pc
          BY <3>2
        <4>2. res' = [res EXCEPT ![k] = Proceed(q, s)]
          BY <3>4
        <4> HIDE DEF q
        <4> QED
          BY <1>0, ProceedRes, <3>1, <4>1, <4>2
      <3> QED
        BY <3>1, <3>3, <3>4
    <2>7. ASSUME NEW s \in Slots, ForceTimesOut(k, s)
          PROVE  ResOK(res')
      <3> DEFINE q == [res[k] EXCEPT !.members = @ \ {s}]
      <3>1. q \in ResType /\ Answered(q) /\ q.pc = res[k].pc
        BY <2>0 DEF ResType, Answered
      <3>2. res[k].pc \in {"forcevv", "forcefile"} /\ res' = [res EXCEPT ![k] = Proceed(q, s)]
        BY <2>7 DEF ForceTimesOut
      <3> HIDE DEF q
      <3> QED
        BY <1>0, ProceedRes, <3>1, <3>2
    <2>8. ASSUME NEW s \in Slots, UnlockVol(k, s)
          PROVE  ResOK(res')
      <3> DEFINE q == [res[k] EXCEPT !.held = @ \ {s}]
      <3>1. q \in ResType /\ Answered(q) /\ q.pc = res[k].pc
        BY <2>0 DEF ResType, Answered
      <3>2. res[k].pc = "unlock" /\ res' = [res EXCEPT ![k] = Proceed(q, s)]
        BY <2>8 DEF UnlockVol
      <3> HIDE DEF q
      <3> QED
        BY <1>0, ProceedRes, <3>1, <3>2
    <2>9. CASE FetchFile(k)
      <3> DEFINE f == data[res[k].dix]
                 q == [res[k] EXCEPT !.pc = "forcefile", !.todo = res[k].members, !.file = f]
      <3>1. res' = [res EXCEPT ![k] = q] /\ res[k].pc = "fetch"
        BY <2>9 DEF FetchFile, Fetched
      <3>2. f \in StoreIds
        BY <1>0, <2>0, <3>1 DEF ResType, Answered
      <3> HIDE DEF f
      <3>3. q \in ResType /\ Answered(q) /\ IdleOK(q)
        BY <2>0, <3>1, <3>2 DEF ResType, Answered, IdleOK
      <3> HIDE DEF q
      <3> QED
        BY <3>1, <3>3, ResOKUpdate
    <2>10. CASE FetchFails(k)
      <3>1. res' = [res EXCEPT ![k] = ToMark(res[k])]
        BY <2>10 DEF FetchFails
      <3>2. LET q == ToMark(res[k]) IN q \in ResType /\ Answered(q) /\ IdleOK(q)
        BY <1>0, <2>0, ToMarkType, IdleResType DEF Answered, IdleOK
      <3> QED
        BY <3>1, <3>2, ResOKUpdate
    <2>11. CASE AssertFails(k)
      BY <2>11, RestartRes DEF AssertFails
    <2> QED
      BY <1>3, <2>2, <2>3, <2>4, <2>5, <2>6, <2>7, <2>8, <2>9, <2>10, <2>11 DEF ResolveStep
  <1>4. ASSUME NEW s \in Slots, LockExpires(s) \/ Crash(s) \/ \E u \in StoreIds : ExpireCOP2(s, u)
        PROVE  ResOK(res')
    BY <1>4, RestartRes DEF LockExpires, Crash, ExpireCOP2
  <1> QED
    BY <1>1, <1>2, <1>3, <1>4 DEF Next

\* The types of the variables other than res, in three groups.
ServerTypes ==
    /\ vv \in [Slots -> VV] /\ pending \in [Slots -> BOOLEAN] /\ data \in [Slots -> StoreIds]
    /\ coppend \in [Slots -> SUBSET StoreIds]
    /\ reintegrators \in [Slots -> [Clients -> StoreIds]]

ClientTypes ==
    /\ cache \in [Clients -> VV] /\ op \in [Clients -> OpType \cup {NULL}]
    /\ cop2_list \in [Clients -> Seq(Entry)]

HistoryTypes ==
    /\ hist \in [StoreIds -> SUBSET StoreIds] /\ perf \in [Slots -> SUBSET StoreIds]
    /\ fresh \in [Slots -> StoreIds]

OtherTypes ==
    /\ cf \in Configs /\ ServerTypes /\ ClientTypes /\ HistoryTypes
    /\ vollock \in [Slots -> Slots \cup {NULL}]
    /\ used \in [resolutions : Nat, faults : Nat]

\* TypeOK by these groups.
LEMMA TypeOKParts == TypeOK <=> OtherTypes /\ ResOK(res)
  BY DEF TypeOK, ResOK, Answered, OtherTypes, ServerTypes, ClientTypes, HistoryTypes

\* The counters of resolutions and faults.
LEMMA UsedType ==
  ASSUME used \in [resolutions : Nat, faults : Nat],
         \/ UNCHANGED used \/ Faults(0) \/ Faults(1)
         \/ used' = [used EXCEPT !.resolutions = @ + 1]
  PROVE  used' \in [resolutions : Nat, faults : Nat]
  BY SMTT(60) DEF Faults

\* A lost reply is one fault.
LEMMA ReplyFaults ==
  ASSUME NEW r, Reply(r)
  PROVE  Faults(0) \/ Faults(1)
  BY DEF Reply

\* A reply comes back or does not.
LEMMA RepliesType == Replies \subseteq BOOLEAN
  BY DEF Replies

\* A COP2 at a server.
LEMMA InternalCOP2Types ==
  ASSUME ServerTypes, HistoryTypes, NEW s \in Slots, NEW u, NEW US,
         InternalCOP2(s, u, US), UNCHANGED <<hist, perf>>
  PROVE  ServerTypes' /\ HistoryTypes'
  <1>1. COP2Update(vv[s], s, US) \in VV
    BY AddVVsType DEF ServerTypes, COP2Update
  <1>2. vv' \in [Slots -> VV]
    BY <1>1 DEF InternalCOP2, ServerTypes
  <1>3. pending' \in [Slots -> BOOLEAN]
    <2>1. pending' = pending \/ pending' = [pending EXCEPT ![s] = FALSE]
      BY DEF InternalCOP2
    <2>2. CASE pending' = [pending EXCEPT ![s] = FALSE]
      BY <2>2 DEF ServerTypes
    <2> QED
      BY <2>1, <2>2 DEF ServerTypes
  <1>6. fresh' \in [Slots -> StoreIds]
    BY SidAssumption DEF InternalCOP2, HistoryTypes
  <1>4. coppend' \in [Slots -> SUBSET StoreIds]
    BY DEF InternalCOP2, ServerTypes
  <1>5. UNCHANGED <<data, reintegrators>>
    BY DEF InternalCOP2
  <1> QED
    BY <1>2, <1>3, <1>4, <1>5, <1>6 DEF ServerTypes, HistoryTypes

\* The steps of a client keep the types,
LEMMA ClientTypeStep ==
  ASSUME TypeOK, NEW c \in Clients, ClientStep(c)
  PROVE  OtherTypes'
  <1>0. OtherTypes /\ Hosts \subseteq Slots /\ ResOK(res)
    BY TypeOKParts, ConfigTypes DEF TypeOK
  <1> USE DEF OtherTypes, server, client, history
  <1>1. ASSUME NEW G \in SUBSET Hosts, GetAttr(c, G)
        PROVE  OtherTypes'
    <2>1. UNCHANGED <<cf, server, vollock, op, cop2_list, used, history>>
      BY <1>1 DEF GetAttr
    <2>2. cache' \in [Clients -> VV]
      BY <1>0, <1>1 DEF GetAttr, ServerTypes, ClientTypes
    <2> QED
      BY <1>0, <2>1, <2>2 DEF ServerTypes, ClientTypes, HistoryTypes
  <1>2. ASSUME NEW u \in StoreIds, BeginUpdate(c, u)
        PROVE  OtherTypes'
    <2>1. UNCHANGED <<cf, server, vollock, cache, cop2_list, used, perf, fresh>>
      BY <1>2 DEF BeginUpdate
    <2>2. cache[c] \in VV /\ cache[c].StoreId \in StoreIds
      BY <1>0 DEF ClientTypes, VV
    <2>3. Call(u, cache[c]) \in OpType
      BY <1>0, <2>2 DEF Call, OpType
    <2>4. op' \in [Clients -> OpType \cup {NULL}]
      BY <1>0, <1>2, <2>3 DEF BeginUpdate, ClientTypes
    <2>5. hist' \in [StoreIds -> SUBSET StoreIds]
      BY <1>0, <1>2, <2>2 DEF BeginUpdate, HistoryTypes
    <2> QED
      BY <1>0, <2>1, <2>4, <2>5 DEF ServerTypes, ClientTypes, HistoryTypes
  <1>3. CASE Commit(c)
    <2>1. UNCHANGED <<cf, server, vollock, used, history>>
      BY <1>3 DEF Commit
    <2>2. op[c] \in OpType
      BY <1>0, <1>3 DEF Commit, ClientTypes
    <2>3. op[c].base \in VV /\ op[c].sid \in StoreIds /\ op[c].UpdateSet \in SUBSET Slots
      BY <2>2 DEF OpType
    <2>4. AddVVs(op[c].base, One(op[c].UpdateSet)) \in VV
      BY <2>3, AddVVsType
    <2>5. [AddVVs(op[c].base, One(op[c].UpdateSet)) EXCEPT !.StoreId = op[c].sid] \in VV
      BY <2>3, <2>4 DEF VV
    <2>6. cache' \in [Clients -> VV] /\ op' \in [Clients -> OpType \cup {NULL}]
      BY <1>0, <1>3, <2>5 DEF Commit, ClientTypes
    <2>7. [sid |-> op[c].sid, UpdateSet |-> op[c].UpdateSet] \in Entry
      BY <2>3 DEF Entry
    <2>8. Append(IF op[c].UpdateSet = {} THEN cop2_list[c] ELSE << >>,
                 [sid |-> op[c].sid, UpdateSet |-> op[c].UpdateSet]) \in Seq(Entry)
      BY SMTT(60), <1>0, <2>7 DEF ClientTypes
    <2>9. cop2_list' \in [Clients -> Seq(Entry)]
      BY <1>0, <1>3, <2>8 DEF Commit, ClientTypes
    <2> QED
      BY <1>0, <2>1, <2>6, <2>9 DEF ServerTypes, ClientTypes, HistoryTypes
  <1>4. CASE RetryUpdate(c) \/ GiveUp(c)
    <2>1. UNCHANGED <<cf, server, vollock, cache, cop2_list, used, history>>
      BY <1>4 DEF RetryUpdate, GiveUp
    <2>2. op[c] \in OpType
      BY <1>0, <1>4 DEF RetryUpdate, GiveUp, Failed, ClientTypes
    <2>3. Call(op[c].sid, op[c].base) \in OpType
      BY <1>0, <2>2 DEF Call, OpType
    <2>4. op' = [op EXCEPT ![c] = NULL] \/ op' = [op EXCEPT ![c] = Call(op[c].sid, op[c].base)]
      BY <1>4 DEF RetryUpdate, GiveUp
    <2>5. op' \in [Clients -> OpType \cup {NULL}]
      <3>1. CASE op' = [op EXCEPT ![c] = NULL]
        BY <1>0, <3>1 DEF ClientTypes
      <3>2. CASE op' = [op EXCEPT ![c] = Call(op[c].sid, op[c].base)]
        BY <1>0, <2>3, <3>2 DEF ClientTypes
      <3> QED
        BY <2>4, <3>1, <3>2
    <2> QED
      BY <1>0, <2>1, <2>5 DEF ServerTypes, ClientTypes, HistoryTypes
  <1>5. CASE ClearCOP2(c)
    <2>1. UNCHANGED <<cf, server, vollock, cache, op, used, history>>
      BY <1>5 DEF ClearCOP2
    <2>2. Tail(cop2_list[c]) \in Seq(Entry)
      BY SMTT(60), <1>0, <1>5 DEF ClearCOP2, ClientTypes
    <2>3. cop2_list' \in [Clients -> Seq(Entry)]
      BY <1>0, <1>5, <2>2 DEF ClearCOP2, ClientTypes
    <2> QED
      BY <1>0, <2>1, <2>3 DEF ServerTypes, ClientTypes, HistoryTypes
  <1>6. ASSUME NEW s \in Slots, COP1(c, s)
        PROVE  OtherTypes'
    <2>1. UNCHANGED <<cf, vollock, cache, cop2_list, hist>>
      BY <1>6 DEF COP1
    <2>2. op[c] \in OpType /\ vv[s] \in VV
      BY <1>0, <1>6 DEF COP1, Executes, ClientTypes, ServerTypes
    <2>3. op[c].base \in VV /\ op[c].sid \in StoreIds
      BY <2>2 DEF OpType
    <2>4. NewCOP1Update(HandleWeakEquality(vv[s], op[c].base), s, op[c].sid) \in VV
      BY <2>2, <2>3, HandleWeakEqualityType, NewCOP1UpdateType
    <2>5. vv' \in [Slots -> VV] /\ data' \in [Slots -> StoreIds]
      BY <1>0, <1>6, <2>3, <2>4 DEF COP1, ServerTypes
    <2>6. pending' \in [Slots -> BOOLEAN] /\ reintegrators' \in [Slots -> [Clients -> StoreIds]]
      BY <1>0, <1>6, <2>3 DEF COP1, ServerTypes
    <2>7. coppend' \in [Slots -> SUBSET StoreIds]
      BY <1>0, <1>6, <2>3 DEF COP1, ServerTypes, Outdated
    <2>8. perf' \in [Slots -> SUBSET StoreIds] /\ fresh' \in [Slots -> StoreIds]
      BY <1>0, <1>6, <2>3 DEF COP1, HistoryTypes
    <2>9. used' \in [resolutions : Nat, faults : Nat]
      BY <1>0, <1>6, UsedType, ReplyFaults DEF COP1
    <2>10. PICK r \in Replies : op' = [op EXCEPT ![c] = Performed(op[c], s, r)]
      BY <1>6 DEF COP1
    <2>11. Performed(op[c], s, r) \in OpType
      BY <2>2, RepliesType, PerformedType
    <2>13. op' \in [Clients -> OpType \cup {NULL}]
      BY <1>0, <2>10, <2>11 DEF ClientTypes
    <2> QED
      BY <1>0, <2>1, <2>5, <2>6, <2>7, <2>8, <2>9, <2>13 DEF ServerTypes, ClientTypes, HistoryTypes
  <1>7. ASSUME NEW s \in Slots, COP1Refused(c, s) \/ COP1TimesOut(c, s)
        PROVE  OtherTypes'
    <2>1. UNCHANGED <<cf, server, vollock, cache, cop2_list, used, history>>
      BY <1>7 DEF COP1Refused, COP1TimesOut
    <2>2. op[c] \in OpType
      BY <1>0, <1>7 DEF COP1Refused, COP1TimesOut, Executes, ClientTypes
    <2>3. CASE COP1Refused(c, s)
      <3>1. Outcome(c, s) \in CallCodes
        BY <2>3 DEF COP1Refused, Outcome, CallCodes
      <3>2. op' = [op EXCEPT ![c] = Refused(op[c], s, Outcome(c, s))]
        BY <2>3 DEF COP1Refused
      <3>3. Refused(op[c], s, Outcome(c, s)) \in OpType
        BY <2>2, <3>1, RefusedType
      <3>4. op' \in [Clients -> OpType \cup {NULL}]
        BY <1>0, <3>2, <3>3 DEF ClientTypes
      <3> QED
        BY <1>0, <2>1, <3>4 DEF ServerTypes, ClientTypes, HistoryTypes
    <2>4. CASE COP1TimesOut(c, s)
      <3>1. op' = [op EXCEPT ![c] = [op[c] EXCEPT !.todo = @ \ {s}]]
        BY <1>0, <2>2, <2>4 DEF COP1TimesOut, ClientTypes, OpType
      <3>2. [op[c] EXCEPT !.todo = @ \ {s}] \in OpType
        BY <2>2 DEF OpType
      <3>3. op' \in [Clients -> OpType \cup {NULL}]
        BY <1>0, <3>1, <3>2 DEF ClientTypes
      <3> QED
        BY <1>0, <2>1, <3>3 DEF ServerTypes, ClientTypes, HistoryTypes
    <2> QED
      BY <1>7, <2>3, <2>4
  <1>8. ASSUME NEW s \in Slots, DeliverCOP2(c, s)
        PROVE  OtherTypes'
    <2>1. UNCHANGED <<cf, vollock, client, used, hist, perf>>
      BY <1>8 DEF DeliverCOP2
    <2>2. \E u, US : InternalCOP2(s, u, US)
      BY <1>8 DEF DeliverCOP2
    <2>3. ServerTypes' /\ HistoryTypes'
      BY <1>0, <2>1, <2>2, InternalCOP2Types
    <2> QED
      BY <1>0, <2>1, <2>3 DEF ClientTypes
  <1> QED
    BY <1>1, <1>2, <1>3, <1>4, <1>5, <1>6, <1>7, <1>8 DEF ClientStep

\* so does a restart,
LEMMA RestartTypes ==
  ASSUME OtherTypes, NEW s \in Slots, Restart(s), Faults(0) \/ Faults(1)
  PROVE  OtherTypes'
  <1> USE DEF OtherTypes, ServerTypes, ClientTypes, HistoryTypes, history
  <1>1. coppend' \in [Slots -> SUBSET StoreIds] /\ vollock' \in [Slots -> Slots \cup {NULL}]
    BY DEF Restart
  <1>2. reintegrators' \in [Slots -> [Clients -> StoreIds]]
    BY SidAssumption DEF Restart
  <1>3. ASSUME NEW o \in OpType
        PROVE  [o EXCEPT !.todo = @ \ {s}] \in OpType
    BY DEF OpType
  <1>4. \A c \in Clients : op'[c] \in OpType \cup {NULL}
    BY <1>3 DEF Restart
  <1>5. op' \in [Clients -> OpType \cup {NULL}]
    BY <1>4 DEF Restart
  <1>6. used' \in [resolutions : Nat, faults : Nat]
    BY UsedType
  <1> QED
    BY <1>1, <1>2, <1>5, <1>6 DEF Restart

\* and so do the steps of a coordinator.
LEMMA ResolveTypeStep ==
  ASSUME TypeOK, NEW k \in Slots, StartResolve(k) \/ ResolveStep(k)
  PROVE  OtherTypes'
  <1>0. OtherTypes /\ ResOK(res)
    BY TypeOKParts
  <1>1. res[k] \in ResType /\ res[k].newvv \in VV /\ res[k].file \in StoreIds
    BY <1>0 DEF ResOK, ResType
  <1>2. res[k].newvv.Versions \in Versions /\ res[k].newvv.StoreId \in StoreIds
    BY <1>1 DEF VV
  <1> USE DEF OtherTypes, server, client, history
  <1>3. ASSUME UNCHANGED <<cf, server, client, history>>,
               used' \in [resolutions : Nat, faults : Nat],
               vollock' \in [Slots -> Slots \cup {NULL}]
        PROVE  OtherTypes'
    BY <1>0, <1>3 DEF ServerTypes, ClientTypes, HistoryTypes
  <1>4. CASE StartResolve(k)
    BY <1>0, <1>3, <1>4, UsedType DEF StartResolve
  <1>5. ASSUME NEW s \in Slots, LockAndFetch(k, s)
        PROVE  OtherTypes'
    <2>1. vollock' \in [Slots -> Slots \cup {NULL}]
      BY <1>0, <1>5 DEF LockAndFetch
    <2>2. (\E r \in Replies : Reply(r)) /\ UNCHANGED <<cf, server, client, history>>
      BY <1>5 DEF LockAndFetch
    <2>3. used' \in [resolutions : Nat, faults : Nat]
      BY <1>0, <2>2, UsedType, ReplyFaults
    <2> QED
      BY <1>3, <2>1, <2>2, <2>3
  <1>6. ASSUME NEW s \in Slots, LockRefused(k, s)
        PROVE  OtherTypes'
    BY <1>0, <1>3, <1>6 DEF LockRefused
  <1>7. ASSUME NEW s \in Slots, LockTimesOut(k, s) \/ ForceTimesOut(k, s)
        PROVE  OtherTypes'
    <2>1. UNCHANGED <<cf, server, vollock, client, history>> /\ (Faults(0) \/ Faults(1))
      BY <1>7 DEF LockTimesOut, ForceTimesOut, Unreached
    <2>2. used' \in [resolutions : Nat, faults : Nat]
      BY <1>0, <2>1, UsedType
    <2> QED
      BY <1>0, <1>3, <2>1, <2>2
  <1>8. ASSUME NEW s \in Slots, ForceVV(k, s)
        PROVE  OtherTypes'
    <2>1. UNCHANGED <<cf, data, reintegrators, vollock, client, hist, perf>>
      BY <1>8 DEF ForceVV
    <2>2. (\E r \in Replies : Reply(r))
      BY <1>8 DEF ForceVV
    <2>3. used' \in [resolutions : Nat, faults : Nat]
      BY <1>0, <2>2, UsedType, ReplyFaults
    <2>4. \/ UNCHANGED <<vv, pending, coppend, fresh>>
          \/ /\ vv' = [vv EXCEPT ![s].Versions = res[k].newvv.Versions]
             /\ pending' = [pending EXCEPT ![s] = FALSE]
             /\ fresh' = [fresh EXCEPT ![s] = NullSid]
             /\ coppend' = [coppend EXCEPT ![s] = Outdated(coppend[s], NullSid)]
      BY <1>8 DEF ForceVV
    <2>5. CASE UNCHANGED <<vv, pending, coppend, fresh>>
      BY <1>0, <2>1, <2>3, <2>5 DEF ServerTypes, ClientTypes, HistoryTypes
    <2>6. CASE /\ vv' = [vv EXCEPT ![s].Versions = res[k].newvv.Versions]
               /\ pending' = [pending EXCEPT ![s] = FALSE]
               /\ fresh' = [fresh EXCEPT ![s] = NullSid]
               /\ coppend' = [coppend EXCEPT ![s] = Outdated(coppend[s], NullSid)]
      <3>1. vv' \in [Slots -> VV]
        BY <1>0, <1>2, <2>6 DEF ServerTypes, VV
      <3>2. pending' \in [Slots -> BOOLEAN]
        BY <1>0, <2>6 DEF ServerTypes
      <3>3. fresh' \in [Slots -> StoreIds]
        BY <1>0, <2>6, SidAssumption DEF HistoryTypes
      <3>4. coppend' \in [Slots -> SUBSET StoreIds]
        BY <1>0, <2>6 DEF ServerTypes, Outdated
      <3> QED
        BY <1>0, <2>1, <2>3, <3>1, <3>2, <3>3, <3>4 DEF ServerTypes, ClientTypes, HistoryTypes
    <2> QED
      BY <2>4, <2>5, <2>6
  <1>9. ASSUME NEW s \in Slots, ForceFile(k, s)
        PROVE  OtherTypes'
    <2>1. UNCHANGED <<cf, pending, reintegrators, vollock, client, hist, perf>>
      BY <1>9 DEF ForceFile
    <2>2. (\E r \in Replies : Reply(r))
      BY <1>9 DEF ForceFile
    <2>3. used' \in [resolutions : Nat, faults : Nat]
      BY <1>0, <2>2, UsedType, ReplyFaults
    <2>4. \/ UNCHANGED <<vv, data, coppend, fresh>>
          \/ /\ vv' = [vv EXCEPT ![s] = Forced(vv[s], res[k].newvv)]
             /\ data' = [data EXCEPT ![s] = res[k].file]
             /\ fresh' = [fresh EXCEPT ![s] = NullSid]
             /\ coppend' = [coppend EXCEPT ![s] = Outdated(coppend[s], NullSid)]
      BY <1>9 DEF ForceFile
    <2>5. CASE UNCHANGED <<vv, data, coppend, fresh>>
      BY <1>0, <2>1, <2>3, <2>5 DEF ServerTypes, ClientTypes, HistoryTypes
    <2>6. CASE /\ vv' = [vv EXCEPT ![s] = Forced(vv[s], res[k].newvv)]
               /\ data' = [data EXCEPT ![s] = res[k].file]
               /\ fresh' = [fresh EXCEPT ![s] = NullSid]
               /\ coppend' = [coppend EXCEPT ![s] = Outdated(coppend[s], NullSid)]
      <3>0. Forced(vv[s], res[k].newvv) \in VV
        <4>1. vv[s] \in VV
          BY <1>0 DEF ServerTypes
        <4>2. Forced(vv[s], res[k].newvv)
                = Raised(vv[s], res[k].newvv.Versions, res[k].newvv.StoreId)
          BY DEF Forced, Raised
        <4> QED
          BY SMTT(60), <1>2, <4>1, <4>2, RaisedType DEF Versions
      <3>1. vv' \in [Slots -> VV]
        BY <1>0, <2>6, <3>0 DEF ServerTypes
      <3>2. data' \in [Slots -> StoreIds]
        BY <1>0, <1>1, <2>6 DEF ServerTypes
      <3>3. fresh' \in [Slots -> StoreIds]
        BY <1>0, <2>6, SidAssumption DEF HistoryTypes
      <3>4. coppend' \in [Slots -> SUBSET StoreIds]
        BY <1>0, <2>6 DEF ServerTypes, Outdated
      <3> QED
        BY <1>0, <2>1, <2>3, <3>1, <3>2, <3>3, <3>4 DEF ServerTypes, ClientTypes, HistoryTypes
    <2> QED
      BY <2>4, <2>5, <2>6
  <1>10. ASSUME NEW s \in Slots, MarkInc(k, s)
         PROVE  OtherTypes'
    <2>1. UNCHANGED <<cf, pending, data, coppend, reintegrators, vollock, client, history>>
          /\ (Faults(0) \/ Faults(1))
      BY <1>10 DEF MarkInc, Unreached
    <2>2. vv' \in [Slots -> VV]
      <3>1. vv' = vv \/ vv' = [vv EXCEPT ![s].Incon = TRUE]
        BY <1>10 DEF MarkInc
      <3>2. vv[s] \in VV
        BY <1>0 DEF ServerTypes
      <3>3. [vv[s] EXCEPT !.Incon = TRUE] \in VV
        BY <3>2 DEF VV
      <3> QED
        BY <1>0, <3>1, <3>3 DEF ServerTypes
    <2>3. used' \in [resolutions : Nat, faults : Nat]
      BY <1>0, <2>1, UsedType
    <2> QED
      BY <1>0, <2>1, <2>2, <2>3 DEF ServerTypes, ClientTypes, HistoryTypes
  <1>11. ASSUME NEW s \in Slots, UnlockVol(k, s)
         PROVE  OtherTypes'
    <2>1. UNCHANGED <<cf, server, client, history>> /\ (Faults(0) \/ Faults(1))
      BY <1>11 DEF UnlockVol, Unreached
    <2>2. vollock' \in [Slots -> Slots \cup {NULL}]
      BY <1>0, <1>11 DEF UnlockVol
    <2>3. used' \in [resolutions : Nat, faults : Nat]
      BY <1>0, <2>1, UsedType
    <2> QED
      BY <1>3, <2>1, <2>2, <2>3
  <1>12. CASE FetchFile(k)
    BY <1>0, <1>3, <1>12 DEF FetchFile
  <1>13. CASE FetchFails(k)
    <2>1. UNCHANGED <<cf, server, vollock, client, history>> /\ (Faults(0) \/ Faults(1))
      BY <1>13 DEF FetchFails, Unreached
    <2>2. used' \in [resolutions : Nat, faults : Nat]
      BY <1>0, <2>1, UsedType
    <2> QED
      BY <1>0, <1>3, <2>1, <2>2
  <1>14. CASE AssertFails(k)
    BY <1>0, <1>14, RestartTypes DEF AssertFails
  <1> QED
    BY <1>4, <1>5, <1>6, <1>7, <1>8, <1>9, <1>10, <1>11, <1>12, <1>13, <1>14 DEF ResolveStep

\* The initial states have the right types.
LEMMA InitTypes == Init => TypeOK
  <1> SUFFICES ASSUME Init PROVE TypeOK
    OBVIOUS
  <1>1. ServerTypes /\ HistoryTypes
    BY ZeroVVType, SidAssumption DEF Init, ServerTypes, HistoryTypes
  <1>2. cache \in [Clients -> VV] /\ op \in [Clients -> OpType \cup {NULL}]
    BY ZeroVVType DEF Init
  <1>3. cop2_list \in [Clients -> Seq(Entry)]
    BY SMTT(60) DEF Init
  <1>4. cf \in Configs /\ vollock \in [Slots -> Slots \cup {NULL}]
        /\ used \in [resolutions : Nat, faults : Nat]
    BY DEF Init
  <1>5. ResOK(res)
    BY IdleResType DEF Init, ResOK
  <1> QED
    BY <1>1, <1>2, <1>3, <1>4, <1>5, TypeOKParts DEF OtherTypes, ClientTypes

\* Every step keeps the types.
LEMMA TypeStep ==
  ASSUME TypeOK, [Next]_vars
  PROVE  TypeOK'
  <1>0. OtherTypes /\ ResOK(res) /\ TypeOK
    BY TypeOKParts DEF TypeOK
  <1>1. ASSUME NEW s \in Slots, LockExpires(s) \/ Crash(s) \/ \E u \in StoreIds : ExpireCOP2(s, u)
        PROVE  OtherTypes'
    <2> USE DEF OtherTypes, server, client, history
    <2>1. CASE LockExpires(s)
      <3>1. UNCHANGED <<cf, server, client, history>> /\ (Faults(0) \/ Faults(1))
        BY <2>1 DEF LockExpires
      <3>2. vollock' \in [Slots -> Slots \cup {NULL}]
        BY <1>0, <2>1 DEF LockExpires
      <3>3. used' \in [resolutions : Nat, faults : Nat]
        BY <1>0, <3>1, UsedType
      <3> QED
        BY <1>0, <3>1, <3>2, <3>3 DEF ServerTypes, ClientTypes, HistoryTypes
    <2>2. CASE Crash(s)
      BY <1>0, <2>2, RestartTypes DEF Crash
    <2>3. ASSUME NEW u \in StoreIds, ExpireCOP2(s, u)
          PROVE  OtherTypes'
      <3>1. UNCHANGED <<cf, vv, pending, data, reintegrators, vollock, client, history>>
            /\ Faults(1)
        BY <2>3 DEF ExpireCOP2
      <3>2. coppend' \in [Slots -> SUBSET StoreIds]
        BY <1>0, <2>3 DEF ExpireCOP2, ServerTypes
      <3>3. used' \in [resolutions : Nat, faults : Nat]
        BY <1>0, <3>1, UsedType
      <3> QED
        BY <1>0, <3>1, <3>2, <3>3 DEF ServerTypes, ClientTypes, HistoryTypes
    <2> QED
      BY <1>1, <2>1, <2>2, <2>3
  <1>2. CASE Next
    <2>1. OtherTypes'
      BY <1>1, <1>2, ClientTypeStep, ResolveTypeStep DEF Next
    <2>2. ResOK(res')
      BY <1>0, <1>2, ResTypeStep
    <2> QED
      BY <2>1, <2>2 DEF TypeOK, ResOK, Answered, IdleOK, OtherTypes, ServerTypes,
                        ClientTypes, HistoryTypes
  <1>3. CASE UNCHANGED vars
    BY <1>3 DEF vars, server, client, history, TypeOK, ResOK, Answered, IdleOK
  <1> QED
    BY <1>2, <1>3

\* Every variable keeps its type in every behaviour: no resolution ever uses the
\* vector of a server that has not answered, and dix is set once there is a member.
THEOREM ReplicationTypeCorrect == Spec => []TypeOK
  <1>1. Init => TypeOK
    BY InitTypes
  <1>2. TypeOK /\ [Next]_vars => TypeOK'
    BY TypeStep
  <1>3. TypeOK => TypeOK
    BY DEF TypeOK
  <1> QED
    BY <1>1, <1>2, <1>3, PTL DEF Spec

-----------------------------------------------------------------------------
(* The inductive invariant, and the steps that preserve it at the servers   *)
(* and at the clients, if there are no late COP2s.                          *)

\* Every server is right, and histories are.
ServerInv ==
    /\ HistOK(hist, perf)
    /\ \A s \in Slots : /\ Replica(hist, perf, s, vv[s])
                        /\ Fresh(hist, perf, s, vv[s], fresh[s], coppend[s])

\* Every client is right.
ClientInv ==
    \A c \in Clients :
        /\ Cached(hist, perf, cache[c])
        /\ op[c] # NULL => Open(hist, perf, op[c])
        /\ \A i \in DOMAIN cop2_list[c] : Listed(perf, cop2_list[c][i])

\* Every coordinator is right.
CoordInv == \A k \in Slots : Coordinates(hist, perf, vv, res[k])

\* The inductive invariant.
Core == ~May("late") => ServerInv /\ ClientInv /\ CoordInv

-----------------------------------------------------------------------------
(* The servers.                                                            *)

\* A step lets histories grow and takes nothing away from a replica.
Progress ==
    /\ HistOK(hist', perf') /\ Grows(hist, perf, hist', perf')
    /\ \A i \in Slots : hist[vv[i].StoreId] \subseteq hist'[vv'[i].StoreId]

\* A step that changes one replica only.
LEMMA OneReplica ==
  ASSUME Counting, TypeOK, ServerInv, NEW s \in Slots, UNCHANGED <<hist, perf>>,
         \A i \in Slots \ {s} :
            vv'[i] = vv[i] /\ fresh'[i] = fresh[i] /\ coppend'[i] \subseteq coppend[i],
         Replica(hist, perf, s, vv'[s]),
         Fresh(hist, perf, s, vv'[s], fresh'[s], coppend'[s]),
         hist[vv[s].StoreId] \subseteq hist[vv'[s].StoreId]
  PROVE  ServerInv' /\ Progress
  <1>1. HistOK(hist', perf') /\ hist' = hist /\ perf' = perf
    BY DEF ServerInv
  <1>2. Progress
    BY <1>1 DEF Progress, Grows
  <1>3. ASSUME NEW i \in Slots
        PROVE  /\ Replica(hist', perf', i, vv'[i])
               /\ Fresh(hist', perf', i, vv'[i], fresh'[i], coppend'[i])
    <2>1. CASE i = s
      BY <1>1, <2>1
    <2>2. CASE i # s
      <3>1. Replica(hist, perf, i, vv[i]) /\ Fresh(hist, perf, i, vv[i], fresh[i], coppend[i])
        BY DEF ServerInv
      <3> QED
        BY <1>1, <2>2, <3>1 DEF Fresh
    <2> QED
      BY <2>1, <2>2
  <1> QED
    BY <1>1, <1>2, <1>3 DEF ServerInv

\* A step that changes no replica.
LEMMA Quiet ==
  ASSUME Counting, TypeOK, ServerInv, UNCHANGED <<vv, hist, perf, fresh>>,
         \A s \in Slots : coppend'[s] \subseteq coppend[s]
  PROVE  ServerInv' /\ Progress
  <1>1. 0 \in Slots
    BY SMTT(60), VSGAssumption DEF Slots
  <1>2. /\ Replica(hist, perf, 0, vv'[0])
        /\ Fresh(hist, perf, 0, vv'[0], fresh'[0], coppend'[0])
    BY <1>1 DEF ServerInv, Fresh
  <1> QED
    BY <1>1, <1>2, OneReplica

\* A COP2 is delivered.
LEMMA DeliverStep ==
  ASSUME Counting, TypeOK, ServerInv, ClientInv, NEW c \in Clients, NEW s \in Slots, DeliverCOP2(c, s)
  PROVE  ServerInv' /\ Progress
  <1>0. /\ vv \in [Slots -> VV] /\ coppend \in [Slots -> SUBSET StoreIds]
        /\ fresh \in [Slots -> StoreIds]
    BY DEF TypeOK
  <1>1. PICK i \in DOMAIN cop2_list[c] :
          /\ cop2_list[c][i].sid \in coppend[s]
          /\ InternalCOP2(s, cop2_list[c][i].sid, cop2_list[c][i].UpdateSet)
    BY DEF DeliverCOP2
  <1> DEFINE u == cop2_list[c][i].sid
             US == cop2_list[c][i].UpdateSet
  <1>2. UNCHANGED <<hist, perf>>
    BY DEF DeliverCOP2
  <1>3. \A j \in US : u \in perf[j]
    BY DEF ClientInv, Listed
  <1>4. HistOK(hist, perf) /\ Replica(hist, perf, s, vv[s])
        /\ Fresh(hist, perf, s, vv[s], fresh[s], coppend[s])
    BY DEF ServerInv
  <1>5. u = fresh[s] /\ u # NullSid /\ u \in StoreIds
    BY <1>0, <1>1, <1>4 DEF Fresh
  <1> HIDE DEF u, US
  <1>6. coppend' = [coppend EXCEPT ![s] = @ \ {u}]
    BY <1>1 DEF InternalCOP2, u
  <1>7. CASE UNCHANGED <<vv, fresh>>
    BY <1>0, <1>2, <1>6, <1>7, Quiet
  <1>8. CASE /\ vv' = [vv EXCEPT ![s] = COP2Update(vv[s], s, US)]
             /\ fresh' = [fresh EXCEPT ![s] = NullSid]
    <2>1. vv[s] \in VV
      BY <1>0
    <2>2. /\ Replica(hist, perf, s, COP2Update(vv[s], s, US))
          /\ COP2Update(vv[s], s, US).StoreId = vv[s].StoreId
      BY SMTT(60), <1>3, <1>4, <1>5, <2>1, COP2Effect
    <2>3. vv'[s] = COP2Update(vv[s], s, US) /\ fresh'[s] = NullSid /\ coppend'[s] = {}
      BY <1>0, <1>4, <1>5, <1>6, <1>8 DEF Fresh
    <2>4. Fresh(hist, perf, s, vv'[s], fresh'[s], coppend'[s])
      BY <2>3 DEF Fresh
    <2>5. \A j \in Slots \ {s} : vv'[j] = vv[j] /\ fresh'[j] = fresh[j]
                                 /\ coppend'[j] \subseteq coppend[j]
      BY <1>0, <1>6, <1>8
    <2> QED
      BY <1>2, <2>2, <2>3, <2>4, <2>5, OneReplica
  <1> QED
    BY <1>1, <1>7, <1>8 DEF InternalCOP2, u, US

\* A resolution that changes a replica.
LEMMA ForceStep ==
  ASSUME Counting, TypeOK, ServerInv, CoordInv, ~May("late"), NEW k \in Slots, NEW s \in Slots,
         ForceVV(k, s) \/ ForceFile(k, s)
  PROVE  ServerInv' /\ Progress
  <1> DEFINE n == res[k].newvv
  <1>0. /\ vv \in [Slots -> VV] /\ coppend \in [Slots -> SUBSET StoreIds]
        /\ fresh \in [Slots -> StoreIds] /\ res[k] \in ResType /\ n \in VV /\ vv[s] \in VV
    BY DEF TypeOK, ResOK, ResType
  <1>1. UNCHANGED <<hist, perf>>
    BY DEF ForceVV, ForceFile
  <1>2. HistOK(hist, perf) /\ Replica(hist, perf, s, vv[s])
    BY DEF ServerInv
  <1>3. Coordinates(hist, perf, vv, res[k])
    BY DEF CoordInv
  <1>4. CASE UNCHANGED <<vv, coppend, fresh>>
    BY <1>1, <1>4, Quiet
  <1>5. ASSUME NEW w \in VV, vv' = [vv EXCEPT ![s] = w], fresh' = [fresh EXCEPT ![s] = NullSid],
               coppend' = [coppend EXCEPT ![s] = Outdated(coppend[s], NullSid)],
               Replica(hist, perf, s, w), hist[vv[s].StoreId] \subseteq hist[w.StoreId]
        PROVE  ServerInv' /\ Progress
    <2>1. coppend'[s] = {}
      <3>1. NullSid \notin coppend[s]
        BY DEF ServerInv, Fresh
      <3> QED
        BY <1>0, <1>5, <3>1 DEF Outdated
    <2>2. Fresh(hist, perf, s, vv'[s], fresh'[s], coppend'[s])
      BY <1>0, <1>5, <2>1 DEF Fresh
    <2>3. \A j \in Slots \ {s} : vv'[j] = vv[j] /\ fresh'[j] = fresh[j]
                                 /\ coppend'[j] \subseteq coppend[j]
      BY <1>0, <1>5
    <2>4. vv'[s] = w
      BY <1>0, <1>5
    <2> QED
      BY <1>1, <1>5, <2>2, <2>3, <2>4, OneReplica
  <1>6. MayForce(k, s) => AllGeq(n, vv[s])
    BY DEF MayForce, VV_Cmp, VV_Cmp_IgnoreInc
  <1>7. CASE /\ res[k].pc = "forcevv" /\ s \in res[k].todo /\ MayForce(k, s)
             /\ vv' = [vv EXCEPT ![s].Versions = n.Versions]
             /\ fresh' = [fresh EXCEPT ![s] = NullSid]
             /\ coppend' = [coppend EXCEPT ![s] = Outdated(coppend[s], NullSid)]
    <2> DEFINE w == [vv[s] EXCEPT !.Versions = n.Versions]
    <2>1. n.Versions \in Versions
      BY <1>0 DEF VV
    <2>2. w \in VV /\ w.Versions = n.Versions /\ w.StoreId = vv[s].StoreId
      BY <1>0, <2>1 DEF VV
    <2>3. vv' = [vv EXCEPT ![s] = w]
      BY <1>0, <1>7
    <2>4. Bounded(hist, perf, n) /\ hist[n.StoreId] \subseteq hist[vv[s].StoreId]
      BY <1>3, <1>7 DEF Coordinates, Found
    <2> HIDE DEF w, n
    <2>5. Replica(hist, perf, s, w)
      BY <1>0, <1>2, <1>6, <1>7, <2>2, <2>4, RaiseEffect
    <2> QED
      BY <1>5, <1>7, <2>2, <2>3, <2>5
  <1>8. CASE /\ res[k].pc = "forcefile" /\ MayForce(k, s)
             /\ vv' = [vv EXCEPT ![s] = Forced(vv[s], n)]
             /\ fresh' = [fresh EXCEPT ![s] = NullSid]
             /\ coppend' = [coppend EXCEPT ![s] = Outdated(coppend[s], NullSid)]
    <2> DEFINE w == Forced(vv[s], n)
    <2>1. n.Versions \in [Slots -> Int] /\ n.StoreId \in StoreIds
      BY <1>0 DEF VV, Versions
    <2>2. w = Raised(vv[s], n.Versions, n.StoreId)
      BY DEF Forced, Raised
    <2> HIDE DEF w
    <2>3. w \in VV /\ w.Versions = n.Versions /\ w.StoreId = n.StoreId
      <3> HIDE DEF n
      <3>1. vv[s] \in VV
        BY <1>0
      <3>2. /\ Raised(vv[s], n.Versions, n.StoreId) \in VV
            /\ Raised(vv[s], n.Versions, n.StoreId).Versions = n.Versions
            /\ Raised(vv[s], n.Versions, n.StoreId).StoreId = n.StoreId
        BY SMTT(60), <2>1, <3>1, RaisedType
      <3> QED
        BY <2>2, <3>2
    <2>4. Bounded(hist, perf, n) /\ Witnessed(hist, perf, n)
      BY <1>3, <1>8 DEF Coordinates, Found
    <2> HIDE DEF n
    <2>5. Replica(hist, perf, s, w) /\ hist[vv[s].StoreId] \subseteq hist[w.StoreId]
      BY <1>0, <1>2, <1>6, <1>8, <2>3, <2>4, OverwriteEffect
    <2> QED
      BY <1>5, <1>8, <2>3, <2>5 DEF w
  <1> QED
    BY <1>4, <1>7, <1>8 DEF ForceVV, ForceFile

\* A resolution marks a replica inconsistent.
LEMMA MarkStep ==
  ASSUME Counting, TypeOK, ServerInv, NEW k \in Slots, NEW s \in Slots, MarkInc(k, s)
  PROVE  ServerInv' /\ Progress
  <1>0. vv \in [Slots -> VV] /\ vv[s] \in VV
    BY DEF TypeOK
  <1>1. UNCHANGED <<hist, perf, fresh, coppend>>
    BY DEF MarkInc, history
  <1>2. CASE vv' = vv
    BY <1>1, <1>2, Quiet
  <1>3. CASE vv' = [vv EXCEPT ![s].Incon = TRUE]
    <2>1. /\ vv'[s].Versions = vv[s].Versions /\ vv'[s].StoreId = vv[s].StoreId
          /\ \A j \in Slots \ {s} : vv'[j] = vv[j]
      BY <1>0, <1>3 DEF VV
    <2>2. /\ Replica(hist, perf, s, vv[s])
          /\ Fresh(hist, perf, s, vv[s], fresh[s], coppend[s])
      BY DEF ServerInv
    <2>3. /\ Replica(hist, perf, s, vv'[s])
          /\ Fresh(hist, perf, s, vv'[s], fresh[s], coppend[s])
      BY <2>1, <2>2, ReplicaSame
    <2> QED
      BY <1>1, <2>1, <2>3, OneReplica
  <1> QED
    BY <1>2, <1>3 DEF MarkInc

\* A client begins an update.
LEMMA BeginStep ==
  ASSUME Counting, TypeOK, ServerInv, ClientInv, NEW c \in Clients, NEW u \in StoreIds, BeginUpdate(c, u)
  PROVE  /\ ServerInv' /\ Progress
         /\ op' = [op EXCEPT ![c] = Call(u, cache[c])] /\ Open(hist', perf', Call(u, cache[c]))
  <1>0. /\ vv \in [Slots -> VV] /\ fresh \in [Slots -> StoreIds] /\ cache[c] \in VV
        /\ hist \in [StoreIds -> SUBSET StoreIds] /\ Hosts \subseteq Slots
    BY ConfigAssumption DEF TypeOK, ConfigType, Hosts
  <1>1. /\ UNCHANGED <<vv, coppend, perf, fresh>> /\ u # NullSid /\ hist[u] = {}
        /\ hist' = [hist EXCEPT ![u] = hist[cache[c].StoreId] \cup {u}]
        /\ op' = [op EXCEPT ![c] = Call(u, cache[c])]
    BY DEF BeginUpdate, Unused, server
  <1>2. HistOK(hist, perf) /\ Cached(hist, perf, cache[c])
    BY DEF ServerInv, ClientInv
  <1>3. /\ HistOK(hist', perf) /\ Grows(hist, perf, hist', perf)
        /\ u \notin hist[cache[c].StoreId] /\ u # cache[c].StoreId
    BY <1>0, <1>1, <1>2, BeginEffect
  <1>4. ASSUME NEW i \in Slots
        PROVE  /\ Replica(hist', perf, i, vv[i]) /\ Fresh(hist', perf, i, vv[i], fresh[i], coppend[i])
               /\ hist[vv[i].StoreId] \subseteq hist'[vv[i].StoreId]
    <2>1. Replica(hist, perf, i, vv[i]) /\ Fresh(hist, perf, i, vv[i], fresh[i], coppend[i])
      BY DEF ServerInv
    <2>2. vv[i] \in VV /\ vv[i].StoreId \in StoreIds /\ fresh[i] \in StoreIds
      BY <1>0 DEF VV
    <2>3. Known(hist, vv[i].StoreId)
      BY <1>2, <1>3, <2>1, <2>2, WitnessedGrows DEF Replica
    <2>4. hist'[vv[i].StoreId] = hist[vv[i].StoreId]
      BY <1>3, <2>2, <2>3 DEF Grows
    <2> QED
      BY <1>2, <1>3, <2>1, <2>2, <2>4, ReplicaGrows, FreshGrows
  <1>5. ServerInv' /\ Progress
    BY <1>1, <1>3, <1>4 DEF ServerInv, Progress
  <1>6. Cached(hist', perf', cache[c]) /\ hist'[cache[c].StoreId] = hist[cache[c].StoreId]
    BY SMTT(60), <1>0, <1>1, <1>2, <1>3, CachedGrows
  <1>7. hist'[u] = hist'[cache[c].StoreId] \cup {u}
    BY <1>0, <1>1, <1>6
  <1>8. LET o == Call(u, cache[c]) IN o.sid = u /\ o.base = cache[c] /\ o.UpdateSet = {}
    BY DEF Call
  <1>9. Open(hist', perf', Call(u, cache[c]))
    BY <1>1, <1>3, <1>6, <1>7, <1>8 DEF Open
  <1> QED
    BY <1>1, <1>5, <1>9

\* A server performs an update.
LEMMA COP1Step ==
  ASSUME Counting, TypeOK, ServerInv, ClientInv, ~May("late"), NEW c \in Clients, NEW s \in Slots, COP1(c, s)
  PROVE  ServerInv' /\ Progress
  <1> DEFINE o == op[c]
             w == Updated(vv[s], s, o)
  <1>0. /\ vv \in [Slots -> VV] /\ fresh \in [Slots -> StoreIds] /\ vv[s] \in VV
        /\ coppend \in [Slots -> SUBSET StoreIds] /\ perf \in [Slots -> SUBSET StoreIds]
    BY DEF TypeOK
  <1>1. o \in OpType /\ o # NULL
    BY DEF TypeOK, COP1, Executes
  <1>2. /\ hist' = hist /\ perf' = [perf EXCEPT ![s] = perf[s] \cup {o.sid}]
        /\ vv' = [vv EXCEPT ![s] = w] /\ fresh' = [fresh EXCEPT ![s] = o.sid]
        /\ coppend' = [coppend EXCEPT ![s] = Outdated(coppend[s] \cup {o.sid}, o.sid)]
    BY DEF COP1, Updated
  <1>3. vv[s].StoreId = o.base.StoreId
    BY DEF COP1, Outcome, SID_EQ
  <1>4. HistOK(hist, perf) /\ Replica(hist, perf, s, vv[s]) /\ Open(hist, perf, o)
    BY <1>1 DEF ServerInv, ClientInv
  <1> HIDE DEF o
  <1>5. /\ HistOK(hist, perf') /\ Grows(hist, perf, hist, perf')
        /\ Replica(hist, perf', s, w) /\ Fresh(hist, perf', s, w, o.sid, {o.sid})
        /\ w.StoreId = o.sid /\ hist[vv[s].StoreId] \subseteq hist[o.sid]
    <2>1. vv[s] \in VV /\ Performing(perf, s, o.sid, perf')
      BY <1>0, <1>2 DEF Performing
    <2> QED
      BY <1>1, <1>3, <1>4, <2>1, COP1Effect
  <1> HIDE DEF w
  <1>6. /\ vv'[s] = w /\ fresh'[s] = o.sid /\ coppend'[s] = {o.sid}
        /\ \A j \in Slots \ {s} : /\ vv'[j] = vv[j] /\ fresh'[j] = fresh[j]
                                  /\ coppend'[j] = coppend[j] /\ perf'[j] = perf[j]
    BY <1>0, <1>2 DEF Outdated
  <1>7. ASSUME NEW i \in Slots
        PROVE  /\ Replica(hist', perf', i, vv'[i])
               /\ Fresh(hist', perf', i, vv'[i], fresh'[i], coppend'[i])
               /\ hist[vv[i].StoreId] \subseteq hist'[vv'[i].StoreId]
    <2>1. CASE i = s
      <3>1. vv'[i] = w /\ fresh'[i] = o.sid /\ coppend'[i] = {o.sid} /\ hist' = hist
        BY <1>2, <1>6, <2>1
      <3> QED
        BY <1>5, <2>1, <3>1
    <2>2. CASE i # s
      <3>1. Replica(hist, perf, i, vv[i]) /\ Fresh(hist, perf, i, vv[i], fresh[i], coppend[i])
        BY DEF ServerInv
      <3>2. vv[i] \in VV /\ fresh[i] \in StoreIds
        BY <1>0
      <3>3. Replica(hist, perf', i, vv[i]) /\ Fresh(hist, perf', i, vv[i], fresh[i], coppend[i])
        BY <1>4, <1>5, <1>6, <2>2, <3>1, <3>2, ReplicaGrows, FreshGrows
      <3> QED
        BY <1>2, <1>6, <2>2, <3>3
    <2> QED
      BY <2>1, <2>2
  <1> QED
    BY <1>2, <1>5, <1>7 DEF ServerInv, Progress

\* Every step keeps ServerInv and makes progress.
LEMMA ServerStep ==
  ASSUME Counting, TypeOK, ServerInv, ClientInv, CoordInv, ~May("late"), Next
  PROVE  ServerInv' /\ Progress
  <1>0. coppend \in [Slots -> SUBSET StoreIds]
    BY DEF TypeOK
  <1> USE DEF server, history
  <1>1. ASSUME NEW c \in Clients, ClientStep(c)
        PROVE  ServerInv' /\ Progress
    <2>1. ASSUME NEW G, GetAttr(c, G)
          PROVE  ServerInv' /\ Progress
      BY <2>1, Quiet DEF GetAttr
    <2>2. CASE Commit(c) \/ RetryUpdate(c) \/ GiveUp(c) \/ ClearCOP2(c)
      BY <2>2, Quiet DEF Commit, RetryUpdate, GiveUp, ClearCOP2
    <2>3. ASSUME NEW s \in Slots, COP1Refused(c, s) \/ COP1TimesOut(c, s)
          PROVE  ServerInv' /\ Progress
      BY <2>3, Quiet DEF COP1Refused, COP1TimesOut
    <2> QED
      BY <1>1, <2>1, <2>2, <2>3, BeginStep, COP1Step, DeliverStep DEF ClientStep
  <1>2. ASSUME NEW s \in Slots, Restart(s)
        PROVE  ServerInv' /\ Progress
    <2>1. UNCHANGED <<vv, hist, perf, fresh>> /\ coppend' = [coppend EXCEPT ![s] = {}]
      BY <1>2 DEF Restart
    <2> QED
      BY <1>0, <2>1, Quiet
  <1>3. ASSUME NEW k \in Slots, StartResolve(k) \/ ResolveStep(k)
        PROVE  ServerInv' /\ Progress
    <2>1. CASE StartResolve(k) \/ FetchFile(k) \/ FetchFails(k)
      BY <2>1, Quiet DEF StartResolve, FetchFile, FetchFails
    <2>2. ASSUME NEW s \in Slots,
                 \/ LockAndFetch(k, s) \/ LockRefused(k, s) \/ LockTimesOut(k, s)
                 \/ ForceTimesOut(k, s) \/ UnlockVol(k, s)
          PROVE  ServerInv' /\ Progress
      <3>1. UNCHANGED <<server, history>>
        BY <2>2 DEF LockAndFetch, LockRefused, LockTimesOut, ForceTimesOut, UnlockVol
      <3> QED
        BY <3>1, Quiet
    <2>3. CASE AssertFails(k)
      BY <1>2, <2>3 DEF AssertFails
    <2> QED
      BY <1>3, <2>1, <2>2, <2>3, ForceStep, MarkStep DEF ResolveStep
  <1>4. ASSUME NEW s \in Slots, LockExpires(s) \/ Crash(s)
        PROVE  ServerInv' /\ Progress
    BY <1>2, <1>4, Quiet DEF LockExpires, Crash
  <1>5. ASSUME NEW s \in Slots, NEW u \in StoreIds, ExpireCOP2(s, u)
        PROVE  ServerInv' /\ Progress
    BY <1>0, <1>5, Quiet DEF ExpireCOP2
  <1> QED
    BY <1>1, <1>3, <1>4, <1>5 DEF Next

-----------------------------------------------------------------------------
(* The clients.                                                            *)

\* What client c has is right.
ClientOK(h, p, v, o, list) ==
    /\ Cached(h, p, v)
    /\ o # NULL => Open(h, p, o)
    /\ \A i \in DOMAIN list : Listed(p, list[i])

\* ClientInv, client by client.
LEMMA ClientInvOK ==
  /\ ClientInv <=> \A c \in Clients : ClientOK(hist, perf, cache[c], op[c], cop2_list[c])
  /\ ClientInv' <=> \A c \in Clients : ClientOK(hist', perf', cache'[c], op'[c], cop2_list'[c])
  BY DEF ClientInv, ClientOK

\* A client that takes no part in a step stays right.
LEMMA ClientGrows ==
  ASSUME Counting, TypeOK, ServerInv, ClientInv, Progress, NEW c \in Clients
  PROVE  ClientOK(hist', perf', cache[c], op[c], cop2_list[c])
  <1>0. /\ cache[c] \in VV /\ (op[c] # NULL => op[c] \in OpType)
        /\ cop2_list[c] \in Seq(Entry)
    BY DEF TypeOK
  <1>1. /\ HistOK(hist, perf) /\ HistOK(hist', perf') /\ Grows(hist, perf, hist', perf')
        /\ ClientOK(hist, perf, cache[c], op[c], cop2_list[c])
    BY ClientInvOK DEF ServerInv, Progress
  <1>2. Cached(hist', perf', cache[c])
    BY <1>0, <1>1, CachedGrows DEF ClientOK
  <1>3. op[c] # NULL => Open(hist', perf', op[c])
    BY <1>0, <1>1, OpenGrows DEF ClientOK
  <1>4. ASSUME NEW i \in DOMAIN cop2_list[c]
        PROVE  Listed(perf', cop2_list[c][i])
    <2>1. cop2_list[c][i] \in Entry
      BY SMTT(60), <1>0, <1>4
    <2>2. cop2_list[c][i].UpdateSet \subseteq Slots
      BY <2>1 DEF Entry
    <2>3. Listed(perf, cop2_list[c][i])
      BY <1>1, <1>4 DEF ClientOK
    <2> QED
      BY <1>1, <2>2, <2>3 DEF Listed, Grows
  <1> QED
    BY <1>2, <1>3, <1>4 DEF ClientOK

\* The version a client has after its update.
LEMMA CommitEffect ==
  ASSUME Counting, NEW h, NEW p, HistOK(h, p), NEW o \in OpType, Open(h, p, o), NEW v \in VV,
         v.StoreId = o.sid,
         \A j \in Slots :
            v.Versions[j] = o.base.Versions[j] + (IF j \in o.UpdateSet THEN 1 ELSE 0)
  PROVE  Cached(h, p, v)
  <1> DEFINE u == o.sid
             t == o.base.StoreId
  <1>1. /\ u \in StoreIds /\ t \in StoreIds /\ o.base.Versions \in [Slots -> Int]
        /\ h[u] = h[t] \cup {u} /\ u \notin h[t] /\ Bounded(h, p, o.base)
    BY DEF OpType, VV, Versions, Open, Cached
  <1>2. ASSUME NEW j \in Slots
        PROVE  v.Versions[j] <= Count(h, p, u, j)
    <2> DEFINE A == h[t] \cap p[j]
    <2>1. A \subseteq h[u] \cap p[j] /\ h[u] \cap p[j] \subseteq StoreIds /\ u \notin A
          /\ A \subseteq StoreIds
      BY <1>1 DEF HistOK
    <2>2. /\ Cardinality(A) \in Nat /\ Count(h, p, u, j) \in Nat
          /\ Cardinality(A) <= Count(h, p, u, j)
      BY <2>1, CardSubset DEF Count
    <2>3. o.base.Versions[j] <= Cardinality(A) /\ o.base.Versions[j] \in Int
      BY <1>1 DEF Bounded, Count
    <2>4. CASE j \in o.UpdateSet
      <3>1. h[u] \cap p[j] = A \cup {u}
        BY <1>1, <2>4 DEF Open
      <3>2. Cardinality(A \cup {u}) = Cardinality(A) + 1
        BY <1>1, <2>1, CardAdd
      <3>3. Count(h, p, u, j) = Cardinality(A) + 1
        BY <3>1, <3>2 DEF Count
      <3>4. v.Versions[j] = o.base.Versions[j] + 1
        BY <2>4
      <3> HIDE DEF A
      <3> QED
        BY SMTT(60), <2>2, <2>3, <3>3, <3>4
    <2>5. CASE j \notin o.UpdateSet
      <3>1. v.Versions[j] = o.base.Versions[j]
        BY SMTT(60), <1>1, <2>5
      <3> HIDE DEF A
      <3> QED
        BY SMTT(60), <2>2, <2>3, <3>1
    <2> QED
      BY <2>4, <2>5
  <1>3. Bounded(h, p, v)
    BY <1>2 DEF Bounded
  <1>4. Known(h, v.StoreId)
    BY <1>1 DEF Known
  <1> QED
    BY <1>3, <1>4 DEF Cached

\* A call of which less is to be done.
LEMMA OpenSame ==
  ASSUME Counting, NEW h, NEW p, NEW o, NEW q, Open(h, p, o), q.sid = o.sid, q.base = o.base,
         \A i \in q.UpdateSet : o.sid \in p[i]
  PROVE  Open(h, p, q)
  BY DEF Open

\* The steps of a client keep what it has right.
LEMMA ClientKeeps ==
  ASSUME Counting, TypeOK, ServerInv, ClientInv, Progress, ~May("late"), NEW c \in Clients, ClientStep(c)
  PROVE  ClientInv'
  <1>0. /\ cache \in [Clients -> VV] /\ op \in [Clients -> OpType \cup {NULL}]
        /\ cop2_list \in [Clients -> Seq(Entry)] /\ vv \in [Slots -> VV] /\ Hosts \subseteq Slots
    BY ConfigAssumption DEF TypeOK, ConfigType, Hosts
  <1>1. /\ HistOK(hist, perf) /\ HistOK(hist', perf') /\ Grows(hist, perf, hist', perf')
    BY DEF ServerInv, Progress
  <1>2. \A b \in Clients : ClientOK(hist', perf', cache[b], op[b], cop2_list[b])
    BY ClientGrows
  \* It is enough to look at c.
  <1>3. ASSUME \A b \in Clients \ {c} :
                  cache'[b] = cache[b] /\ op'[b] = op[b] /\ cop2_list'[b] = cop2_list[b],
               ClientOK(hist', perf', cache'[c], op'[c], cop2_list'[c])
        PROVE  ClientInv'
    BY <1>2, <1>3, ClientInvOK
  <1>4. ASSUME NEW G \in SUBSET Hosts, GetAttr(c, G)
        PROVE  ClientInv'
    <2>1. PICK d \in Slots : cache' = [cache EXCEPT ![c] = vv[d]]
      BY <1>0, <1>4 DEF GetAttr
    <2>2. UNCHANGED <<op, cop2_list, hist, perf>>
      BY <1>4 DEF GetAttr, history
    <2>3. vv[d] \in VV /\ Replica(hist, perf, d, vv[d])
      BY <1>0 DEF ServerInv
    <2>4. Cached(hist, perf, vv[d])
      BY <1>1, <2>3, WitnessedGrows DEF Replica, Cached
    <2>5. ClientOK(hist', perf', cache'[c], op'[c], cop2_list'[c])
      BY <1>0, <1>2, <2>1, <2>2, <2>4 DEF ClientOK
    <2> QED
      BY <1>0, <1>3, <2>1, <2>2, <2>5
  <1>5. ASSUME NEW u \in StoreIds, BeginUpdate(c, u)
        PROVE  ClientInv'
    <2>1. /\ op' = [op EXCEPT ![c] = Call(u, cache[c])] /\ Open(hist', perf', Call(u, cache[c]))
      BY <1>5, BeginStep
    <2>2. UNCHANGED <<cache, cop2_list>>
      BY <1>5 DEF BeginUpdate
    <2>3. ClientOK(hist', perf', cache'[c], op'[c], cop2_list'[c])
      BY <1>0, <1>2, <2>1, <2>2 DEF ClientOK
    <2> QED
      BY <1>0, <1>3, <2>1, <2>2, <2>3
  <1>6. CASE Commit(c)
    <2> DEFINE o == op[c]
               a == AddVVs(o.base, One(o.UpdateSet))
               v == [a EXCEPT !.StoreId = o.sid]
               e == [sid |-> o.sid, UpdateSet |-> o.UpdateSet]
               l == IF o.UpdateSet = {} THEN cop2_list[c] ELSE << >>
    <2>1. /\ o # NULL /\ cache' = [cache EXCEPT ![c] = v] /\ op' = [op EXCEPT ![c] = NULL]
          /\ cop2_list' = [cop2_list EXCEPT ![c] = Append(l, e)]
          /\ UNCHANGED <<hist, perf>>
      BY <1>6 DEF Commit, history
    <2>2. o \in OpType /\ o.base \in VV /\ o.sid \in StoreIds /\ Open(hist, perf, o)
      <3>1. o \in OpType /\ Open(hist, perf, o)
        BY <1>0, <2>1 DEF ClientInv
      <3> QED
        BY <3>1 DEF OpType
    <2>3. /\ a \in VV
          /\ \A j \in Slots : a.Versions[j] = o.base.Versions[j]
                                              + (IF j \in o.UpdateSet THEN 1 ELSE 0)
      BY SMTT(60), <2>2, AddVVsType
    <2> HIDE DEF a
    <2>4. v \in VV /\ v.StoreId = o.sid /\ v.Versions = a.Versions
      BY <2>2, <2>3 DEF VV
    <2> HIDE DEF v, o
    <2>5. Cached(hist, perf, v)
      BY <1>1, <2>2, <2>3, <2>4, CommitEffect
    <2>6. Listed(perf, e)
      BY <2>2 DEF Listed, Open
    <2>7. \A i \in DOMAIN l : Listed(perf, l[i])
      <3>1. \A i \in DOMAIN cop2_list[c] : Listed(perf, cop2_list[c][i])
        BY <1>2, <2>1 DEF ClientOK
      <3> QED
        BY SMTT(60), <3>1
    <2>8. l \in Seq(Entry)
      BY SMTT(60), <1>0
    <2> HIDE DEF e, l
    <2>9. ASSUME NEW i \in DOMAIN Append(l, e)
          PROVE  Listed(perf, Append(l, e)[i])
      <3>1. (i \in DOMAIN l /\ Append(l, e)[i] = l[i]) \/ Append(l, e)[i] = e
        BY SMTT(60), <2>8, <2>9
      <3> QED
        BY <2>6, <2>7, <3>1
    <2>10. /\ cache'[c] = v /\ op'[c] = NULL /\ cop2_list'[c] = Append(l, e)
           /\ \A b \in Clients \ {c} :
                cache'[b] = cache[b] /\ op'[b] = op[b] /\ cop2_list'[b] = cop2_list[b]
      BY <1>0, <2>1
    <2>11. ClientOK(hist', perf', cache'[c], op'[c], cop2_list'[c])
      BY <2>1, <2>5, <2>9, <2>10 DEF ClientOK
    <2> QED
      BY <1>3, <2>10, <2>11
  <1>7. ASSUME NEW q, op' = [op EXCEPT ![c] = q], UNCHANGED <<cache, cop2_list>>,
               q # NULL => Open(hist', perf', q)
        PROVE  ClientInv'
    <2>1. ClientOK(hist', perf', cache'[c], op'[c], cop2_list'[c])
      BY <1>0, <1>2, <1>7 DEF ClientOK
    <2> QED
      BY <1>0, <1>3, <1>7, <2>1
  <1>8. CASE RetryUpdate(c)
    <2> DEFINE q == Call(op[c].sid, op[c].base)
    <2>1. op' = [op EXCEPT ![c] = q] /\ UNCHANGED <<cache, cop2_list>> /\ op[c] # NULL
      BY <1>8 DEF RetryUpdate, Failed
    <2>2. q.sid = op[c].sid /\ q.base = op[c].base /\ q.UpdateSet = {}
      BY DEF Call
    <2>3. Open(hist', perf', op[c])
      BY <1>2, <2>1 DEF ClientOK
    <2> HIDE DEF q
    <2>4. Open(hist', perf', q)
      BY <2>2, <2>3, OpenSame
    <2> QED
      BY <1>7, <2>1, <2>4
  <1>9. CASE GiveUp(c)
    BY <1>7, <1>9 DEF GiveUp
  <1>10. CASE ClearCOP2(c)
    <2>1. /\ cop2_list' = [cop2_list EXCEPT ![c] = Tail(cop2_list[c])] /\ UNCHANGED <<cache, op>>
          /\ cop2_list[c] # << >>
      BY <1>10 DEF ClearCOP2
    <2>2. ASSUME NEW i \in DOMAIN Tail(cop2_list[c])
          PROVE  i + 1 \in DOMAIN cop2_list[c] /\ Tail(cop2_list[c])[i] = cop2_list[c][i + 1]
      BY SMTT(60), <1>0, <2>1, <2>2
    <2>3. ClientOK(hist', perf', cache'[c], op'[c], cop2_list'[c])
      BY <1>0, <1>2, <2>1, <2>2 DEF ClientOK
    <2> QED
      BY <1>0, <1>3, <2>1, <2>3
  <1>11. ASSUME NEW s \in Slots, COP1(c, s)
         PROVE  ClientInv'
    <2>1. /\ UNCHANGED <<cache, cop2_list>> /\ op[c] # NULL
          /\ perf' = [perf EXCEPT ![s] = @ \cup {op[c].sid}]
      BY <1>11 DEF COP1, Executes
    <2>2. PICK r \in Replies : op' = [op EXCEPT ![c] = Performed(op[c], s, r)]
      BY <1>11 DEF COP1
    <2>3. op[c] \in OpType /\ r \in BOOLEAN
      BY <1>0, <2>1 DEF Replies
    <2> DEFINE q == Performed(op[c], s, r)
    <2>4. q.sid = op[c].sid /\ q.base = op[c].base /\ q.UpdateSet \subseteq op[c].UpdateSet \cup {s}
      BY <2>3, PerformedType
    <2>5. Open(hist', perf', op[c])
      BY <1>2, <2>1 DEF ClientOK
    <2>6. op[c].sid \in perf'[s]
      BY <1>1, <2>1 DEF HistOK
    <2> HIDE DEF q
    <2>7. \A i \in q.UpdateSet : op[c].sid \in perf'[i]
      BY <2>4, <2>5, <2>6 DEF Open
    <2>8. Open(hist', perf', q)
      BY <2>4, <2>5, <2>7, OpenSame
    <2> QED
      BY <1>7, <2>1, <2>2, <2>8 DEF q
  <1>12. ASSUME NEW s \in Slots, COP1Refused(c, s)
         PROVE  ClientInv'
    <2> DEFINE q == Refused(op[c], s, Outcome(c, s))
    <2>1. /\ UNCHANGED <<cache, cop2_list>> /\ op[c] # NULL /\ op' = [op EXCEPT ![c] = q]
          /\ Outcome(c, s) # "ok"
      BY <1>12 DEF COP1Refused, Executes
    <2>2. Outcome(c, s) \in CallCodes
      BY <2>1 DEF Outcome, CallCodes
    <2>3. op[c] \in OpType
      BY <1>0, <2>1
    <2>4. q.sid = op[c].sid /\ q.base = op[c].base /\ q.UpdateSet = op[c].UpdateSet
      BY <2>2, <2>3, RefusedType
    <2>5. Open(hist', perf', op[c])
      BY <1>2, <2>1 DEF ClientOK
    <2> HIDE DEF q
    <2>6. Open(hist', perf', q)
      BY <2>4, <2>5, OpenSame DEF Open
    <2> QED
      BY <1>7, <2>1, <2>6
  <1>13. ASSUME NEW s \in Slots, COP1TimesOut(c, s)
         PROVE  ClientInv'
    <2> DEFINE q == [op[c] EXCEPT !.todo = @ \ {s}]
    <2>1. UNCHANGED <<cache, cop2_list>> /\ op[c] # NULL
      BY <1>13 DEF COP1TimesOut
    <2>2. op[c] \in OpType
      BY <1>0, <2>1
    <2>3. op' = [op EXCEPT ![c] = q]
      BY <1>0, <1>13, <2>2 DEF COP1TimesOut
    <2>4. q.sid = op[c].sid /\ q.base = op[c].base /\ q.UpdateSet = op[c].UpdateSet
      BY <2>2 DEF OpType
    <2>5. Open(hist', perf', op[c])
      BY <1>2, <2>1 DEF ClientOK
    <2> HIDE DEF q
    <2>6. Open(hist', perf', q)
      BY <2>4, <2>5, OpenSame DEF Open
    <2> QED
      BY <1>7, <2>1, <2>3, <2>6
  <1>14. ASSUME NEW s \in Slots, DeliverCOP2(c, s)
         PROVE  ClientInv'
    <2>1. UNCHANGED <<cache, op, cop2_list>>
      BY <1>14 DEF DeliverCOP2, client
    <2> QED
      BY <1>2, <1>3, <2>1
  <1> QED
    BY <1>4, <1>5, <1>6, <1>8, <1>9, <1>10, <1>11, <1>12, <1>13, <1>14 DEF ClientStep

\* A server restarts: calls to it end.
LEMMA RestartClients ==
  ASSUME Counting, TypeOK, ServerInv, ClientInv, Progress, NEW s \in Slots, Restart(s)
  PROVE  ClientInv'
  <1>1. UNCHANGED <<cache, cop2_list>>
    BY DEF Restart
  <1>2. SUFFICES ASSUME NEW c \in Clients
                 PROVE  ClientOK(hist', perf', cache'[c], op'[c], cop2_list'[c])
    BY ClientInvOK
  <1>3. ClientOK(hist', perf', cache[c], op[c], cop2_list[c])
    BY ClientGrows
  <1>4. ASSUME op[c] # NULL
        PROVE  Open(hist', perf', op'[c])
    <2> DEFINE q == [op[c] EXCEPT !.todo = @ \ {s}]
    <2>1. op[c] \in OpType
      BY <1>4 DEF TypeOK
    <2>2. q.sid = op[c].sid /\ q.base = op[c].base /\ q.UpdateSet = op[c].UpdateSet
      BY <2>1 DEF OpType
    <2>3. op'[c] = q
      BY <1>4 DEF Restart
    <2>4. Open(hist', perf', op[c])
      BY <1>3, <1>4 DEF ClientOK
    <2> HIDE DEF q
    <2> QED
      BY <2>2, <2>3, <2>4, OpenSame DEF Open
  <1>5. op[c] = NULL => op'[c] = NULL
    BY DEF Restart
  <1> QED
    BY <1>1, <1>3, <1>4, <1>5 DEF ClientOK

\* Every step keeps ClientInv.
LEMMA ClientInvStep ==
  ASSUME Counting, TypeOK, ServerInv, ClientInv, Progress, ~May("late"), Next
  PROVE  ClientInv'
  <1>1. ASSUME UNCHANGED client
        PROVE  ClientInv'
    BY <1>1, ClientGrows, ClientInvOK DEF client
  <1>2. ASSUME NEW k \in Slots, StartResolve(k) \/ ResolveStep(k)
        PROVE  ClientInv'
    <2>1. CASE StartResolve(k) \/ FetchFile(k) \/ FetchFails(k)
      BY <1>1, <2>1 DEF StartResolve, FetchFile, FetchFails
    <2>2. ASSUME NEW s \in Slots,
                 LockAndFetch(k, s) \/ LockRefused(k, s) \/ LockTimesOut(k, s)
          PROVE  ClientInv'
      BY <1>1, <2>2 DEF LockAndFetch, LockRefused, LockTimesOut
    <2>3. ASSUME NEW s \in Slots, ForceVV(k, s) \/ ForceFile(k, s) \/ ForceTimesOut(k, s)
          PROVE  ClientInv'
      BY <1>1, <2>3 DEF ForceVV, ForceFile, ForceTimesOut
    <2>4. ASSUME NEW s \in Slots, MarkInc(k, s) \/ UnlockVol(k, s)
          PROVE  ClientInv'
      BY <1>1, <2>4 DEF MarkInc, UnlockVol
    <2>5. CASE AssertFails(k)
      BY <2>5, RestartClients DEF AssertFails
    <2> QED
      BY <1>2, <2>1, <2>2, <2>3, <2>4, <2>5 DEF ResolveStep
  <1>3. ASSUME NEW s \in Slots, LockExpires(s) \/ Crash(s)
        PROVE  ClientInv'
    BY <1>1, <1>3, RestartClients DEF LockExpires, Crash
  <1>4. ASSUME NEW s \in Slots, NEW u \in StoreIds, ExpireCOP2(s, u)
        PROVE  ClientInv'
    BY <1>1, <1>4 DEF ExpireCOP2
  <1> QED
    BY <1>2, <1>3, <1>4, ClientKeeps DEF Next

-----------------------------------------------------------------------------
(* The coordinators.                                                       *)

\* The end of a phase.
LEMMA ProceedCoordinates ==
  ASSUME Counting, NEW h, NEW p, NEW x, Hosts \subseteq Slots, NEW q \in ResType, NEW s,
         q.pc \in {"lock", "forcevv", "forcefile"} => Found(h, p, x, q),
         q.pc = "lock" => q.dix \notin q.todo \ {s},
         q.pc = "forcevv" => q.weak /\ q.todo \ {s} \subseteq q.members,
         q.pc = "forcefile" => ~q.inc,
         q.pc \in {"lock", "forcevv", "forcefile", "mark", "unlock"}
  PROVE  Coordinates(h, p, x, Proceed(q, s))
  <1> DEFINE r == [q EXCEPT !.todo = @ \ {s}]
  <1>1. /\ r \in ResType /\ r.pc = q.pc /\ r.todo = q.todo \ {s} /\ r.members = q.members
        /\ r.dix = q.dix /\ r.weak = q.weak /\ r.inc = q.inc /\ r.VV = q.VV /\ r.newvv = q.newvv
    BY DEF ResType
  <1>2. \/ Proceed(q, s) = r
        \/ Proceed(q, s) = FileResolve(r) /\ r.pc = "lock"
        \/ Proceed(q, s) \in {ToMark(r), ToUnlock(r), IdleRes}
    BY <1>1 DEF Proceed
  <1> HIDE DEF r
  <1>3. r.pc \in {"lock", "forcevv", "forcefile"} => Found(h, p, x, r)
    BY <1>1 DEF Found
  <1>4. ASSUME NEW z \in {ToMark(r), ToUnlock(r), IdleRes}
        PROVE  Coordinates(h, p, x, z)
    BY <1>1, ToMarkType, ToUnlockType, IdleCoordinates
  <1>5. CASE Proceed(q, s) = r
    BY <1>1, <1>3, <1>5 DEF Coordinates
  <1>6. CASE Proceed(q, s) = FileResolve(r) /\ r.pc = "lock"
    <2>1. CASE FileResolve(r) \in {ToMark(r), ToUnlock(r)}
      BY <1>4, <1>6, <2>1
    <2>2. CASE FileResolve(r) = [r EXCEPT !.pc = "forcevv", !.todo = r.members] /\ r.weak
      <3> DEFINE z == [r EXCEPT !.pc = "forcevv", !.todo = r.members]
      <3>1. /\ z.pc = "forcevv" /\ z.todo = r.members /\ z.members = r.members
            /\ z.dix = r.dix /\ z.weak = r.weak /\ z.inc = r.inc /\ z.VV = r.VV
            /\ z.newvv = r.newvv
        BY <1>1 DEF ResType
      <3> HIDE DEF z
      <3>2. Found(h, p, x, z)
        BY <1>3, <1>6, <3>1 DEF Found
      <3>3. Coordinates(h, p, x, z)
        BY <2>2, <3>1, <3>2 DEF Coordinates
      <3> QED
        BY <1>6, <2>2, <3>3 DEF z
    <2>3. CASE FileResolve(r) = [r EXCEPT !.pc = "fetch"] /\ ~r.inc
      <3> DEFINE z == [r EXCEPT !.pc = "fetch"]
      <3>1. /\ z.pc = "fetch" /\ z.members = r.members
            /\ z.dix = r.dix /\ z.weak = r.weak /\ z.inc = r.inc /\ z.VV = r.VV
            /\ z.newvv = r.newvv
        BY <1>1 DEF ResType
      <3> HIDE DEF z
      <3>2. Found(h, p, x, z)
        BY <1>3, <1>6, <3>1 DEF Found
      <3>3. Coordinates(h, p, x, z)
        BY <2>3, <3>1, <3>2 DEF Coordinates
      <3> QED
        BY <1>6, <2>3, <3>3 DEF z
    <2> QED
      BY <2>1, <2>2, <2>3 DEF FileResolve
  <1> QED
    BY <1>2, <1>4, <1>5, <1>6

\* An answer, or none, that leaves what was found as it is.
Like(q, r, s) ==
    /\ q.pc = r.pc /\ q.todo = r.todo /\ q.dix = r.dix /\ q.weak = r.weak /\ q.inc = r.inc
    /\ q.VV = r.VV /\ q.newvv = r.newvv /\ q.members \in {r.members, r.members \ {s}}

\* Such an answer leaves what was found,
LEMMA FoundLike ==
  ASSUME Counting, NEW h, NEW p, NEW x, NEW q, NEW r, NEW s, Like(q, r, s), Found(h, p, x, r)
  PROVE  Found(h, p, x, q)
  BY DEF Like, Found

\* and what follows builds on it.
LEMMA ProceedLike ==
  ASSUME Counting, NEW h, NEW p, NEW x, Hosts \subseteq Slots, NEW r, NEW q \in ResType, NEW s,
         Coordinates(h, p, x, r), Like(q, r, s),
         r.pc \in {"lock", "forcevv", "forcefile", "mark", "unlock"}
  PROVE  Coordinates(h, p, x, Proceed(q, s))
  <1>1. q.pc \in {"lock", "forcevv", "forcefile"} => Found(h, p, x, q)
    BY FoundLike DEF Coordinates, Like
  <1>2. q.pc = "lock" => q.dix \notin q.todo \ {s}
    BY DEF Coordinates, Like
  <1>3. q.pc = "forcevv" => q.weak /\ q.todo \ {s} \subseteq q.members
    BY DEF Coordinates, Like
  <1>4. q.pc = "forcefile" => ~q.inc
    BY DEF Coordinates, Like
  <1>5. q.pc \in {"lock", "forcevv", "forcefile", "mark", "unlock"}
    BY DEF Like
  <1> QED
    BY <1>1, <1>2, <1>3, <1>4, <1>5, ProceedCoordinates

\* A coordinator that takes no part in a step stays right.
LEMMA CoordGrows ==
  ASSUME Counting, TypeOK, ServerInv, CoordInv, Progress, NEW k \in Slots
  PROVE  Coordinates(hist', perf', vv', res[k])
  <1>1. res[k] \in ResType /\ Answered(res[k]) /\ Coordinates(hist, perf, vv, res[k])
    BY DEF TypeOK, ResOK, CoordInv
  <1>2. /\ HistOK(hist, perf) /\ HistOK(hist', perf') /\ Grows(hist, perf, hist', perf')
        /\ \A i \in Slots : hist[vv[i].StoreId] \subseteq hist'[vv'[i].StoreId]
    BY DEF ServerInv, Progress
  <1> QED
    BY <1>1, <1>2, CoordinatesGrows

\* An answer to the coordinator at k.
LEMMA AnswerStep ==
  ASSUME Counting, TypeOK, ServerInv, CoordInv, Progress, NEW k \in Slots, NEW s \in Slots,
         NEW q \in ResType, Like(q, res[k], s),
         res[k].pc \in {"lock", "forcevv", "forcefile", "mark", "unlock"},
         res' = [res EXCEPT ![k] = Proceed(q, s)]
  PROVE  CoordInv'
  <1>0. res \in [Slots -> ResType] /\ Hosts \subseteq Slots
    BY ConfigTypes DEF TypeOK, ResOK
  <1>1. Coordinates(hist', perf', vv', Proceed(q, s))
    BY <1>0, CoordGrows, ProceedLike
  <1>2. ASSUME NEW j \in Slots
        PROVE  Coordinates(hist', perf', vv', res'[j])
    <2>1. CASE j = k
      BY <1>0, <1>1, <2>1
    <2>2. CASE j # k
      BY <1>0, <2>2, CoordGrows
    <2> QED
      BY <2>1, <2>2
  <1> QED
    BY <1>2 DEF CoordInv

\* The calls of a coordinator keep CoordInv.
LEMMA ResolveKeeps ==
  ASSUME Counting, TypeOK, ServerInv, CoordInv, Progress, NEW k \in Slots, NEW s \in Slots,
         \/ LockAndFetch(k, s) \/ LockRefused(k, s) \/ LockTimesOut(k, s)
         \/ ForceVV(k, s) \/ ForceFile(k, s) \/ ForceTimesOut(k, s)
         \/ MarkInc(k, s) \/ UnlockVol(k, s)
  PROVE  CoordInv'
  <1>0. /\ res \in [Slots -> ResType] /\ Hosts \subseteq Slots /\ vv \in [Slots -> VV]
        /\ res[k] \in ResType /\ Answered(res[k])
    BY ConfigTypes DEF TypeOK, ResOK
  <1>1. CASE LockAndFetch(k, s)
    <2> DEFINE q == [res[k] EXCEPT !.held = @ \cup {s}]
               a == AddAnswer(q, s, vv[s])
    <2>1. q \in ResType /\ Answered(q) /\ Like(q, res[k], s)
      BY <1>0 DEF ResType, Answered, Like
    <2>2. /\ res[k].pc = "lock" /\ s \in res[k].todo
          /\ \/ res' = [res EXCEPT ![k] = Proceed(a, s)]
             \/ res' = [res EXCEPT ![k] = Proceed(q, s)]
      BY <1>1 DEF LockAndFetch, NextToLock
    <2>3. UNCHANGED <<vv, hist, perf>>
      BY <1>1 DEF LockAndFetch, server, history
    <2> HIDE DEF q
    <2>4. CASE res' = [res EXCEPT ![k] = Proceed(q, s)]
      BY <2>1, <2>2, <2>4, AnswerStep
    <2>5. CASE res' = [res EXCEPT ![k] = Proceed(a, s)]
      <3>1. Coordinates(hist, perf, vv, res[k])
        BY DEF CoordInv
      <3>2. Found(hist, perf, vv, q) /\ q.dix # s /\ q.pc = "lock" /\ q.todo = res[k].todo
            /\ q.dix \notin q.todo
        <4>1. Found(hist, perf, vv, res[k]) /\ res[k].dix \notin res[k].todo
          BY <2>2, <3>1 DEF Coordinates
        <4> QED
          BY <2>1, <2>2, <4>1, FoundLike DEF Like
      <3>3. vv[s] \in VV /\ HistOK(hist, perf) /\ Bounded(hist, perf, vv[s])
            /\ Witnessed(hist, perf, vv[s])
        BY <1>0 DEF ServerInv, Replica
      <3>4. Found(hist, perf, vv, a)
        BY <2>1, <3>2, <3>3, AddAnswerEffect
      <3>5. a \in ResType /\ a.pc = "lock" /\ a.todo = q.todo /\ a.dix \in {s, q.dix}
        BY <2>1, <3>2, <3>3, AddAnswerType
      <3> HIDE DEF a
      <3>6. Coordinates(hist, perf, vv, Proceed(a, s))
        BY <1>0, <3>2, <3>4, <3>5, ProceedCoordinates
      <3>7. ASSUME NEW j \in Slots
            PROVE  Coordinates(hist', perf', vv', res'[j])
        <4>1. CASE j = k
          BY <1>0, <2>3, <2>5, <3>6, <4>1
        <4>2. CASE j # k
          BY <1>0, <2>5, <4>2, CoordGrows
        <4> QED
          BY <4>1, <4>2
      <3> QED
        BY <3>7 DEF CoordInv
    <2> QED
      BY <2>2, <2>4, <2>5
  <1>2. CASE LockRefused(k, s)
    <2> DEFINE q == [res[k] EXCEPT !.lockerror = TRUE]
    <2>1. q \in ResType /\ Like(q, res[k], s)
      BY <1>0 DEF ResType, Like
    <2>2. res[k].pc = "lock" /\ res' = [res EXCEPT ![k] = Proceed(q, s)]
      BY <1>2 DEF LockRefused, NextToLock
    <2> HIDE DEF q
    <2> QED
      BY <2>1, <2>2, AnswerStep
  <1>3. CASE LockTimesOut(k, s) \/ MarkInc(k, s)
    <2>1. res[k].pc \in {"lock", "mark"} /\ res' = [res EXCEPT ![k] = Proceed(res[k], s)]
      BY <1>3 DEF LockTimesOut, NextToLock, MarkInc
    <2>2. Like(res[k], res[k], s)
      BY DEF Like
    <2> QED
      BY <1>0, <2>1, <2>2, AnswerStep
  <1>4. CASE ForceVV(k, s)
    <2> DEFINE b == res[k].err \/ ~MayForce(k, s)
               q == [res[k] EXCEPT !.err = b]
               m == [res[k] EXCEPT !.members = @ \ {s}]
    <2>1. /\ res[k].pc = "forcevv"
          /\ \/ res' = [res EXCEPT ![k] = Proceed(q, s)]
             \/ res' = [res EXCEPT ![k] = Proceed(m, s)]
      BY <1>4 DEF ForceVV
    <2>2. b \in BOOLEAN
      OBVIOUS
    <2> HIDE DEF b
    <2>3. q \in ResType /\ Like(q, res[k], s)
      BY <1>0, <2>2 DEF ResType, Like
    <2>4. m \in ResType /\ Like(m, res[k], s)
      BY <1>0 DEF ResType, Like
    <2> HIDE DEF q, m
    <2> QED
      BY <2>1, <2>3, <2>4, AnswerStep
  <1>5. CASE ForceFile(k, s)
    <2>1. /\ res[k].pc = "forcefile"
          /\ \E r \in BOOLEAN : \/ res' = [res EXCEPT ![k] = Proceed(res[k], s)]
                                \/ res' = [res EXCEPT ![k] =
                                     Proceed([res[k] EXCEPT !.members = @ \ {s},
                                                            !.err = @ \/ r], s)]
      BY <1>5 DEF ForceFile, Replies
    <2>2. CASE res' = [res EXCEPT ![k] = Proceed(res[k], s)]
      <3>1. Like(res[k], res[k], s)
        BY DEF Like
      <3> QED
        BY <1>0, <2>1, <2>2, <3>1, AnswerStep
    <2>3. ASSUME NEW r \in BOOLEAN,
                 res' = [res EXCEPT ![k] =
                   Proceed([res[k] EXCEPT !.members = @ \ {s}, !.err = @ \/ r], s)]
          PROVE  CoordInv'
      <3> DEFINE q == [res[k] EXCEPT !.members = @ \ {s}, !.err = @ \/ r]
      <3>1. q \in ResType /\ Like(q, res[k], s)
        BY <1>0 DEF ResType, Like
      <3>2. res' = [res EXCEPT ![k] = Proceed(q, s)]
        BY <2>3
      <3> HIDE DEF q
      <3> QED
        BY <2>1, <3>1, <3>2, AnswerStep
    <2> QED
      BY <2>1, <2>2, <2>3
  <1>6. CASE ForceTimesOut(k, s)
    <2> DEFINE q == [res[k] EXCEPT !.members = @ \ {s}]
    <2>1. q \in ResType /\ Like(q, res[k], s)
      BY <1>0 DEF ResType, Like
    <2>2. res[k].pc \in {"forcevv", "forcefile"} /\ res' = [res EXCEPT ![k] = Proceed(q, s)]
      BY <1>6 DEF ForceTimesOut
    <2> HIDE DEF q
    <2> QED
      BY <2>1, <2>2, AnswerStep
  <1>7. CASE UnlockVol(k, s)
    <2> DEFINE q == [res[k] EXCEPT !.held = @ \ {s}]
    <2>1. q \in ResType /\ Like(q, res[k], s)
      BY <1>0 DEF ResType, Like
    <2>2. res[k].pc = "unlock" /\ res' = [res EXCEPT ![k] = Proceed(q, s)]
      BY <1>7 DEF UnlockVol
    <2> HIDE DEF q
    <2> QED
      BY <2>1, <2>2, AnswerStep
  <1> QED
    BY <1>1, <1>2, <1>3, <1>4, <1>5, <1>6, <1>7

\* A server restarts.
LEMMA RestartCoords ==
  ASSUME Counting, TypeOK, ServerInv, CoordInv, Progress, NEW s \in Slots, Restart(s)
  PROVE  CoordInv'
  <1>1. SUFFICES ASSUME NEW k \in Slots
                 PROVE  Coordinates(hist', perf', vv', res'[k])
    BY DEF CoordInv
  <1>2. CASE res'[k] = IdleRes
    BY <1>2, IdleCoordinates
  <1>3. CASE res'[k] = [res[k] EXCEPT !.dead = @ \cup {s}]
    <2> DEFINE q == [res[k] EXCEPT !.dead = @ \cup {s}]
    <2>1. res[k] \in ResType
      BY DEF TypeOK, ResOK
    <2>2. Like(q, res[k], s) /\ q.members = res[k].members
      BY <2>1 DEF ResType, Like
    <2>3. Coordinates(hist', perf', vv', res[k])
      BY CoordGrows
    <2> HIDE DEF q
    <2>4. Coordinates(hist', perf', vv', q)
      BY <2>2, <2>3, FoundLike DEF Coordinates, Like
    <2> QED
      BY <1>3, <2>4 DEF q
  <1> QED
    BY <1>2, <1>3 DEF Restart

\* Every step keeps CoordInv.
LEMMA CoordInvStep ==
  ASSUME Counting, TypeOK, ServerInv, CoordInv, Progress, Next
  PROVE  CoordInv'
  <1>0. /\ res \in [Slots -> ResType] /\ Hosts \subseteq Slots
        /\ \A k \in Slots : res[k] \in ResType /\ IdleOK(res[k])
    BY ConfigTypes DEF TypeOK, ResOK
  <1>1. ASSUME UNCHANGED res
        PROVE  CoordInv'
    BY <1>1, CoordGrows DEF CoordInv
  \* It is enough to look at the coordinator that makes the step.
  <1>2. ASSUME NEW k \in Slots, NEW q, res' = [res EXCEPT ![k] = q],
               Coordinates(hist', perf', vv', q)
        PROVE  CoordInv'
    <2>1. ASSUME NEW j \in Slots
          PROVE  Coordinates(hist', perf', vv', res'[j])
      <3>1. CASE j = k
        BY <1>0, <1>2, <3>1
      <3>2. CASE j # k
        BY <1>0, <1>2, <3>2, CoordGrows
      <3> QED
        BY <3>1, <3>2
    <2> QED
      BY <2>1 DEF CoordInv
  <1>3. ASSUME NEW k \in Slots, StartResolve(k)
        PROVE  CoordInv'
    <2> DEFINE q == [IdleRes EXCEPT !.pc = "lock", !.todo = Hosts]
    <2>1. res[k] = IdleRes
      BY <1>0, <1>3 DEF StartResolve, IdleOK
    <2>2. res' = [res EXCEPT ![k] = q]
      BY <1>3, <2>1 DEF StartResolve
    <2>3. /\ q.pc = "lock" /\ q.todo = Hosts /\ q.dix = NULL /\ q.members = {} /\ q.inc = FALSE
          /\ q.newvv = ZeroVV
      BY DEF IdleRes
    <2> HIDE DEF q
    <2>4. Bounded(hist', perf', ZeroVV) /\ Witnessed(hist', perf', ZeroVV)
      <3>1. ZeroVV.StoreId = NullSid /\ \A j \in Slots : ZeroVV.Versions[j] = 0
        BY DEF ZeroVV
      <3>2. \A j \in Slots : hist'[NullSid] \cap perf'[j] = {}
        BY DEF Progress, HistOK
      <3>3. Cardinality({}) = 0
        BY DEF Counting
      <3> QED
        BY SMTT(60), <3>1, <3>2, <3>3 DEF Bounded, Witnessed, Count
    <2>5. Found(hist', perf', vv', q)
      BY <2>3, <2>4 DEF Found
    <2>6. Coordinates(hist', perf', vv', q)
      BY <1>0, <2>3, <2>5, NullAssumption DEF Coordinates
    <2> QED
      BY <1>2, <2>2, <2>6
  <1>4. ASSUME NEW k \in Slots, FetchFile(k)
        PROVE  CoordInv'
    <2> DEFINE f == data[res[k].dix]
               q == [res[k] EXCEPT !.pc = "forcefile", !.todo = res[k].members, !.file = f]
    <2>1. res' = [res EXCEPT ![k] = q] /\ res[k].pc = "fetch"
      BY <1>4 DEF FetchFile, Fetched
    <2> HIDE DEF f
    <2>2. /\ q.pc = "forcefile" /\ q.dix = res[k].dix /\ q.weak = res[k].weak
          /\ q.inc = res[k].inc /\ q.VV = res[k].VV /\ q.newvv = res[k].newvv
          /\ q.members = res[k].members
      BY SMTT(60), <1>0 DEF ResType
    <2>3. Coordinates(hist', perf', vv', res[k])
      BY CoordGrows
    <2> HIDE DEF q
    <2>4. Coordinates(hist', perf', vv', q)
      BY <2>1, <2>2, <2>3 DEF Coordinates, Found
    <2> QED
      BY <1>2, <2>1, <2>4
  <1>5. ASSUME NEW k \in Slots, FetchFails(k)
        PROVE  CoordInv'
    <2>1. res' = [res EXCEPT ![k] = ToMark(res[k])]
      BY <1>5 DEF FetchFails
    <2>2. ToMark(res[k]) = IdleRes \/ ToMark(res[k]).pc \in {"mark", "unlock"}
      BY <1>0, ToMarkType
    <2>3. Coordinates(hist', perf', vv', ToMark(res[k]))
      BY <2>2, IdleCoordinates
    <2> QED
      BY <1>2, <2>1, <2>3
  <1>6. ASSUME NEW c \in Clients, ClientStep(c)
        PROVE  CoordInv'
    <2>1. \A G : GetAttr(c, G) => res' = res
      BY DEF GetAttr
    <2>2. \A u : BeginUpdate(c, u) => res' = res
      BY DEF BeginUpdate
    <2>3. Commit(c) \/ RetryUpdate(c) \/ GiveUp(c) \/ ClearCOP2(c) => res' = res
      BY DEF Commit, RetryUpdate, GiveUp, ClearCOP2
    <2>4. \A s : COP1(c, s) \/ COP1Refused(c, s) \/ COP1TimesOut(c, s) => res' = res
      BY DEF COP1, COP1Refused, COP1TimesOut
    <2>5. \A s : DeliverCOP2(c, s) => res' = res
      BY DEF DeliverCOP2
    <2>6. res' = res
      BY <1>6, <2>1, <2>2, <2>3, <2>4, <2>5 DEF ClientStep
    <2> QED
      BY <1>1, <2>6
  <1>7. ASSUME NEW s \in Slots, LockExpires(s) \/ \E u \in StoreIds : ExpireCOP2(s, u)
        PROVE  CoordInv'
    BY <1>1, <1>7 DEF LockExpires, ExpireCOP2
  <1>8. ASSUME NEW s \in Slots, Crash(s) \/ AssertFails(s)
        PROVE  CoordInv'
    BY <1>8, RestartCoords DEF Crash, AssertFails
  <1>9. ASSUME NEW k \in Slots, ResolveStep(k)
        PROVE  CoordInv'
    BY <1>4, <1>5, <1>8, <1>9, ResolveKeeps DEF ResolveStep
  <1> QED
    BY <1>3, <1>6, <1>7, <1>8, <1>9 DEF Next

-----------------------------------------------------------------------------
(* The invariant, and what follows from it.                                *)

\* StoreIds are finitely many, so sets of updates can be counted.
LEMMA CountingHolds == Counting
  <1>1. ASSUME NEW A \in SUBSET StoreIds
        PROVE  IsFiniteSet(A) /\ Cardinality(A) \in Nat
    <2>1. IsFiniteSet(A)
      BY FS_Subset, SidsAreNumbers
    <2> QED
      BY <2>1, FS_CardinalityType
  <1>2. ASSUME NEW A \in SUBSET StoreIds, NEW B \in SUBSET A
        PROVE  /\ Cardinality(B) \in Nat /\ Cardinality(B) <= Cardinality(A)
               /\ A # B => Cardinality(B) < Cardinality(A)
    <2>1. B \in SUBSET StoreIds
      OBVIOUS
    <2> QED
      BY SMTT(60), <1>1, <2>1, FS_Subset
  <1>3. ASSUME NEW A \in SUBSET StoreIds, NEW u \in StoreIds \ A
        PROVE  Cardinality(A \cup {u}) = Cardinality(A) + 1
    BY <1>1, FS_AddElement
  <1>4. Cardinality({}) = 0
    BY FS_EmptySet
  <1> QED
    BY <1>1, <1>2, <1>3, <1>4 DEF Counting

\* The configuration stays.
LEMMA ConfigSame ==
  ASSUME Next
  PROVE  cf' = cf
  <1>1. ASSUME NEW c \in Clients, ClientStep(c)
        PROVE  cf' = cf
    <2>1. (\E G : GetAttr(c, G)) \/ (\E u : BeginUpdate(c, u)) => cf' = cf
      BY DEF GetAttr, BeginUpdate
    <2>2. Commit(c) \/ RetryUpdate(c) \/ GiveUp(c) \/ ClearCOP2(c) => cf' = cf
      BY DEF Commit, RetryUpdate, GiveUp, ClearCOP2
    <2>3. \A s : COP1(c, s) \/ COP1Refused(c, s) \/ COP1TimesOut(c, s) => cf' = cf
      BY DEF COP1, COP1Refused, COP1TimesOut
    <2>4. \A s : DeliverCOP2(c, s) => cf' = cf
      BY DEF DeliverCOP2
    <2> QED
      BY <1>1, <2>1, <2>2, <2>3, <2>4 DEF ClientStep
  <1>2. \A s : Restart(s) => cf' = cf
    BY DEF Restart
  <1>3. ASSUME NEW k \in Slots, ResolveStep(k)
        PROVE  cf' = cf
    <2>1. \A s : LockAndFetch(k, s) \/ LockRefused(k, s) \/ LockTimesOut(k, s) => cf' = cf
      BY DEF LockAndFetch, LockRefused, LockTimesOut
    <2>2. \A s : ForceVV(k, s) \/ ForceFile(k, s) \/ ForceTimesOut(k, s) => cf' = cf
      BY DEF ForceVV, ForceFile, ForceTimesOut
    <2>3. \A s : MarkInc(k, s) \/ UnlockVol(k, s) => cf' = cf
      BY DEF MarkInc, UnlockVol
    <2>4. FetchFile(k) \/ FetchFails(k) \/ AssertFails(k) => cf' = cf
      BY <1>2 DEF FetchFile, FetchFails, AssertFails
    <2> QED
      BY <1>3, <2>1, <2>2, <2>3, <2>4 DEF ResolveStep
  <1>4. \A s, u : StartResolve(s) \/ LockExpires(s) \/ Crash(s) \/ ExpireCOP2(s, u)
                  => cf' = cf
    BY <1>2 DEF StartResolve, LockExpires, Crash, ExpireCOP2
  <1> QED
    BY <1>1, <1>3, <1>4 DEF Next

\* The invariant holds initially,
LEMMA InitCore == Init => Core
  <1> SUFFICES ASSUME Init PROVE Core
    OBVIOUS
  <1>0. NullSid \in StoreIds
    BY SidAssumption
  <1>1. HistOK(hist, perf)
    BY <1>0 DEF Init, HistOK
  <1>2. ZeroVV.StoreId = NullSid /\ \A j \in Slots : ZeroVV.Versions[j] = 0
    BY DEF ZeroVV
  <1>3. Cardinality({}) = 0
    BY CountingHolds DEF Counting
  <1>4. Bounded(hist, perf, ZeroVV) /\ Witnessed(hist, perf, ZeroVV) /\ Known(hist, NullSid)
    BY SMTT(60), <1>0, <1>2, <1>3 DEF Init, Bounded, Witnessed, Known, Count
  <1>5. ASSUME NEW s \in Slots
        PROVE  /\ Replica(hist, perf, s, vv[s])
               /\ Fresh(hist, perf, s, vv[s], fresh[s], coppend[s])
    <2>1. vv[s] = ZeroVV /\ perf[s] = {} /\ fresh[s] = NullSid /\ coppend[s] = {}
      BY DEF Init
    <2> QED
      BY SMTT(60), <1>2, <1>3, <1>4, <2>1 DEF Replica, Fresh
  <1>6. ClientInv
    BY SMTT(60), <1>2, <1>4 DEF Init, ClientInv, Cached
  <1>7. CoordInv
    BY CountingHolds, IdleCoordinates DEF Init, CoordInv
  <1> QED
    BY <1>1, <1>5, <1>6, <1>7 DEF Core, ServerInv

\* every step keeps it, and takes no update away from a replica,
LEMMA CoreStep ==
  ASSUME Counting, TypeOK, Core, [Next]_vars
  PROVE  Core' /\ (~May("late") => Progress)
  <1>1. CASE UNCHANGED vars
    <2>1. Core'
      BY <1>1 DEF Core, ServerInv, ClientInv, CoordInv, May, vars, server, client, history
    <2>2. ASSUME ~May("late")
          PROVE  Progress
      BY <1>1, <2>2 DEF Core, ServerInv, Progress, Grows, vars, server, history
    <2> QED
      BY <2>1, <2>2
  <1>2. CASE Next
    <2>1. May("late")' <=> May("late")
      BY <1>2, ConfigSame DEF May
    <2>2. ASSUME ~May("late")
          PROVE  Progress /\ ServerInv' /\ ClientInv' /\ CoordInv'
      <3>1. ServerInv /\ ClientInv /\ CoordInv
        BY <2>2 DEF Core
      <3>2. ServerInv' /\ Progress
        BY <1>2, <2>2, <3>1, ServerStep
      <3> QED
        BY <1>2, <2>2, <3>1, <3>2, ClientInvStep, CoordInvStep
    <2> QED
      BY <2>1, <2>2 DEF Core
  <1> QED
    BY <1>1, <1>2

\* so it holds always.
LEMMA CoreInvariant == Spec => [](TypeOK /\ Core)
  <1>1. Init => TypeOK /\ Core
    BY InitTypes, InitCore
  <1>2. TypeOK /\ Core /\ [Next]_vars => TypeOK' /\ Core'
    BY CountingHolds, TypeStep, CoreStep
  <1> QED
    BY <1>1, <1>2, PTL DEF Spec

(***************************************************************************)
(* SlotsCounted: COP1, COP2 and the resolution together never count an     *)
(* update twice in a slot, nor in the slot of a server that did not        *)
(* perform it, whatever messages are lost and whoever crashes.             *)
(***************************************************************************)
THEOREM ReplicationCounts == Spec => []SlotsCounted
  <1>1. Core => SlotsCounted
    BY DEF Core, ServerInv, Replica, Bounded, Count, SlotsCounted, CountedOnce
  <1> QED
    BY <1>1, CoreInvariant, PTL

(***************************************************************************)
(* DominanceIsNewer: what RS_ForceFile takes for granted, that the file of *)
(* a dominant vector contains every update of the one it replaces.         *)
(***************************************************************************)
THEOREM ReplicationDominance == Spec => []DominanceIsNewer
  <1>1. ASSUME TypeOK, Core
        PROVE  DominanceIsNewer
    <2>1. SUFFICES ASSUME ~May("late"), NEW i \in Slots, NEW j \in Slots,
                          VV_Cmp(vv[i], vv[j]) \in {"EQ", "DOM"}
                   PROVE  hist[vv[j].StoreId] \subseteq hist[vv[i].StoreId]
      BY DEF DominanceIsNewer
    <2>2. /\ HistOK(hist, perf) /\ vv[i] \in VV /\ vv[j] \in VV
          /\ Bounded(hist, perf, vv[i]) /\ Witnessed(hist, perf, vv[j])
      BY <1>1, <2>1 DEF TypeOK, Core, ServerInv, Replica
    <2>3. AllGeq(vv[i], vv[j])
      BY <2>1 DEF VV_Cmp, VV_Cmp_IgnoreInc
    <2> QED
      BY CountingHolds, <2>2, <2>3, Dominance
  <1>2. TypeOK /\ Core => DominanceIsNewer
    BY <1>1
  <1> QED
    BY <1>2, CoreInvariant, PTL

(***************************************************************************)
(* UpdatesKept: no step of a client, a server or a resolution takes an     *)
(* update away from a replica that has it.                                 *)
(***************************************************************************)
THEOREM ReplicationKeeps == Spec => UpdatesKept
  <1> DEFINE Kept == ~May("late") =>
                        \A i \in Slots : hist[vv[i].StoreId] \subseteq hist'[vv'[i].StoreId]
  <1>1. TypeOK /\ Core /\ [Next]_vars => [Kept]_vars
    BY CountingHolds, CoreStep DEF Progress
  <1>2. UpdatesKept <=> [][Kept]_vars
    BY DEF UpdatesKept
  <1> HIDE DEF Kept
  <1> QED
    BY <1>1, <1>2, CoreInvariant, PTL DEF Spec

-----------------------------------------------------------------------------
(* The contents of the replicas.                                           *)

\* What a coordinator k with the record r relies on, when the servers have the
\* vectors v and the volume locks l: the file it is to fetch is locked and still
\* the one it was told of, and the file it has fetched belongs to the StoreId it
\* forces.
Sure(v, l, k, r) ==
    /\ r.pc \in {"lock", "fetch"} /\ r.dix \in Slots \ r.dead =>
         r.dix \in r.held /\ l[r.dix] = k /\ v[r.dix].StoreId = r.newvv.StoreId
    /\ r.pc = "forcefile" => r.file = r.newvv.StoreId

Agree(v, d) == \A i \in Slots : d[i] = v[i].StoreId

AllSure == Agree(vv, data) /\ \A k \in Slots : Sure(vv, vollock, k, res[k])

DataInv == ~May("overrun") => AllSure

\* Other vectors and locks do as well if the file to fetch is left alone.
LEMMA SureKept ==
  ASSUME NEW v, NEW l, NEW w, NEW m, NEW k, NEW r, Sure(v, l, k, r),
         r.dix \in Slots \ r.dead /\ r.dix \in r.held /\ l[r.dix] = k =>
            m[r.dix] = k /\ w[r.dix].StoreId = v[r.dix].StoreId
  PROVE  Sure(w, m, k, r)
  BY DEF Sure

\* A coordinator past fetching relies on nothing.
LEMMA SureAfter ==
  ASSUME NEW v, NEW l, NEW k, NEW r, r = IdleRes \/ r.pc \in {"mark", "unlock", "forcevv"}
  PROVE  Sure(v, l, k, r)
  <1>1. IdleRes.pc = "idle"
    BY DEF IdleRes
  <1>2. r.pc \in {"idle", "mark", "unlock", "forcevv"}
    BY <1>1
  <1>3. r.pc \notin {"lock", "fetch", "forcefile"}
    BY <1>2
  <1> QED
    BY <1>3 DEF Sure

\* The end of a phase.
LEMMA ProceedSure ==
  ASSUME Hosts \subseteq Slots, NEW v, NEW l, NEW k, NEW q \in ResType, NEW s, Sure(v, l, k, q),
         q.pc \in {"lock", "forcevv", "forcefile", "mark", "unlock"}
  PROVE  Sure(v, l, k, Proceed(q, s))
  <1> DEFINE r == [q EXCEPT !.todo = @ \ {s}]
  <1>1. /\ r \in ResType /\ r.pc = q.pc /\ r.dix = q.dix /\ r.held = q.held /\ r.dead = q.dead
        /\ r.newvv = q.newvv /\ r.file = q.file
    BY DEF ResType
  <1>2. \/ Proceed(q, s) = r
        \/ Proceed(q, s) = FileResolve(r) /\ r.pc = "lock"
        \/ Proceed(q, s) \in {ToMark(r), ToUnlock(r), IdleRes}
    BY <1>1 DEF Proceed
  <1> HIDE DEF r
  <1>3. Sure(v, l, k, r)
    BY <1>1 DEF Sure
  <1>4. ASSUME NEW z \in {ToMark(r), ToUnlock(r), IdleRes}
        PROVE  Sure(v, l, k, z)
    BY <1>1, ToMarkType, ToUnlockType, SureAfter
  <1>5. CASE Proceed(q, s) = FileResolve(r) /\ r.pc = "lock"
    <2>1. CASE FileResolve(r) \in {ToMark(r), ToUnlock(r)}
      BY <1>4, <1>5, <2>1
    <2>2. CASE FileResolve(r) = [r EXCEPT !.pc = "forcevv", !.todo = r.members]
      <3>1. FileResolve(r).pc = "forcevv"
        BY <1>1, <2>2 DEF ResType
      <3> QED
        BY <1>5, <3>1, SureAfter
    <2>3. CASE FileResolve(r) = [r EXCEPT !.pc = "fetch"]
      <3> DEFINE z == [r EXCEPT !.pc = "fetch"]
      <3>1. /\ z.pc = "fetch" /\ z.dix = r.dix /\ z.held = r.held /\ z.dead = r.dead
            /\ z.newvv = r.newvv
        BY <1>1 DEF ResType
      <3> HIDE DEF z
      <3>2. Sure(v, l, k, z)
        BY <1>3, <1>5, <3>1 DEF Sure
      <3> QED
        BY <1>5, <2>3, <3>2 DEF z
    <2> QED
      BY <2>1, <2>2, <2>3 DEF FileResolve
  <1> QED
    BY <1>2, <1>3, <1>4, <1>5

\* One coordinator acts, and the others are sure of what they need.
LEMMA OneSure ==
  ASSUME ResOK(res), NEW k \in Slots, NEW x, res' = [res EXCEPT ![k] = x],
         Sure(vv', vollock', k, x),
         \A j \in Slots \ {k} : Sure(vv', vollock', j, res[j])
  PROVE  \A j \in Slots : Sure(vv', vollock', j, res'[j])
  <1>1. ASSUME NEW j \in Slots
        PROVE  Sure(vv', vollock', j, res'[j])
    <2>1. CASE j = k
      BY <2>1 DEF ResOK
    <2>2. CASE j # k
      BY <2>2 DEF ResOK
    <2> QED
      BY <2>1, <2>2
  <1> QED
    BY <1>1

\* A step that changes no StoreId, no contents and no lock leaves all sure that do
\* not act in it.
LEMMA SidsSame ==
  ASSUME AllSure, \A i \in Slots : vv'[i].StoreId = vv[i].StoreId, data' = data,
         vollock' = vollock
  PROVE  Agree(vv', data') /\ \A j \in Slots : Sure(vv', vollock', j, res[j])
  BY SureKept DEF AllSure, Agree

\* A call that only changes the coordinator's record, or the rest of a vector.
LEMMA CallSure ==
  ASSUME TypeOK, AllSure, NEW k \in Slots, NEW s, NEW q \in ResType,
         \A i \in Slots : vv'[i].StoreId = vv[i].StoreId, data' = data, vollock' = vollock,
         q.pc \in {"lock", "forcevv", "forcefile", "mark", "unlock"}, q.pc = res[k].pc,
         q.dix = res[k].dix, q.held = res[k].held, q.dead = res[k].dead,
         q.newvv = res[k].newvv, q.file = res[k].file,
         res' = [res EXCEPT ![k] = Proceed(q, s)]
  PROVE  AllSure'
  <1>1. Agree(vv', data') /\ \A j \in Slots : Sure(vv', vollock', j, res[j])
    BY SidsSame
  <1>2. Sure(vv', vollock', k, q)
    BY <1>1 DEF Sure
  <1>3. Sure(vv', vollock', k, Proceed(q, s))
    BY <1>2, ConfigTypes, ProceedSure
  <1>4. ResOK(res)
    BY DEF TypeOK
  <1>5. \A j \in Slots : Sure(vv', vollock', j, res'[j])
    BY <1>1, <1>3, <1>4, OneSure
  <1> QED
    BY <1>1, <1>5 DEF AllSure

\* The update of a client is not executed while a coordinator has the volume locked.
LEMMA COP1Sure ==
  ASSUME TypeOK, AllSure, NEW c \in Clients, NEW s \in Slots, COP1(c, s)
  PROVE  AllSure'
  <1>1. vollock[s] = NULL /\ vollock' = vollock /\ res' = res
    BY DEF COP1, Outcome
  <1>2. op[c] \in OpType /\ vv \in [Slots -> VV] /\ data \in [Slots -> StoreIds]
    BY DEF TypeOK, COP1, Executes
  <1> DEFINE w == HandleWeakEquality(vv[s], op[c].base)
             n == NewCOP1Update(w, s, op[c].sid)
  <1>3. vv' = [vv EXCEPT ![s] = n] /\ data' = [data EXCEPT ![s] = op[c].sid]
    BY DEF COP1
  <1>4. n.StoreId = op[c].sid
    <2>1. op[c].base \in VV /\ op[c].sid \in StoreIds
      BY <1>2 DEF OpType
    <2>2. w \in VV
      BY <1>2, <2>1, HandleWeakEqualityType
    <2> QED
      BY <2>1, <2>2, NewCOP1UpdateType
  <1> HIDE DEF n
  <1>5. \A i \in Slots \ {s} : vv'[i] = vv[i] /\ data'[i] = data[i]
    BY <1>2, <1>3
  <1>6. vv'[s] = n /\ data'[s] = op[c].sid
    BY <1>2, <1>3
  <1>7. Agree(vv', data')
    BY <1>4, <1>5, <1>6 DEF AllSure, Agree
  <1>8. ASSUME NEW k \in Slots
        PROVE  Sure(vv', vollock', k, res'[k])
    <2>1. Sure(vv, vollock, k, res[k]) /\ k # NULL
      BY NullAssumption DEF AllSure
    <2>2. vollock[res[k].dix] = k => res[k].dix # s
      BY <1>1, <2>1
    <2> QED
      BY <1>1, <1>5, <2>1, <2>2, SureKept
  <1> QED
    BY <1>7, <1>8 DEF AllSure

\* A COP2 counts in slots and leaves the StoreId.
LEMMA COP2Sure ==
  ASSUME TypeOK, AllSure, NEW s \in Slots, NEW u, NEW US,
         InternalCOP2(s, u, US) \/ UNCHANGED <<vv, data>>, UNCHANGED <<vollock, res>>
  PROVE  AllSure'
  <1>1. vv \in [Slots -> VV]
    BY DEF TypeOK
  <1>2. data' = data
    BY DEF InternalCOP2
  <1>3. ASSUME NEW i \in Slots
        PROVE  vv'[i].StoreId = vv[i].StoreId
    <2>1. vv' = vv \/ vv' = [vv EXCEPT ![s] = COP2Update(vv[s], s, US)]
      BY DEF InternalCOP2
    <2>2. COP2Update(vv[s], s, US).StoreId = vv[s].StoreId
      BY <1>1, AddVVsType DEF COP2Update
    <2>3. CASE i = s
      BY <1>1, <2>1, <2>2, <2>3
    <2>4. CASE i # s
      BY <1>1, <2>1, <2>4
    <2> QED
      BY <2>3, <2>4
  <1>4. Agree(vv', data') /\ \A j \in Slots : Sure(vv', vollock', j, res[j])
    BY <1>2, <1>3, SidsSame
  <1> QED
    BY <1>4 DEF AllSure

\* A coordinator that has just locked a volume knows its vector.
LEMMA LockSure ==
  ASSUME TypeOK, AllSure, NEW k \in Slots, NEW s \in Slots, LockAndFetch(k, s)
  PROVE  AllSure'
  <1>0. /\ vv \in [Slots -> VV] /\ vollock \in [Slots -> Slots \cup {NULL}] /\ ResOK(res)
        /\ res[k] \in ResType /\ Hosts \subseteq Slots
    BY ConfigTypes DEF TypeOK, ResOK
  <1>1. /\ res[k].pc = "lock" /\ vollock[s] = NULL /\ vollock' = [vollock EXCEPT ![s] = k]
        /\ UNCHANGED <<vv, data>>
    BY DEF LockAndFetch, NextToLock, server
  <1> DEFINE q == [res[k] EXCEPT !.held = @ \cup {s}]
             a == AddAnswer(q, s, vv[s])
  <1>2. PICK z \in {a, q} : res' = [res EXCEPT ![k] = Proceed(z, s)]
    BY DEF LockAndFetch
  <1>3. /\ q \in ResType /\ q.pc = "lock" /\ q.dix = res[k].dix /\ q.dead = res[k].dead
        /\ q.held = res[k].held \cup {s} /\ q.newvv = res[k].newvv
    BY <1>0, <1>1 DEF ResType
  <1>4. vollock'[s] = k /\ \A i \in Slots \ {s} : vollock'[i] = vollock[i]
    BY <1>0, <1>1
  <1>5. \A j \in Slots : j # NULL /\ Sure(vv, vollock, j, res[j])
    BY NullAssumption DEF AllSure
  <1>6. ASSUME NEW j \in Slots
        PROVE  Sure(vv', vollock', j, res[j])
    <2>1. vollock[res[j].dix] = j => res[j].dix # s
      BY <1>1, <1>5
    <2>2. res[j].dix \in Slots \ res[j].dead /\ vollock[res[j].dix] = j =>
             vollock'[res[j].dix] = j /\ vv'[res[j].dix].StoreId = vv[res[j].dix].StoreId
      BY <1>1, <1>4, <2>1
    <2> QED
      BY <1>5, <2>2, SureKept
  <1>7. Sure(vv', vollock', k, q)
    BY <1>1, <1>3, <1>6 DEF Sure
  <1>8. a \in ResType /\ a.pc = "lock" /\ Sure(vv', vollock', k, a)
    <2>1. AnswerAdded(a, q, s, vv[s])
      BY <1>0, <1>3, AddAnswerFields
    <2>2. a.held = q.held /\ a.dead = q.dead
      <3> HIDE DEF q
      <3> QED
        BY <1>3 DEF AddAnswer, ResType
    <2> HIDE DEF a, q
    <2>3. /\ a \in ResType /\ a.pc = "lock"
          /\ \/ a.dix = s /\ a.newvv.StoreId = vv[s].StoreId
             \/ a.dix = q.dix /\ a.newvv.StoreId = q.newvv.StoreId
      BY <1>3, <2>1 DEF AnswerAdded
    <2>4. CASE a.dix = s /\ a.newvv.StoreId = vv[s].StoreId
      BY <1>1, <1>3, <1>4, <2>2, <2>3, <2>4 DEF Sure
    <2>5. CASE a.dix = q.dix /\ a.newvv.StoreId = q.newvv.StoreId
      BY <1>3, <1>7, <2>2, <2>3, <2>5 DEF Sure
    <2> QED
      BY <2>3, <2>4, <2>5
  <1> HIDE DEF a, q
  <1>9. z \in ResType /\ z.pc = "lock" /\ Sure(vv', vollock', k, z)
    BY <1>3, <1>7, <1>8
  <1>10. Sure(vv', vollock', k, Proceed(z, s))
    BY <1>0, <1>9, ProceedSure
  <1>11. \A j \in Slots : Sure(vv', vollock', j, res'[j])
    BY <1>0, <1>2, <1>6, <1>10, OneSure
  <1> QED
    BY <1>1, <1>11 DEF AllSure

\* The calls of a coordinator keep the contents with their StoreIds.
LEMMA ResolveSure ==
  ASSUME TypeOK, AllSure, NEW k \in Slots, NEW s \in Slots,
         \/ LockAndFetch(k, s) \/ LockRefused(k, s) \/ LockTimesOut(k, s)
         \/ ForceVV(k, s) \/ ForceFile(k, s) \/ ForceTimesOut(k, s)
         \/ MarkInc(k, s) \/ UnlockVol(k, s)
  PROVE  AllSure'
  <1>0. /\ vv \in [Slots -> VV] /\ vollock \in [Slots -> Slots \cup {NULL}] /\ ResOK(res)
        /\ res[k] \in ResType /\ Hosts \subseteq Slots /\ data \in [Slots -> StoreIds]
    BY ConfigTypes DEF TypeOK, ResOK
  <1> DEFINE r == res[k]
  <1>1. CASE LockRefused(k, s)
    <2> DEFINE q == [r EXCEPT !.lockerror = TRUE]
    <2>1. /\ q \in ResType /\ q.pc = r.pc /\ q.dix = r.dix /\ q.held = r.held
          /\ q.dead = r.dead /\ q.newvv = r.newvv /\ q.file = r.file
      BY <1>0 DEF ResType
    <2>2. r.pc = "lock" /\ UNCHANGED <<vv, data, vollock>> /\ res' = [res EXCEPT ![k] = Proceed(q, s)]
      BY <1>1 DEF LockRefused, NextToLock, server
    <2> HIDE DEF q
    <2> QED
      BY <2>1, <2>2, CallSure
  <1>2. CASE LockTimesOut(k, s)
    <2>1. r.pc = "lock" /\ UNCHANGED <<vv, data, vollock>> /\ res' = [res EXCEPT ![k] = Proceed(r, s)]
      BY <1>2 DEF LockTimesOut, NextToLock, server
    <2> QED
      BY <1>0, <2>1, CallSure
  <1>3. CASE ForceVV(k, s)
    <2>1. r.pc = "forcevv" /\ UNCHANGED <<data, vollock>>
      BY <1>3 DEF ForceVV
    <2>2. \A i \in Slots : vv'[i].StoreId = vv[i].StoreId
      <3> SUFFICES ASSUME NEW i \in Slots
                   PROVE  vv'[i].StoreId = vv[i].StoreId
        OBVIOUS
      <3>1. vv' = vv \/ vv' = [vv EXCEPT ![s] = [vv[s] EXCEPT !.Versions = r.newvv.Versions]]
        BY <1>3 DEF ForceVV
      <3>2. [vv[s] EXCEPT !.Versions = r.newvv.Versions].StoreId = vv[s].StoreId
        BY <1>0 DEF VV
      <3>3. CASE i = s
        BY <1>0, <3>1, <3>2, <3>3
      <3>4. CASE i # s
        BY <1>0, <3>1, <3>4
      <3> QED
        BY <3>3, <3>4
    <2>3. PICK q : /\ q = [r EXCEPT !.err = @ \/ ~MayForce(k, s)]
                        \/ q = [r EXCEPT !.members = @ \ {s}]
                   /\ res' = [res EXCEPT ![k] = Proceed(q, s)]
      BY <1>3 DEF ForceVV
    <2>4. /\ q \in ResType /\ q.pc = r.pc /\ q.dix = r.dix /\ q.held = r.held
          /\ q.dead = r.dead /\ q.newvv = r.newvv /\ q.file = r.file
      <3>1. PICK e \in BOOLEAN : e = (r.err \/ ~MayForce(k, s))
        OBVIOUS
      <3>2. q = [r EXCEPT !.err = e] \/ q = [r EXCEPT !.members = @ \ {s}]
        BY <2>3, <3>1
      <3> QED
        BY <1>0, <3>2 DEF ResType
    <2> QED
      BY <2>1, <2>2, <2>3, <2>4, CallSure
  <1>4. CASE ForceTimesOut(k, s)
    <2> DEFINE q == [r EXCEPT !.members = @ \ {s}]
    <2>1. /\ q \in ResType /\ q.pc = r.pc /\ q.dix = r.dix /\ q.held = r.held
          /\ q.dead = r.dead /\ q.newvv = r.newvv /\ q.file = r.file
      BY <1>0 DEF ResType
    <2>2. /\ r.pc \in {"forcevv", "forcefile"} /\ UNCHANGED <<vv, data, vollock>>
          /\ res' = [res EXCEPT ![k] = Proceed(q, s)]
      BY <1>4 DEF ForceTimesOut, server
    <2> HIDE DEF q
    <2> QED
      BY <2>1, <2>2, CallSure
  <1>5. CASE MarkInc(k, s)
    <2>1. /\ r.pc = "mark" /\ UNCHANGED <<data, vollock>>
          /\ res' = [res EXCEPT ![k] = Proceed(r, s)]
      BY <1>5 DEF MarkInc
    <2>2. \A i \in Slots : vv'[i].StoreId = vv[i].StoreId
      <3> SUFFICES ASSUME NEW i \in Slots
                   PROVE  vv'[i].StoreId = vv[i].StoreId
        OBVIOUS
      <3>1. vv' = vv \/ vv' = [vv EXCEPT ![s] = [vv[s] EXCEPT !.Incon = TRUE]]
        BY <1>5 DEF MarkInc
      <3>2. [vv[s] EXCEPT !.Incon = TRUE].StoreId = vv[s].StoreId
        BY <1>0 DEF VV
      <3>3. CASE i = s
        BY <1>0, <3>1, <3>2, <3>3
      <3>4. CASE i # s
        BY <1>0, <3>1, <3>4
      <3> QED
        BY <3>3, <3>4
    <2> QED
      BY <1>0, <2>1, <2>2, CallSure
  <1>6. CASE UnlockVol(k, s)
    <2> DEFINE q == [r EXCEPT !.held = @ \ {s}]
    <2>1. q \in ResType /\ q.pc = r.pc
      BY <1>0 DEF ResType
    <2>2. /\ r.pc = "unlock" /\ UNCHANGED <<vv, data>>
          /\ res' = [res EXCEPT ![k] = Proceed(q, s)]
      BY <1>6 DEF UnlockVol, server
    <2>3. \A i \in Slots : vollock[i] # k => vollock'[i] = vollock[i]
      <3>1. \/ vollock' = vollock
            \/ vollock' = [vollock EXCEPT ![s] = IF vollock[s] = k THEN NULL ELSE vollock[s]]
        BY <1>6 DEF UnlockVol
      <3> QED
        BY <1>0, <3>1
    <2>4. ASSUME NEW j \in Slots \ {k}
          PROVE  Sure(vv', vollock', j, res[j])
      <3>1. Sure(vv, vollock, j, res[j])
        BY DEF AllSure
      <3>2. res[j].dix \in Slots /\ vollock[res[j].dix] = j =>
               vollock'[res[j].dix] = j /\ vv'[res[j].dix].StoreId = vv[res[j].dix].StoreId
        BY <2>2, <2>3
      <3> QED
        BY <3>1, <3>2, SureKept
    <2> HIDE DEF q
    <2>5. Sure(vv', vollock', k, q)
      BY <2>1, <2>2, SureAfter
    <2>6. Sure(vv', vollock', k, Proceed(q, s))
      BY <1>0, <2>1, <2>2, <2>5, ProceedSure
    <2>7. \A j \in Slots : Sure(vv', vollock', j, res'[j])
      BY <1>0, <2>2, <2>4, <2>6, OneSure
    <2> QED
      BY <2>2, <2>7 DEF AllSure
  <1>7. CASE ForceFile(k, s)
    <2> DEFINE sub == VV_Cmp(vv[s], r.newvv) = "SUB"
               ok == MayForce(k, s) /\ (sub => s \notin Undominated(r))
    <2>1. /\ r.pc = "forcefile" /\ vollock' = vollock
          /\ \/ UNCHANGED <<vv, data>>
             \/ /\ vollock[s] = k /\ vv' = [vv EXCEPT ![s] = Forced(vv[s], r.newvv)]
                /\ data' = [data EXCEPT ![s] = r.file]
      BY <1>7 DEF ForceFile, MayForce
    <2>2. PICK q : /\ q = r \/ \E e \in BOOLEAN : q = [r EXCEPT !.members = @ \ {s}, !.err = e]
                   /\ res' = [res EXCEPT ![k] = Proceed(q, s)]
      <3>1. PICK b \in Replies :
              res' = [res EXCEPT ![k] =
                        Proceed(IF b /\ ok THEN r
                                ELSE [r EXCEPT !.members = @ \ {s}, !.err = @ \/ b], s)]
        BY <1>7 DEF ForceFile
      <3>2. PICK e \in BOOLEAN : e = (r.err \/ b)
        OBVIOUS
      <3> HIDE DEF ok
      <3>3. CASE b /\ ok
        BY <3>1, <3>3
      <3>4. CASE ~(b /\ ok)
        BY <3>1, <3>2, <3>4
      <3> QED
        BY <3>3, <3>4
    <2>3. q \in ResType /\ q.pc = r.pc /\ q.newvv = r.newvv /\ q.file = r.file
      <3>1. CASE q = r
        BY <1>0, <3>1
      <3>2. CASE q # r
        <4>1. PICK e \in BOOLEAN : q = [r EXCEPT !.members = @ \ {s}, !.err = e]
          BY <2>2, <3>2
        <4> QED
          BY <1>0, <4>1 DEF ResType
      <3> QED
        BY <3>1, <3>2
    <2> HIDE DEF sub, ok
    <2>4. r.file = r.newvv.StoreId /\ \A j \in Slots : Sure(vv, vollock, j, res[j])
      BY <2>1 DEF AllSure, Sure
    <2>5. Agree(vv', data') /\ \A i \in Slots : vollock[i] # k => vv'[i] = vv[i]
      <3>1. CASE UNCHANGED <<vv, data>>
        BY <3>1 DEF AllSure
      <3>2. CASE /\ vollock[s] = k /\ vv' = [vv EXCEPT ![s] = Forced(vv[s], r.newvv)]
                 /\ data' = [data EXCEPT ![s] = r.file]
        <4>1. Forced(vv[s], r.newvv).StoreId = r.newvv.StoreId
          BY <1>0 DEF Forced, VV
        <4>2. \A i \in Slots \ {s} : vv'[i] = vv[i] /\ data'[i] = data[i]
          BY <1>0, <3>2
        <4>3. vv'[s].StoreId = r.newvv.StoreId /\ data'[s] = r.file
          BY <1>0, <3>2, <4>1
        <4> QED
          BY <2>4, <3>2, <4>2, <4>3 DEF Agree, AllSure
      <3> QED
        BY <2>1, <3>1, <3>2
    <2>6. ASSUME NEW j \in Slots \ {k}
          PROVE  Sure(vv', vollock', j, res[j])
      <3>1. res[j].dix \in Slots /\ vollock[res[j].dix] = j =>
               vollock'[res[j].dix] = j /\ vv'[res[j].dix].StoreId = vv[res[j].dix].StoreId
        BY <2>1, <2>5
      <3> QED
        BY <2>4, <3>1, SureKept
    <2>7. Sure(vv', vollock', k, q)
      BY <2>1, <2>3, <2>4 DEF Sure
    <2>8. Sure(vv', vollock', k, Proceed(q, s))
      BY <1>0, <2>1, <2>3, <2>7, ProceedSure
    <2>9. \A j \in Slots : Sure(vv', vollock', j, res'[j])
      BY <1>0, <2>2, <2>6, <2>8, OneSure
    <2> QED
      BY <2>5, <2>9 DEF AllSure
  <1> QED
    BY <1>1, <1>2, <1>3, <1>4, <1>5, <1>6, <1>7, LockSure

\* The fetched file is the one of the vector that will be forced.
LEMMA FetchSure ==
  ASSUME TypeOK, AllSure, NEW k \in Slots,
         FetchFile(k) \/ FetchFails(k) \/ StartResolve(k)
  PROVE  AllSure'
  <1>0. ResOK(res) /\ res[k] \in ResType /\ Answered(res[k]) /\ IdleOK(res[k]) /\ Hosts \subseteq Slots
    BY ConfigTypes DEF TypeOK, ResOK
  <1>1. UNCHANGED <<vv, data, vollock>>
    BY DEF FetchFile, FetchFails, StartResolve, server
  <1>2. Agree(vv', data') /\ \A j \in Slots : Sure(vv', vollock', j, res[j])
    BY <1>1 DEF AllSure
  <1>3. ASSUME NEW x, res' = [res EXCEPT ![k] = x], Sure(vv', vollock', k, x)
        PROVE  AllSure'
    <2>1. \A j \in Slots : Sure(vv', vollock', j, res'[j])
      BY <1>0, <1>2, <1>3, OneSure
    <2> QED
      BY <1>2, <2>1 DEF AllSure
  <1> DEFINE r == res[k]
  <1>4. CASE FetchFile(k)
    <2> DEFINE x == [r EXCEPT !.pc = "forcefile", !.todo = r.members, !.file = data[r.dix]]
    <2>1. res' = [res EXCEPT ![k] = x]
      BY <1>4 DEF FetchFile
    <2>2. r.pc = "fetch" /\ r.dix \in Slots \ r.dead
      BY <1>0, <1>4 DEF FetchFile, Fetched, Answered, ResType
    <2>3. data[r.dix] = r.newvv.StoreId
      BY <2>2 DEF AllSure, Agree, Sure
    <2>4. x.pc = "forcefile" /\ x.file = data[r.dix] /\ x.newvv = r.newvv
      BY <1>0 DEF ResType
    <2> HIDE DEF x
    <2>5. Sure(vv', vollock', k, x)
      BY <2>3, <2>4 DEF Sure
    <2> QED
      BY <1>3, <2>1, <2>5
  <1>5. CASE FetchFails(k)
    <2>1. res' = [res EXCEPT ![k] = ToMark(r)]
      BY <1>5 DEF FetchFails
    <2>2. Sure(vv', vollock', k, ToMark(r))
      BY <1>0, ToMarkType, SureAfter
    <2> QED
      BY <1>3, <2>1, <2>2
  <1>6. CASE StartResolve(k)
    <2> DEFINE x == [r EXCEPT !.pc = "lock", !.todo = Hosts]
    <2>1. res' = [res EXCEPT ![k] = x] /\ r = IdleRes
      BY <1>0, <1>6 DEF StartResolve, IdleOK
    <2>2. x.pc = "lock" /\ x.dix = NULL
      <3>1. x.pc = "lock" /\ x.dix = r.dix
        BY <1>0 DEF ResType
      <3>2. IdleRes.dix = NULL
        BY DEF IdleRes
      <3> HIDE DEF x
      <3> QED
        BY <2>1, <3>1, <3>2
    <2> HIDE DEF x
    <2>3. Sure(vv', vollock', k, x)
      BY <2>2, NullAssumption DEF Sure
    <2> QED
      BY <1>3, <2>1, <2>3
  <1> QED
    BY <1>4, <1>5, <1>6

\* A lock that expires, without overruns, is not one a resolution relies on.
LEMMA ExpireSure ==
  ASSUME TypeOK, AllSure, ~May("overrun"), NEW s \in Slots, LockExpires(s)
  PROVE  AllSure'
  <1>0. vollock \in [Slots -> Slots \cup {NULL}]
    BY DEF TypeOK
  <1>1. /\ s \notin res[vollock[s]].held /\ vollock' = [vollock EXCEPT ![s] = NULL]
        /\ UNCHANGED <<vv, data, res>>
    BY DEF LockExpires, Fault, May, server
  <1>2. \A i \in Slots \ {s} : vollock'[i] = vollock[i]
    BY <1>0, <1>1
  <1>3. ASSUME NEW j \in Slots
        PROVE  Sure(vv', vollock', j, res'[j])
    <2>1. Sure(vv, vollock, j, res[j])
      BY DEF AllSure
    <2>2. res[j].dix \in res[j].held /\ vollock[res[j].dix] = j => res[j].dix # s
      BY <1>1
    <2>3. res[j].dix \in Slots \ res[j].dead /\ res[j].dix \in res[j].held
          /\ vollock[res[j].dix] = j =>
             vollock'[res[j].dix] = j /\ vv'[res[j].dix].StoreId = vv[res[j].dix].StoreId
      BY <1>1, <1>2, <2>2
    <2> QED
      BY <1>1, <2>1, <2>3, SureKept
  <1> QED
    BY <1>1, <1>3 DEF AllSure

\* A server that restarts has lost its locks, and the coordinators know.
LEMMA RestartSure ==
  ASSUME TypeOK, AllSure, NEW s \in Slots, Restart(s)
  PROVE  AllSure'
  <1>0. vollock \in [Slots -> Slots \cup {NULL}] /\ res \in [Slots -> ResType]
    BY DEF TypeOK, ResOK
  <1>1. vollock' = [vollock EXCEPT ![s] = NULL] /\ UNCHANGED <<vv, data>>
    BY DEF Restart
  <1>2. \A i \in Slots \ {s} : vollock'[i] = vollock[i]
    BY <1>0, <1>1
  <1>3. ASSUME NEW j \in Slots
        PROVE  Sure(vv', vollock', j, res'[j])
    <2>1. CASE res'[j] = IdleRes
      BY <2>1, SureAfter
    <2>2. CASE res'[j] = [res[j] EXCEPT !.dead = @ \cup {s}]
      <3> DEFINE q == [res[j] EXCEPT !.dead = @ \cup {s}]
      <3>1. /\ q.pc = res[j].pc /\ q.dix = res[j].dix /\ q.held = res[j].held
            /\ q.dead = res[j].dead \cup {s} /\ q.newvv = res[j].newvv /\ q.file = res[j].file
        <4>1. res[j] \in ResType
          BY <1>0
        <4> QED
          BY <4>1 DEF ResType
      <3> HIDE DEF q
      <3>2. Sure(vv, vollock, j, res[j])
        BY DEF AllSure
      <3>3. Sure(vv, vollock, j, q) /\ (q.dix \notin q.dead => q.dix # s)
        BY <3>1, <3>2 DEF Sure
      <3>4. q.dix \in Slots \ q.dead /\ vollock[q.dix] = j =>
               vollock'[q.dix] = j /\ vv'[q.dix].StoreId = vv[q.dix].StoreId
        BY <1>1, <1>2, <3>3
      <3>5. Sure(vv', vollock', j, q)
        BY <3>3, <3>4, SureKept
      <3> QED
        BY <2>2, <3>5 DEF q
    <2> QED
      BY <2>1, <2>2 DEF Restart
  <1> QED
    BY <1>1, <1>3 DEF AllSure

\* Every step keeps the contents with their StoreIds.
LEMMA DataStep ==
  ASSUME TypeOK, AllSure, ~May("overrun"), Next
  PROVE  AllSure'
  <1>1. ASSUME UNCHANGED <<vv, data, vollock, res>>
        PROVE  AllSure'
    BY <1>1 DEF AllSure
  <1>2. CASE \E c \in Clients : ClientStep(c)
    <2>0. PICK c \in Clients : ClientStep(c)
      BY <1>2
    <2>1. CASE \E s \in Slots : COP1(c, s)
      BY <2>1, COP1Sure
    <2>2. CASE \E s \in Slots : DeliverCOP2(c, s)
      <3>1. PICK s \in Slots : DeliverCOP2(c, s)
        BY <2>2
      <3>2. \E u, US : InternalCOP2(s, u, US)
        BY <3>1 DEF DeliverCOP2
      <3>3. UNCHANGED <<vollock, res>>
        BY <3>1 DEF DeliverCOP2
      <3> QED
        BY <3>2, <3>3, COP2Sure
    <2>3. (\E G : GetAttr(c, G)) \/ (\E u : BeginUpdate(c, u)) => UNCHANGED <<vv, data, vollock, res>>
      BY DEF GetAttr, BeginUpdate, server
    <2>4. Commit(c) \/ RetryUpdate(c) \/ GiveUp(c) \/ ClearCOP2(c) => UNCHANGED <<vv, data, vollock, res>>
      BY DEF Commit, RetryUpdate, GiveUp, ClearCOP2, server
    <2>5. \A s : COP1Refused(c, s) \/ COP1TimesOut(c, s) => UNCHANGED <<vv, data, vollock, res>>
      BY DEF COP1Refused, COP1TimesOut, server
    <2> QED
      BY <1>1, <2>0, <2>1, <2>2, <2>3, <2>4, <2>5 DEF ClientStep
  <1>3. CASE \E k \in Slots : StartResolve(k) \/ ResolveStep(k)
    <2>1. ASSUME NEW k \in Slots, AssertFails(k)
          PROVE  AllSure'
      BY <2>1, RestartSure DEF AssertFails
    <2> QED
      BY <1>3, <2>1, ResolveSure, FetchSure DEF ResolveStep
  <1>4. CASE \E s \in Slots : LockExpires(s) \/ Crash(s)
    BY <1>4, ExpireSure, RestartSure DEF Crash
  <1>5. CASE \E s \in Slots, u \in StoreIds : ExpireCOP2(s, u)
    <2>1. UNCHANGED <<vv, data, vollock, res>>
      BY <1>5 DEF ExpireCOP2, server
    <2> QED
      BY <1>1, <2>1
  <1> QED
    BY <1>2, <1>3, <1>4, <1>5 DEF Next

(***************************************************************************)
(* DataOfSid: the contents of a replica are always those of the update its *)
(* StoreId names.  RS_ForceFile installs contents fetched from one server  *)
(* under a StoreId learnt when that server was locked, several calls       *)
(* before; the volume lock, which RS_LockAndFetch takes and ViceReintegrate*)
(* respects, is what makes the two belong together.                        *)
(***************************************************************************)
THEOREM ReplicationContents == Spec => []DataOfSid
  <1>1. Init => DataInv
    <2>1. Init => Agree(vv, data) /\ \A k \in Slots : res[k] = IdleRes
      <3>1. ZeroVV.StoreId = NullSid
        BY DEF ZeroVV
      <3> QED
        BY <3>1 DEF Init, Agree
    <2> QED
      BY <2>1, SureAfter DEF DataInv, AllSure
  <1>2. TypeOK /\ DataInv /\ [Next]_vars => DataInv'
    <2>1. ASSUME TypeOK, DataInv, Next
          PROVE  DataInv'
      <3>1. May("overrun")' <=> May("overrun")
        BY <2>1, ConfigSame DEF May
      <3> QED
        BY <2>1, <3>1, DataStep DEF DataInv
    <2>2. ASSUME DataInv, UNCHANGED vars
          PROVE  DataInv'
      BY <2>2 DEF DataInv, AllSure, May, vars, server, client
    <2> QED
      BY <2>1, <2>2
  <1>3. DataInv => DataOfSid
    BY DEF DataInv, AllSure, Agree, DataOfSid
  <1> QED
    BY <1>1, <1>2, <1>3, ReplicationTypeCorrect, PTL DEF Spec
=============================================================================
