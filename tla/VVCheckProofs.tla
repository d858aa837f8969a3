-------------------------- MODULE VVCheckProofs --------------------------
(***************************************************************************)
(* VV_Check is correct for every size of the storage group and every set   *)
(* of version vectors.  The inductive invariant says what the entries      *)
(* struck out of vvp have in common: each is strictly dominated by one     *)
(* that is still there.                                                    *)
(***************************************************************************)
EXTENDS VVCheck, FiniteSetTheorems, TLAPS

\* The comparison of the vectors that replicas s and t passed in.
C(s, t) == Cmp(IgnoreInc, vvs[s], vvs[t])

Struck == \A s \in Slots : vvp[s] # NULL => vvp[s] = vvs[s]

FindInv == pc = "find" => vvp = vvs

ScanInv ==
    pc = "scan" =>
        /\ dom_ix < j
        /\ vvp[dom_ix] # NULL
        /\ \A s \in Slots : s >= j => vvp[s] = vvs[s]
        /\ \A s \in Slots : s < dom_ix => vvp[s] = NULL
        /\ \A s \in Given : s < j /\ s # dom_ix =>
             IF vvp[s] = NULL THEN C(dom_ix, s) = "DOM" /\ ~EqReq
                              ELSE C(dom_ix, s) = "EQ"
        /\ HowMany = Cardinality({s \in Slots : s < j /\ vvp[s] # NULL})

BruteInv ==
    pc \in {"bfind", "outer", "inner"} =>
        /\ ~EqReq
        /\ Given # {}
        /\ \A s \in Given : vvp[s] = NULL =>
             \E t \in Given : vvp[t] # NULL /\ C(t, s) = "DOM"

OuterInv ==
    pc \in {"outer", "inner"} => \A s \in Given : s < i => s \notin Dominant

InnerInv ==
    pc = "inner" =>
        /\ i \in Given
        /\ vvp[i] # NULL
        /\ \A s \in Given : s < j /\ s # i /\ vvp[s] # NULL => C(i, s) = "EQ"
        /\ HowMany =
             Cardinality({s \in Slots : vvp[s] # NULL /\ (s = i \/ s < j)})

Correct == VerdictOK /\ DominantSetOK

IInv == /\ TypeOK /\ Struck /\ FindInv /\ ScanInv /\ BruteInv /\ OuterInv
        /\ InnerInv /\ Correct

-----------------------------------------------------------------------------

\* Comparing two vectors the other way round mirrors the result.
LEMMA CmpSym ==
    ASSUME NEW ig \in BOOLEAN, NEW a \in VV, NEW b \in VV
    PROVE  /\ Cmp(ig, a, b) \in VV_Cmp_Result
           /\ Cmp(ig, a, b) = "EQ" <=> Cmp(ig, b, a) = "EQ"
           /\ Cmp(ig, a, b) = "DOM" <=> Cmp(ig, b, a) = "SUB"
           /\ Cmp(ig, a, b) = "INC" <=> Cmp(ig, b, a) = "INC"
  BY DEF Cmp, VV_Cmp, VV_Cmp_IgnoreInc, VV_Cmp_Result

\* Being at least as new as is transitive, and so is equality.
LEMMA CmpTrans ==
    ASSUME NEW ig \in BOOLEAN, NEW a \in VV, NEW b \in VV, NEW c \in VV,
           Cmp(ig, a, b) \in {"EQ", "DOM"}, Cmp(ig, b, c) \in {"EQ", "DOM"}
    PROVE  IF Cmp(ig, a, b) = "EQ" /\ Cmp(ig, b, c) = "EQ"
           THEN Cmp(ig, a, c) = "EQ" ELSE Cmp(ig, a, c) = "DOM"
<1>1. /\ AllGeq(a, b) /\ AllGeq(b, c)
      /\ Cmp(ig, a, b) = "EQ" <=> AllGeq(b, a)
      /\ Cmp(ig, b, c) = "EQ" <=> AllGeq(c, b)
      /\ ig \/ (~IsIncon(a) /\ ~IsIncon(c))
  BY DEF Cmp, VV_Cmp, VV_Cmp_IgnoreInc
<1>2. Cmp(ig, a, c) = VV_Cmp_IgnoreInc(a, c)
  BY <1>1 DEF Cmp, VV_Cmp
<1>3. \A x, y, z \in VV : AllGeq(x, y) /\ AllGeq(y, z) => AllGeq(x, z)
  BY DEF AllGeq, VV, Versions
<1>4. AllGeq(a, c)
  BY <1>1, <1>3
<1>5. AllGeq(c, a) => AllGeq(b, a) /\ AllGeq(c, b)
  BY <1>1, <1>3
<1>6. AllGeq(b, a) /\ AllGeq(c, b) => AllGeq(c, a)
  BY <1>3
<1> QED
  BY <1>1, <1>2, <1>4, <1>5, <1>6 DEF VV_Cmp_IgnoreInc

\* The same two facts, for the vectors of replicas s, t and u.
LEMMA SlotCmp ==
    ASSUME TypeOK
    PROVE  /\ Given \subseteq Slots
           /\ \A s, t \in Given :
                /\ C(s, t) \in VV_Cmp_Result
                /\ C(s, t) = "EQ" <=> C(t, s) = "EQ"
                /\ C(s, t) = "DOM" <=> C(t, s) = "SUB"
                /\ C(s, t) = "INC" <=> C(t, s) = "INC"
           /\ \A s, t, u \in Given :
                C(s, t) \in {"EQ", "DOM"} /\ C(t, u) \in {"EQ", "DOM"} =>
                  IF C(s, t) = "EQ" /\ C(t, u) = "EQ"
                  THEN C(s, u) = "EQ" ELSE C(s, u) = "DOM"
<1>1. Given \subseteq Slots /\ \A s \in Given : vvs[s] \in VV
  BY VectorsAssumption DEF TypeOK, Given
<1>2. IgnoreInc \in BOOLEAN
  BY DEF TypeOK
<1>3. ASSUME NEW s \in Given, NEW t \in Given
      PROVE  /\ C(s, t) \in VV_Cmp_Result
             /\ C(s, t) = "EQ" <=> C(t, s) = "EQ"
             /\ C(s, t) = "DOM" <=> C(t, s) = "SUB"
             /\ C(s, t) = "INC" <=> C(t, s) = "INC"
  BY <1>1, <1>2, <1>3, CmpSym DEF C
<1>4. ASSUME NEW s \in Given, NEW t \in Given, NEW u \in Given,
             C(s, t) \in {"EQ", "DOM"}, C(t, u) \in {"EQ", "DOM"}
      PROVE  IF C(s, t) = "EQ" /\ C(t, u) = "EQ"
             THEN C(s, u) = "EQ" ELSE C(s, u) = "DOM"
  BY <1>1, <1>2, <1>4, CmpTrans DEF C
<1> QED
  BY <1>1, <1>3, <1>4

\* Membership in the dominant set, in terms of C.
LEMMA DominantDef ==
    ASSUME TypeOK, NEW s \in Given
    PROVE  s \in Dominant <=>
             \A t \in Given : \/ s = t
                              \/ C(s, t) = "EQ"
                              \/ ~EqReq /\ C(s, t) = "DOM"
<1>1. EqReq \in BOOLEAN
  BY DEF TypeOK
<1> QED
  BY <1>1 DEF Dominant, Covers, C

\* The slots are a finite set, and so is every part of it.
LEMMA SlotsFinite ==
    ASSUME NEW S, S \subseteq Slots
    PROVE  IsFiniteSet(S)
<1>1. IsFiniteSet(Slots)
  BY FS_Interval, VSGAssumption DEF Slots
<1> QED
  BY <1>1, FS_Subset

-----------------------------------------------------------------------------

LEMMA InitIInv == Init => IInv
  BY VSGAssumption
  DEF Init, IInv, TypeOK, Struck, FindInv, ScanInv, BruteInv, OuterInv,
      InnerInv, Correct, VerdictOK, DominantSetOK, Slots

\* The parameters never change, so neither does anything defined from them.
LEMMA ParamsFixed ==
    ASSUME UNCHANGED params
    PROVE  /\ Given' = Given
           /\ Dominant' = Dominant
           /\ Consistent' = Consistent
           /\ \A s, t : C(s, t)' = C(s, t)
  BY DEF params, Given, Dominant, Covers, Consistent, C

\* The linear scan preserves the invariant.
LEMMA ScanStep == ASSUME IInv, Scan PROVE IInv'
<1> USE DEF IInv
<1>0. UNCHANGED params /\ pc = "scan"
  BY DEF Scan, ScanNull, ScanEQ, ScanDOM, ScanSUB, ScanINC, ScanUnequal,
         ScanEnd, ScanCmp, Scanning
<1>p. /\ Given' = Given
      /\ Dominant' = Dominant
      /\ Consistent' = Consistent
      /\ \A s, t : C(s, t)' = C(s, t)
  BY <1>0, ParamsFixed
<1>a. /\ dom_ix \in Slots /\ dom_ix \in Given /\ dom_ix < j
      /\ Slots \subseteq Nat
      /\ vvp[dom_ix] = vvs[dom_ix] /\ vvp[dom_ix] # NULL
      /\ j \in Nat
      /\ EqReq \in BOOLEAN
  BY <1>0, VSGAssumption DEF TypeOK, ScanInv, Struck, Given, Slots
<1>b. ASSUME NEW r, ScanCmp(r)
      PROVE  j \in Given /\ j \in Slots /\ C(dom_ix, j) = r
             /\ vvp[j] = vvs[j]
  BY <1>0, <1>a, <1>b, VSGAssumption
  DEF ScanCmp, Scanning, Given, C, ScanInv, TypeOK, Slots, Struck
<1>1. CASE ScanNull
  <2>1. j \in Slots /\ vvs[j] = NULL
    BY <1>0, <1>1, <1>a, VSGAssumption DEF ScanNull, Scanning, ScanInv, Slots
  <2>2. TypeOK'
    BY <1>1, <2>1, VSGAssumption DEF ScanNull, Scanning, TypeOK, params, Slots
  <2>3. {s \in Slots : s < j + 1 /\ vvp[s] # NULL} =
          {s \in Slots : s < j /\ vvp[s] # NULL}
    BY <1>1, <1>a, <2>1, VSGAssumption DEF ScanNull, Slots
  <2>4. ScanInv'
    BY <1>0, <1>1, <1>a, <1>p, <2>1, <2>3
    DEF ScanNull, ScanInv, params, Given
  <2> QED
    BY <1>0, <1>1, <1>p, <2>2, <2>4
    DEF ScanNull, Struck, FindInv, BruteInv, OuterInv, InnerInv, Correct,
        VerdictOK, DominantSetOK, params
<1>2. CASE ScanEQ
  <2>1. j \in Given /\ j \in Slots /\ C(dom_ix, j) = "EQ" /\ vvp[j] = vvs[j]
        /\ vvp[j] # NULL
    BY <1>2, <1>b DEF ScanEQ, ScanCmp
  <2>2. TypeOK'
    BY <1>2, <2>1, VSGAssumption DEF ScanEQ, TypeOK, params, Slots
  <2> DEFINE S == {s \in Slots : s < j /\ vvp[s] # NULL}
  <2>3. {s \in Slots : s < j + 1 /\ vvp[s] # NULL} = S \cup {j}
    BY <1>a, <2>1, VSGAssumption DEF Slots
  <2>4. IsFiniteSet(S) /\ j \notin S
    BY <1>a, SlotsFinite
  <2>5. Cardinality(S \cup {j}) = HowMany + 1
    BY <1>0, <2>4, FS_AddElement DEF ScanInv
  <2>6. ScanInv'
    BY <1>0, <1>2, <1>a, <1>p, <2>1, <2>3, <2>5
    DEF ScanEQ, ScanInv, params, Given
  <2> QED
    BY <1>0, <1>2, <1>p, <2>2, <2>6
    DEF ScanEQ, Struck, FindInv, BruteInv, OuterInv, InnerInv, Correct,
        VerdictOK, DominantSetOK, params
<1>3. CASE ScanDOM
  <2>1. j \in Given /\ j \in Slots /\ C(dom_ix, j) = "DOM" /\ ~EqReq
    BY <1>3, <1>b DEF ScanDOM
  <2>2. TypeOK'
    BY <1>3, <2>1, VSGAssumption DEF ScanDOM, TypeOK, params, Slots
  <2>3. /\ vvp' \in [Slots -> Vectors \cup {NULL}]
        /\ \A s \in Slots : vvp'[s] = IF s = j THEN NULL ELSE vvp[s]
    BY <1>3, <2>2 DEF ScanDOM, TypeOK
  <2>4. {s \in Slots : s < j + 1 /\ vvp'[s] # NULL} =
          {s \in Slots : s < j /\ vvp[s] # NULL}
    BY <1>a, <2>1, <2>3, VSGAssumption DEF Slots
  <2>5. ScanInv'
    BY <1>0, <1>3, <1>a, <1>p, <2>1, <2>3, <2>4
    DEF ScanDOM, ScanInv, params, Given
  <2>6. Struck'
    BY <2>3, <1>0 DEF Struck, params
  <2> QED
    BY <1>0, <1>3, <1>p, <2>2, <2>5, <2>6
    DEF ScanDOM, FindInv, BruteInv, OuterInv, InnerInv, Correct,
        VerdictOK, DominantSetOK, params
<1>4. CASE ScanSUB
  <2>1. /\ j \in Given /\ j \in Slots /\ C(dom_ix, j) = "SUB" /\ ~EqReq
        /\ vvp[j] = vvs[j] /\ vvs[j] # NULL
    BY <1>4, <1>b DEF ScanSUB, Given
  <2>2. TypeOK'
    BY <1>4, <2>1, VSGAssumption DEF ScanSUB, TypeOK, params, Slots
  <2>3. \A s \in Slots :
          vvp'[s] = IF dom_ix <= s /\ s < j THEN NULL ELSE vvp[s]
    BY <1>4, <1>a DEF ScanSUB
  <2>4. \A s \in Slots : s < j => vvp'[s] = NULL
    BY <1>0, <1>a, <2>3 DEF ScanInv
  <2>5. {s \in Slots : s < j + 1 /\ vvp'[s] # NULL} = {j}
    BY <1>a, <2>1, <2>3, <2>4, VSGAssumption DEF Slots
  <2>6. Cardinality({j}) = 1
    BY FS_Singleton
  <2>7. \A s \in Given : s < j => C(j, s) = "DOM"
    <3>1. C(j, dom_ix) = "DOM"
      BY <1>a, <2>1, SlotCmp
    <3>2. \A s \in Given : s < j /\ s # dom_ix => C(dom_ix, s) \in {"EQ", "DOM"}
      BY <1>0 DEF ScanInv
    <3> QED
      BY <1>a, <2>1, <3>1, <3>2, SlotCmp
  <2>8. \A s \in Slots : s >= j => vvp'[s] = vvs[s]
    BY <1>0, <1>a, <2>3 DEF ScanInv
  <2>9. ScanInv'
    <3>1. Given \subseteq Slots
      BY DEF Given
    <3>2. j' = j + 1 /\ dom_ix' = j /\ HowMany' = 1 /\ vvs' = vvs
      BY <1>0, <1>4 DEF ScanSUB, params
    <3>3. HowMany' = Cardinality({s \in Slots : s < j' /\ vvp'[s] # NULL})
      BY <2>5, <2>6, <3>2
    <3>4. \A s \in Given' : s < j' /\ s # dom_ix' =>
            vvp'[s] = NULL /\ C(dom_ix, s)' = "DOM" /\ ~EqReq'
      BY <1>0, <1>a, <1>p, <2>1, <2>4, <2>7, <3>1, <3>2 DEF params, C
    <3>5. /\ dom_ix' < j'
          /\ \A s \in Slots : s >= j' => s >= j
      BY <1>a, <3>2
    <3>6. vvp'[dom_ix'] # NULL
      BY <1>a, <2>1, <2>8, <3>2
    <3>7. \A s \in Slots : s >= j' => vvp'[s] = vvs'[s]
      BY <2>8, <3>2, <3>5
    <3>8. \A s \in Slots : s < dom_ix' => vvp'[s] = NULL
      BY <2>4, <3>2
    <3> QED
      BY <3>3, <3>4, <3>5, <3>6, <3>7, <3>8 DEF ScanInv
  <2>10. Struck'
    BY <1>0, <2>3 DEF Struck, params
  <2> QED
    BY <1>0, <1>4, <1>p, <2>2, <2>9, <2>10
    DEF ScanSUB, FindInv, BruteInv, OuterInv, InnerInv, Correct,
        VerdictOK, DominantSetOK, params
<1>5. CASE ScanINC
  <2>1. ~EqReq
    BY <1>5 DEF ScanINC
  <2>2. TypeOK'
    BY <1>5, <1>0 DEF ScanINC, TypeOK, params
  <2>3. BruteInv'
    BY <1>0, <1>5, <1>a, <1>p, <2>1 DEF ScanINC, BruteInv, ScanInv, params, Given
  <2> QED
    BY <1>0, <1>5, <1>p, <2>2, <2>3
    DEF ScanINC, Struck, FindInv, ScanInv, OuterInv, InnerInv, Correct,
        VerdictOK, DominantSetOK, params
<1>6. CASE ScanUnequal
  <2>1. j \in Given /\ C(dom_ix, j) \in {"DOM", "SUB", "INC"} /\ EqReq
    BY <1>6, <1>b DEF ScanUnequal
  <2>2. TypeOK'
    BY <1>6, <1>0 DEF ScanUnequal, TypeOK, params, Return
  <2>3. \A s \in Given : s \notin Dominant
    <3> SUFFICES ASSUME NEW s \in Given, s \in Dominant PROVE FALSE
      OBVIOUS
    <3>1. /\ s = dom_ix \/ C(s, dom_ix) = "EQ"
          /\ s = j \/ C(s, j) = "EQ"
      BY <1>a, <2>1, DominantDef
    <3> QED
      BY <1>a, <2>1, <3>1, SlotCmp
  <2>4. ~Consistent
    BY <1>a, <2>3 DEF Consistent, Dominant
  <2> QED
    BY <1>0, <1>6, <1>p, <2>2, <2>4
    DEF ScanUnequal, Return, Struck, FindInv, ScanInv, BruteInv, OuterInv,
        InnerInv, Correct, VerdictOK, DominantSetOK, params
<1>7. CASE ScanEnd
  <2>1. TypeOK'
    BY <1>7, <1>0 DEF ScanEnd, TypeOK, params, Return
  <2>2. \A s \in Slots : s < j
    BY <1>7, <1>a, VSGAssumption DEF ScanEnd, Slots
  <2>3. \A s \in Given : s # dom_ix =>
          IF vvp[s] = NULL THEN C(dom_ix, s) = "DOM" /\ ~EqReq
                           ELSE C(dom_ix, s) = "EQ"
    BY <1>0, <2>2 DEF ScanInv, Given
  <2>4. dom_ix \in Dominant
    BY <1>a, <2>3, DominantDef
  <2>5. \A s \in Given : vvp[s] # NULL => s \in Dominant
    <3> SUFFICES ASSUME NEW s \in Given, vvp[s] # NULL, s # dom_ix,
                        NEW t \in Given, t # s
                 PROVE  C(s, t) = "EQ" \/ (~EqReq /\ C(s, t) = "DOM")
      BY <2>4, DominantDef
    <3>1. C(s, dom_ix) = "EQ"
      BY <1>a, <2>3, SlotCmp
    <3> QED
      BY <1>a, <2>3, <3>1, SlotCmp
  <2>6. \A s \in Given : vvp[s] = NULL => s \notin Dominant
    <3> SUFFICES ASSUME NEW s \in Given, vvp[s] = NULL
                 PROVE  s \notin Dominant
      OBVIOUS
    <3>1. C(s, dom_ix) = "SUB" /\ s # dom_ix
      BY <1>a, <2>3, SlotCmp
    <3> QED
      BY <1>a, <3>1, DominantDef
  <2>7. Dominant = {s \in Slots : vvp[s] # NULL}
    BY <2>5, <2>6 DEF Dominant, Given, Struck
  <2>8. vvp = [s \in Slots |-> IF s \in Dominant THEN vvs[s] ELSE NULL]
    BY <2>7 DEF Struck, TypeOK
  <2>9. HowMany = Cardinality(Dominant)
    <3>1. {s \in Slots : s < j /\ vvp[s] # NULL} = Dominant
      BY <2>2, <2>7
    <3> QED
      BY <1>0, <3>1 DEF ScanInv
  <2>10. Correct'
    BY <1>7, <1>p, <1>0, <2>4, <2>8, <2>9
    DEF ScanEnd, Return, Correct, VerdictOK, DominantSetOK, Consistent, params
  <2> QED
    BY <1>0, <1>7, <2>1, <2>10
    DEF ScanEnd, Return, Struck, FindInv, ScanInv, BruteInv, OuterInv,
        InnerInv, params
<1> QED
  BY <1>1, <1>2, <1>3, <1>4, <1>5, <1>6, <1>7 DEF Scan

\* A vector that is strictly dominated by another one is not dominant.
LEMMA BeatenNotDominant ==
    ASSUME TypeOK, NEW s \in Given, NEW t \in Given, C(s, t) \in {"SUB", "INC"},
           s # t
    PROVE  s \notin Dominant
  BY DominantDef

\* The brute-force pass preserves the invariant.
LEMMA BruteStep == ASSUME IInv, Brute PROVE IInv'
<1> USE DEF IInv
<1>0. UNCHANGED params /\ pc \in {"bfind", "outer", "inner"}
  BY DEF Brute, BruteFind, OuterNull, OuterStart, OuterEnd, InnerSkip, InnerEQ,
         InnerDOM, InnerSUB, InnerINC, InnerEnd, InnerCmp
<1>p. /\ Given' = Given
      /\ Dominant' = Dominant
      /\ Consistent' = Consistent
      /\ \A s, t : C(s, t)' = C(s, t)
  BY <1>0, ParamsFixed
<1>a. /\ Given \subseteq Slots /\ Slots \subseteq Nat
      /\ i \in Nat /\ j \in Nat /\ ~EqReq
      /\ Given # {}
  BY <1>0, VSGAssumption DEF TypeOK, BruteInv, Given, Slots
<1>d. \A s \in Given : vvp[s] = NULL =>
        \E t \in Given : vvp[t] # NULL /\ C(t, s) = "DOM"
  BY <1>0 DEF BruteInv
<1>e. \A s \in Given : vvp[s] = NULL => s \notin Dominant
  <2> SUFFICES ASSUME NEW s \in Given, vvp[s] = NULL PROVE s \notin Dominant
    OBVIOUS
  <2>1. PICK t \in Given : vvp[t] # NULL /\ C(t, s) = "DOM"
    BY <1>d
  <2>2. C(s, t) = "SUB" /\ s # t
    BY <2>1, SlotCmp
  <2> QED
    BY <2>2, BeatenNotDominant
<1>b. ASSUME NEW r, InnerCmp(r)
      PROVE  /\ i \in Given /\ j \in Given /\ i # j /\ C(i, j) = r
             /\ vvp[i] # NULL /\ vvp[j] # NULL /\ pc = "inner"
             /\ j \in Slots /\ i \in Slots
  BY <1>0, <1>a, <1>b, VSGAssumption
  DEF InnerCmp, InnerInv, Given, C, TypeOK, Slots, Struck
<1>1. CASE BruteFind
  <2>1. PICK f \in Slots : IsFirst(f) /\ i' = f
    BY <1>1 DEF BruteFind
  <2>2. TypeOK'
    BY <1>1, <1>0, <2>1, VSGAssumption DEF BruteFind, TypeOK, params, Slots
  <2>3. \A s \in Given : s < f => vvp[s] = NULL
    BY <1>a, <2>1 DEF IsFirst, Present
  <2>4. OuterInv'
    BY <1>p, <1>e, <2>1, <2>3 DEF OuterInv
  <2>5. BruteInv'
    BY <1>0, <1>1, <1>p DEF BruteFind, BruteInv, params
  <2> QED
    BY <1>0, <1>1, <2>2, <2>4, <2>5
    DEF BruteFind, Struck, FindInv, ScanInv, InnerInv, Correct, VerdictOK,
        DominantSetOK, params
<1>2. CASE OuterNull
  <2>1. TypeOK'
    BY <1>2, <1>0, VSGAssumption DEF OuterNull, TypeOK, params
  <2>2. OuterInv'
    BY <1>0, <1>2, <1>a, <1>p, <1>e DEF OuterNull, OuterInv
  <2>3. BruteInv'
    BY <1>0, <1>2, <1>p DEF OuterNull, BruteInv, params
  <2> QED
    BY <1>0, <1>2, <2>1, <2>2, <2>3
    DEF OuterNull, Struck, FindInv, ScanInv, InnerInv, Correct, VerdictOK,
        DominantSetOK, params
<1>3. CASE OuterStart
  <2>1. TypeOK'
    BY <1>3, <1>0, VSGAssumption DEF OuterStart, TypeOK, params
  <2>2. i \in Slots /\ i \in Given
    BY <1>3, <1>a, VSGAssumption DEF OuterStart, Slots, Given, Struck
  <2>3. {s \in Slots : vvp[s] # NULL /\ (s = i \/ s < 0)} = {i}
    BY <1>3, <2>2, VSGAssumption DEF OuterStart, Slots
  <2>4. Cardinality({i}) = 1
    BY FS_Singleton
  <2>5. InnerInv'
    <3>1. j' = 0 /\ i' = i /\ vvp' = vvp /\ HowMany' = 1 /\ vvp[i] # NULL
      BY <1>3 DEF OuterStart
    <3>2. HowMany' = Cardinality({s \in Slots : vvp'[s] # NULL /\ (s = i' \/ s < j')})
      BY <2>3, <2>4, <3>1
    <3>3. \A s \in Given' : ~(s < j')
      BY <1>a, <1>p, <3>1
    <3> QED
      BY <1>p, <2>2, <3>1, <3>2, <3>3 DEF InnerInv
  <2>6. BruteInv' /\ OuterInv'
    BY <1>0, <1>3, <1>p DEF OuterStart, BruteInv, OuterInv, params
  <2> QED
    BY <1>0, <1>3, <2>1, <2>5, <2>6
    DEF OuterStart, Struck, FindInv, ScanInv, Correct, VerdictOK,
        DominantSetOK, params
<1>4. CASE OuterEnd
  <2>1. TypeOK'
    BY <1>4, <1>0 DEF OuterEnd, TypeOK, params, Return
  <2>2. \A s \in Given : s < i
    BY <1>4, <1>a, VSGAssumption DEF OuterEnd, Slots
  <2>3. ~Consistent
    BY <1>0, <1>4, <1>a, <2>2 DEF OuterEnd, OuterInv, Consistent, Dominant
  <2> QED
    BY <1>0, <1>4, <1>p, <2>1, <2>3
    DEF OuterEnd, Return, Struck, FindInv, ScanInv, BruteInv, OuterInv,
        InnerInv, Correct, VerdictOK, DominantSetOK, params
<1>5. CASE InnerSkip
  <2>1. TypeOK'
    BY <1>5, <1>0, VSGAssumption DEF InnerSkip, TypeOK, params
  <2>2. {s \in Slots : vvp[s] # NULL /\ (s = i \/ s < j + 1)} =
          {s \in Slots : vvp[s] # NULL /\ (s = i \/ s < j)}
    BY <1>5, <1>a, VSGAssumption DEF InnerSkip, Slots
  <2>3. InnerInv'
    <3>1. j' = j + 1 /\ i' = i /\ vvp' = vvp /\ HowMany' = HowMany /\ vvs' = vvs
          /\ IgnoreInc' = IgnoreInc /\ pc = "inner"
      BY <1>0, <1>5 DEF InnerSkip, params
    <3>2. HowMany' = Cardinality({s \in Slots : vvp'[s] # NULL /\ (s = i' \/ s < j')})
      BY <2>2, <3>1 DEF InnerInv
    <3>3. \A s \in Given' : s < j' /\ s # i' /\ vvp'[s] # NULL => C(i, s)' = "EQ"
      BY <1>5, <1>a, <1>p, <3>1 DEF InnerSkip, InnerInv, C
    <3> QED
      BY <1>p, <3>1, <3>2, <3>3 DEF InnerInv
  <2>4. BruteInv' /\ OuterInv'
    BY <1>0, <1>5, <1>p DEF InnerSkip, BruteInv, OuterInv, params
  <2> QED
    BY <1>0, <1>5, <2>1, <2>3, <2>4
    DEF InnerSkip, Struck, FindInv, ScanInv, Correct, VerdictOK,
        DominantSetOK, params
<1>6. CASE InnerEQ
  <2>0. /\ i \in Given /\ j \in Given /\ i # j /\ C(i, j) = "EQ"
        /\ vvp[j] # NULL /\ pc = "inner" /\ j \in Slots
    BY <1>6, <1>b DEF InnerEQ
  <2>1. TypeOK'
    BY <1>6, <1>0, <2>0, VSGAssumption DEF InnerEQ, TypeOK, params, Slots
  <2> DEFINE S == {s \in Slots : vvp[s] # NULL /\ (s = i \/ s < j)}
  <2>2. {s \in Slots : vvp[s] # NULL /\ (s = i \/ s < j + 1)} = S \cup {j}
    BY <1>a, <2>0, VSGAssumption DEF Slots
  <2>3. IsFiniteSet(S) /\ j \notin S
    BY <1>a, <2>0, SlotsFinite
  <2>4. Cardinality(S \cup {j}) = HowMany + 1
    BY <2>0, <2>3, FS_AddElement DEF InnerInv
  <2>5. InnerInv'
    <3>1. j' = j + 1 /\ i' = i /\ vvp' = vvp /\ HowMany' = HowMany + 1
      BY <1>6 DEF InnerEQ
    <3>2. HowMany' = Cardinality({s \in Slots : vvp'[s] # NULL /\ (s = i' \/ s < j')})
      BY <2>2, <2>4, <3>1
    <3>3. \A s \in Given' : s < j' /\ s # i' /\ vvp'[s] # NULL => C(i, s)' = "EQ"
      BY <1>0, <1>a, <1>p, <2>0, <3>1 DEF InnerInv, C, params
    <3> QED
      BY <1>p, <2>0, <3>1, <3>2, <3>3 DEF InnerInv
  <2>6. BruteInv' /\ OuterInv'
    BY <1>0, <1>6, <1>p, <2>0 DEF InnerEQ, BruteInv, OuterInv, params
  <2> QED
    BY <1>0, <1>6, <2>0, <2>1, <2>5, <2>6
    DEF InnerEQ, Struck, FindInv, ScanInv, Correct, VerdictOK,
        DominantSetOK, params
<1>7. CASE InnerDOM
  <2>0. /\ i \in Given /\ j \in Given /\ i # j /\ C(i, j) = "DOM"
        /\ vvp[i] # NULL /\ pc = "inner" /\ j \in Slots /\ i \in Slots
    BY <1>7, <1>b DEF InnerDOM
  <2>1. TypeOK'
    BY <1>7, <1>0, <2>0, VSGAssumption DEF InnerDOM, TypeOK, params, Slots
  <2>2. \A s \in Slots : vvp'[s] = IF s = j THEN NULL ELSE vvp[s]
    BY <1>7 DEF InnerDOM, TypeOK
  <2>3. {s \in Slots : vvp'[s] # NULL /\ (s = i \/ s < j + 1)} =
          {s \in Slots : vvp[s] # NULL /\ (s = i \/ s < j)}
    BY <1>a, <2>0, <2>2, VSGAssumption DEF Slots
  <2>4. InnerInv'
    <3>1. j' = j + 1 /\ i' = i /\ HowMany' = HowMany
      BY <1>7 DEF InnerDOM
    <3>2. HowMany' = Cardinality({s \in Slots : vvp'[s] # NULL /\ (s = i' \/ s < j')})
      BY <2>0, <2>3, <3>1 DEF InnerInv
    <3>3. \A s \in Given' : s < j' /\ s # i' /\ vvp'[s] # NULL => C(i, s)' = "EQ"
      BY <1>0, <1>a, <1>p, <2>0, <2>2, <3>1 DEF InnerInv, C, params
    <3> QED
      BY <1>p, <2>0, <2>2, <3>1, <3>2, <3>3 DEF InnerInv
  <2>5. \A s \in Given : vvp'[s] = NULL =>
          \E t \in Given : vvp'[t] # NULL /\ C(t, s) = "DOM"
    <3> SUFFICES ASSUME NEW s \in Given, vvp'[s] = NULL
                 PROVE  \E t \in Given : vvp'[t] # NULL /\ C(t, s) = "DOM"
      OBVIOUS
    <3>1. CASE s = j
      BY <2>0, <2>2, <3>1
    <3>2. CASE s # j
      <4>1. PICK t \in Given : vvp[t] # NULL /\ C(t, s) = "DOM"
        BY <1>a, <1>d, <2>2, <3>2
      <4>2. CASE t = j
        BY <2>0, <2>2, <4>1, <4>2, SlotCmp
      <4>3. CASE t # j
        BY <1>a, <2>2, <4>1, <4>3
      <4> QED
        BY <4>2, <4>3
    <3> QED
      BY <3>1, <3>2
  <2>6. BruteInv'
    BY <1>0, <1>a, <1>p, <2>5 DEF BruteInv, params
  <2>7. OuterInv' /\ Struck'
    BY <1>0, <1>7, <1>p, <2>0, <2>2 DEF InnerDOM, OuterInv, Struck, params
  <2> QED
    BY <1>0, <1>7, <2>0, <2>1, <2>4, <2>6, <2>7
    DEF InnerDOM, FindInv, ScanInv, Correct, VerdictOK, DominantSetOK, params
<1>8. CASE InnerSUB
  <2>0. /\ i \in Given /\ j \in Given /\ i # j /\ C(i, j) = "SUB"
        /\ vvp[j] # NULL /\ pc = "inner" /\ j \in Slots /\ i \in Slots
    BY <1>8, <1>b DEF InnerSUB
  <2>1. TypeOK'
    BY <1>8, <1>0, <2>0, VSGAssumption DEF InnerSUB, TypeOK, params, Slots
  <2>2. \A s \in Slots : vvp'[s] = IF s = i THEN NULL ELSE vvp[s]
    BY <1>8 DEF InnerSUB, TypeOK
  <2>3. C(j, i) = "DOM"
    BY <2>0, SlotCmp
  <2>5. \A s \in Given : vvp'[s] = NULL =>
          \E t \in Given : vvp'[t] # NULL /\ C(t, s) = "DOM"
    <3> SUFFICES ASSUME NEW s \in Given, vvp'[s] = NULL
                 PROVE  \E t \in Given : vvp'[t] # NULL /\ C(t, s) = "DOM"
      OBVIOUS
    <3>1. CASE s = i
      BY <2>0, <2>2, <2>3, <3>1
    <3>2. CASE s # i
      <4>1. PICK t \in Given : vvp[t] # NULL /\ C(t, s) = "DOM"
        BY <1>a, <1>d, <2>2, <3>2
      <4>2. CASE t = i
        BY <2>0, <2>2, <2>3, <4>1, <4>2, SlotCmp
      <4>3. CASE t # i
        BY <1>a, <2>2, <4>1, <4>3
      <4> QED
        BY <4>2, <4>3
    <3> QED
      BY <3>1, <3>2
  <2>6. BruteInv'
    BY <1>0, <1>a, <1>p, <2>5 DEF BruteInv, params
  <2>7. i \notin Dominant
    BY <2>0, BeatenNotDominant
  <2>8. OuterInv' /\ Struck'
    BY <1>0, <1>8, <1>a, <1>p, <2>0, <2>2, <2>7
    DEF InnerSUB, OuterInv, Struck, params
  <2> QED
    BY <1>0, <1>8, <2>0, <2>1, <2>6, <2>8
    DEF InnerSUB, FindInv, ScanInv, InnerInv, Correct, VerdictOK,
        DominantSetOK, params
<1>9. CASE InnerINC
  <2>0. /\ i \in Given /\ j \in Given /\ i # j /\ C(i, j) = "INC"
        /\ pc = "inner" /\ i \in Slots
    BY <1>9, <1>b DEF InnerINC
  <2>1. TypeOK'
    BY <1>9, <1>0, <2>0, VSGAssumption DEF InnerINC, TypeOK, params, Slots
  <2>2. i \notin Dominant
    BY <2>0, BeatenNotDominant
  <2>3. OuterInv'
    BY <1>0, <1>9, <1>a, <1>p, <2>0, <2>2 DEF InnerINC, OuterInv
  <2>4. BruteInv'
    BY <1>0, <1>9, <1>p, <2>0 DEF InnerINC, BruteInv, params
  <2> QED
    BY <1>0, <1>9, <2>0, <2>1, <2>3, <2>4
    DEF InnerINC, Struck, FindInv, ScanInv, InnerInv, Correct, VerdictOK,
        DominantSetOK, params
<1>10. CASE InnerEnd
  <2>1. TypeOK'
    BY <1>10, <1>0 DEF InnerEnd, TypeOK, params, Return
  <2>2. pc = "inner" /\ i \in Given /\ vvp[i] # NULL
    BY <1>10 DEF InnerEnd, InnerInv
  <2>3. \A s \in Slots : s < j
    BY <1>10, <1>a, VSGAssumption DEF InnerEnd, Slots
  <2>4. \A s \in Given : s # i /\ vvp[s] # NULL => C(i, s) = "EQ"
    BY <1>a, <2>2, <2>3 DEF InnerInv
  <2>5. \A s \in Given : vvp[s] = NULL => C(i, s) = "DOM"
    <3> SUFFICES ASSUME NEW s \in Given, vvp[s] = NULL PROVE C(i, s) = "DOM"
      OBVIOUS
    <3>1. PICK t \in Given : vvp[t] # NULL /\ C(t, s) = "DOM"
      BY <1>d
    <3> QED
      BY <2>2, <2>4, <3>1, SlotCmp
  <2>6. \A s \in Given : vvp[s] # NULL => s \in Dominant
    <3> SUFFICES ASSUME NEW s \in Given, vvp[s] # NULL,
                        NEW t \in Given, t # s
                 PROVE  C(s, t) \in {"EQ", "DOM"}
      BY <1>a, DominantDef
    <3>1. s = i \/ C(s, i) = "EQ"
      BY <2>2, <2>4, SlotCmp
    <3>2. t = i \/ C(i, t) \in {"EQ", "DOM"}
      BY <2>4, <2>5
    <3> QED
      BY <2>2, <3>1, <3>2, SlotCmp
  <2>7. Dominant = {s \in Slots : vvp[s] # NULL}
    BY <1>e, <2>6 DEF Dominant, Given, Struck
  <2>8. vvp = [s \in Slots |-> IF s \in Dominant THEN vvs[s] ELSE NULL]
    BY <2>7 DEF Struck, TypeOK
  <2>9. HowMany = Cardinality(Dominant)
    <3>1. {s \in Slots : vvp[s] # NULL /\ (s = i \/ s < j)} = Dominant
      BY <2>3, <2>7
    <3> QED
      BY <2>2, <3>1 DEF InnerInv
  <2>10. Correct'
    BY <1>0, <1>10, <1>p, <2>2, <2>6, <2>8, <2>9
    DEF InnerEnd, Return, Correct, VerdictOK, DominantSetOK, Consistent, params
  <2> QED
    BY <1>0, <1>10, <2>1, <2>10
    DEF InnerEnd, Return, Struck, FindInv, ScanInv, BruteInv, OuterInv,
        InnerInv, params
<1> QED
  BY <1>1, <1>2, <1>3, <1>4, <1>5, <1>6, <1>7, <1>8, <1>9, <1>10 DEF Brute

\* The two ways out of the search for the first vector.
LEMMA FindStep == ASSUME IInv, EmptyInput \/ FindFirst PROVE IInv'
<1> USE DEF IInv
<1>0. UNCHANGED params /\ pc = "find" /\ vvp = vvs
  BY DEF EmptyInput, FindFirst, FindInv
<1>p. /\ Given' = Given
      /\ Dominant' = Dominant
      /\ Consistent' = Consistent
      /\ \A s, t : C(s, t)' = C(s, t)
  BY <1>0, ParamsFixed
<1>1. CASE EmptyInput
  <2>1. TypeOK'
    BY <1>0, <1>1 DEF EmptyInput, TypeOK, params, Return
  <2>2. Given = {} /\ Dominant = {}
    BY <1>0, <1>1 DEF EmptyInput, Present, Given, Dominant
  <2>3. vvp = [s \in Slots |-> IF s \in Dominant THEN vvs[s] ELSE NULL]
    BY <1>0, <2>2 DEF Given, TypeOK
  <2>4. Cardinality(Dominant) = 0
    BY <2>2, FS_EmptySet
  <2>5. Correct'
    BY <1>0, <1>1, <1>p, <2>2, <2>3, <2>4
    DEF EmptyInput, Return, Correct, VerdictOK, DominantSetOK, Consistent, params
  <2> QED
    BY <1>0, <1>1, <2>1, <2>5
    DEF EmptyInput, Return, Struck, FindInv, ScanInv, BruteInv, OuterInv,
        InnerInv, params
<1>2. CASE FindFirst
  <2>1. PICK f \in Slots : IsFirst(f) /\ dom_ix' = f /\ j' = f + 1
    BY <1>2 DEF FindFirst
  <2>2. TypeOK'
    BY <1>0, <1>2, <2>1, VSGAssumption DEF FindFirst, TypeOK, params, Slots
  <2>3. f \in Nat /\ vvp[f] # NULL /\ Slots \subseteq Nat
    BY <2>1, VSGAssumption DEF IsFirst, Present, Slots
  <2>4. \A s \in Slots : s < f => vvp[s] = NULL
    BY <2>1, <2>3 DEF IsFirst, Present
  <2>5. {s \in Slots : s < f + 1 /\ vvp[s] # NULL} = {f}
    BY <2>1, <2>3, <2>4, VSGAssumption DEF Slots
  <2>6. Cardinality({f}) = 1
    BY FS_Singleton
  <2>7. vvp' = vvp /\ vvs' = vvs /\ HowMany' = 1
    BY <1>0, <1>2 DEF FindFirst, params
  <2>8. ScanInv'
    <3>1. HowMany' = Cardinality({s \in Slots : s < j' /\ vvp'[s] # NULL})
      BY <2>1, <2>5, <2>6, <2>7
    <3>2. \A s \in Given' : ~(s < j' /\ s # dom_ix')
      <4>1. \A s \in Given : s \in Slots /\ s \in Nat /\ ~(s < f)
        BY <1>0, <2>3, <2>4 DEF Given
      <4> QED
        BY <1>p, <2>1, <2>3, <4>1
    <3> QED
      <4>1. /\ dom_ix' < j'
            /\ vvp'[dom_ix'] # NULL
            /\ \A s \in Slots : s >= j' => vvp'[s] = vvs'[s]
            /\ \A s \in Slots : s < dom_ix' => vvp'[s] = NULL
        BY <1>0, <2>1, <2>3, <2>4, <2>7
      <4> QED
        BY <3>1, <3>2, <4>1 DEF ScanInv
  <2> QED
    BY <1>0, <1>2, <2>2, <2>8
    DEF FindFirst, Struck, FindInv, BruteInv, OuterInv, InnerInv, Correct,
        VerdictOK, DominantSetOK, params
<1> QED
  BY <1>1, <1>2

\* IInv is an inductive invariant of VV_Check.
LEMMA StepIInv == IInv /\ [Next]_vars => IInv'
<1> SUFFICES ASSUME IInv, [Next]_vars PROVE IInv'
  OBVIOUS
<1>1. CASE EmptyInput \/ FindFirst
  BY <1>1, FindStep
<1>2. CASE Scan
  BY <1>2, ScanStep
<1>3. CASE Brute
  BY <1>3, BruteStep
<1>4. CASE UNCHANGED vars
  <2>1. UNCHANGED params
    BY <1>4 DEF vars, params
  <2>2. /\ Given' = Given
        /\ Dominant' = Dominant
        /\ Consistent' = Consistent
        /\ \A s, t : C(s, t)' = C(s, t)
    BY <2>1, ParamsFixed
  <2> QED
    BY <1>4, <2>2
    DEF vars, IInv, TypeOK, Struck, FindInv, ScanInv, BruteInv, OuterInv,
        InnerInv, Correct, VerdictOK, DominantSetOK
<1> QED
  BY <1>1, <1>2, <1>3, <1>4 DEF Next

\* The locals of VV_Check keep their types.
THEOREM VVCheckTypeCorrect == Spec => []TypeOK
<1>1. IInv => TypeOK
  BY DEF IInv
<1> QED
  BY <1>1, InitIInv, StepIInv, PTL DEF Spec

\* For every VSG size and every array of vectors, VV_Check answers 1
\* exactly when the input has a dominant vector.
THEOREM VVCheckVerdict == Spec => []VerdictOK
<1>1. IInv => VerdictOK
  BY DEF IInv, Correct
<1> QED
  BY <1>1, InitIInv, StepIInv, PTL DEF Spec

\* For every VSG size and every array of vectors, a consistent answer
\* comes with exactly the dominant vectors and their number.
THEOREM VVCheckDominantSet == Spec => []DominantSetOK
<1>1. IInv => DominantSetOK
  BY DEF IInv, Correct
<1> QED
  BY <1>1, InitIInv, StepIInv, PTL DEF Spec

=============================================================================
