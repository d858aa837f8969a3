----------------------------- MODULE VVCheck -----------------------------
(***************************************************************************)
(* VV_Check and VV_Check_IgnoreInc (coda-src/vv/inconsist.cc): are the     *)
(* version vectors that the replicas returned consistent, and which of     *)
(* them are dominant?  The two passes over the array are modelled one      *)
(* iteration per step, with the array vvp edited in place.  When the       *)
(* linear scan meets two incomparable vectors it hands the array, with     *)
(* the entries it has already struck out, to VV_BruteForceCheck.           *)
(***************************************************************************)
EXTENDS VersionVectors, FiniteSets

CONSTANTS
    Vectors,   \* the version vectors the replicas may hold
    NULL       \* a null pointer in vvp

ASSUME VectorsAssumption == Vectors \subseteq VV
ASSUME NullAssumption == NULL \notin VV

VARIABLES
    vvs,         \* the array as the caller passed it (never changes)
    EqReq,       \* caller's flag: treat dominance as inconsistency
    IgnoreInc,   \* caller's flag: compare with VV_Cmp_IgnoreInc
    vvp,         \* the IN/OUT array
    pc,
    dom_ix,      \* scan: index of the current dominator
    i,           \* brute force: the candidate
    j,           \* index compared with dom_ix or with i
    HowMany,     \* OUT: size of the dominant set
    ret          \* OUT: 1 consistent, 0 inconsistent

params == <<vvs, EqReq, IgnoreInc>>
vars == <<vvs, EqReq, IgnoreInc, vvp, pc, dom_ix, i, j, HowMany, ret>>

Cmp(ignore, a, b) ==
    IF ignore THEN VV_Cmp_IgnoreInc(a, b) ELSE VV_Cmp(a, b)

Present == {s \in Slots : vvp[s] # NULL}

IsFirst(s) == s \in Present /\ \A t \in Present : s <= t

Return(r) ==
    /\ pc' = "done"
    /\ ret' = r

Init ==
    /\ vvs \in [Slots -> Vectors \cup {NULL}]
    /\ EqReq \in BOOLEAN
    /\ IgnoreInc \in BOOLEAN
    /\ vvp = vvs
    /\ pc = "find"
    /\ dom_ix = 0
    /\ i = 0
    /\ j = 0
    /\ HowMany = 0
    /\ ret = 0

-----------------------------------------------------------------------------
(* VV_Check_Real: the linear scan.                                         *)

EmptyInput ==
    /\ pc = "find"
    /\ Present = {}
    /\ HowMany' = 0
    /\ Return(1)
    /\ UNCHANGED <<params, vvp, dom_ix, i, j>>

FindFirst ==
    /\ pc = "find"
    /\ \E s \in Slots :
         /\ IsFirst(s)
         /\ dom_ix' = s
         /\ j' = s + 1
    /\ HowMany' = 1
    /\ pc' = "scan"
    /\ UNCHANGED <<params, vvp, i, ret>>

Scanning == pc = "scan" /\ j < VSG_MEMBERS

\* Mutant: "continue" without advancing.
ScanNull_NoAdvance ==
    /\ Scanning
    /\ vvp[j] = NULL
    /\ UNCHANGED <<params, vvp, pc, dom_ix, i, j, HowMany, ret>>

ScanNull ==
    /\ Scanning
    /\ vvp[j] = NULL
    /\ j' = j + 1
    /\ UNCHANGED <<params, vvp, pc, dom_ix, i, HowMany, ret>>

ScanCmp(result) ==
    /\ Scanning
    /\ vvp[j] # NULL
    /\ Cmp(IgnoreInc, vvp[dom_ix], vvp[j]) = result

ScanEQ ==
    /\ ScanCmp("EQ")
    /\ HowMany' = HowMany + 1
    /\ j' = j + 1
    /\ UNCHANGED <<params, vvp, pc, dom_ix, i, ret>>

ScanDOM ==
    /\ ScanCmp("DOM")
    /\ ~EqReq
    /\ vvp' = [vvp EXCEPT ![j] = NULL]
    /\ j' = j + 1
    /\ UNCHANGED <<params, pc, dom_ix, i, HowMany, ret>>

\* Mutant: only the old dominator is struck out, not its equals.
ScanSUB_KeepsEquals ==
    /\ ScanCmp("SUB")
    /\ ~EqReq
    /\ vvp' = [vvp EXCEPT ![dom_ix] = NULL]
    /\ HowMany' = 1
    /\ dom_ix' = j
    /\ j' = j + 1
    /\ UNCHANGED <<params, pc, i, ret>>

ScanSUB ==
    /\ ScanCmp("SUB")
    /\ ~EqReq
    /\ vvp' = [s \in Slots |-> IF s \in dom_ix .. j - 1 THEN NULL ELSE vvp[s]]
    /\ HowMany' = 1
    /\ dom_ix' = j
    /\ j' = j + 1
    /\ UNCHANGED <<params, pc, i, ret>>

\* Mutant: no brute-force pass after an inconsistency.
ScanINC_GivesUp ==
    /\ ScanCmp("INC")
    /\ ~EqReq
    /\ Return(0)
    /\ UNCHANGED <<params, vvp, dom_ix, i, j, HowMany>>

ScanINC ==
    /\ ScanCmp("INC")
    /\ ~EqReq
    /\ pc' = "bfind"
    /\ UNCHANGED <<params, vvp, dom_ix, i, j, HowMany, ret>>

ScanUnequal ==
    /\ \E result \in {"DOM", "SUB", "INC"} : ScanCmp(result)
    /\ EqReq
    /\ Return(0)
    /\ UNCHANGED <<params, vvp, dom_ix, i, j, HowMany>>

ScanEnd ==
    /\ pc = "scan"
    /\ j >= VSG_MEMBERS
    /\ Return(1)
    /\ UNCHANGED <<params, vvp, dom_ix, i, j, HowMany>>

-----------------------------------------------------------------------------
(* VV_BruteForceCheck.  It is called only when EqReq is false and the      *)
(* array is not empty, so its own tests of the two never succeed.          *)

BruteFind ==
    /\ pc = "bfind"
    /\ \E s \in Slots : IsFirst(s) /\ i' = s
    /\ pc' = "outer"
    /\ UNCHANGED <<params, vvp, dom_ix, j, HowMany, ret>>

OuterNull ==
    /\ pc = "outer"
    /\ i < VSG_MEMBERS
    /\ vvp[i] = NULL
    /\ i' = i + 1
    /\ UNCHANGED <<params, vvp, pc, dom_ix, j, HowMany, ret>>

OuterStart ==
    /\ pc = "outer"
    /\ i < VSG_MEMBERS
    /\ vvp[i] # NULL
    /\ HowMany' = 1
    /\ j' = 0
    /\ pc' = "inner"
    /\ UNCHANGED <<params, vvp, dom_ix, i, ret>>

OuterEnd ==
    /\ pc = "outer"
    /\ i >= VSG_MEMBERS
    /\ Return(0)
    /\ UNCHANGED <<params, vvp, dom_ix, i, j, HowMany>>

InnerSkip ==
    /\ pc = "inner"
    /\ j < VSG_MEMBERS
    /\ i = j \/ vvp[j] = NULL
    /\ j' = j + 1
    /\ UNCHANGED <<params, vvp, pc, dom_ix, i, HowMany, ret>>

InnerCmp(result) ==
    /\ pc = "inner"
    /\ j < VSG_MEMBERS
    /\ i # j
    /\ vvp[j] # NULL
    /\ Cmp(IgnoreInc, vvp[i], vvp[j]) = result

InnerEQ ==
    /\ InnerCmp("EQ")
    /\ HowMany' = HowMany + 1
    /\ j' = j + 1
    /\ UNCHANGED <<params, vvp, pc, dom_ix, i, ret>>

InnerDOM ==
    /\ InnerCmp("DOM")
    /\ vvp' = [vvp EXCEPT ![j] = NULL]
    /\ j' = j + 1
    /\ UNCHANGED <<params, pc, dom_ix, i, HowMany, ret>>

InnerSUB ==
    /\ InnerCmp("SUB")
    /\ vvp' = [vvp EXCEPT ![i] = NULL]
    /\ i' = i + 1
    /\ pc' = "outer"
    /\ UNCHANGED <<params, dom_ix, j, HowMany, ret>>

InnerINC ==
    /\ InnerCmp("INC")
    /\ i' = i + 1
    /\ pc' = "outer"
    /\ UNCHANGED <<params, vvp, dom_ix, j, HowMany, ret>>

InnerEnd ==
    /\ pc = "inner"
    /\ j >= VSG_MEMBERS
    /\ Return(1)
    /\ UNCHANGED <<params, vvp, dom_ix, i, j, HowMany>>

Scan == ScanNull \/ ScanEQ \/ ScanDOM \/ ScanSUB \/ ScanINC \/ ScanUnequal
        \/ ScanEnd

Brute == BruteFind \/ OuterNull \/ OuterStart \/ OuterEnd \/ InnerSkip
         \/ InnerEQ \/ InnerDOM \/ InnerSUB \/ InnerINC \/ InnerEnd

Next == EmptyInput \/ FindFirst \/ Scan \/ Brute

Spec == Init /\ [][Next]_vars /\ WF_vars(Next)

-----------------------------------------------------------------------------
(* The reference: what the answer ought to be, from the input alone.       *)

Given == {s \in Slots : vvs[s] # NULL}

\* Replica s holds a version at least as new as the one of replica t.
Covers(s, t) ==
    \/ s = t
    \/ Cmp(IgnoreInc, vvs[s], vvs[t]) \in (IF EqReq THEN {"EQ"} ELSE {"EQ", "DOM"})

Dominant == {s \in Given : \A t \in Given : Covers(s, t)}

Consistent == Given = {} \/ Dominant # {}

\* Type invariant of VV_Check_Real's and VV_BruteForceCheck's locals.
TypeOK ==
    /\ vvs \in [Slots -> Vectors \cup {NULL}]
    /\ EqReq \in BOOLEAN
    /\ IgnoreInc \in BOOLEAN
    /\ vvp \in [Slots -> Vectors \cup {NULL}]
    /\ pc \in {"find", "scan", "bfind", "outer", "inner", "done"}
    /\ dom_ix \in Slots
    /\ i \in 0 .. VSG_MEMBERS
    /\ j \in 0 .. VSG_MEMBERS
    /\ HowMany \in Nat
    /\ ret \in {0, 1}

\* VV_Check's verdict is 1 exactly when some vector covers all the others,
\* for every order of the replicas: the dominator kept by the scan, the
\* entries struck out before the brute-force pass starts and the ones it
\* strikes out itself never lose or invent a dominant vector.
VerdictOK == pc = "done" => (ret = 1 <=> Consistent)

\* With verdict 1, vvp keeps exactly the vectors of the dominant set, in
\* their own slots, and HowMany counts them.
DominantSetOK ==
    pc = "done" /\ ret = 1 =>
        /\ vvp = [s \in Slots |-> IF s \in Dominant THEN vvs[s] ELSE NULL]
        /\ HowMany = Cardinality(Dominant)

\* Both passes come to an end.
Terminates == <>(pc = "done")

=============================================================================
