------------------------- MODULE VersionVectors -------------------------
(***************************************************************************)
(* Version vectors as coda-src/vv/inconsist.cc computes with them.  A      *)
(* ViceVersionVector has one update count for every member of the volume   *)
(* storage group (VSG), the StoreId of the latest update and a word of     *)
(* flags; of the flags only VV_INCON takes part in comparisons, so it is   *)
(* the only one kept.                                                      *)
(***************************************************************************)
EXTENDS Integers

CONSTANTS
    VSG_MEMBERS,   \* slots of a version vector (8 in the code)
    StoreIds,      \* update identifiers <<HostId, Uniquifier>>
    NullSid        \* the all-zero StoreId

ASSUME VSGAssumption == VSG_MEMBERS \in Nat \ {0}
ASSUME SidAssumption == NullSid \in StoreIds

Slots == 0 .. VSG_MEMBERS - 1

Versions == [Slots -> Int]

VV == [Versions : Versions, StoreId : StoreIds, Incon : BOOLEAN]

IsIncon(v) == v.Incon

AllGeq(a, b) == \A s \in Slots : a.Versions[s] >= b.Versions[s]

(***************************************************************************)
(* Four possible outcomes of a comparison: equal, dominates, is            *)
(* submissive to, inconsistent.                                            *)
(***************************************************************************)
VV_Cmp_Result == {"EQ", "DOM", "SUB", "INC"}

VV_Cmp_IgnoreInc(a, b) ==
    IF AllGeq(a, b)
    THEN IF AllGeq(b, a) THEN "EQ" ELSE "DOM"
    ELSE IF AllGeq(b, a) THEN "SUB" ELSE "INC"

VV_Cmp(a, b) ==
    IF IsIncon(a) \/ IsIncon(b) THEN "INC" ELSE VV_Cmp_IgnoreInc(a, b)

AddVVs(v, n) == [v EXCEPT !.Versions = [s \in Slots |-> v.Versions[s] + n[s]]]

\* The larger count of each slot.
MaxVersions(a, b) ==
    [s \in Slots |-> IF a.Versions[s] >= b.Versions[s]
                     THEN a.Versions[s] ELSE b.Versions[s]]

=============================================================================
