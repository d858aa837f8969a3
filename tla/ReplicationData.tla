-------------------------- MODULE ReplicationData ---------------------------
(***************************************************************************)
(* The records of Replication, and what servers, clients and coordinators  *)
(* compute with them: version vectors (vice/codaproc.cc, srvproc.cc), what *)
(* a client knows of a ViceReintegrate call (venus/mgrp.cc), the answers   *)
(* of a resolution (resolution/resfile.cc).                                *)
(***************************************************************************)
EXTENDS VersionVectors, FiniteSets

CONSTANT NULL

ASSUME NullAssumption == NULL \notin Slots
ASSUME SidsAreNumbers == StoreIds \subseteq Nat /\ IsFiniteSet(StoreIds)

-----------------------------------------------------------------------------
(* Version vectors at a server.                                            *)

ZeroVV == [Versions |-> [s \in Slots |-> 0], StoreId |-> NullSid, Incon |-> FALSE]

One(S) == [s \in Slots |-> IF s \in S THEN 1 ELSE 0]

SID_EQ(a, b) == a.StoreId = b.StoreId

\* Mutant: the server counts itself again.
COP2Update_Own(v, s, US) == AddVVs(v, One(US))

\* COP2Update: the slots of the others, and never the server's own.
COP2Update(v, s, US) == AddVVs(v, One(US \ {s}))

\* HandleWeakEquality: a vector with the same StoreId is raised to the client's.
HandleWeakEquality(v, w) ==
    IF SID_EQ(v, w) /\ VV_Cmp(v, w) # "EQ"
    THEN [v EXCEPT !.Versions = MaxVersions(v, w)] ELSE v

\* Mutant: the update is counted for everybody at once.
NewCOP1Update_All(v, s, u) == [AddVVs(v, One(Slots)) EXCEPT !.StoreId = u]

\* NewCOP1Update: the update is counted for this server only.
NewCOP1Update(v, s, u) == [AddVVs(v, One({s})) EXCEPT !.StoreId = u]

\* Mutant: the StoreId stays.
Forced_OldSid(v, w) == [v EXCEPT !.Versions = w.Versions]

\* The vector of a server that takes the contents of a newer version.
Forced(v, w) == [v EXCEPT !.Versions = w.Versions, !.StoreId = w.StoreId]

-----------------------------------------------------------------------------
(* What a client knows of an update it has sent.                           *)

Entry == [sid : StoreIds, UpdateSet : SUBSET Slots]

CallCodes == {"busy", "already", "inconsistent", "incompatible"}

OpType ==
    [sid : StoreIds, base : VV, todo : SUBSET Slots, UpdateSet : SUBSET Slots,
     codes : SUBSET CallCodes]

\* What the call knows of server s: that it performed the update, if the reply
\* comes back, or that it refused.
Performed(o, s, r) ==
    [o EXCEPT !.todo = @ \ {s}, !.UpdateSet = IF r THEN @ \cup {s} ELSE @]
Refused(o, s, code) == [o EXCEPT !.todo = @ \ {s}, !.codes = @ \cup {code}]

-----------------------------------------------------------------------------
(* What a coordinator has collected.                                       *)

ResType ==
    [pc : {"idle", "lock", "forcevv", "fetch", "forcefile", "mark", "unlock"},
     todo : SUBSET Slots, members : SUBSET Slots, held : SUBSET Slots,
     dead : SUBSET Slots, lockerror : BOOLEAN, VV : [Slots -> VV \cup {NULL}],
     dix : Slots \cup {NULL}, weak : BOOLEAN, inc : BOOLEAN, newvv : VV,
     file : StoreIds, err : BOOLEAN]

IdleRes == [pc |-> "idle", todo |-> {}, members |-> {}, held |-> {}, dead |-> {},
            lockerror |-> FALSE, VV |-> [s \in Slots |-> NULL], dix |-> NULL,
            weak |-> TRUE, inc |-> FALSE, newvv |-> ZeroVV, file |-> NullSid,
            err |-> FALSE]

\* Mutant: IncVVGroup does not note the first answer.
AddAnswer_NoFirst(r, s, v) == [r EXCEPT !.VV[s] = v, !.members = @ \cup {s}]

\* GetMaxVV: the maximum so far with one more vector, which may be the dominant one.
GetMaxVV(n, v, dom) ==
    [n EXCEPT !.Versions = MaxVersions(n, v),
              !.StoreId = IF dom THEN v.StoreId ELSE @]

(***************************************************************************)
(* The vector v of server s is added to the answers.  IsWeaklyEqual,       *)
(* IncVVGroup and GetMaxVV go over the answers in the order of the calls,  *)
(* so what they have found so far is kept with them.                       *)
(***************************************************************************)
AddAnswer(r, s, v) ==
    IF r.dix = NULL
    THEN [r EXCEPT !.VV = [@ EXCEPT ![s] = v], !.members = @ \cup {s}, !.dix = s,
                   !.newvv = [v EXCEPT !.Incon = FALSE]]
    ELSE LET d == r.VV[r.dix]
             dom == VV_Cmp(v, d) = "DOM"
         IN [r EXCEPT !.VV = [@ EXCEPT ![s] = v], !.members = @ \cup {s},
                      !.weak = @ /\ SID_EQ(v, d),
                      !.inc = @ \/ (VV_Cmp(v, d) = "INC" /\ ~SID_EQ(v, d)),
                      !.dix = IF dom THEN s ELSE @,
                      !.newvv = GetMaxVV(@, v, dom)]

\* The answers left after VV_Check and IsWeaklyEqual: those nothing dominates.
Undominated(r) ==
    LET A == {s \in Slots : r.VV[s] # NULL}
    IN {s \in A : \A t \in A : VV_Cmp(r.VV[t], r.VV[s]) # "DOM"}

\* CODA_ASSERT(VV_Check(&HowMany, VV, 0) || IsWeaklyEqual(VV, VSG_MEMBERS))
Assertion(r) ==
    \/ \E d \in Slots :
         r.VV[d] # NULL /\ \A s \in Slots :
            r.VV[s] # NULL => VV_Cmp(r.VV[d], r.VV[s]) \in {"EQ", "DOM"}
    \/ \A s, t \in Undominated(r) : SID_EQ(r.VV[s], r.VV[t])

\* The dominant answer, once known, has a vector, and a member of the group has
\* answered (the code's dix # -1).
Answered(r) ==
    r.pc \in {"lock", "forcevv", "fetch", "forcefile"} =>
        /\ \A s \in r.members : r.VV[s] \in VV /\ r.dix # NULL
        /\ r.dix # NULL => r.VV[r.dix] \in VV
        /\ r.pc = "fetch" => r.dix # NULL

\* The record of a server that coordinates nothing is the initial one.
IdleOK(r) == r.pc = "idle" => r = IdleRes

ResOK(f) ==
    f \in [Slots -> ResType] /\ \A k \in Slots : Answered(f[k]) /\ IdleOK(f[k])

=============================================================================
