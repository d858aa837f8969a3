---------------------------- MODULE MCVolumeState ----------------------------
(* Small instances of VolumeState. *)
EXTENDS VolumeState, TLC

CONSTANTS u1, u2, a, b, f, g

\* The uid of u1 is a, that of u2 is b.
MCUidOf == [t \in Users |-> IF t = u1 THEN a ELSE b]

\* f is a child of g, whose parent is not cached.
MCParent == [x \in Fids |-> IF x = f /\ g \in Fids THEN g ELSE NoFid]

\* With both users in the model they can be exchanged, together with their uids.
Symmetry ==
  {p \in Permutations({u1, u2, a, b}) : /\ p[u1] \in {u1, u2} /\ p[u2] \in {u1, u2}
                                        /\ p[u1] = u1 <=> p[a] = a}
==============================================================================
