---------------------------- MODULE MCVVCheck ----------------------------
(***************************************************************************)
(* VVCheck on every array of up to three vectors whose counts are 0 or 1,  *)
(* with and without the inconsistency flag.  Two counts are enough for     *)
(* each pair to be equal, ordered or incomparable, and three slots are the *)
(* fewest that let two incomparable vectors be covered by a third.         *)
(***************************************************************************)
EXTENDS VVCheck

MCVectors ==
    {[Versions |-> f, StoreId |-> NullSid, Incon |-> b] :
        f \in [Slots -> 0 .. 1], b \in BOOLEAN}

=============================================================================
