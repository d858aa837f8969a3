------------------------------- MODULE MCViceCB -------------------------------
(* Small instances of the callback table for TLC. *)
EXTENDS ViceCB, TLC

Symmetry == Permutations(Threads) \cup Permutations(Entries)
===============================================================================
