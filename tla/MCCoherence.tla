----------------------------- MODULE MCCoherence ------------------------------
(* Small instances of the cache coherence protocol for TLC. *)
EXTENDS Coherence, TLC

Symmetry == Permutations(Files)
===============================================================================
