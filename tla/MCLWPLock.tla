------------------------------ MODULE MCLWPLock ------------------------------
(* Small instances of LWPLock. *)
EXTENDS LWPLock
==============================================================================
