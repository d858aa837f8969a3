------------------------------ MODULE RVMStore ------------------------------
(***************************************************************************)
(* What RVM promises its clients about a crash: the recoverable memory      *)
(* comes back as the effect of a prefix of the committed transactions, and  *)
(* the prefix contains every transaction a completed flush had covered.     *)
(* A transaction is the function from the ranges it set to their values.    *)
(***************************************************************************)
EXTENDS Naturals, Sequences

CONSTANT Trans      \* the transactions a client may commit

VARIABLES hist,     \* the committed transactions, in commit order
          flushed   \* how many of them a flush has made permanent

Init == hist = <<>> /\ flushed = 0

Commit == /\ \E t \in Trans : hist' = Append(hist, t)
          /\ UNCHANGED flushed

Flush == /\ flushed' \in flushed .. Len(hist)
         /\ UNCHANGED hist

\* A crash and the recovery that follows it: a prefix survives.
Recover == \E n \in flushed .. Len(hist) :
              /\ hist' = SubSeq(hist, 1, n)
              /\ flushed' = n

Next == Commit \/ Flush \/ Recover

Spec == Init /\ [][Next]_<<hist, flushed>>
=============================================================================
