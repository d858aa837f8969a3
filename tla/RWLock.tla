------------------------------- MODULE RWLock -------------------------------
(***************************************************************************)
(* What a read/write lock promises (subprojects/lwp/docs/lock.md): any      *)
(* number of readers, or a single writer and no readers.                    *)
(***************************************************************************)
EXTENDS FiniteSets

CONSTANT Threads

VARIABLES readers, writers

RWInit == readers = {} /\ writers = {}

AcquireRead(t) ==
  /\ writers = {} /\ t \notin readers
  /\ readers' = readers \cup {t} /\ UNCHANGED writers

AcquireWrite(t) ==
  /\ readers = {} /\ writers = {}
  /\ writers' = {t} /\ UNCHANGED readers

Release(t) ==
  /\ t \in readers \cup writers
  /\ readers' = readers \ {t} /\ writers' = writers \ {t}

RWNext == \E t \in Threads : AcquireRead(t) \/ AcquireWrite(t) \/ Release(t)

RWSpec == RWInit /\ [][RWNext]_<<readers, writers>>
==============================================================================
