------------------------------ MODULE MCRWLock ------------------------------
(***************************************************************************)
(* Instances of RWLock for TLC.  Threads are interchangeable: no operation  *)
(* compares two of them other than for equality.                            *)
(***************************************************************************)
EXTENDS RWLock, TLC

\* What callers pass besides the operation.
SleepFlags == {{}, {"RW_INTR"}, {"RW_NOSLEEP"}}
FailFlags == {{"RW_INTR"}, {"RW_SLEEPFAIL"}}
IntrFlags == {{"RW_INTR"}}

\* A bound of the run with signals: an INT and a KILL are not pending at once.
InterruptOrKill ==
    \A p, q \in Proc : ~("INT" \in p_siglist[p] /\ "KILL" \in p_siglist[q])

Threads == Permutations(Proc)
=============================================================================
