-------------------------- MODULE MCSpinLocksLive ---------------------------
(***************************************************************************)
(* SpinLocks with MaxIntr interrupts on each processor.  With MaxDepth = 1  *)
(* the fairness of SpinLocks then suffices for every lock to be released.   *)
(***************************************************************************)
EXTENDS SpinLocks

CONSTANT MaxIntr

VARIABLE intrs  \* the interrupts each processor has taken

FiniteInit == Init /\ intrs = [c \in Cpu |-> 0]

Interrupted(c) == \E l \in Intr : pc[c][l] = "off" /\ pc'[c][l] # "off"

FiniteNext ==
    /\ Next
    /\ intrs' = [c \in Cpu |-> IF Interrupted(c) THEN intrs[c] + 1 ELSE intrs[c]]
    /\ \A c \in Cpu : intrs'[c] <= MaxIntr

FiniteSpec == FiniteInit /\ [][FiniteNext]_<<vars, intrs>> /\ Fairness
=============================================================================
