---------------------------- MODULE MCSpinLocks -----------------------------
(***************************************************************************)
(* Instances of SpinLocks for TLC.  Processors are interchangeable.         *)
(***************************************************************************)
EXTENDS SpinLocks, TLC

Cpus == Permutations(Cpu)
=============================================================================
