------------------------------ MODULE MCTaskq -------------------------------
(***************************************************************************)
(* An instance of Taskq for TLC: a queue with two threads and the kernel    *)
(* lock, or with one thread, without it and possibly early.                 *)
(***************************************************************************)
EXTENDS Taskq

TwoOrMpsafe == {[n |-> 2, mpsafe |-> FALSE, early |-> FALSE],
                [n |-> 1, mpsafe |-> TRUE, early |-> TRUE]}
=============================================================================
