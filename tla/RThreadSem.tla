----------------------------- MODULE RThreadSem -----------------------------
(***************************************************************************)
(* A semaphore of librthread that is not shared between processes           *)
(* (lib/librthread/rthread_sem.c).  What is done under sem->lock is one     *)
(* step; sem_post() calls __thrwakeup() under it.                           *)
(***************************************************************************)
EXTENDS RThreadRwlock

CONSTANTS MaxValue      \* bound on sem->value

ASSUME RThreadSemAssumption == MaxValue \in Nat \ {0}

VARIABLES value, waitcount

semVars == <<value, waitcount>>

SemInit == value = 0 /\ waitcount = 0

SemTypeOK == value \in 0 .. MaxValue /\ waitcount \in 0 .. Cardinality(Thread)

\* __thrsleep(&sem->waitcount), back at "sem"; cancelations are delayed
SemSleeps(t, hasTime) ==
    /\ thrsleep(t, p_thrslpid, "sem", hasTime)
    /\ delay' = [delay EXCEPT ![t] = TRUE]
    /\ Go(t, "sem")
    /\ UNCHANGED <<canceled, p_wchan, p_sig, p_timeout>>

\* sem_wait() and sem_timedwait(), of a thread that has not been canceled
sem_wait(t, hasTime) ==
    /\ At(t, "idle") /\ ~canceled[t]
    /\ \/ /\ value > 0
          /\ value' = value - 1
          /\ UNCHANGED <<waitcount, pc, timed, error>> /\ NoSys
       \/ /\ value = 0
          /\ waitcount' = waitcount + 1
          /\ SemSleeps(t, hasTime)
          /\ UNCHANGED value
    /\ UNCHANGED wake

\* Mutant: waitcount stays.
SemReturnsMutant(t, failed) ==
    /\ UNCHANGED waitcount
    /\ delay' = [delay EXCEPT ![t] = FALSE]
    /\ canceled' = [canceled EXCEPT ![t] = @ /\ ~failed]
    /\ Done(t)
    /\ UNCHANGED <<p_thrslpid, sys, p_wchan, p_sig, p_timeout>>

\* The call returns; one that was canceled exits, and a new thread takes its
\* place.
SemReturns(t, failed) ==
    /\ waitcount' = waitcount - 1
    /\ delay' = [delay EXCEPT ![t] = FALSE]
    /\ canceled' = [canceled EXCEPT ![t] = @ /\ ~failed]
    /\ Done(t)
    /\ UNCHANGED <<p_thrslpid, sys, p_wchan, p_sig, p_timeout>>

\* ... after __thrsleep(): "ignore interruptions other than cancelation".  On
\* an error it does not look at the value again.
SemWakes(t) ==
    LET failed == \/ error[t] = "EWOULDBLOCK"
                  \/ error[t] = "EINTR" /\ canceled[t] IN
    /\ At(t, "sem")
    /\ \/ failed /\ SemReturns(t, TRUE) /\ UNCHANGED value
       \/ /\ ~failed /\ value > 0
          /\ value' = value - 1 /\ SemReturns(t, FALSE)
       \/ /\ ~failed /\ value = 0
          /\ SemSleeps(t, timed[t]) /\ UNCHANGED semVars
    /\ UNCHANGED wake

\* Whether __thrwakeup(&sem->waitcount, 1) finds somebody, of W.
PostWakes(W) == waitcount > 0 /\ W # {}

sem_post(t) ==
    LET W == Found("sem") IN
    /\ At(t, "idle") /\ value < MaxValue
    /\ value' = value + 1
    /\ \/ /\ PostWakes(W)
          /\ \E u \in W : WakeThem({u}) /\ p_thrslpid' = Cleared({u})
       \/ ~PostWakes(W) /\ UNCHANGED <<p_wchan, p_thrslpid>>
    /\ UNCHANGED <<waitcount, pc, wake, sys, timed, error, canceled, delay, p_sig,
                   p_timeout>>

=============================================================================
