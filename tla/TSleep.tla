------------------------------- MODULE TSleep -------------------------------
(***************************************************************************)
(* tsleep() and the wakeups as their callers see them (sys/kern/            *)
(* kern_synch.c): threads that sleep under the kernel lock.                 *)
(*                                                                         *)
(* Whoever calls tsleep(), wakeup() or sends a signal holds the kernel      *)
(* lock, so that what a thread does from one tsleep() to the next is one    *)
(* step of the specifications that use this module; SleepQueue has what     *)
(* happens below, under SCHED_LOCK.  One step often wakes several channels  *)
(* and then sleeps itself: the operators map a value of p_wchan to the      *)
(* next one and are composed like the calls.                                *)
(***************************************************************************)
EXTENDS Naturals

CONSTANTS
    Actor,    \* the threads that sleep
    NoChan    \* p_wchan = NULL

VARIABLES
    p_wchan,    \* what a thread sleeps on, or NoChan: it may run
    p_sig,      \* a signal is pending that is not ignored
    p_timeout   \* P_TIMEOUT

SleepInit ==
    /\ p_wchan = [a \in Actor |-> NoChan]
    /\ p_sig = [a \in Actor |-> FALSE]
    /\ p_timeout = [a \in Actor |-> FALSE]

\* tsleep() with PCATCH up to mi_switch().  A signal that is already pending
\* keeps the thread awake.  (It then goes on in a step of its own, although
\* the code does not let go of the kernel lock: more interleavings, not
\* fewer.)
SleepCatch(wchan, a, ident) ==
    [wchan EXCEPT ![a] = IF p_sig[a] THEN NoChan ELSE ident]

\* tsleep() without PCATCH
Sleep(wchan, a, ident) == [wchan EXCEPT ![a] = ident]

\* wakeup()
Wakeup(wchan, ident) ==
    [a \in Actor |-> IF wchan[a] = ident THEN NoChan ELSE wchan[a]]

\* mi_switch() has returned to a thread that slept
Awake(a) == p_wchan[a] = NoChan

\* ptsignal() of a thread that sleeps with PCATCH, or does not sleep
PostSignal(a) ==
    /\ ~p_sig[a]
    /\ p_sig' = [p_sig EXCEPT ![a] = TRUE]
    /\ p_wchan' = [p_wchan EXCEPT ![a] = NoChan]
    /\ UNCHANGED p_timeout

\* endtsleep(), of a tsleep() with a timeout
EndTsleep(a) ==
    /\ p_wchan[a] # NoChan
    /\ p_wchan' = [p_wchan EXCEPT ![a] = NoChan]
    /\ p_timeout' = [p_timeout EXCEPT ![a] = TRUE]
    /\ UNCHANGED p_sig

\* What tsleep() with PCATCH returns.  "Signal errors are higher priority than
\* timeouts."
TsleepError(a) ==
    IF p_sig[a] THEN "EINTR" ELSE IF p_timeout[a] THEN "EWOULDBLOCK" ELSE "0"

=============================================================================
