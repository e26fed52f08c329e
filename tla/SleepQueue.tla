----------------------------- MODULE SleepQueue -----------------------------
(***************************************************************************)
(* The kernel's sleep queue and the part of signal delivery that acts on    *)
(* sleeping threads (sys/kern/kern_synch.c, kern_sig.c, sched_bsd.c).       *)
(*                                                                         *)
(* A thread is on a sleep queue exactly when its p_wchan is set: every      *)
(* function that changes one changes the other under SCHED_LOCK.  The       *)
(* TAILQ is therefore represented by p_wchan alone, and a wakeup that is    *)
(* limited to n threads picks any n of the sleepers, where the code picks   *)
(* the n that have slept longest.                                           *)
(*                                                                         *)
(* The operators below are the pieces that the specifications of tsleep     *)
(* and of rw_enter put together; each of them stands for one region of      *)
(* code that runs under SCHED_LOCK.                                         *)
(***************************************************************************)
EXTENDS Naturals, FiniteSets

CONSTANTS
    Proc,       \* threads; each may run on a processor of its own
    NoProc,     \* nobody: the value of an unheld lock
    Chan,       \* the addresses threads sleep on
    NoChan,     \* p_wchan = NULL
    Signals     \* the kinds of signals that may be sent, a subset of SigKind

(***************************************************************************)
(* Signals by what ptsignal() and issignal() do with them:                  *)
(*   INT   caught by a handler, or with a default action of killing         *)
(*   KILL  SIGKILL                                                          *)
(*   STOP  a stop signal with default action (SA_STOP, SIG_DFL)             *)
(*   CONT  SIGCONT with default action (SA_CONT, SIG_DFL)                   *)
(***************************************************************************)
SigKind == {"INT", "KILL", "STOP", "CONT"}

ASSUME SleepQueueAssumption ==
    /\ NoProc \notin Proc
    /\ NoChan \notin Chan
    /\ IsFiniteSet(Proc)
    /\ Signals \subseteq SigKind

VARIABLES
    p_stat,      \* SONPROC, SRUN, SSLEEP or SSTOP
    p_wchan,     \* the channel a thread is queued on, or NoChan
    p_sintr,     \* P_SINTR: the sleep may be interrupted by a signal
    p_siglist,   \* pending signals
    psig,        \* signals entered in p_siglist whose sender has yet to
                 \* take SCHED_LOCK and act on p_stat
    sched_lock   \* holder of SCHED_LOCK, or NoProc

sleepVars == <<p_stat, p_wchan, p_sintr, p_siglist, psig, sched_lock>>

Stat == {"SONPROC", "SRUN", "SSLEEP", "SSTOP"}

SleepTypeOK ==
    /\ p_stat \in [Proc -> Stat]
    /\ p_wchan \in [Proc -> Chan \cup {NoChan}]
    /\ p_sintr \in [Proc -> BOOLEAN]
    /\ p_siglist \in [Proc -> SUBSET SigKind]
    /\ psig \in [Proc -> SUBSET SigKind]
    /\ sched_lock \in Proc \cup {NoProc}

SleepInit ==
    /\ p_stat = [p \in Proc |-> "SONPROC"]
    /\ p_wchan = [p \in Proc |-> NoChan]
    /\ p_sintr = [p \in Proc |-> FALSE]
    /\ p_siglist = [p \in Proc |-> {}]
    /\ psig = [p \in Proc |-> {}]
    /\ sched_lock = NoProc

-----------------------------------------------------------------------------
(***************************************************************************)
(* Sleeping and waking.                                                     *)
(***************************************************************************)

\* sleep_setup(): take SCHED_LOCK, which stays held until sleep_finish(),
\* and enter the sleep queue.
SleepSetup(p, ident) ==
    /\ sched_lock = NoProc
    /\ sched_lock' = p
    /\ p_wchan' = [p_wchan EXCEPT ![p] = ident]

\* mi_switch() away: the processor and SCHED_LOCK go to somebody else.
SwitchAway(p, stat) ==
    /\ sched_lock = p
    /\ sched_lock' = NoProc
    /\ p_stat' = [p_stat EXCEPT ![p] = stat]

\* mi_switch() returns: the scheduler chose p and p holds SCHED_LOCK again.
SwitchBack(p) ==
    /\ p_stat[p] = "SRUN"
    /\ sched_lock = NoProc
    /\ p_stat' = [p_stat EXCEPT ![p] = "SONPROC"]
    /\ sched_lock' = p

\* wakeup_n(): clear the channel of the threads in W and make those that
\* are asleep runnable; a stopped one stays stopped.
WakeupSet(W) ==
    /\ sched_lock = NoProc
    /\ p_wchan' = [q \in Proc |-> IF q \in W THEN NoChan ELSE p_wchan[q]]
    /\ p_stat' = [q \in Proc |-> IF q \in W /\ p_stat[q] = "SSLEEP"
                                 THEN "SRUN" ELSE p_stat[q]]

Sleepers(ident) == {q \in Proc : p_wchan[q] = ident}

\* wakeup(ident) is wakeup_n(ident, -1).
Wakeup(ident) == WakeupSet(Sleepers(ident))

-----------------------------------------------------------------------------
(***************************************************************************)
(* Signals.                                                                 *)
(***************************************************************************)

\* The first half of ptsignal(): the signal becomes pending, a stop and a
\* continue cancel each other.  SCHED_LOCK is not held.
PostSignal(p, sig) ==
    LET cancelled == IF sig = "CONT" THEN {"STOP"}
                     ELSE IF sig = "STOP" THEN {"CONT"} ELSE {}
    IN  /\ psig[p] = {}
        /\ psig' = [psig EXCEPT ![p] = {sig}]
        /\ p_siglist' = [p_siglist EXCEPT ![p] = (@ \cup {sig}) \ cancelled]
        /\ UNCHANGED <<p_stat, p_wchan, p_sintr, sched_lock>>

\* Mutant: setrunnable() leaves the thread on the sleep queue.
SetRunnableMutant(p) ==
    /\ p_stat' = [p_stat EXCEPT ![p] = "SRUN"]
    /\ UNCHANGED p_wchan

\* setrunnable() of a sleeping or stopped thread.
SetRunnable(p) ==
    /\ p_wchan' = [p_wchan EXCEPT ![p] = NoChan]
    /\ p_stat' = [p_stat EXCEPT ![p] = "SRUN"]

Unsleep(p) == p_wchan' = [p_wchan EXCEPT ![p] = NoChan]

\* The second half of ptsignal(), under SCHED_LOCK, for a sleeping thread.
SignalSleeping(p, sig) ==
    /\ p_stat[p] = "SSLEEP"
    /\ \/ /\ ~p_sintr[p]
          /\ UNCHANGED <<p_stat, p_wchan, p_siglist>>
       \/ /\ p_sintr[p] /\ sig = "CONT"
          /\ p_siglist' = [p_siglist EXCEPT ![p] = @ \ {sig}]
          /\ UNCHANGED <<p_stat, p_wchan>>
       \/ /\ p_sintr[p] /\ sig = "STOP"
          /\ p_siglist' = [p_siglist EXCEPT ![p] = @ \ {sig}]
          /\ p_stat' = [p_stat EXCEPT ![p] = "SSTOP"]
          /\ UNCHANGED p_wchan
       \/ /\ p_sintr[p] /\ sig \in {"INT", "KILL"}
          /\ SetRunnable(p)
          /\ UNCHANGED p_siglist

\* The second half of ptsignal() for a stopped thread.  A continued thread
\* that is still queued goes back to sleep without running.
SignalStopped(p, sig) ==
    /\ p_stat[p] = "SSTOP"
    /\ \/ /\ sig = "KILL"
          /\ SetRunnable(p)
          /\ UNCHANGED p_siglist
       \/ /\ sig = "CONT" /\ p_wchan[p] = NoChan
          /\ p_siglist' = [p_siglist EXCEPT ![p] = @ \ {sig}]
          /\ SetRunnable(p)
       \/ /\ sig = "CONT" /\ p_wchan[p] # NoChan
          /\ p_siglist' = [p_siglist EXCEPT ![p] = @ \ {sig}]
          /\ p_stat' = [p_stat EXCEPT ![p] = "SSLEEP"]
          /\ UNCHANGED p_wchan
       \/ /\ sig = "STOP"
          /\ p_siglist' = [p_siglist EXCEPT ![p] = @ \ {sig}]
          /\ UNCHANGED <<p_stat, p_wchan>>
       \/ /\ sig = "INT" /\ p_sintr[p]
          /\ Unsleep(p)
          /\ UNCHANGED <<p_stat, p_siglist>>
       \/ /\ sig = "INT" /\ ~p_sintr[p]
          /\ UNCHANGED <<p_stat, p_wchan, p_siglist>>

\* A running thread only notices the signal at its next CURSIG.
SignalRunning(p) ==
    /\ p_stat[p] \in {"SONPROC", "SRUN"}
    /\ UNCHANGED <<p_stat, p_wchan, p_siglist>>

DeliverSignal(p) ==
    \E sig \in psig[p] :
        /\ sched_lock = NoProc
        /\ psig' = [psig EXCEPT ![p] = {}]
        /\ \/ SignalSleeping(p, sig)
           \/ SignalStopped(p, sig)
           \/ SignalRunning(p)
        /\ UNCHANGED <<p_sintr, sched_lock>>

\* CURSIG(p): issignal() takes pending signals in the order of their numbers
\* (SIGINT 2, SIGKILL 9, SIGSTOP 17, SIGCONT 19).
HasSignal(p) == p_siglist[p] \cap {"INT", "KILL"} # {}

\* issignal() finds a stop signal before any signal to return.
MustStop(p) == ~HasSignal(p) /\ "STOP" \in p_siglist[p]

=============================================================================
