------------------------------ MODULE Thrsleep ------------------------------
(***************************************************************************)
(* The system calls that threads of a process wait and wake each other      *)
(* with (sys/kern/kern_synch.c): __thrsleep() and __thrwakeup().            *)
(*                                                                         *)
(* A thread comes with a spinlock that it holds, which __thrsleep()         *)
(* releases once p_thrslpid is set.  The locks of librthread are held over  *)
(* a few instructions and nothing else looks at what they protect: what is  *)
(* done under one of them, the release by __thrsleep() included, is one     *)
(* step of the caller.  After it other threads may run before the thread    *)
(* sleeps: copyin() of the abort flag may fault.                            *)
(***************************************************************************)
EXTENDS Naturals, Sequences, FiniteSets

CONSTANTS
    Thread, NoThread,
    NoChan,
    NoIdent     \* p_thrslpid = 0

ASSUME ThrsleepAssumption ==
    /\ NoThread \notin Thread /\ NoChan \notin Thread /\ NoIdent \notin Thread
    /\ {"rwlock", "sem"} \cap (Thread \cup {NoIdent}) = {}
    /\ IsFiniteSet(Thread)

VARIABLES
    p_thrslpid,
    sys,        \* where a thread is: in "user" mode, about to sleep ("enter"),
                \* or in tsleep() ("sleep")
    timed,      \* __thrsleep() was called with a time
    error,      \* what it returned
    canceled,   \* THREAD_CANCELED
    delay,      \* THREAD_CANCEL_DELAY: in a call that may be canceled
    p_wchan, p_sig, p_timeout

\* A thread sleeps on its own p_thrslpid.
INSTANCE TSleep WITH Actor <- Thread

thrVars == <<p_thrslpid, sys, timed, error, canceled, delay, p_wchan, p_sig,
             p_timeout>>

\* librthread sleeps on a thread, a read/write lock or a semaphore.
Ident == Thread \cup {"rwlock", "sem"}

ThrInit ==
    /\ p_thrslpid = [t \in Thread |-> NoIdent]
    /\ sys = [t \in Thread |-> "user"]
    /\ timed = [t \in Thread |-> FALSE]
    /\ error = [t \in Thread |-> "0"]
    /\ canceled = [t \in Thread |-> FALSE]
    /\ delay = [t \in Thread |-> FALSE]
    /\ SleepInit

ThrTypeOK ==
    /\ p_thrslpid \in [Thread -> Ident \cup {NoIdent}]
    /\ sys \in [Thread -> {"user", "enter", "sleep"}]
    /\ timed \in [Thread -> BOOLEAN]
    /\ error \in [Thread -> {"0", "EINTR", "EWOULDBLOCK"}]
    /\ canceled \in [Thread -> BOOLEAN]
    /\ delay \in [Thread -> BOOLEAN]
    /\ p_wchan \in [Thread -> Thread \cup {NoChan}]
    /\ p_sig \in [Thread -> BOOLEAN]
    /\ p_timeout \in [Thread -> BOOLEAN]

-----------------------------------------------------------------------------
\* The pieces below say what becomes of the variables of a thread t that calls
\* one of the system calls; slpid is p_thrslpid so far.

\* __thrsleep() up to the release of the lock: the time has already passed,
\* or p_thrslpid is set.
thrsleep(t, slpid, ident, hasTime) ==
    \/ /\ hasTime
       /\ error' = [error EXCEPT ![t] = "EWOULDBLOCK"]
       /\ p_thrslpid' = slpid
       /\ timed' = [timed EXCEPT ![t] = TRUE]
       /\ UNCHANGED sys
    \/ /\ p_thrslpid' = [slpid EXCEPT ![t] = ident]
       /\ sys' = [sys EXCEPT ![t] = "enter"]
       /\ timed' = [timed EXCEPT ![t] = hasTime]
       /\ UNCHANGED error

\* p_thrslpid after __thrwakeup() has found the threads W
Cleared(W) == [t \in Thread |-> IF t \in W THEN NoIdent ELSE p_thrslpid[t]]

\* ... and their wakeup_one()
WakeThem(W) ==
    p_wchan' = [t \in Thread |-> IF t \in W THEN NoChan ELSE p_wchan[t]]

\* the threads that __thrwakeup(ident) looks for
Found(ident) == {t \in Thread : p_thrslpid[t] = ident}

-----------------------------------------------------------------------------
\* Back to user mode.  sigthr_handler() and other handlers run on the way.
SysReturn(t, e) ==
    /\ p_thrslpid' = [p_thrslpid EXCEPT ![t] = NoIdent]
    /\ sys' = [sys EXCEPT ![t] = "user"]
    /\ error' = [error EXCEPT ![t] = e]
    /\ p_sig' = [p_sig EXCEPT ![t] = FALSE]
    /\ p_timeout' = [p_timeout EXCEPT ![t] = FALSE]
    /\ UNCHANGED <<timed, canceled, delay>>

\* Mutant: does not look whether there was a wakeup.
ThrsleepEnterMutant(t) ==
    /\ sys[t] = "enter"
    /\ p_wchan' = SleepCatch(p_wchan, t, t)
    /\ sys' = [sys EXCEPT ![t] = "sleep"]
    /\ UNCHANGED <<p_thrslpid, timed, error, canceled, delay, p_sig, p_timeout>>

\* __thrsleep() after the release of the lock.  *abort is delayed_cancel: a
\* cancelation has come while it is delayed, and the handler has seen it.
ThrsleepEnter(t) ==
    LET abort == delay[t] /\ canceled[t] /\ ~p_sig[t] IN
    /\ sys[t] = "enter"
    /\ \/ abort /\ SysReturn(t, "EINTR") /\ UNCHANGED p_wchan
       \/ ~abort /\ p_thrslpid[t] = NoIdent /\ SysReturn(t, "0") /\ UNCHANGED p_wchan
       \/ /\ ~abort /\ p_thrslpid[t] # NoIdent
          /\ p_wchan' = SleepCatch(p_wchan, t, t)
          /\ sys' = [sys EXCEPT ![t] = "sleep"]
          /\ UNCHANGED <<p_thrslpid, timed, error, canceled, delay, p_sig, p_timeout>>

\* tsleep() returns.
ThrsleepReturn(t) ==
    /\ sys[t] = "sleep" /\ Awake(t)
    /\ SysReturn(t, TsleepError(t))
    /\ UNCHANGED p_wchan

\* endtsleep()
ThrTimeout(t) ==
    /\ sys[t] = "sleep" /\ timed[t]
    /\ EndTsleep(t)
    /\ UNCHANGED <<p_thrslpid, sys, timed, error, canceled, delay>>

\* A signal with a handler that does nothing here; in user mode it is over at
\* once.
ThrSignal(t) ==
    /\ sys[t] # "user"
    /\ PostSignal(t)
    /\ UNCHANGED <<p_thrslpid, sys, timed, error, canceled, delay>>

\* pthread_cancel(t): THREAD_CANCELED and SIGTHR
pthread_cancel(t) ==
    /\ ~canceled[t]
    /\ canceled' = [canceled EXCEPT ![t] = TRUE]
    /\ IF sys[t] = "user" THEN UNCHANGED <<p_sig, p_wchan, p_timeout>>
       ELSE \/ PostSignal(t)
            \/ p_sig[t] /\ UNCHANGED <<p_sig, p_wchan, p_timeout>>
    /\ UNCHANGED <<p_thrslpid, sys, timed, error, delay>>

\* Asleep in tsleep(), and not about to return
Asleep(t) == sys[t] = "sleep" /\ ~Awake(t)

=============================================================================
