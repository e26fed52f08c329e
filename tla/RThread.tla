------------------------------ MODULE RThread -------------------------------
(***************************************************************************)
(* Threads of a process that use a mutex, a condition variable, a           *)
(* read/write lock and a semaphore of librthread together.                  *)
(*                                                                         *)
(* The four meet in three places.  A thread has one link (waiting) for the  *)
(* lockers of a mutex, the waiters of a condition variable and the writers  *)
(* of a read/write lock.  Whoever waits in one of these queues sleeps on    *)
(* itself, so that a __thrwakeup() that comes late, of a call that is over, *)
(* wakes the thread from the next one.  And a signal or a cancelation may   *)
(* come anywhere.                                                           *)
(***************************************************************************)
EXTENDS RThreadSem

CONSTANTS
    Workloads   \* what the threads call and what happens to them: functions
                \* from Thread to sets of the names in Calls

Calls == {"lock", "timedlock", "wait", "timedwait", "signal", "broadcast",
          "rdlock", "timedrdlock", "wrlock", "timedwrlock",
          "sem_wait", "sem_timedwait", "sem_post",
          "interrupted", "canceled"}

ASSUME RThreadAssumption == Workloads \subseteq [Thread -> SUBSET Calls]

VARIABLE calls  \* the workload

vars == <<syncVars, rwVars, semVars, thrVars, calls>>

Init ==
    /\ ThrInit /\ SyncInit /\ RwInit /\ SemInit
    /\ calls \in Workloads

TypeOK ==
    /\ ThrTypeOK /\ SyncTypeOK /\ RwTypeOK /\ SemTypeOK
    /\ calls \in Workloads

Does(t, call) == call \in calls[t]

-----------------------------------------------------------------------------
\* What a thread does with the mutex and the condition variable, ...
MutexCall(t) ==
    \/ Does(t, "lock") /\ pthread_mutex_lock(t, FALSE)
    \/ Does(t, "timedlock") /\ pthread_mutex_lock(t, TRUE)
MutexStep(t) == MutexLockWakes(t)
MutexUnlock(t) == pthread_mutex_unlock(t)
WakeStep(t) == Thrwakeup(t)
CondCall(t) ==
    \/ Does(t, "wait") /\ pthread_cond_wait(t, FALSE)
    \/ Does(t, "timedwait") /\ pthread_cond_wait(t, TRUE)
    \/ ExitCanceled(t)
CondStep(t) == CondAwake(t) \/ CondRequeue(t)
CondNotify(t) ==
    \/ Does(t, "signal") /\ pthread_cond_signal(t)
    \/ Does(t, "broadcast") /\ pthread_cond_broadcast(t)

\* ... with the read/write lock, which the program locks before the mutex, ...
RwCall(t) ==
    /\ t \notin has
    /\ \/ Does(t, "rdlock") /\ pthread_rwlock_rdlock(t, FALSE)
       \/ Does(t, "timedrdlock") /\ pthread_rwlock_rdlock(t, TRUE)
       \/ Does(t, "wrlock") /\ pthread_rwlock_wrlock(t, FALSE)
       \/ Does(t, "timedwrlock") /\ pthread_rwlock_wrlock(t, TRUE)
RwStep(t) == RdlockWakes(t) \/ WrlockWakes(t)
RwUnlock(t) == pthread_rwlock_unlock(t)

\* ... with the semaphore, ...
SemCall(t) ==
    \/ Does(t, "sem_wait") /\ sem_wait(t, FALSE)
    \/ Does(t, "sem_timedwait") /\ sem_wait(t, TRUE)
    \/ Does(t, "sem_post") /\ sem_post(t)
SemStep(t) == SemWakes(t)

\* ... and what the kernel does to it.
KernelStep(t) == ThrsleepEnter(t) \/ ThrsleepReturn(t)
KernelEvent(t) ==
    \/ ThrTimeout(t)
    \/ Does(t, "interrupted") /\ ThrSignal(t)
    \/ Does(t, "canceled") /\ pthread_cancel(t)

Sync(t) == MutexCall(t) \/ MutexStep(t) \/ MutexUnlock(t) \/ WakeStep(t)
           \/ CondCall(t) \/ CondStep(t) \/ CondNotify(t)
Rw(t) == RwCall(t) \/ RwStep(t) \/ RwUnlock(t)
Sem(t) == SemCall(t) \/ SemStep(t)

\* what the read/write lock and the semaphore leave alone of the mutex and the
\* condition variable
syncOnly == <<condVars, mutexVars, waitVars, has>>

Next ==
    \E t \in Thread :
        /\ \/ Sync(t) /\ UNCHANGED <<rwVars, semVars>>
           \/ Rw(t) /\ UNCHANGED <<syncOnly, semVars>>
           \/ Sem(t) /\ UNCHANGED <<syncOnly, rwVars>>
           \/ (KernelStep(t) \/ KernelEvent(t)) /\ UNCHANGED <<syncVars, rwVars, semVars>>
        /\ UNCHANGED calls

Spec == Init /\ [][Next]_vars

\* The kernel runs every thread that can run.  Nothing is assumed of the
\* program: not that it unlocks, not that it signals.
Runs(t) ==
    \/ (MutexStep(t) \/ WakeStep(t) \/ CondStep(t)) /\ UNCHANGED <<rwVars, semVars, calls>>
    \/ RwStep(t) /\ UNCHANGED <<syncOnly, semVars, calls>>
    \/ SemStep(t) /\ UNCHANGED <<syncOnly, rwVars, calls>>
    \/ KernelStep(t) /\ UNCHANGED <<syncVars, rwVars, semVars, calls>>

FairSpec == Spec /\ \A t \in Thread : WF_vars(Runs(t))

-----------------------------------------------------------------------------
\* A call that returned with a lock has it alone, or with other readers.  (The
\* lock is handed over before its new owner runs, and a timed wait gives up
\* at the same time.)
Exclusion ==
    /\ \A t \in has : owner = t /\ count > 0
    /\ \A t \in wrhas : rw_owner = t /\ rdhas = {}
    /\ readers = Cardinality(rdhas)
    /\ rw_owner # NoThread => readers = 0

\* A mutex that nobody owns has no lockers and a count of 0, and a read/write
\* lock with writers in its queue is held: the locks are handed over, and
\* nobody is left behind in a queue (the assertions of rthread_sync.c).
HandoffSafe ==
    /\ owner = NoThread => lockers = << >> /\ count = 0
    /\ writers # << >> => rw_owner # NoThread \/ readers > 0

Owns(t) ==
    \/ owner = t /\ pc[t] \in {"lock", "cond"}
    \/ rw_owner = t /\ pc[t] = "wr"

\* A thread is in at most one queue, once, and not in one once it owns what
\* it waited for: the queues of all of these objects go through
\* thread->waiting.  blocking_cond and cond->mutex say what the queue says.
OneQueue ==
    /\ LET all == lockers \o waiters \o writers IN
       /\ IsInjective(all)
       /\ \A t \in ToSet(all) : ~Owns(t)
    /\ \A t \in ToSet(lockers) : pc[t] \in {"lock", "cond"}
    /\ \A t \in ToSet(waiters) : pc[t] = "cond"
    /\ \A t \in ToSet(writers) : pc[t] = "wr"
    /\ blocking = ToSet(waiters)
    /\ cmutex <=> waiters # << >>

\* The queues hold those who wait, once each, behind somebody who has the lock.
QueuesSound == HandoffSafe /\ OneQueue

\* There is no sleeping thread that nobody will wake: __thrwakeup() can find
\* it, and if it sleeps on itself it is in a queue, or it owns what it waits
\* for and somebody is about to wake it.
NoMissedHandoff ==
    \A t \in Thread :
        Asleep(t) =>
            /\ p_thrslpid[t] # NoIdent
            /\ p_thrslpid[t] = t =>
                  \/ t \in ToSet(lockers \o waiters \o writers)
                  \/ \E u \in Thread : wake[u] = t

\* A wait that a signal or a broadcast ended does not return ETIMEDOUT and is
\* not canceled: the signal would be lost for the other waiters.
SignalConsumed == \A t \in signaled : rv[t] = "0"

\* A reader sleeps only while there is a writer that has the lock or waits
\* for it.
ReadersNotForgotten ==
    (\E t \in Thread : Asleep(t) /\ p_thrslpid[t] = "rwlock") =>
        rw_owner # NoThread \/ writers # << >>

\* A thread sleeps on the semaphore only while every unit of its value has a
\* thread that has been woken for it.
SemNotForgotten ==
    (\E t \in Thread : Asleep(t) /\ p_thrslpid[t] = "sem") =>
        value <= Cardinality({t \in Thread : pc[t] = "sem" /\ ~Asleep(t)})

\* Nobody sleeps in __thrsleep() who should have been woken, by a hand over, an
\* unlock that lets readers in, or a post.
NobodyForgotten == NoMissedHandoff /\ ReadersNotForgotten /\ SemNotForgotten

\* A thread that has been handed the mutex or the read/write lock returns with
\* it, whatever signals, timeouts and cancelations come in between and whatever
\* the others do.
HandoverCompletes == \A t \in Thread : Owns(t) ~> ~Owns(t)

-----------------------------------------------------------------------------
(***************************************************************************)
(* The parts of the inductive invariant behind these.                       *)
(***************************************************************************)

\* The mutex: whoever waits for it is in one queue, once; whoever owns it has
\* it or is in a call that will find out.
MutexInv ==
    /\ IsInjective(lockers) /\ IsInjective(waiters)
    /\ \A t \in ToSet(lockers) :
        pc[t] \in {"lock", "cond"} /\ owner # t /\ t \notin ToSet(waiters)
    /\ \A t \in ToSet(waiters) : pc[t] = "cond" /\ owner # t
    /\ blocking = ToSet(waiters)
    /\ cmutex <=> waiters # << >>
    /\ owner = NoThread => lockers = << >>
    /\ owner \in Thread \ has => pc[owner] \in {"lock", "cond"}
    /\ \A t \in has : owner = t /\ count > 0 /\ pc[t] \notin {"lock", "cond", "requeue"}
    /\ count > 0 => owner \in has

\* A wait for the condition variable has what it will return with, and nothing
\* but "0" while it is in the queue or after a signal.
WaitInv ==
    /\ \A t \in ToSet(waiters) : rv[t] = "0" /\ t \notin signaled
    /\ \A t \in signaled : rv[t] = "0" /\ pc[t] = "cond"
    /\ \A t \in Thread :
        IF pc[t] \in {"cond", "requeue"} THEN mutex_count[t] > 0 ELSE rv[t] = "0"

\* The read/write lock
RwInv ==
    /\ IsInjective(writers)
    /\ \A t \in ToSet(writers) : pc[t] = "wr" /\ rw_owner # t
    /\ writers # << >> => rw_owner # NoThread \/ rdhas # {}
    /\ rw_owner # NoThread => rdhas = {}
    /\ readers = Cardinality(rdhas)
    /\ rw_owner \in Thread \ wrhas => pc[rw_owner] = "wr"
    /\ \A t \in wrhas : rw_owner = t
    /\ \A t \in rdhas \cup wrhas : pc[t] \notin {"rd", "wr"}

\* The semaphore counts who waits.
SemWaiters == {t \in Thread : pc[t] = "sem"}
SemInv == waitcount = Cardinality(SemWaiters)

RThreadInv == TypeOK /\ MutexInv /\ WaitInv /\ RwInv /\ SemInv
=============================================================================
