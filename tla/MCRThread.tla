----------------------------- MODULE MCRThread ------------------------------
EXTENDS RThread

CONSTANTS t1, t2, t3

On(a, b, c) == [t \in Thread |-> CASE t = t1 -> a [] t = t2 -> b [] t = t3 -> c]

\* Timed and untimed lockers of the mutex, one of them interrupted.
Mutexes == On({"lock", "interrupted"}, {"timedlock"}, {"lock", "timedlock"})

\* Waiters that are canceled, time out and are interrupted while others notify.
Conds == On({"lock", "wait", "canceled"}, {"lock", "timedwait", "interrupted"},
            {"signal", "broadcast"})

\* Readers and writers; a writer that may give up where no second reader waits.
Rws == On({"rdlock", "interrupted"}, {"timedrdlock", "wrlock"}, {"rdlock", "wrlock"})
GiveUp == On({"rdlock"}, {"timedwrlock"}, {"timedwrlock", "interrupted"})

\* Waits for the semaphore that cannot fail, and one that can.
Sems == On({"sem_wait", "interrupted"}, {"sem_wait"}, {"sem_post"})
OneSem == On({"sem_timedwait", "canceled"}, {"sem_post"}, {"sem_post"})

\* All that share thread->waiting and the threads' own idents.
Mix == On({"timedlock", "wait", "interrupted"}, {"lock", "wrlock"},
          {"lock", "wrlock", "timedwait", "signal"})

All == {Mutexes, Conds, Rws, GiveUp, Sems, OneSem, Mix}

\* A writer that gives up while a reader has the lock and another waits.
TimedWriter == {On({"rdlock"}, {"timedwrlock"}, {"rdlock"})}
=============================================================================
