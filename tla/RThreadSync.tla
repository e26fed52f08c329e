---------------------------- MODULE RThreadSync -----------------------------
(***************************************************************************)
(* A mutex and a condition variable of librthread (lib/librthread/          *)
(* rthread_sync.c).  The mutex is recursive if MaxCount > 1, and the        *)
(* program keeps the rules: only the owner unlocks it or waits with it.     *)
(*                                                                         *)
(* What is done under mutex->lock, or under cond->lock and then             *)
(* mutex->lock, is one step; __thrwakeup() after the locks are released is  *)
(* a step of its own.                                                       *)
(***************************************************************************)
EXTENDS Thrsleep, SequencesExt

CONSTANTS MaxCount      \* how often the owner locks the mutex

ASSUME RThreadSyncAssumption == MaxCount \in Nat \ {0}

VARIABLES
    owner, lockers, count,  \* the mutex
    waiters,      \* cond->waiters
    cmutex,       \* cond->mutex is the mutex, not NULL
    clock,        \* who holds cond->lock from one step to another, or NoThread
    blocking,     \* the threads with blocking_cond
    pc,           \* where a thread is
    wake,         \* whom it is about to __thrwakeup()
    mutex_count,  \* pthread_cond_wait(): the count to restore
    rv,           \* pthread_cond_wait(): what to return
    has,          \* history: the threads whose call returned with the mutex
    signaled      \* history: the waiters that a signal or broadcast took off
                  \* the condition's queue, until they return

condVars == <<waiters, cmutex, clock, blocking>>
mutexVars == <<owner, lockers, count>>
waitVars == <<mutex_count, rv, signaled>>
syncVars == <<condVars, mutexVars, waitVars, has, pc, wake>>

SyncInit ==
    /\ owner = NoThread /\ lockers = << >> /\ count = 0
    /\ waiters = << >> /\ cmutex = FALSE /\ clock = NoThread /\ blocking = {}
    /\ pc = [t \in Thread |-> "idle"]
    /\ wake = [t \in Thread |-> NoThread]
    /\ mutex_count = [t \in Thread |-> 0]
    /\ rv = [t \in Thread |-> "0"]
    /\ has = {} /\ signaled = {}

SyncTypeOK ==
    /\ owner \in Thread \cup {NoThread}
    /\ lockers \in Seq(Thread) /\ waiters \in Seq(Thread)
    /\ count \in 0 .. MaxCount
    /\ cmutex \in BOOLEAN /\ clock \in Thread \cup {NoThread}
    /\ blocking \subseteq Thread
    /\ pc \in [Thread -> {"idle", "lock", "cond", "requeue", "wake", "bwake",
                          "rd", "wr", "sem"}]
    /\ wake \in [Thread -> Thread \cup {NoThread}]
    /\ mutex_count \in [Thread -> 0 .. MaxCount]
    /\ rv \in [Thread -> {"0", "ETIMEDOUT", "canceled"}]
    /\ has \subseteq Thread /\ signaled \subseteq Thread

\* TAILQ_REMOVE()
Without(queue, t) == RemoveFirst(queue, t)

At(t, where) == pc[t] = where /\ sys[t] = "user"
Go(t, where) == pc' = [pc EXCEPT ![t] = where]

\* A call returns that slept: its arguments and results are forgotten.
Done(t) ==
    /\ Go(t, "idle")
    /\ timed' = [timed EXCEPT ![t] = FALSE]
    /\ error' = [error EXCEPT ![t] = "0"]

\* no system call in this step
NoSys == UNCHANGED <<p_thrslpid, sys, canceled, delay, p_wchan, p_sig, p_timeout>>

\* __thrsleep(self) with mutex->lock, back at where
SleepSelf(t, hasTime, where) ==
    /\ thrsleep(t, p_thrslpid, t, hasTime)
    /\ Go(t, where)
    /\ UNCHANGED <<canceled, delay, p_wchan, p_sig, p_timeout>>

-----------------------------------------------------------------------------
(***************************************************************************)
(* The mutex.                                                               *)
(***************************************************************************)
Free == owner = NoThread /\ lockers = << >>

\* _rthread_mutex_lock(); trylock only differs in not waiting
pthread_mutex_lock(t, hasTime) ==
    /\ At(t, "idle")
    /\ \/ /\ Free
          /\ owner' = t /\ count' = count + 1 /\ has' = has \cup {t}
          /\ UNCHANGED <<lockers, pc, timed, error>> /\ NoSys
       \/ /\ owner = t /\ count < MaxCount
          /\ count' = count + 1
          /\ UNCHANGED <<owner, lockers, has, pc, timed, error>> /\ NoSys
       \/ /\ ~Free /\ owner # t
          /\ lockers' = Append(lockers, t)
          /\ SleepSelf(t, hasTime, "lock")
          /\ UNCHANGED <<owner, count, has>>
    /\ UNCHANGED <<condVars, waitVars, wake>>

\* ... after __thrsleep()
MutexLockWakes(t) ==
    /\ At(t, "lock")
    /\ \/ /\ owner = t
          /\ count' = count + 1 /\ has' = has \cup {t}
          /\ Done(t) /\ NoSys
          /\ UNCHANGED <<owner, lockers>>
       \/ /\ owner # t /\ error[t] = "EWOULDBLOCK"
          /\ lockers' = Without(lockers, t)
          /\ Done(t) /\ NoSys
          /\ UNCHANGED <<owner, count, has>>
       \/ /\ owner # t /\ error[t] # "EWOULDBLOCK"
          /\ SleepSelf(t, timed[t], "lock")
          /\ UNCHANGED <<mutexVars, has>>
    /\ UNCHANGED <<condVars, waitVars, wake>>

\* the first of lockers becomes the owner
Next1 == IF lockers = << >> THEN NoThread ELSE Head(lockers)
PassOn ==
    /\ owner' = Next1
    /\ lockers' = IF lockers = << >> THEN lockers ELSE Tail(lockers)

\* t goes on to __thrwakeup(u), if there is one
WakeLater(t, u, where) ==
    IF u = NoThread THEN UNCHANGED <<pc, wake>>
    ELSE Go(t, where) /\ wake' = [wake EXCEPT ![t] = u]

pthread_mutex_unlock(t) ==
    /\ At(t, "idle") /\ owner = t
    /\ count' = count - 1
    /\ IF count = 1 THEN /\ PassOn
                         /\ WakeLater(t, Next1, "wake")
                         /\ has' = has \ {t}
                    ELSE UNCHANGED <<owner, lockers, pc, wake, has>>
    /\ UNCHANGED <<condVars, waitVars, timed, error>> /\ NoSys

\* __thrwakeup(next, 1), at the end of several calls
Thrwakeup(t) ==
    LET W == Found(wake[t]) IN
    /\ At(t, "wake") \/ At(t, "bwake")
    /\ WakeThem(W) /\ p_thrslpid' = Cleared(W)
    /\ Go(t, "idle") /\ wake' = [wake EXCEPT ![t] = NoThread]
    /\ clock' = IF pc[t] = "bwake" THEN NoThread ELSE clock
    /\ UNCHANGED <<waiters, cmutex, blocking, mutexVars, waitVars, has, sys, timed,
                   error, canceled, delay, p_sig, p_timeout>>

-----------------------------------------------------------------------------
(***************************************************************************)
(* The condition variable.                                                  *)
(***************************************************************************)

\* _enter_delayed_cancel() of a thread that has been canceled: it exits, and
\* a new thread takes its place.
ExitCanceled(t) ==
    /\ At(t, "idle") /\ canceled[t]
    /\ canceled' = [canceled EXCEPT ![t] = FALSE]
    /\ UNCHANGED <<syncVars, p_thrslpid, sys, timed, error, delay, p_wchan, p_sig,
                   p_timeout>>

\* Mutant: the next owner is not woken.
NextOwnerWokenMutant == {}

\* "wake the next guy blocked on the mutex": whom __thrwakeup(next, 1) finds
NextOwnerWoken == IF Next1 = NoThread THEN {} ELSE Found(Next1)

\* pthread_cond_wait() and _timedwait() up to the first __thrsleep(), of a
\* thread that has not been canceled
pthread_cond_wait(t, hasTime) ==
    /\ At(t, "idle") /\ owner = t /\ ~canceled[t]
    /\ clock = NoThread
    /\ cmutex' = TRUE
    /\ blocking' = blocking \cup {t}
    /\ waiters' = Append(waiters, t)
    /\ mutex_count' = [mutex_count EXCEPT ![t] = count]
    /\ count' = 0 /\ has' = has \ {t}
    /\ PassOn
    /\ WakeThem(NextOwnerWoken)
    /\ thrsleep(t, Cleared(NextOwnerWoken), t, hasTime)
    /\ delay' = [delay EXCEPT ![t] = TRUE]
    /\ Go(t, "cond")
    /\ UNCHANGED <<clock, rv, signaled, wake, canceled, p_sig, p_timeout>>

\* The loop ends with the mutex, and the call returns.  A cancelation that
\* took the thread off the queue ends it: what it does from here on its
\* cleanup handlers do, and then a new thread.
CondReturn(t) ==
    /\ count' = mutex_count[t] /\ has' = has \cup {t}
    /\ mutex_count' = [mutex_count EXCEPT ![t] = 0]
    /\ canceled' = [canceled EXCEPT ![t] = @ /\ rv[t] # "canceled"]
    /\ rv' = [rv EXCEPT ![t] = "0"]
    /\ signaled' = signaled \ {t}
    /\ delay' = [delay EXCEPT ![t] = FALSE]
    /\ Done(t)
    /\ UNCHANGED <<p_thrslpid, sys, p_wchan, p_sig, p_timeout>>

\* "while (mutex->owner != self)", with mutex->lock; stays says whether a
\* cancelation is still delayed and abstime still counts
CondLoop(t, stays) ==
    /\ \/ /\ owner = t
          /\ CondReturn(t)
       \/ /\ owner # t
          /\ thrsleep(t, p_thrslpid, t, timed[t] /\ stays)
          /\ delay' = [delay EXCEPT ![t] = stays]
          /\ UNCHANGED <<count, has, waitVars, pc, canceled, p_wchan, p_sig, p_timeout>>
    /\ UNCHANGED <<owner, lockers>>

\* "a normal signal (not from cancellation)", or waiting for the mutex only:
\* pthread_cond_wait() then looks at blocking_cond once more, which is NULL
CondKeepsWaiting(t) == ~delay[t] \/ (error[t] = "EINTR" /\ ~canceled[t])

\* t leaves the condition's queue by itself.
CondLeaves(t) ==
    /\ rv' = [rv EXCEPT ![t] = CASE error[t] = "EWOULDBLOCK" -> "ETIMEDOUT"
                                 [] error[t] = "EINTR" -> "canceled"
                                 [] error[t] = "0" -> "0"]
    /\ waiters' = Without(waiters, t)
    /\ cmutex' = (cmutex /\ Without(waiters, t) # << >>)
    /\ blocking' = blocking \ {t}
    /\ delay' = [delay EXCEPT ![t] = FALSE]
    /\ Go(t, "requeue")
    /\ UNCHANGED <<mutexVars, has, mutex_count, signaled, p_thrslpid, sys, timed, error,
                   canceled, p_wchan, p_sig, p_timeout>>

\* Mutant: does not look at blocking_cond again.
CondAwakeMutant(t) ==
    /\ At(t, "cond")
    /\ \/ CondKeepsWaiting(t) /\ CondLoop(t, delay[t]) /\ UNCHANGED condVars
       \/ /\ ~CondKeepsWaiting(t)
          /\ clock = NoThread /\ UNCHANGED clock
          /\ IF error[t] # "0" THEN CondLeaves(t)
             ELSE CondLoop(t, FALSE) /\ UNCHANGED <<waiters, cmutex, blocking>>
    /\ UNCHANGED wake

\* pthread_cond_wait() after __thrsleep()
CondAwake(t) ==
    /\ At(t, "cond")
    /\ \/ CondKeepsWaiting(t) /\ CondLoop(t, delay[t]) /\ UNCHANGED condVars
       \/ /\ ~CondKeepsWaiting(t)
          /\ clock = NoThread /\ UNCHANGED clock
          /\ \/ t \in blocking /\ CondLeaves(t)
             \/ /\ t \notin blocking
                /\ CondLoop(t, FALSE) /\ UNCHANGED <<waiters, cmutex, blocking>>
    /\ UNCHANGED wake

\* ... between the release of cond->lock and the next __thrsleep()
CondRequeue(t) ==
    /\ At(t, "requeue")
    /\ \/ /\ Free
          /\ owner' = t /\ UNCHANGED lockers
          /\ CondReturn(t)
       \/ /\ ~Free
          /\ lockers' = Append(lockers, t)
          /\ SleepSelf(t, FALSE, "cond")
          /\ UNCHANGED <<owner, count, has, waitVars>>
    /\ UNCHANGED <<condVars, wake>>

\* Mutant: leaves blocking_cond.
SignalTakesMutant(t) ==
    /\ UNCHANGED blocking
    /\ waiters' = Tail(waiters)
    /\ cmutex' = (Len(waiters) > 1)
    /\ IF Free THEN /\ owner' = Head(waiters) /\ UNCHANGED lockers
                    /\ WakeLater(t, Head(waiters), "wake")
               ELSE /\ lockers' = Append(lockers, Head(waiters))
                    /\ UNCHANGED <<owner, pc, wake>>

\* the first waiter gets the mutex or waits for it
SignalTakes(t) ==
    /\ blocking' = blocking \ {Head(waiters)}
    /\ waiters' = Tail(waiters)
    /\ cmutex' = (Len(waiters) > 1)
    /\ IF Free THEN /\ owner' = Head(waiters) /\ UNCHANGED lockers
                    /\ WakeLater(t, Head(waiters), "wake")
               ELSE /\ lockers' = Append(lockers, Head(waiters))
                    /\ UNCHANGED <<owner, pc, wake>>

pthread_cond_signal(t) ==
    /\ At(t, "idle") /\ clock = NoThread /\ waiters # << >>
    /\ SignalTakes(t)
    /\ signaled' = signaled \cup {Head(waiters)}
    /\ UNCHANGED <<clock, count, has, mutex_count, rv, timed, error>> /\ NoSys

\* "attach the first thread to the end of the mutex's list"
BroadcastTakes(t) ==
    IF Free THEN /\ owner' = Head(waiters) /\ lockers' = Tail(waiters)
                 /\ clock' = t
                 /\ WakeLater(t, Head(waiters), "bwake")
            ELSE /\ lockers' = lockers \o waiters
                 /\ UNCHANGED <<owner, clock, pc, wake>>

\* pthread_cond_broadcast() keeps cond->lock until after __thrwakeup(); nobody
\* sees that cond->waiters and cond->mutex are reset after it.
pthread_cond_broadcast(t) ==
    /\ At(t, "idle") /\ clock = NoThread /\ waiters # << >>
    /\ blocking' = blocking \ ToSet(waiters)
    /\ waiters' = << >> /\ cmutex' = FALSE
    /\ BroadcastTakes(t)
    /\ signaled' = signaled \cup ToSet(waiters)
    /\ UNCHANGED <<count, has, mutex_count, rv, timed, error>> /\ NoSys

=============================================================================
