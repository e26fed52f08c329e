--------------------------- MODULE RThreadProofs ----------------------------
(***************************************************************************)
(* Proofs about RThread: RThreadInv is an invariant for any threads and any *)
(* workloads, any MaxCount and MaxValue.  It has a part for each object.    *)
(* The steps on one object leave the variables of the others alone, and     *)
(* change pc only between places that say nothing about the others, so that *)
(* the proof of each object is one of its own.                              *)
(*                                                                         *)
(* The second half is about who sleeps.  ThrInv relates p_thrslpid, the     *)
(* system call and pc, whatever the object; all steps in user mode have one *)
(* of three shapes (they call nothing, wake some threads, or wake some and  *)
(* sleep), and one lemma about each shape serves them all.  HandInv adds    *)
(* who wakes an owner that sleeps, AwakeInv who wakes a reader and a waiter *)
(* for the semaphore.                                                       *)
(***************************************************************************)
EXTENDS RThread, DataTheorems

\* p_thrslpid and p_wchan after some threads are woken.
LEMMA WakeTypes ==
    ASSUME ThrTypeOK, NEW W
    PROVE  /\ Cleared(W) \in [Thread -> Ident \cup {NoIdent}]
           /\ [t \in Thread |-> IF t \in W THEN NoChan ELSE p_wchan[t]]
                \in [Thread -> Thread \cup {NoChan}]
  BY DEF ThrTypeOK, Cleared

\* What a call of __thrsleep() leaves.
LEMMA SleepTypes ==
    ASSUME ThrTypeOK, NEW t \in Thread, NEW slpid \in [Thread -> Ident \cup {NoIdent}],
           NEW ident \in Ident, NEW hasTime \in BOOLEAN, thrsleep(t, slpid, ident, hasTime)
    PROVE  /\ p_thrslpid' \in [Thread -> Ident \cup {NoIdent}]
           /\ sys' \in [Thread -> {"user", "enter", "sleep"}]
           /\ timed' \in [Thread -> BOOLEAN]
           /\ error' \in [Thread -> {"0", "EINTR", "EWOULDBLOCK"}]
<1>1. /\ p_thrslpid' \in [Thread -> Ident \cup {NoIdent}]
      /\ sys' \in [Thread -> {"user", "enter", "sleep"}]
      /\ error' \in [Thread -> {"0", "EINTR", "EWOULDBLOCK"}]
  BY SMT DEF ThrTypeOK, thrsleep
<1>2. timed' = [timed EXCEPT ![t] = TRUE] \/ timed' = [timed EXCEPT ![t] = hasTime]
  BY Zenon DEF thrsleep
<1>3. timed' \in [Thread -> BOOLEAN]
  <2>1. ASSUME NEW b \in BOOLEAN, timed' = [timed EXCEPT ![t] = b]
        PROVE  timed' \in [Thread -> BOOLEAN]
    BY <2>1, SMT DEF ThrTypeOK
  <2> QED
    BY <1>2, <2>1
<1> QED
  BY <1>1, <1>3

\* The types of what the kernel keeps, in the steps on the mutex and on the
\* condition variable, ...
LEMMA SyncThrTypes ==
    ASSUME TypeOK, NEW t \in Thread, Sync(t)
    PROVE  ThrTypeOK'
<1> USE DEF TypeOK
<1>1. p_thrslpid \in [Thread -> Ident \cup {NoIdent}] /\ t \in Ident /\ timed[t] \in BOOLEAN
      /\ delay[t] \in BOOLEAN
  BY DEF ThrTypeOK, Ident
<1>2. CASE MutexCall(t) \/ MutexStep(t)
  <2>1. NoSys \/ \E b \in BOOLEAN : SleepSelf(t, b, "lock")
    BY <1>1, <1>2 DEF MutexCall, MutexStep, pthread_mutex_lock, MutexLockWakes
  <2>2. ASSUME NEW b \in BOOLEAN, SleepSelf(t, b, "lock") PROVE ThrTypeOK'
    BY <1>1, <2>2, SleepTypes DEF SleepSelf, ThrTypeOK
  <2>3. CASE NoSys
    <3>1. timed' \in [Thread -> BOOLEAN] /\ error' \in [Thread -> {"0", "EINTR", "EWOULDBLOCK"}]
      BY <1>2, <2>2, <2>3 DEF MutexCall, MutexStep, pthread_mutex_lock, MutexLockWakes, Done, ThrTypeOK
    <3> QED
      BY <2>3, <3>1 DEF NoSys, ThrTypeOK
  <2> QED
    BY <2>1, <2>2, <2>3
<1>3. CASE MutexUnlock(t) \/ CondNotify(t)
  BY <1>3 DEF MutexUnlock, CondNotify, pthread_mutex_unlock, pthread_cond_signal,
     pthread_cond_broadcast, NoSys, ThrTypeOK
<1>4. CASE WakeStep(t)
  BY <1>4, WakeTypes DEF WakeStep, Thrwakeup, WakeThem, ThrTypeOK
<1>5. CASE CondCall(t)
  BY <1>1, <1>5, WakeTypes, SleepTypes
     DEF CondCall, pthread_cond_wait, WakeThem, ExitCanceled, ThrTypeOK
<1>6. CASE CondStep(t)
  BY <1>1, <1>6, SleepTypes DEF CondStep, CondAwake, CondRequeue, CondLoop, CondReturn,
     CondLeaves, Done, SleepSelf, ThrTypeOK
<1> QED
  BY <1>2, <1>3, <1>4, <1>5, <1>6 DEF Sync

\* ... on the read/write lock and the semaphore, ...
LEMMA RwSemThrTypes ==
    ASSUME TypeOK, NEW t \in Thread, Rw(t) \/ Sem(t)
    PROVE  ThrTypeOK'
<1> USE DEF TypeOK
<1>1. p_thrslpid \in [Thread -> Ident \cup {NoIdent}] /\ t \in Ident /\ timed[t] \in BOOLEAN
      /\ "rwlock" \in Ident /\ "sem" \in Ident
  BY DEF ThrTypeOK, Ident
<1>2. CASE RwCall(t)
  BY <1>1, <1>2, SleepTypes DEF RwCall, pthread_rwlock_rdlock, pthread_rwlock_wrlock,
     ReaderSleeps, SleepSelf, NoSys, ThrTypeOK
<1>3. CASE RwStep(t)
  <2>1. NoSys \/ ReaderSleeps(t, timed[t]) \/ SleepSelf(t, timed[t], "wr")
    BY <1>3 DEF RwStep, RdlockWakes, WrlockWakes
  <2>2. CASE ReaderSleeps(t, timed[t])
    BY <1>1, <2>2, SleepTypes DEF ReaderSleeps, ThrTypeOK
  <2>3. CASE SleepSelf(t, timed[t], "wr")
    BY <1>1, <2>3, SleepTypes DEF SleepSelf, ThrTypeOK
  <2>4. CASE NoSys /\ Done(t)
    BY <2>4 DEF NoSys, Done, ThrTypeOK
  <2> QED
    BY <1>3, <2>2, <2>3, <2>4 DEF RwStep, RdlockWakes, WrlockWakes
<1>4. CASE RwUnlock(t)
  <2>1. UNCHANGED <<timed, error>>
    BY <1>4 DEF RwUnlock, pthread_rwlock_unlock
  <2>2. CASE NoSys
    BY <2>1, <2>2 DEF NoSys, ThrTypeOK
  <2>3. ASSUME NEW b, RwPassOn(t, b) PROVE ThrTypeOK'
    <3>1. CASE writers # << >>
      BY <2>2, <2>3, <3>1 DEF RwPassOn
    <3>2. CASE writers = << >>
      BY <2>1, <2>3, <3>2, WakeTypes DEF RwPassOn, WakeThem, ThrTypeOK
    <3> QED
      BY <3>1, <3>2
  <2> QED
    BY <1>4, <2>2, <2>3 DEF RwUnlock, pthread_rwlock_unlock
<1>5. CASE SemCall(t)
  <2>1. CASE NoSys /\ UNCHANGED <<timed, error>>
    BY <2>1 DEF NoSys, ThrTypeOK
  <2>2. ASSUME NEW b \in BOOLEAN, SemSleeps(t, b) PROVE ThrTypeOK'
    BY <1>1, <2>2, SleepTypes DEF SemSleeps, ThrTypeOK
  <2>3. CASE sem_post(t)
    <3>1. ASSUME NEW u, WakeThem({u}), p_thrslpid' = Cleared({u})
          PROVE  /\ p_thrslpid' \in [Thread -> Ident \cup {NoIdent}]
                 /\ p_wchan' \in [Thread -> Thread \cup {NoChan}]
      BY <3>1, WakeTypes DEF WakeThem
    <3> QED
      BY <2>3, <3>1 DEF sem_post, ThrTypeOK
  <2> QED
    BY <1>5, <2>1, <2>2, <2>3 DEF SemCall, sem_wait
<1>6. CASE SemStep(t)
  <2>1. CASE SemSleeps(t, timed[t])
    BY <1>1, <2>1, SleepTypes DEF SemSleeps, ThrTypeOK
  <2>2. ASSUME NEW f \in BOOLEAN, SemReturns(t, f) PROVE ThrTypeOK'
    <3>1. canceled' \in [Thread -> BOOLEAN]
      BY <2>2 DEF SemReturns, ThrTypeOK
    <3> QED
      BY <2>2, <3>1 DEF SemReturns, Done, ThrTypeOK
  <2> QED
    BY <1>6, <2>1, <2>2 DEF SemStep, SemWakes
<1> QED
  BY <1>2, <1>3, <1>4, <1>5, <1>6 DEF Rw, Sem

\* ... and in the kernel.
LEMMA KernelThrTypes ==
    ASSUME TypeOK, NEW t \in Thread, KernelStep(t) \/ KernelEvent(t)
    PROVE  ThrTypeOK'
<1> USE DEF TypeOK
<1>1. CASE KernelStep(t)
  BY <1>1, ZenonT(40) DEF KernelStep, ThrsleepEnter, ThrsleepReturn, SysReturn, SleepCatch, TsleepError,
     ThrTypeOK
<1>2. CASE KernelEvent(t)
  BY <1>2, ZenonT(40) DEF KernelEvent, ThrTimeout, ThrSignal, pthread_cancel, EndTsleep, PostSignal,
     ThrTypeOK
<1> QED
  BY <1>1, <1>2

-----------------------------------------------------------------------------
\* The invariant of the mutex and the condition variable.
SyncInv == SyncTypeOK /\ MutexInv /\ WaitInv

\* A thread that is not in a call waits in no queue.
LEMMA IdleWaitsNowhere ==
    ASSUME SyncInv, NEW t \in Thread, pc[t] = "idle"
    PROVE  t \notin ToSet(lockers) /\ t \notin ToSet(waiters)
           /\ t \notin blocking /\ t \notin signaled /\ (owner = t => t \in has /\ count > 0)
  BY DEF SyncInv, SyncTypeOK, MutexInv, WaitInv

\* pthread_mutex_lock() keeps it, ...
LEMMA LockKeeps ==
    ASSUME SyncInv, NEW t \in Thread, NEW hasTime, pthread_mutex_lock(t, hasTime)
    PROVE  SyncInv'
<1> USE DEF SyncInv
<1>1. /\ pc[t] = "idle"
      /\ UNCHANGED <<waiters, cmutex, clock, blocking, mutex_count, rv, signaled, wake>>
  BY DEF pthread_mutex_lock, At, condVars, waitVars
<1>2. CASE Free
  <2>1. /\ owner' = t /\ count' = count + 1 /\ has' = has \cup {t} /\ UNCHANGED <<lockers, pc>>
        /\ owner = NoThread /\ lockers = << >>
    BY <1>2, ThrsleepAssumption DEF pthread_mutex_lock, Free
  <2>2. count = 0 /\ has = {} /\ ToSet(lockers) = {}
    <3>1. ToSet(lockers) = {}
      BY <2>1, QueueSet DEF SyncTypeOK
    <3>2. has = {}
      BY <2>1, ThrsleepAssumption DEF SyncTypeOK, MutexInv
    <3> QED
      BY <3>1, <3>2 DEF SyncTypeOK, MutexInv
  <2>3. SyncTypeOK'
    BY <1>1, <2>1, <2>2, RThreadSyncAssumption DEF SyncTypeOK
  <2>4. MutexInv'
    BY <1>1, <2>1, <2>2, IdleWaitsNowhere, ThrsleepAssumption DEF MutexInv, SyncTypeOK
  <2>5. WaitInv'
    BY <1>1, <2>1 DEF WaitInv
  <2> QED
    BY <2>3, <2>4, <2>5
<1>3. CASE owner = t
  <2>1. count < MaxCount /\ count' = count + 1 /\ UNCHANGED <<owner, lockers, has, pc>>
    BY <1>3, ThrsleepAssumption DEF pthread_mutex_lock, Free
  <2>3. SyncTypeOK'
    BY <1>1, <2>1, RThreadSyncAssumption DEF SyncTypeOK
  <2>4. MutexInv'
    BY <1>1, <1>3, <2>1, IdleWaitsNowhere, ThrsleepAssumption DEF MutexInv, SyncTypeOK
  <2>5. WaitInv'
    BY <1>1, <2>1 DEF WaitInv
  <2> QED
    BY <2>3, <2>4, <2>5
<1>4. CASE ~Free /\ owner # t
  <2>1. /\ lockers' = Append(lockers, t) /\ pc' = [pc EXCEPT ![t] = "lock"]
        /\ UNCHANGED <<owner, count, has>>
    BY <1>4 DEF pthread_mutex_lock, SleepSelf, Go
  <2>2. /\ lockers' \in Seq(Thread) /\ ToSet(lockers') = ToSet(lockers) \cup {t}
        /\ IsInjective(lockers') /\ lockers' # << >> /\ owner # NoThread
    BY <1>1, <1>4, <2>1, IdleWaitsNowhere, QueueAppend DEF SyncTypeOK, MutexInv, Free
  <2>3. SyncTypeOK'
    BY <1>1, <2>1, <2>2 DEF SyncTypeOK
  <2>4. \A u \in Thread : pc'[u] = IF u = t THEN "lock" ELSE pc[u]
    BY <2>1 DEF SyncTypeOK
  <2>5. MutexInv'
    BY <1>1, <1>4, <2>1, <2>2, <2>4, IdleWaitsNowhere, ThrsleepAssumption
       DEF MutexInv, SyncTypeOK
  <2>6. WaitInv'
    BY <1>1, <2>1, <2>4, IdleWaitsNowhere DEF WaitInv, SyncTypeOK
  <2> QED
    BY <2>3, <2>5, <2>6
<1> QED
  BY <1>2, <1>3, <1>4

\* ... and so does the rest of it after __thrsleep(), ...
LEMMA LockWakesKeeps ==
    ASSUME SyncInv, NEW t \in Thread, MutexLockWakes(t)
    PROVE  SyncInv'
<1> USE DEF SyncInv
<1>1. /\ pc[t] = "lock"
      /\ UNCHANGED <<waiters, cmutex, clock, blocking, mutex_count, rv, signaled, wake, owner>>
  BY DEF MutexLockWakes, At, condVars, waitVars, mutexVars
<1>2. CASE owner = t
  <2>1. count' = count + 1 /\ has' = has \cup {t} /\ lockers' = lockers
        /\ pc' = [pc EXCEPT ![t] = "idle"]
    BY <1>2 DEF MutexLockWakes, Done, Go
  <2>2. count = 0 /\ has = {} /\ t \notin ToSet(lockers) /\ t \notin ToSet(waiters)
    BY <1>1, <1>2, ThrsleepAssumption DEF SyncTypeOK, MutexInv
  <2>3. SyncTypeOK'
    BY <1>1, <2>1, <2>2, RThreadSyncAssumption DEF SyncTypeOK
  <2>4. \A u \in Thread : pc'[u] = IF u = t THEN "idle" ELSE pc[u]
    BY <2>1 DEF SyncTypeOK
  <2>5. MutexInv'
    BY <1>1, <1>2, <2>1, <2>2, <2>4, ThrsleepAssumption DEF MutexInv, SyncTypeOK
  <2>6. WaitInv'
    BY <1>1, <2>1, <2>4 DEF WaitInv, SyncTypeOK
  <2> QED
    BY <2>3, <2>5, <2>6
<1>3. CASE owner # t /\ error[t] = "EWOULDBLOCK"
  <2>1. lockers' = Without(lockers, t) /\ UNCHANGED <<count, has>>
        /\ pc' = [pc EXCEPT ![t] = "idle"]
    BY <1>3 DEF MutexLockWakes, Done, Go
  <2>2. /\ lockers' \in Seq(Thread) /\ IsInjective(lockers')
        /\ ToSet(lockers') = ToSet(lockers) \ {t}
    BY <2>1, QueueRemove DEF SyncTypeOK, MutexInv, Without
  <2>3. SyncTypeOK'
    BY <1>1, <2>1, <2>2 DEF SyncTypeOK
  <2>4. \A u \in Thread : pc'[u] = IF u = t THEN "idle" ELSE pc[u]
    BY <2>1 DEF SyncTypeOK
  <2>5. t \notin ToSet(waiters) /\ (lockers = << >> => lockers' = << >>)
    BY <1>1, <2>2, QueueSet DEF MutexInv, SyncTypeOK
  <2>6. MutexInv'
    BY <1>1, <1>3, <2>1, <2>2, <2>4, <2>5, ThrsleepAssumption DEF MutexInv, SyncTypeOK
  <2>7. WaitInv'
    BY <1>1, <2>1, <2>4 DEF WaitInv, SyncTypeOK
  <2> QED
    BY <2>3, <2>6, <2>7
<1>4. CASE owner # t /\ error[t] # "EWOULDBLOCK"
  <2>1. UNCHANGED <<lockers, count, has>> /\ pc' = [pc EXCEPT ![t] = "lock"]
    BY <1>4 DEF MutexLockWakes, SleepSelf, Go, mutexVars
  <2>2. pc' = pc
    BY <1>1, <2>1 DEF SyncTypeOK
  <2> QED
    BY <1>1, <2>1, <2>2 DEF SyncTypeOK, MutexInv, WaitInv
<1> QED
  BY <1>2, <1>3, <1>4

\* ... pthread_mutex_unlock(), ...
LEMMA UnlockKeeps ==
    ASSUME SyncInv, NEW t \in Thread, pthread_mutex_unlock(t)
    PROVE  SyncInv'
<1> USE DEF SyncInv
<1>1. /\ pc[t] = "idle" /\ owner = t /\ count' = count - 1
      /\ UNCHANGED <<waiters, cmutex, clock, blocking, mutex_count, rv, signaled>>
  BY DEF pthread_mutex_unlock, At, condVars, waitVars
<1>2. /\ has = {t} /\ count > 0 /\ t \notin ToSet(lockers) /\ t \notin ToSet(waiters)
  BY <1>1, IdleWaitsNowhere DEF SyncTypeOK, MutexInv
<1>3. CASE count # 1
  <2>1. UNCHANGED <<owner, lockers, pc, wake, has>>
    BY <1>3 DEF pthread_mutex_unlock
  <2>3. count' \in 0 .. MaxCount /\ count' > 0
    BY <1>1, <1>2, <1>3, RThreadSyncAssumption DEF SyncTypeOK
  <2>2. SyncTypeOK'
    BY <1>1, <2>1, <2>3 DEF SyncTypeOK
  <2>4. MutexInv'
    BY <1>1, <1>2, <2>1, <2>3 DEF MutexInv, SyncTypeOK
  <2>5. WaitInv'
    BY <1>1, <2>1 DEF WaitInv
  <2> QED
    BY <2>2, <2>4, <2>5
<1>4. CASE count = 1
  <2>1. count' = 0 /\ has' = {} /\ PassOn /\ WakeLater(t, Next1, "wake")
    BY <1>1, <1>2, <1>4 DEF pthread_mutex_unlock
  <2>2. CASE lockers = << >>
    <3>1. owner' = NoThread /\ UNCHANGED <<lockers, pc, wake>> /\ ToSet(lockers) = {}
      BY <2>1, <2>2, QueueSet DEF PassOn, WakeLater, Next1, SyncTypeOK
    <3>2. SyncTypeOK'
      BY <1>1, <2>1, <3>1, RThreadSyncAssumption DEF SyncTypeOK
    <3>3. MutexInv'
      BY <1>1, <2>1, <2>2, <3>1, ThrsleepAssumption DEF MutexInv, SyncTypeOK
    <3>4. WaitInv'
      BY <1>1, <3>1 DEF WaitInv
    <3> QED
      BY <3>2, <3>3, <3>4
  <2>3. CASE lockers # << >>
    <3>1. PICK u \in Thread : u = Head(lockers)
      BY <2>3, QueueTail DEF SyncTypeOK
    <3>2. owner' = u /\ lockers' = Tail(lockers) /\ Next1 = u /\ u # NoThread
      BY <2>1, <2>3, <3>1, ThrsleepAssumption DEF PassOn, Next1
    <3>3. pc' = [pc EXCEPT ![t] = "wake"] /\ wake' = [wake EXCEPT ![t] = u]
      BY <2>1, <3>2 DEF WakeLater, Go
    <3>4. /\ lockers' \in Seq(Thread) /\ IsInjective(lockers')
          /\ ToSet(lockers') = ToSet(lockers) \ {u} /\ u \in ToSet(lockers)
      BY <2>3, <3>1, <3>2, QueueTail DEF SyncTypeOK, MutexInv
    <3>5. SyncTypeOK'
      BY <1>1, <2>1, <3>2, <3>3, <3>4, RThreadSyncAssumption DEF SyncTypeOK
    <3>6. \A x \in Thread : pc'[x] = IF x = t THEN "wake" ELSE pc[x]
      BY <3>3 DEF SyncTypeOK
    <3>7. MutexInv'
      BY <1>1, <1>2, <2>1, <3>2, <3>4, <3>6, ThrsleepAssumption, QueueSet
         DEF MutexInv, SyncTypeOK
    <3>8. WaitInv'
      BY <1>1, <3>6, IdleWaitsNowhere DEF WaitInv, SyncTypeOK
    <3> QED
      BY <3>5, <3>7, <3>8
  <2> QED
    BY <2>2, <2>3
<1> QED
  BY <1>3, <1>4

\* ... the __thrwakeup() at the end of several calls, ...
LEMMA ThrwakeupKeeps ==
    ASSUME SyncInv, NEW t \in Thread, Thrwakeup(t)
    PROVE  SyncInv'
<1> USE DEF SyncInv
<1>1. /\ pc[t] \in {"wake", "bwake"} /\ pc' = [pc EXCEPT ![t] = "idle"]
      /\ wake' = [wake EXCEPT ![t] = NoThread] /\ clock' \in {clock, NoThread}
      /\ UNCHANGED <<waiters, cmutex, blocking, owner, lockers, count, mutex_count, rv,
                     signaled, has>>
  BY DEF Thrwakeup, At, Go, mutexVars, waitVars
<1>2. \A x \in Thread : pc'[x] = IF x = t THEN "idle" ELSE pc[x]
  BY <1>1 DEF SyncTypeOK
<1>3. SyncTypeOK'
  BY <1>1 DEF SyncTypeOK
<1>4. MutexInv'
  BY <1>1, <1>2, ThrsleepAssumption, QueueSet DEF MutexInv, SyncTypeOK
<1>5. WaitInv'
  BY <1>1, <1>2, QueueSet DEF WaitInv, SyncTypeOK
<1> QED
  BY <1>3, <1>4, <1>5

\* ... pthread_cond_wait() up to the first __thrsleep(), which gives the whole
\* mutex away, ...
LEMMA CondWaitKeeps ==
    ASSUME SyncInv, NEW t \in Thread, NEW hasTime, pthread_cond_wait(t, hasTime)
    PROVE  SyncInv'
<1> USE DEF SyncInv
<1>1. /\ pc[t] = "idle" /\ owner = t /\ cmutex' = TRUE /\ blocking' = blocking \cup {t}
      /\ waiters' = Append(waiters, t) /\ mutex_count' = [mutex_count EXCEPT ![t] = count]
      /\ count' = 0 /\ has' = has \ {t} /\ PassOn /\ pc' = [pc EXCEPT ![t] = "cond"]
      /\ UNCHANGED <<clock, rv, signaled, wake>>
  BY DEF pthread_cond_wait, At, Go
<1>2. /\ has = {t} /\ count > 0 /\ t \notin ToSet(lockers) /\ t \notin ToSet(waiters)
      /\ t \notin signaled
  BY <1>1, IdleWaitsNowhere DEF SyncTypeOK, MutexInv
<1>3. /\ waiters' \in Seq(Thread) /\ ToSet(waiters') = ToSet(waiters) \cup {t}
      /\ IsInjective(waiters') /\ waiters' # << >>
  BY <1>1, <1>2, QueueAppend DEF SyncTypeOK, MutexInv
<1>4. /\ \A x \in Thread : pc'[x] = IF x = t THEN "cond" ELSE pc[x]
      /\ \A x \in Thread : mutex_count'[x] = IF x = t THEN count ELSE mutex_count[x]
  BY <1>1 DEF SyncTypeOK
<1>5. WaitInv'
  BY <1>1, <1>2, <1>3, <1>4 DEF WaitInv, SyncTypeOK
<1>6. CASE lockers = << >>
  <2>1. owner' = NoThread /\ UNCHANGED lockers /\ ToSet(lockers) = {}
    BY <1>1, <1>6, QueueSet DEF PassOn, Next1, SyncTypeOK
  <2>2. SyncTypeOK'
    BY <1>1, <1>3, <2>1, RThreadSyncAssumption DEF SyncTypeOK
  <2>3. MutexInv'
    BY <1>1, <1>2, <1>3, <1>4, <1>6, <2>1, ThrsleepAssumption, QueueSet DEF MutexInv, SyncTypeOK
  <2> QED
    BY <1>5, <2>2, <2>3
<1>7. CASE lockers # << >>
  <2>1. PICK u \in Thread : u = Head(lockers)
    BY <1>7, QueueTail DEF SyncTypeOK
  <2>2. owner' = u /\ lockers' = Tail(lockers) /\ u # NoThread
    BY <1>1, <1>7, <2>1, ThrsleepAssumption DEF PassOn, Next1
  <2>3. /\ lockers' \in Seq(Thread) /\ IsInjective(lockers')
        /\ ToSet(lockers') = ToSet(lockers) \ {u} /\ u \in ToSet(lockers)
    BY <1>7, <2>1, <2>2, QueueTail DEF SyncTypeOK, MutexInv
  <2>4. SyncTypeOK'
    BY <1>1, <1>3, <2>2, <2>3, RThreadSyncAssumption, SMTT(30) DEF SyncTypeOK
  <2>5. MutexInv'
    BY <1>1, <1>2, <1>3, <1>4, <2>2, <2>3, ThrsleepAssumption, QueueSet, SMTT(30) DEF MutexInv, SyncTypeOK
  <2> QED
    BY <1>5, <2>4, <2>5
<1> QED
  BY <1>6, <1>7

\* ... its return with the mutex, ...
LEMMA CondReturnKeeps ==
    ASSUME SyncInv, NEW t \in Thread, pc[t] \in {"cond", "requeue"}, has = {},
           t \notin ToSet(lockers), t \notin ToSet(waiters),
           CondReturn(t), owner' = t, UNCHANGED <<lockers, condVars, wake>>
    PROVE  SyncInv'
<1> USE DEF SyncInv
<1>1. /\ count' = mutex_count[t] /\ has' = {t}
      /\ mutex_count' = [mutex_count EXCEPT ![t] = 0] /\ rv' = [rv EXCEPT ![t] = "0"]
      /\ signaled' = signaled \ {t} /\ pc' = [pc EXCEPT ![t] = "idle"]
      /\ UNCHANGED <<lockers, waiters, cmutex, clock, blocking, wake>>
  BY DEF CondReturn, Done, Go, condVars
<1>2. /\ \A x \in Thread : pc'[x] = IF x = t THEN "idle" ELSE pc[x]
      /\ \A x \in Thread : mutex_count'[x] = IF x = t THEN 0 ELSE mutex_count[x]
      /\ \A x \in Thread : rv'[x] = IF x = t THEN "0" ELSE rv[x]
  BY <1>1 DEF SyncTypeOK
<1>3. mutex_count[t] > 0 /\ mutex_count[t] \in 0 .. MaxCount
  BY DEF WaitInv, SyncTypeOK
<1>4. SyncTypeOK'
  BY <1>1, <1>3, RThreadSyncAssumption DEF SyncTypeOK
<1>5. MutexInv'
  <2>1. owner = NoThread => lockers = << >>
    BY DEF MutexInv
  <2> QED
    BY <1>1, <1>2, <1>3, <2>1, ThrsleepAssumption, QueueSet DEF MutexInv, SyncTypeOK
<1>6. WaitInv'
  BY <1>1, <1>2, <1>3, QueueSet DEF WaitInv, SyncTypeOK
<1> QED
  BY <1>4, <1>5, <1>6

\* ... its wait for the mutex, ...
LEMMA CondLoopKeeps ==
    ASSUME SyncInv, NEW t \in Thread, pc[t] = "cond", NEW stays, CondLoop(t, stays),
           UNCHANGED <<condVars, wake>>
    PROVE  SyncInv'
<1>1. CASE owner = t
  <2>1. has = {} /\ t \notin ToSet(lockers) /\ t \notin ToSet(waiters)
    BY <1>1 DEF SyncInv, MutexInv, SyncTypeOK
  <2>2. CondReturn(t) /\ owner' = t /\ lockers' = lockers
    BY <1>1 DEF CondLoop
  <2> QED
    BY <2>1, <2>2, CondReturnKeeps
<1>2. CASE owner # t
  <2>1. UNCHANGED <<owner, lockers, count, has, mutex_count, rv, signaled, pc, waiters, cmutex,
                    clock, blocking, wake>>
    BY <1>2 DEF CondLoop, waitVars, condVars
  <2> QED
    BY <2>1 DEF SyncInv, SyncTypeOK, MutexInv, WaitInv
<1> QED
  BY <1>1, <1>2

\* ... its leaving the condition's queue, of a thread that is still in it, ...
LEMMA CondLeavesKeeps ==
    ASSUME SyncInv, ThrTypeOK, NEW t \in Thread, pc[t] = "cond", t \in blocking,
           CondLeaves(t), UNCHANGED <<clock, wake>>
    PROVE  SyncInv'
<1> USE DEF SyncInv
<1>1. /\ waiters' = Without(waiters, t) /\ cmutex' = (cmutex /\ Without(waiters, t) # << >>)
      /\ blocking' = blocking \ {t} /\ pc' = [pc EXCEPT ![t] = "requeue"]
      /\ UNCHANGED <<owner, lockers, count, has, mutex_count, signaled>>
  BY DEF CondLeaves, Go, mutexVars
<1>2. PICK r \in {"0", "ETIMEDOUT", "canceled"} : rv' = [rv EXCEPT ![t] = r]
  <2>1. error[t] \in {"0", "EINTR", "EWOULDBLOCK"}
    BY DEF ThrTypeOK
  <2>2. error[t] = "0" => rv' = [rv EXCEPT ![t] = "0"]
    BY DEF CondLeaves
  <2>3. error[t] = "EINTR" => rv' = [rv EXCEPT ![t] = "canceled"]
    BY DEF CondLeaves
  <2>4. error[t] = "EWOULDBLOCK" => rv' = [rv EXCEPT ![t] = "ETIMEDOUT"]
    BY DEF CondLeaves
  <2> QED
    BY <2>1, <2>2, <2>3, <2>4
<1>3. /\ waiters' \in Seq(Thread) /\ IsInjective(waiters')
      /\ ToSet(waiters') = ToSet(waiters) \ {t} /\ t \in ToSet(waiters)
  BY <1>1, QueueRemove DEF SyncTypeOK, MutexInv, Without
<1>4. /\ \A x \in Thread : pc'[x] = IF x = t THEN "requeue" ELSE pc[x]
      /\ \A x \in Thread : rv'[x] = IF x = t THEN r ELSE rv[x]
  BY <1>1, <1>2 DEF SyncTypeOK
<1>5. t \notin signaled /\ t \notin ToSet(lockers) /\ owner # t /\ waiters # << >> /\ cmutex
  BY <1>3, QueueSet DEF MutexInv, WaitInv, SyncTypeOK
<1>6. cmutex' = (waiters' # << >>)
  BY <1>1, <1>5
<1>7. SyncTypeOK'
  BY <1>1, <1>2, <1>3, <1>6 DEF SyncTypeOK
<1>8. MutexInv'
  <2>1. cmutex' <=> waiters' # << >>
    BY <1>6
  <2> QED
    BY <1>1, <1>3, <1>4, <1>5, <2>1, ThrsleepAssumption, QueueSet DEF MutexInv, SyncTypeOK
<1>9. WaitInv'
  BY <1>1, <1>3, <1>4, <1>5, QueueSet, SMTT(30) DEF WaitInv, SyncTypeOK
<1> QED
  BY <1>7, <1>8, <1>9

\* ... what it does when __thrsleep() returns, ...
LEMMA CondAwakeKeeps ==
    ASSUME SyncInv, ThrTypeOK, NEW t \in Thread, CondAwake(t)
    PROVE  SyncInv'
<1>1. pc[t] = "cond" /\ wake' = wake
  BY DEF CondAwake, At
<1>2. CASE t \in blocking /\ CondLeaves(t) /\ clock' = clock
  BY <1>1, <1>2, CondLeavesKeeps
<1>3. ASSUME NEW s, CondLoop(t, s), UNCHANGED condVars PROVE SyncInv'
  BY <1>1, <1>3, CondLoopKeeps
<1> QED
  BY <1>2, <1>3 DEF CondAwake, condVars

\* ... its way to the mutex after it has left the queue, ...
LEMMA CondRequeueKeeps ==
    ASSUME SyncInv, NEW t \in Thread, CondRequeue(t)
    PROVE  SyncInv'
<1> USE DEF SyncInv
<1>1. pc[t] = "requeue" /\ UNCHANGED <<condVars, wake>>
  BY DEF CondRequeue, At
<1>2. t \notin ToSet(lockers) /\ t \notin ToSet(waiters) /\ t \notin has /\ owner # t
      /\ t \notin signaled
  BY <1>1 DEF MutexInv, SyncTypeOK, WaitInv
<1>3. CASE Free
  <2>1. owner' = t /\ lockers' = lockers /\ CondReturn(t)
    BY <1>3 DEF CondRequeue
  <2>2. has = {}
    BY <1>3, ThrsleepAssumption DEF Free, MutexInv, SyncTypeOK
  <2> QED
    BY <1>1, <1>2, <2>1, <2>2, CondReturnKeeps
<1>4. CASE ~Free
  <2>1. /\ lockers' = Append(lockers, t) /\ pc' = [pc EXCEPT ![t] = "cond"]
        /\ UNCHANGED <<owner, count, has, mutex_count, rv, signaled, waiters, cmutex, clock,
                       blocking, wake>>
    BY <1>1, <1>4 DEF CondRequeue, SleepSelf, Go, waitVars, condVars
  <2>2. /\ lockers' \in Seq(Thread) /\ ToSet(lockers') = ToSet(lockers) \cup {t}
        /\ IsInjective(lockers') /\ lockers' # << >> /\ owner # NoThread
    BY <1>2, <1>4, <2>1, QueueAppend DEF SyncTypeOK, MutexInv, Free
  <2>3. SyncTypeOK'
    BY <2>1, <2>2 DEF SyncTypeOK
  <2>4. \A x \in Thread : pc'[x] = IF x = t THEN "cond" ELSE pc[x]
    BY <2>1 DEF SyncTypeOK
  <2>5. MutexInv'
    BY <1>2, <2>1, <2>2, <2>4, ThrsleepAssumption, QueueSet DEF MutexInv, SyncTypeOK
  <2>6. WaitInv'
    BY <1>1, <1>2, <2>1, <2>4, QueueSet DEF WaitInv, SyncTypeOK
  <2> QED
    BY <2>3, <2>5, <2>6
<1> QED
  BY <1>3, <1>4

\* ... pthread_cond_signal(), ...
LEMMA SignalKeeps ==
    ASSUME SyncInv, NEW t \in Thread, pthread_cond_signal(t)
    PROVE  SyncInv'
<1> USE DEF SyncInv
<1>1. /\ pc[t] = "idle" /\ waiters # << >> /\ waiters' = Tail(waiters)
      /\ cmutex' = (Len(waiters) > 1) /\ SignalTakes(t)
      /\ UNCHANGED <<clock, count, has, mutex_count, rv>>
  BY DEF pthread_cond_signal, At, SignalTakes
<1>2. PICK u \in Thread : u = Head(waiters)
  BY <1>1, QueueTail DEF SyncTypeOK
<1>3. blocking' = blocking \ {u} /\ signaled' = signaled \cup {u}
  BY <1>2 DEF pthread_cond_signal, SignalTakes
<1>4. /\ waiters' \in Seq(Thread) /\ IsInjective(waiters')
      /\ ToSet(waiters') = ToSet(waiters) \ {u} /\ u \in ToSet(waiters)
  BY <1>1, <1>2, QueueTail DEF SyncTypeOK, MutexInv
<1>5. cmutex' = (waiters' # << >>)
  <2>1. Len(waiters) \in Nat /\ Len(waiters') = Len(waiters) - 1
    BY <1>1 DEF SyncTypeOK
  <2>2. waiters' # << >> <=> Len(waiters) > 1
    BY <1>4, <2>1
  <2> QED
    BY <1>1, <2>2
<1>6. pc[u] = "cond" /\ u # t /\ owner # u /\ u \notin ToSet(lockers) /\ u \notin has
  BY <1>1, <1>4 DEF MutexInv, SyncTypeOK
<1>7. CASE Free
  <2>1. /\ owner' = u /\ UNCHANGED lockers /\ pc' = [pc EXCEPT ![t] = "wake"]
        /\ wake' = [wake EXCEPT ![t] = u]
    BY <1>1, <1>2, <1>7, ThrsleepAssumption DEF SignalTakes, WakeLater, Go
  <2>2. \A x \in Thread : pc'[x] = IF x = t THEN "wake" ELSE pc[x]
    BY <2>1 DEF SyncTypeOK
  <2>3. lockers = << >> /\ ToSet(lockers) = {} /\ has = {}
    BY <1>7, QueueSet, ThrsleepAssumption, ZenonT(40) DEF Free, SyncTypeOK, MutexInv
  <2>4. SyncTypeOK'
    BY <1>1, <1>3, <1>4, <1>5, <2>1 DEF SyncTypeOK
  <2>5. MutexInv'
    BY <1>1, <1>3, <1>4, <1>5, <1>6, <2>1, <2>2, <2>3, ThrsleepAssumption, QueueSet
       DEF MutexInv, SyncTypeOK
  <2>6. WaitInv'
    BY <1>1, <1>3, <1>4, <1>6, <2>1, <2>2, QueueSet DEF WaitInv, SyncTypeOK
  <2> QED
    BY <2>4, <2>5, <2>6
<1>8. CASE ~Free
  <2>1. lockers' = Append(lockers, u) /\ UNCHANGED <<owner, pc, wake>>
    BY <1>1, <1>2, <1>8 DEF SignalTakes
  <2>2. /\ lockers' \in Seq(Thread) /\ ToSet(lockers') = ToSet(lockers) \cup {u}
        /\ IsInjective(lockers') /\ lockers' # << >> /\ owner # NoThread
    BY <1>6, <1>8, <2>1, QueueAppend, SMTT(30) DEF SyncTypeOK, MutexInv, Free
  <2>3. SyncTypeOK'
    BY <1>1, <1>3, <1>4, <1>5, <2>1, <2>2 DEF SyncTypeOK
  <2>4. MutexInv'
    BY <1>1, <1>3, <1>4, <1>5, <1>6, <2>1, <2>2, ThrsleepAssumption, QueueSet
       DEF MutexInv, SyncTypeOK
  <2>5. WaitInv'
    BY <1>1, <1>3, <1>4, <1>6, <2>1, QueueSet DEF WaitInv, SyncTypeOK
  <2> QED
    BY <2>3, <2>4, <2>5
<1> QED
  BY <1>7, <1>8

\* ... and pthread_cond_broadcast(), which moves the whole queue.
LEMMA BroadcastKeeps ==
    ASSUME SyncInv, NEW t \in Thread, pthread_cond_broadcast(t)
    PROVE  SyncInv'
<1> USE DEF SyncInv
<1>1. /\ pc[t] = "idle" /\ waiters # << >> /\ waiters' = << >> /\ cmutex' = FALSE
      /\ blocking' = {} /\ signaled' = signaled \cup ToSet(waiters) /\ BroadcastTakes(t)
      /\ UNCHANGED <<count, has, mutex_count, rv>>
  BY DEF pthread_cond_broadcast, At, MutexInv
<1>2. waiters' \in Seq(Thread) /\ ToSet(waiters') = {} /\ ToSet(waiters) \subseteq Thread
  <2>1. waiters' \in Seq(Thread)
    BY <1>1
  <2>2. ToSet(waiters') = {}
    BY <1>1, <2>1, QueueSet
  <2> QED
    BY <2>1, <2>2, QueueSet DEF SyncTypeOK
<1>3. IsInjective(waiters')
  BY <1>1 DEF IsInjective
<1>4. CASE Free
  <2>1. PICK u \in Thread : u = Head(waiters)
    BY <1>1, QueueTail DEF SyncTypeOK
  <2>2. /\ owner' = u /\ lockers' = Tail(waiters) /\ clock' = t
        /\ pc' = [pc EXCEPT ![t] = "bwake"] /\ wake' = [wake EXCEPT ![t] = u]
    BY <1>1, <1>4, <2>1, ThrsleepAssumption DEF BroadcastTakes, WakeLater, Go
  <2>3. /\ lockers' \in Seq(Thread) /\ IsInjective(lockers')
        /\ ToSet(lockers') = ToSet(waiters) \ {u} /\ u \in ToSet(waiters)
    BY <1>1, <2>1, <2>2, QueueTail DEF SyncTypeOK, MutexInv
  <2>4. \A x \in Thread : pc'[x] = IF x = t THEN "bwake" ELSE pc[x]
    BY <2>2 DEF SyncTypeOK
  <2>5. has = {} /\ pc[u] = "cond" /\ u # t
    BY <1>1, <1>4, <2>3, ThrsleepAssumption DEF Free, SyncTypeOK, MutexInv
  <2>6. SyncTypeOK'
    BY <1>1, <1>2, <2>2, <2>3 DEF SyncTypeOK
  <2>7. MutexInv'
    BY <1>1, <1>2, <1>3, <2>2, <2>3, <2>4, <2>5, ThrsleepAssumption DEF MutexInv, SyncTypeOK
  <2>8. WaitInv'
    BY <1>1, <1>2, <2>2, <2>4, ThrsleepAssumption DEF WaitInv, SyncTypeOK, MutexInv
  <2> QED
    BY <2>6, <2>7, <2>8
<1>5. CASE ~Free
  <2>1. lockers' = lockers \o waiters /\ UNCHANGED <<owner, clock, pc, wake>>
    BY <1>1, <1>5 DEF BroadcastTakes
  <2>2. ToSet(lockers) \cap ToSet(waiters) = {}
    BY DEF MutexInv
  <2>3. /\ lockers' \in Seq(Thread) /\ ToSet(lockers') = ToSet(lockers) \cup ToSet(waiters)
        /\ IsInjective(lockers')
    BY <2>1, <2>2, QueueConcat, SMTT(30) DEF SyncTypeOK, MutexInv
  <2>4. owner # NoThread
    BY <1>5 DEF Free, MutexInv
  <2>5. SyncTypeOK'
    BY <1>1, <1>2, <2>1, <2>3 DEF SyncTypeOK
  <2>6. MutexInv'
    BY <1>1, <1>2, <1>3, <2>1, <2>3, <2>4, ThrsleepAssumption DEF MutexInv, SyncTypeOK
  <2>7. WaitInv'
    BY <1>1, <1>2, <2>1 DEF WaitInv, MutexInv, SyncTypeOK
  <2> QED
    BY <2>5, <2>6, <2>7
<1> QED
  BY <1>4, <1>5

\* All of them keep it.
LEMMA SyncKeeps ==
    ASSUME SyncInv, ThrTypeOK, NEW t \in Thread, Sync(t)
    PROVE  SyncInv'
<1>1. ASSUME ExitCanceled(t) PROVE SyncInv'
  BY <1>1 DEF ExitCanceled, syncVars, condVars, mutexVars, waitVars, SyncInv, SyncTypeOK, MutexInv,
     WaitInv
<1> QED
  BY <1>1, LockKeeps, LockWakesKeeps, UnlockKeeps, ThrwakeupKeeps, CondWaitKeeps, CondAwakeKeeps,
     CondRequeueKeeps, SignalKeeps, BroadcastKeeps
     DEF Sync, MutexCall, MutexStep, MutexUnlock, WakeStep, CondCall, CondStep, CondNotify

-----------------------------------------------------------------------------
\* What the steps on one object do to pc is nothing to the others.
PcKept(where) ==
    \A x \in Thread : pc'[x] = pc[x] \/ (pc[x] \notin where /\ pc'[x] \notin where)

\* Sync steps do not move a thread to or from a place of the other objects.
LEMMA SyncFrame ==
    ASSUME SyncTypeOK, NEW t \in Thread, Sync(t)
    PROVE  PcKept({"rd", "wr", "sem"})
<1>1. ASSUME NEW w, pc' = [pc EXCEPT ![t] = w], w \notin {"rd", "wr", "sem"},
             pc[t] \notin {"rd", "wr", "sem"}
      PROVE  PcKept({"rd", "wr", "sem"})
  BY <1>1 DEF PcKept, SyncTypeOK
<1>2. CASE pc' = pc
  BY <1>2 DEF PcKept
<1>3. CASE MutexCall(t) \/ MutexStep(t) \/ MutexUnlock(t) \/ WakeStep(t)
  BY <1>1, <1>2, <1>3 DEF MutexCall, MutexStep, MutexUnlock, WakeStep, pthread_mutex_lock,
     MutexLockWakes, pthread_mutex_unlock, Thrwakeup, WakeLater, SleepSelf, Done, Go, At
<1>4. CASE CondCall(t) \/ CondNotify(t)
  BY <1>1, <1>2, <1>4 DEF CondCall, CondNotify, pthread_cond_wait, ExitCanceled, syncVars,
     pthread_cond_signal, pthread_cond_broadcast, SignalTakes, BroadcastTakes, WakeLater, Go, At
<1>5. CASE CondStep(t)
  BY <1>1, <1>2, <1>5 DEF CondStep, CondAwake, CondRequeue, CondLoop, CondLeaves, CondReturn,
     SleepSelf, Done, Go, At
<1> QED
  BY <1>3, <1>4, <1>5 DEF Sync

\* Readers are counted.
LEMMA ReaderCount ==
    ASSUME NEW R, R \subseteq Thread
    PROVE  /\ Cardinality(R) \in 0 .. Cardinality(Thread) /\ (Cardinality(R) = 0 <=> R = {})
           /\ \A t \in Thread \ R : Cardinality(R \cup {t}) = Cardinality(R) + 1
           /\ \A t \in R : Cardinality(R \ {t}) = Cardinality(R) - 1
<1>1. IsFiniteSet(R) /\ Cardinality(R) <= Cardinality(Thread)
  BY FS_Subset, ThrsleepAssumption
<1>2. Cardinality(R) \in Nat /\ Cardinality(Thread) \in Nat
  BY <1>1, FS_CardinalityType, ThrsleepAssumption
<1>3. Cardinality(R) = 0 <=> R = {}
  BY <1>1, FS_EmptySet
<1>4. \A t \in Thread \ R : Cardinality(R \cup {t}) = Cardinality(R) + 1
  BY <1>1, FS_AddElement
<1>5. \A t \in R : Cardinality(R \ {t}) = Cardinality(R) - 1
  BY <1>1, FS_RemoveElement
<1> QED
  BY <1>1, <1>2, <1>3, <1>4, <1>5

\* What the steps on the read/write lock and the semaphore may do to pc and wake.
PcWakeTyped ==
    /\ pc \in [Thread -> {"idle", "lock", "cond", "requeue", "wake", "bwake", "rd", "wr", "sem"}]
    /\ wake \in [Thread -> Thread \cup {NoThread}]

RwLockInv == PcWakeTyped /\ RwTypeOK /\ RwInv

\* pthread_rwlock_rdlock() and pthread_rwlock_wrlock() keep the invariant of the
\* read/write lock, ...
LEMMA RdlockKeeps ==
    ASSUME RwLockInv, NEW t \in Thread, NEW hasTime, pthread_rwlock_rdlock(t, hasTime)
    PROVE  RwLockInv' /\ PcKept({"lock", "cond", "requeue", "sem"})
<1> USE DEF RwLockInv
<1>1. /\ pc[t] = "idle" /\ t \notin rdhas /\ t \notin wrhas
      /\ UNCHANGED <<rw_owner, writers, wrhas, wake>>
  BY DEF pthread_rwlock_rdlock, At
<1>2. CASE MayRead
  <2>1. readers' = readers + 1 /\ rdhas' = rdhas \cup {t} /\ pc' = pc
    BY <1>2 DEF pthread_rwlock_rdlock, GetRead
  <2>2. readers' = Cardinality(rdhas') /\ readers' \in 0 .. Cardinality(Thread)
    BY <1>1, <2>1, ReaderCount DEF RwTypeOK, RwInv
  <2>3. RwTypeOK'
    BY <1>1, <2>1, <2>2 DEF RwTypeOK
  <2>4. RwInv'
    BY <1>1, <1>2, <2>1, <2>2 DEF MayRead, RwInv, RwTypeOK
  <2> QED
    BY <1>1, <2>1, <2>3, <2>4 DEF PcWakeTyped, PcKept
<1>3. CASE ~MayRead
  <2>1. UNCHANGED <<readers, rdhas>> /\ pc' = [pc EXCEPT ![t] = "rd"]
    BY <1>3 DEF pthread_rwlock_rdlock, ReaderSleeps, Go
  <2>2. \A x \in Thread : pc'[x] = IF x = t THEN "rd" ELSE pc[x]
    BY <2>1 DEF PcWakeTyped
  <2>3. RwTypeOK' /\ PcWakeTyped'
    BY <1>1, <2>1 DEF RwTypeOK, PcWakeTyped
  <2>4. RwInv'
    BY <1>1, <2>1, <2>2, QueueSet, ThrsleepAssumption DEF RwInv, RwTypeOK
  <2> QED
    BY <1>1, <2>2, <2>3, <2>4 DEF PcKept
<1> QED
  BY <1>2, <1>3

\* (a writer that does not get the lock is queued behind somebody)
LEMMA WrlockKeeps ==
    ASSUME RwLockInv, NEW t \in Thread, NEW hasTime, pthread_rwlock_wrlock(t, hasTime)
    PROVE  RwLockInv' /\ PcKept({"lock", "cond", "requeue", "sem"})
<1> USE DEF RwLockInv
<1>1. /\ pc[t] = "idle" /\ t \notin rdhas /\ t \notin wrhas
      /\ UNCHANGED <<readers, rdhas, wake>>
  BY DEF pthread_rwlock_wrlock, At
<1>2. t \notin ToSet(writers) /\ rw_owner # t
  BY <1>1 DEF RwInv
<1>3. CASE MayWrite
  <2>1. rw_owner' = t /\ wrhas' = wrhas \cup {t} /\ UNCHANGED <<writers, pc>>
    BY <1>3 DEF pthread_rwlock_wrlock
  <2>2. rdhas = {} /\ writers = << >> /\ wrhas = {}
    BY <1>3, ReaderCount, ThrsleepAssumption DEF MayWrite, RwInv, RwTypeOK
  <2>3. RwTypeOK'
    BY <1>1, <2>1 DEF RwTypeOK
  <2>4. RwInv'
    BY <1>1, <1>2, <2>1, <2>2, QueueSet DEF RwInv, RwTypeOK
  <2> QED
    BY <1>1, <2>1, <2>3, <2>4 DEF PcWakeTyped, PcKept
<1>4. CASE ~MayWrite
  <2>1. /\ writers' = Append(writers, t) /\ pc' = [pc EXCEPT ![t] = "wr"]
        /\ UNCHANGED <<rw_owner, wrhas>>
    BY <1>4 DEF pthread_rwlock_wrlock, SleepSelf, Go
  <2>2. /\ writers' \in Seq(Thread) /\ ToSet(writers') = ToSet(writers) \cup {t}
        /\ IsInjective(writers')
    BY <1>2, <2>1, QueueAppend DEF RwTypeOK, RwInv
  <2>3. \A x \in Thread : pc'[x] = IF x = t THEN "wr" ELSE pc[x]
    BY <2>1 DEF PcWakeTyped
  <2>4. rw_owner # NoThread \/ rdhas # {}
    BY <1>4, ReaderCount DEF MayWrite, RwInv, RwTypeOK
  <2>5. RwTypeOK' /\ PcWakeTyped'
    BY <1>1, <2>1, <2>2 DEF RwTypeOK, PcWakeTyped
  <2>6. RwInv'
    BY <1>1, <1>2, <2>1, <2>2, <2>3, <2>4, QueueSet, ThrsleepAssumption DEF RwInv, RwTypeOK
  <2> QED
    BY <1>1, <2>3, <2>5, <2>6 DEF PcKept
<1> QED
  BY <1>3, <1>4

\* ... and so does the rest of them after __thrsleep(), ...
LEMMA RdlockWakesKeeps ==
    ASSUME RwLockInv, NEW t \in Thread, RdlockWakes(t)
    PROVE  RwLockInv' /\ PcKept({"lock", "cond", "requeue", "sem"})
<1> USE DEF RwLockInv
<1>1. pc[t] = "rd" /\ UNCHANGED <<rw_owner, writers, wrhas, wake>>
  BY DEF RdlockWakes, At
<1>2. t \notin ToSet(writers) /\ rw_owner # t /\ t \notin rdhas /\ t \notin wrhas
  BY <1>1 DEF RwInv
<1>3. PICK w \in {"idle", "rd"} : pc' = [pc EXCEPT ![t] = w]
  BY DEF RdlockWakes, ReaderSleeps, Done, Go
<1>4. \A x \in Thread : pc'[x] = IF x = t THEN w ELSE pc[x]
  BY <1>3 DEF PcWakeTyped
<1>5. PcWakeTyped' /\ PcKept({"lock", "cond", "requeue", "sem"})
  BY <1>1, <1>3, <1>4 DEF PcWakeTyped, PcKept
<1>6. CASE UNCHANGED <<readers, rdhas>>
  <2>1. RwTypeOK'
    BY <1>1, <1>6 DEF RwTypeOK
  <2>2. RwInv'
    BY <1>1, <1>2, <1>4, <1>6, QueueSet, ThrsleepAssumption DEF RwInv, RwTypeOK
  <2> QED
    BY <1>5, <2>1, <2>2
<1>7. CASE MayRead /\ GetRead(t) /\ Done(t)
  <2>1. readers' = readers + 1 /\ rdhas' = rdhas \cup {t} /\ pc'[t] = "idle"
    BY <1>7 DEF GetRead, Done, Go, PcWakeTyped
  <2>2. readers' = Cardinality(rdhas') /\ readers' \in 0 .. Cardinality(Thread)
    BY <1>2, <2>1, ReaderCount DEF RwTypeOK, RwInv
  <2>3. RwTypeOK'
    BY <1>1, <2>1, <2>2 DEF RwTypeOK
  <2>4. RwInv'
    BY <1>1, <1>2, <1>4, <1>7, <2>1, <2>2, QueueSet, ThrsleepAssumption
       DEF MayRead, RwInv, RwTypeOK
  <2> QED
    BY <1>5, <2>3, <2>4
<1> QED
  BY <1>6, <1>7 DEF RdlockWakes

\* (a writer that gives up leaves the queue, one that owns the lock keeps it)
LEMMA WrlockWakesKeeps ==
    ASSUME RwLockInv, NEW t \in Thread, WrlockWakes(t)
    PROVE  RwLockInv' /\ PcKept({"lock", "cond", "requeue", "sem"})
<1> USE DEF RwLockInv
<1>1. pc[t] = "wr" /\ UNCHANGED <<rw_owner, readers, rdhas, wake>>
  BY DEF WrlockWakes, At
<1>2. t \notin rdhas /\ t \notin wrhas
  BY <1>1 DEF RwInv
<1>3. PICK w \in {"idle", "wr"} : pc' = [pc EXCEPT ![t] = w]
  BY DEF WrlockWakes, SleepSelf, Done, Go
<1>4. \A x \in Thread : pc'[x] = IF x = t THEN w ELSE pc[x]
  BY <1>3 DEF PcWakeTyped
<1>5. PcWakeTyped' /\ PcKept({"lock", "cond", "requeue", "sem"})
  BY <1>1, <1>3, <1>4 DEF PcWakeTyped, PcKept
<1>6. CASE rw_owner = t
  <2>1. wrhas' = wrhas \cup {t} /\ UNCHANGED writers /\ pc'[t] = "idle"
    BY <1>6 DEF WrlockWakes, Done, Go, PcWakeTyped
  <2>2. t \notin ToSet(writers) /\ rdhas = {} /\ wrhas = {}
    BY <1>2, <1>6, ThrsleepAssumption DEF RwInv, RwTypeOK
  <2>3. RwTypeOK'
    BY <1>1, <2>1 DEF RwTypeOK
  <2>4. RwInv'
    BY <1>1, <1>4, <1>6, <2>1, <2>2, QueueSet, ThrsleepAssumption DEF RwInv, RwTypeOK
  <2> QED
    BY <1>5, <2>3, <2>4
<1>7. CASE rw_owner # t /\ error[t] = "EWOULDBLOCK"
  <2>1. writers' = Without(writers, t) /\ UNCHANGED wrhas /\ pc'[t] = "idle"
    BY <1>7 DEF WrlockWakes, Done, Go, PcWakeTyped
  <2>2. /\ writers' \in Seq(Thread) /\ IsInjective(writers')
        /\ ToSet(writers') = ToSet(writers) \ {t}
    BY <2>1, QueueRemove DEF RwTypeOK, RwInv, Without
  <2>3. writers = << >> => writers' = << >>
    <3>1. ASSUME ToSet(writers) = {} PROVE writers' = << >>
      BY <2>2, <3>1, QueueSet
    <3> QED
      BY <3>1, QueueSet DEF RwTypeOK
  <2>4. RwTypeOK'
    BY <1>1, <2>1, <2>2 DEF RwTypeOK
  <2>5. RwInv'
    BY <1>1, <1>2, <1>4, <1>7, <2>1, <2>2, <2>3, QueueSet, ThrsleepAssumption
       DEF RwInv, RwTypeOK
  <2> QED
    BY <1>5, <2>4, <2>5
<1>8. CASE rw_owner # t /\ error[t] # "EWOULDBLOCK"
  <2>1. UNCHANGED <<writers, wrhas, pc>>
    BY <1>1, <1>8 DEF WrlockWakes, SleepSelf, Go, PcWakeTyped
  <2> QED
    BY <1>1, <1>5, <2>1 DEF RwTypeOK, RwInv
<1> QED
  BY <1>6, <1>7, <1>8

\* ... the hand over of a lock that nobody has any more, ...
LEMMA RwPassOnKeeps ==
    ASSUME RwLockInv, NEW t \in Thread, pc[t] = "idle", NEW b, RwPassOn(t, b),
           rdhas' = {}, wrhas' = {}, readers' = 0
    PROVE  RwLockInv' /\ PcKept({"lock", "cond", "requeue", "sem"})
<1> USE DEF RwLockInv
<1>1. t \notin ToSet(writers) /\ readers' \in 0 .. Cardinality(Thread) /\ Cardinality({}) = 0
  BY ReaderCount DEF RwInv
<1>2. CASE writers = << >>
  <2>1. rw_owner' = NoThread /\ UNCHANGED <<writers, pc, wake>> /\ ToSet(writers) = {}
    BY <1>2, QueueSet DEF RwPassOn, RwTypeOK
  <2>2. RwTypeOK'
    BY <1>1, <2>1 DEF RwTypeOK
  <2>3. RwInv'
    BY <1>1, <1>2, <2>1, ThrsleepAssumption DEF RwInv
  <2> QED
    BY <2>1, <2>2, <2>3 DEF PcWakeTyped, PcKept
<1>3. CASE writers # << >>
  <2>1. PICK u \in Thread : u = Head(writers)
    BY <1>3, QueueTail DEF RwTypeOK
  <2>2. /\ rw_owner' = u /\ writers' = Tail(writers) /\ pc' = [pc EXCEPT ![t] = "wake"]
        /\ wake' = [wake EXCEPT ![t] = u] /\ u # NoThread
    BY <1>3, <2>1, ThrsleepAssumption DEF RwPassOn, WakeLater, Go
  <2>3. /\ writers' \in Seq(Thread) /\ IsInjective(writers')
        /\ ToSet(writers') = ToSet(writers) \ {u} /\ u \in ToSet(writers)
    BY <1>3, <2>1, <2>2, QueueTail DEF RwTypeOK, RwInv
  <2>4. \A x \in Thread : pc'[x] = IF x = t THEN "wake" ELSE pc[x]
    BY <2>2 DEF PcWakeTyped
  <2>5. RwTypeOK' /\ PcWakeTyped'
    BY <1>1, <2>2, <2>3 DEF RwTypeOK, PcWakeTyped
  <2>6. RwInv'
    BY <1>1, <2>2, <2>3, <2>4, QueueSet DEF RwInv, RwTypeOK
  <2> QED
    BY <2>4, <2>5, <2>6 DEF PcKept
<1> QED
  BY <1>2, <1>3

\* ... and pthread_rwlock_unlock().
LEMMA RwUnlockKeeps ==
    ASSUME RwLockInv, NEW t \in Thread, pthread_rwlock_unlock(t)
    PROVE  RwLockInv' /\ PcKept({"lock", "cond", "requeue", "sem"})
<1> USE DEF RwLockInv
<1>1. pc[t] = "idle"
  BY DEF pthread_rwlock_unlock, At
<1>2. CASE t \in wrhas /\ wrhas' = wrhas \ {t} /\ UNCHANGED <<readers, rdhas>> /\ RwPassOn(t, TRUE)
  <2>1. rw_owner = t /\ rdhas = {} /\ wrhas = {t}
    BY <1>2, ThrsleepAssumption DEF RwInv, RwTypeOK
  <2>2. readers' = 0 /\ rdhas' = {} /\ wrhas' = {}
    BY <1>2, <2>1, ReaderCount DEF RwInv
  <2> QED
    BY <1>1, <1>2, <2>2, RwPassOnKeeps
<1>3. CASE /\ t \in rdhas /\ readers' = readers - 1 /\ rdhas' = rdhas \ {t} /\ wrhas' = wrhas
           /\ IF readers > 1 THEN NoSys /\ UNCHANGED <<rw_owner, writers, pc, wake>>
              ELSE RwPassOn(t, FALSE)
  <2>1. rw_owner = NoThread /\ wrhas = {}
    BY <1>3, ThrsleepAssumption DEF RwInv, RwTypeOK
  <2>2. /\ readers \in 0 .. Cardinality(Thread) /\ Cardinality(Thread) \in Nat
        /\ readers' = Cardinality(rdhas') /\ (readers' = 0 <=> rdhas' = {})
        /\ readers' \in 0 .. Cardinality(Thread)
    <3>1. readers' = Cardinality(rdhas') /\ rdhas' \subseteq Thread
      BY <1>3, ReaderCount DEF RwInv, RwTypeOK
    <3>2. Cardinality(Thread) \in Nat
      BY FS_CardinalityType, ThrsleepAssumption
    <3> QED
      BY <3>1, <3>2, ReaderCount DEF RwTypeOK
  <2>3. CASE readers > 1
    <3>1. UNCHANGED <<rw_owner, writers, pc, wake>> /\ rdhas' # {}
      BY <1>3, <2>2, <2>3
    <3>2. RwTypeOK'
      BY <1>3, <2>2, <3>1 DEF RwTypeOK
    <3>3. RwInv'
      BY <1>3, <2>1, <2>2, <3>1 DEF RwInv
    <3> QED
      BY <3>1, <3>2, <3>3 DEF PcWakeTyped, PcKept
  <2>4. CASE ~(readers > 1)
    <3>1. readers' = 0 /\ rdhas' = {} /\ wrhas' = {}
      BY <1>3, <2>1, <2>2, <2>4
    <3> QED
      BY <1>1, <1>3, <2>4, <3>1, RwPassOnKeeps
  <2> QED
    BY <2>3, <2>4
<1> QED
  BY <1>2, <1>3 DEF pthread_rwlock_unlock

\* All of them keep it.
LEMMA RwKeeps ==
    ASSUME RwLockInv, NEW t \in Thread, Rw(t)
    PROVE  RwLockInv' /\ PcKept({"lock", "cond", "requeue", "sem"})
  BY RdlockKeeps, WrlockKeeps, RdlockWakesKeeps, WrlockWakesKeeps, RwUnlockKeeps
     DEF Rw, RwCall, RwStep, RwUnlock

-----------------------------------------------------------------------------
SemLockInv == PcWakeTyped /\ SemTypeOK /\ SemInv

\* The calls on the semaphore keep waitcount.
LEMMA SemKeeps ==
    ASSUME SemLockInv, NEW t \in Thread, Sem(t)
    PROVE  SemLockInv' /\ PcKept({"lock", "cond", "requeue", "rd", "wr"})
<1> USE DEF SemLockInv
<1>1. /\ SemWaiters \subseteq Thread /\ waitcount = Cardinality(SemWaiters)
      /\ value \in 0 .. MaxValue /\ MaxValue \in Nat
  BY RThreadSemAssumption DEF SemWaiters, SemInv, SemTypeOK
<1>2. ASSUME UNCHANGED <<waitcount, pc, wake>>, value' \in 0 .. MaxValue
      PROVE  SemLockInv' /\ PcKept({"lock", "cond", "requeue", "rd", "wr"})
  BY <1>2 DEF SemTypeOK, SemInv, SemWaiters, PcWakeTyped, PcKept
<1>3. ASSUME pc[t] = "idle", waitcount' = waitcount + 1, value' = value,
             pc' = [pc EXCEPT ![t] = "sem"], wake' = wake
      PROVE  SemLockInv' /\ PcKept({"lock", "cond", "requeue", "rd", "wr"})
  <2>1. \A x \in Thread : pc'[x] = IF x = t THEN "sem" ELSE pc[x]
    BY <1>3 DEF PcWakeTyped
  <2>2. SemWaiters' = SemWaiters \cup {t} /\ t \notin SemWaiters
    BY <1>3, <2>1 DEF SemWaiters
  <2>3. waitcount' = Cardinality(SemWaiters')
    BY <1>1, <1>3, <2>2, ReaderCount
  <2>4. waitcount' \in 0 .. Cardinality(Thread)
    BY <2>3, ReaderCount DEF SemWaiters
  <2> QED
    BY <1>1, <1>3, <2>1, <2>3, <2>4 DEF SemTypeOK, SemInv, PcWakeTyped, PcKept
<1>4. ASSUME pc[t] = "sem", waitcount' = waitcount - 1, value' \in 0 .. MaxValue,
             pc' = [pc EXCEPT ![t] = "idle"], wake' = wake
      PROVE  SemLockInv' /\ PcKept({"lock", "cond", "requeue", "rd", "wr"})
  <2>1. \A x \in Thread : pc'[x] = IF x = t THEN "idle" ELSE pc[x]
    BY <1>4 DEF PcWakeTyped
  <2>2. SemWaiters' = SemWaiters \ {t} /\ t \in SemWaiters
    BY <1>4, <2>1 DEF SemWaiters
  <2>3. waitcount' = Cardinality(SemWaiters')
    BY <1>1, <1>4, <2>2, ReaderCount
  <2>4. waitcount' \in 0 .. Cardinality(Thread)
    BY <2>3, ReaderCount DEF SemWaiters
  <2> QED
    BY <1>1, <1>4, <2>1, <2>3, <2>4 DEF SemTypeOK, SemInv, PcWakeTyped, PcKept
<1>5. ASSUME NEW b, sem_wait(t, b)
      PROVE  SemLockInv' /\ PcKept({"lock", "cond", "requeue", "rd", "wr"})
  <2>1. CASE value > 0
    BY <1>1, <1>2, <1>5, <2>1 DEF sem_wait
  <2>2. CASE value = 0
    BY <1>1, <1>3, <1>5, <2>2 DEF sem_wait, SemSleeps, Go, At
  <2> QED
    BY <1>1, <2>1, <2>2
<1>6. CASE sem_post(t)
  BY <1>1, <1>2, <1>6 DEF sem_post
<1>7. CASE SemWakes(t)
  <2>1. pc[t] = "sem" /\ wake' = wake
    BY <1>7 DEF SemWakes, At
  <2>2. CASE SemSleeps(t, timed[t]) /\ UNCHANGED semVars
    <3>1. pc' = pc
      BY <2>1, <2>2 DEF SemSleeps, Go, PcWakeTyped
    <3> QED
      BY <1>1, <1>2, <2>1, <2>2, <3>1 DEF semVars
  <2>3. ASSUME NEW f, SemReturns(t, f), value' \in 0 .. MaxValue
        PROVE  SemLockInv' /\ PcKept({"lock", "cond", "requeue", "rd", "wr"})
    BY <1>4, <2>1, <2>3 DEF SemReturns, Done, Go
  <2>4. (value > 0 => value - 1 \in 0 .. MaxValue) /\ value \in 0 .. MaxValue
    BY <1>1
  <2> QED
    BY <1>7, <2>2, <2>3, <2>4 DEF SemWakes
<1> QED
  BY <1>5, <1>6, <1>7 DEF Sem, SemCall, SemStep

-----------------------------------------------------------------------------
\* The invariants of the objects that a step does not touch.
LEMMA SyncUntouched ==
    ASSUME SyncInv, PcWakeTyped', PcKept({"lock", "cond", "requeue"}), UNCHANGED syncOnly
    PROVE  SyncInv'
<1> USE DEF SyncInv
<1>1. UNCHANGED <<owner, lockers, count, waiters, cmutex, clock, blocking, mutex_count, rv,
                  signaled, has>>
  BY DEF syncOnly, condVars, mutexVars, waitVars
<1>2. SyncTypeOK'
  BY <1>1 DEF SyncTypeOK, PcWakeTyped
<1>3. MutexInv'
  BY <1>1, QueueSet DEF MutexInv, SyncTypeOK, PcKept
<1>4. WaitInv'
  BY <1>1, QueueSet DEF WaitInv, SyncTypeOK, PcKept
<1> QED
  BY <1>2, <1>3, <1>4

\* ... of the read/write lock ...
LEMMA RwUntouched ==
    ASSUME RwTypeOK, RwInv, PcKept({"rd", "wr"}), UNCHANGED rwVars
    PROVE  RwTypeOK' /\ RwInv'
<1>1. RwTypeOK'
  BY DEF RwTypeOK, rwVars
<1>2. RwInv'
  BY QueueSet DEF RwInv, RwTypeOK, rwVars, PcKept
<1> QED
  BY <1>1, <1>2

\* ... and of the semaphore.
LEMMA SemUntouched ==
    ASSUME SemTypeOK, SemInv, PcKept({"sem"}), UNCHANGED semVars
    PROVE  SemTypeOK' /\ SemInv'
<1>1. SemWaiters' = SemWaiters
  BY DEF SemWaiters, PcKept
<1> QED
  BY <1>1 DEF SemTypeOK, SemInv, semVars

\* The invariant holds when the program starts ...
LEMMA RThreadInit == Init => RThreadInv
<1> SUFFICES ASSUME Init PROVE RThreadInv
  OBVIOUS
<1> USE DEF Init
<1>1. TypeOK
  <2>1. ThrTypeOK
    BY DEF ThrInit, SleepInit, ThrTypeOK
  <2>2. SyncTypeOK
    <3>1. 0 \in 0 .. MaxCount /\ << >> \in Seq(Thread)
      BY RThreadSyncAssumption
    <3> QED
      BY <3>1 DEF SyncInit, SyncTypeOK
  <2>3. Cardinality(Thread) \in Nat
    BY FS_CardinalityType, ThrsleepAssumption
  <2>4. RwTypeOK /\ SemTypeOK
    BY <2>3, RThreadSemAssumption DEF RwInit, SemInit, RwTypeOK, SemTypeOK
  <2> QED
    BY <2>1, <2>2, <2>4 DEF TypeOK
<1>2. << >> \in Seq(Thread) /\ ToSet(<< >>) = {} /\ IsInjective(<< >>)
  <2>1. << >> \in Seq(Thread)
    OBVIOUS
  <2>2. ToSet(<< >>) = {}
    BY <2>1, QueueSet
  <2> QED
    BY <2>1, <2>2 DEF IsInjective
<1>3. MutexInv /\ WaitInv
  BY <1>2, ThrsleepAssumption DEF SyncInit, MutexInv, WaitInv
<1>4. Cardinality({}) = 0
  BY ReaderCount
<1>5. RwInv
  BY <1>2, <1>4, ThrsleepAssumption DEF RwInit, RwInv
<1>6. SemInv
  <2>1. SemWaiters = {}
    BY DEF SemWaiters, SyncInit
  <2> QED
    BY <1>4, <2>1 DEF SemInit, SemInv
<1> QED
  BY <1>1, <1>3, <1>5, <1>6 DEF RThreadInv

\* ... and every step keeps it.
LEMMA RThreadNext == RThreadInv /\ [Next]_vars => RThreadInv'
<1> SUFFICES ASSUME RThreadInv, [Next]_vars PROVE RThreadInv'
  OBVIOUS
<1>1. /\ SyncInv /\ RwLockInv /\ SemLockInv /\ ThrTypeOK /\ TypeOK
  BY DEF RThreadInv, TypeOK, SyncInv, RwLockInv, SemLockInv, PcWakeTyped, SyncTypeOK
<1>2. ASSUME ThrTypeOK', SyncInv', RwTypeOK' /\ RwInv', SemTypeOK' /\ SemInv', calls' = calls
      PROVE  RThreadInv'
  BY <1>1, <1>2 DEF RThreadInv, TypeOK, SyncInv
<1>3. ASSUME NEW t \in Thread, Sync(t), UNCHANGED <<rwVars, semVars>>, calls' = calls
      PROVE  RThreadInv'
  <2>1. PcKept({"rd", "wr"}) /\ PcKept({"sem"})
    BY <1>1, <1>3, SyncFrame DEF PcKept, SyncInv
  <2>2. ThrTypeOK'
    BY <1>1, <1>3, SyncThrTypes
  <2>3. SyncInv'
    BY <1>1, <1>3, SyncKeeps
  <2>4. RwTypeOK' /\ RwInv'
    BY <1>1, <1>3, <2>1, RwUntouched DEF RwLockInv
  <2>5. SemTypeOK' /\ SemInv'
    BY <1>1, <1>3, <2>1, SemUntouched DEF SemLockInv
  <2> QED
    BY <1>2, <1>3, <2>2, <2>3, <2>4, <2>5
<1>4. ASSUME NEW t \in Thread, Rw(t), UNCHANGED <<syncOnly, semVars>>, calls' = calls
      PROVE  RThreadInv'
  <2>1. RwLockInv' /\ PcKept({"lock", "cond", "requeue", "sem"})
    BY <1>1, <1>4, RwKeeps
  <2>2. PcKept({"lock", "cond", "requeue"}) /\ PcKept({"sem"})
    BY <2>1 DEF PcKept
  <2>3. ThrTypeOK'
    BY <1>1, <1>4, RwSemThrTypes
  <2>4. SyncInv'
    BY <1>1, <1>4, <2>1, <2>2, SyncUntouched DEF RwLockInv
  <2>5. SemTypeOK' /\ SemInv'
    BY <1>1, <1>4, <2>2, SemUntouched DEF SemLockInv
  <2> QED
    BY <1>2, <1>4, <2>1, <2>3, <2>4, <2>5 DEF RwLockInv
<1>5. ASSUME NEW t \in Thread, Sem(t), UNCHANGED <<syncOnly, rwVars>>, calls' = calls
      PROVE  RThreadInv'
  <2>1. SemLockInv' /\ PcKept({"lock", "cond", "requeue", "rd", "wr"})
    BY <1>1, <1>5, SemKeeps
  <2>2. PcKept({"lock", "cond", "requeue"}) /\ PcKept({"rd", "wr"})
    BY <2>1 DEF PcKept
  <2>3. ThrTypeOK'
    BY <1>1, <1>5, RwSemThrTypes
  <2>4. SyncInv'
    BY <1>1, <1>5, <2>1, <2>2, SyncUntouched DEF SemLockInv
  <2>5. RwTypeOK' /\ RwInv'
    BY <1>1, <1>5, <2>2, RwUntouched DEF RwLockInv
  <2> QED
    BY <1>2, <1>5, <2>1, <2>3, <2>4, <2>5 DEF SemLockInv
<1>6. ASSUME UNCHANGED <<syncVars, rwVars, semVars, calls>>, ThrTypeOK'
      PROVE  RThreadInv'
  <2>1. PcKept({"lock", "cond", "requeue"}) /\ PcKept({"rd", "wr"}) /\ PcKept({"sem"})
        /\ PcWakeTyped' /\ UNCHANGED syncOnly
    BY <1>1, <1>6 DEF PcKept, syncVars, syncOnly, RwLockInv, PcWakeTyped
  <2>2. SyncInv'
    BY <1>1, <2>1, SyncUntouched
  <2>3. RwTypeOK' /\ RwInv'
    BY <1>1, <1>6, <2>1, RwUntouched DEF RwLockInv
  <2>4. SemTypeOK' /\ SemInv'
    BY <1>1, <1>6, <2>1, SemUntouched DEF SemLockInv
  <2> QED
    BY <1>2, <1>6, <2>2, <2>3, <2>4
<1>7. CASE UNCHANGED vars
  BY <1>1, <1>6, <1>7 DEF vars, thrVars, ThrTypeOK
<1>8. CASE Next
  <2>1. ASSUME NEW t \in Thread, KernelStep(t) \/ KernelEvent(t),
               UNCHANGED <<syncVars, rwVars, semVars>>, calls' = calls
        PROVE  RThreadInv'
    BY <1>1, <1>6, <2>1, KernelThrTypes
  <2> QED
    BY <1>3, <1>4, <1>5, <1>8, <2>1 DEF Next
<1> QED
  BY <1>7, <1>8

-----------------------------------------------------------------------------
\* The inductive invariant holds of every behaviour.
THEOREM RThreadInvariance == Spec => []RThreadInv
  BY RThreadInit, RThreadNext, PTL DEF Spec

\* The variables have their types: count stays within MaxCount, readers and
\* waitcount within the number of threads.
THEOREM Types == Spec => []TypeOK
<1>1. RThreadInv => TypeOK
  BY DEF RThreadInv
<1> QED
  BY <1>1, RThreadInvariance, PTL

\* A call of pthread_mutex_lock(), pthread_cond_wait() or pthread_rwlock_*lock()
\* that has returned with a lock has it, alone or with other readers.
THEOREM LocksExclude == Spec => []Exclusion
<1>1. RThreadInv => Exclusion
  <2> SUFFICES ASSUME RThreadInv PROVE Exclusion
    OBVIOUS
  <2> USE DEF RThreadInv, TypeOK
  <2>1. \A t \in has : owner = t /\ count > 0
    BY DEF MutexInv
  <2>2. \A t \in wrhas : rw_owner = t /\ rdhas = {}
    BY ThrsleepAssumption DEF RwInv, RwTypeOK
  <2>3. readers = Cardinality(rdhas)
    BY DEF RwInv
  <2>4. rw_owner # NoThread => readers = 0
    BY <2>3, ReaderCount DEF RwInv, RwTypeOK
  <2> QED
    BY <2>1, <2>2, <2>3, <2>4 DEF Exclusion
<1> QED
  BY <1>1, RThreadInvariance, PTL

\* The queues of the mutex, the condition variable and the read/write lock share
\* thread->waiting: nobody is in two of them, or in one twice, or still in one
\* when it owns what it waited for; and whoever waits waits behind somebody.
THEOREM QueuesAreSound == Spec => []QueuesSound
<1>1. RThreadInv => QueuesSound
  <2> SUFFICES ASSUME RThreadInv PROVE QueuesSound
    OBVIOUS
  <2> USE DEF RThreadInv, TypeOK
  <2>1. HandoffSafe
    <3>1. owner = NoThread => lockers = << >>
      BY DEF MutexInv
    <3>2. owner = NoThread => count = 0
      BY ThrsleepAssumption DEF MutexInv, SyncTypeOK
    <3>3. rdhas # {} => readers > 0
      BY ReaderCount DEF RwInv, RwTypeOK
    <3>4. writers # << >> => rw_owner # NoThread \/ readers > 0
      BY <3>3 DEF RwInv
    <3> QED
      BY <3>1, <3>2, <3>4 DEF HandoffSafe
  <2>2. lockers \in Seq(Thread) /\ waiters \in Seq(Thread) /\ writers \in Seq(Thread)
    BY DEF SyncTypeOK, RwTypeOK
  <2> DEFINE lw == lockers \o waiters
             all == lw \o writers
  <2>3. /\ lw \in Seq(Thread) /\ ToSet(lw) = ToSet(lockers) \cup ToSet(waiters)
        /\ IsInjective(lw)
    <3>1. ToSet(lockers) \cap ToSet(waiters) = {} /\ IsInjective(lockers) /\ IsInjective(waiters)
      BY DEF MutexInv
    <3> QED
      BY <2>2, <3>1, QueueConcat
  <2> HIDE DEF lw
  <2>4. /\ ToSet(all) = ToSet(lockers) \cup ToSet(waiters) \cup ToSet(writers)
        /\ IsInjective(all)
    <3>1. ToSet(lw) \cap ToSet(writers) = {} /\ IsInjective(writers)
      BY <2>3 DEF MutexInv, RwInv
    <3>2. ToSet(all) = ToSet(lw) \cup ToSet(writers) /\ IsInjective(all)
      BY <2>2, <2>3, <3>1, QueueConcat
    <3> QED
      BY <2>3, <3>2
  <2>5. all = lockers \o waiters \o writers
    BY DEF lw
  <2> HIDE DEF all
  <2>6. \A t \in ToSet(all) : ~Owns(t)
    BY <2>4 DEF Owns, MutexInv, RwInv
  <2>7. OneQueue
    BY <2>4, <2>5, <2>6 DEF OneQueue, MutexInv, RwInv
  <2> QED
    BY <2>1, <2>7 DEF QueuesSound
<1> QED
  BY <1>1, RThreadInvariance, PTL

\* A wait that pthread_cond_signal() or pthread_cond_broadcast() has ended does
\* not time out and is not canceled, whatever comes before it has the mutex.
THEOREM SignalsAreConsumed == Spec => []SignalConsumed
<1>1. RThreadInv => SignalConsumed
  BY DEF RThreadInv, WaitInv, SignalConsumed
<1> QED
  BY <1>1, RThreadInvariance, PTL

-----------------------------------------------------------------------------
(***************************************************************************)
(* Whoever sleeps is known to somebody who will wake it.  ThrInv says what  *)
(* a thread sleeps on from where it is; WakeInv, MutexHand and RwHand find  *)
(* the one who will wake it.                                                *)
(***************************************************************************)
Sleepers == {"lock", "cond", "wr", "rd", "sem"}

\* What the loop that a thread is in calls __thrsleep() with.
IdentAt(x, where) ==
    CASE where \in {"lock", "cond", "wr"} -> x
      [] where = "rd" -> "rwlock"
      [] where = "sem" -> "sem"
      [] OTHER -> NoIdent

ThrInv ==
    \A x \in Thread :
        /\ sys[x] = "user" => p_thrslpid[x] = NoIdent
        /\ sys[x] # "sleep" => p_wchan[x] = NoChan
        /\ sys[x] # "user" => pc[x] \in Sleepers
        /\ p_wchan[x] # NoChan => p_thrslpid[x] # NoIdent
        /\ p_thrslpid[x] \in {NoIdent, IdentAt(x, pc[x])}

\* What a step of a thread t in user mode does to those who sleep or are about
\* to: it may wake them, and may call __thrsleep() itself.
Kept(x) == p_thrslpid'[x] = p_thrslpid[x] /\ p_wchan'[x] = p_wchan[x]
Woken(x) == p_thrslpid'[x] = NoIdent /\ p_wchan'[x] = NoChan
Others(t) ==
    \A x \in Thread \ {t} : pc'[x] = pc[x] /\ sys'[x] = sys[x] /\ (Kept(x) \/ Woken(x))
Itself(t) ==
    /\ p_wchan'[t] = NoChan
    /\ \/ sys'[t] = "user" /\ p_thrslpid'[t] = NoIdent
       \/ sys'[t] = "enter" /\ pc'[t] \in Sleepers /\ p_thrslpid'[t] = IdentAt(t, pc'[t])
UserStep(t) == sys[t] = "user" /\ Others(t) /\ Itself(t)

\* Such a step keeps the invariant.
LEMMA UserStepKeeps ==
    ASSUME ThrInv, NEW t \in Thread, UserStep(t)
    PROVE  ThrInv'
<1> SUFFICES ASSUME NEW x \in Thread
             PROVE  /\ sys'[x] = "user" => p_thrslpid'[x] = NoIdent
                    /\ sys'[x] # "sleep" => p_wchan'[x] = NoChan
                    /\ sys'[x] # "user" => pc'[x] \in Sleepers
                    /\ p_wchan'[x] # NoChan => p_thrslpid'[x] # NoIdent
                    /\ p_thrslpid'[x] \in {NoIdent, IdentAt(x, pc'[x])}
  BY DEF ThrInv, IdentAt, Sleepers
<1>1. CASE x = t
  BY <1>1 DEF UserStep, Itself
<1>2. CASE x # t
  BY <1>2 DEF UserStep, Others, Kept, Woken, ThrInv
<1> QED
  BY <1>1, <1>2

\* The shapes that the steps have: without a system call, ...
LEMMA QuietStep ==
    ASSUME TypeOK, ThrInv, NEW t \in Thread, sys[t] = "user", pc' = pc \/ \E w : Go(t, w),
           UNCHANGED <<p_thrslpid, sys, p_wchan>>
    PROVE  UserStep(t)
<1>1. \A x \in Thread \ {t} : pc'[x] = pc[x]
  BY DEF Go, TypeOK, SyncTypeOK
<1>2. Others(t)
  BY <1>1 DEF Others, Kept
<1>3. Itself(t)
  BY DEF Itself, ThrInv
<1> QED
  BY <1>2, <1>3 DEF UserStep

\* ... one that wakes some threads ...
LEMMA WakingStep ==
    ASSUME TypeOK, ThrInv, NEW t \in Thread, sys[t] = "user", pc' = pc \/ \E w : Go(t, w),
           NEW W, WakeThem(W), p_thrslpid' = Cleared(W), UNCHANGED sys
    PROVE  UserStep(t)
<1>1. \A x \in Thread \ {t} : pc'[x] = pc[x]
  BY DEF Go, TypeOK, SyncTypeOK
<1>2. \A x \in Thread : IF x \in W THEN Woken(x) ELSE Kept(x)
  BY DEF WakeThem, Cleared, Kept, Woken
<1>3. Others(t)
  BY <1>1, <1>2 DEF Others
<1>4. Itself(t)
  BY <1>2 DEF Itself, ThrInv, Kept, Woken
<1> QED
  BY <1>3, <1>4 DEF UserStep

\* ... and one that sleeps, after it may have woken some.
LEMMA SleepingStep ==
    ASSUME TypeOK, ThrInv, NEW t \in Thread, sys[t] = "user", NEW where \in Sleepers,
           Go(t, where) \/ (pc' = pc /\ pc[t] = where), NEW W,
           WakeThem(W), NEW b, thrsleep(t, Cleared(W), IdentAt(t, where), b)
    PROVE  UserStep(t)
<1>1. pc'[t] = where /\ \A x \in Thread \ {t} : pc'[x] = pc[x]
  BY DEF Go, TypeOK, SyncTypeOK
<1>2. \A x \in Thread \ {t} : IF x \in W THEN Woken(x) ELSE Kept(x)
  BY DEF WakeThem, Cleared, Kept, Woken, thrsleep
<1>3. \A x \in Thread \ {t} : sys'[x] = sys[x]
  BY DEF thrsleep, TypeOK, ThrTypeOK
<1>4. Others(t)
  BY <1>1, <1>2, <1>3 DEF Others
<1>5. p_wchan'[t] = NoChan
  BY DEF WakeThem, ThrInv
<1>6. \/ sys'[t] = "user" /\ p_thrslpid'[t] = NoIdent
      \/ sys'[t] = "enter" /\ p_thrslpid'[t] = IdentAt(t, where)
  BY DEF thrsleep, Cleared, ThrInv, TypeOK, ThrTypeOK
<1>7. Itself(t)
  BY <1>1, <1>5, <1>6 DEF Itself
<1> QED
  BY <1>4, <1>7 DEF UserStep
\* (a step that wakes nobody is one that wakes the threads of the empty set)
LEMMA WakeNobody ==
    ASSUME ThrTypeOK
    PROVE  Cleared({}) = p_thrslpid /\ (p_wchan' = p_wchan => WakeThem({}))
  BY DEF ThrTypeOK, Cleared, WakeThem

\* (pthread_mutex_lock(), pthread_cond_wait() and pthread_rwlock_wrlock() sleep on
\* the thread itself)
LEMMA SelfStep ==
    ASSUME TypeOK, ThrInv, NEW t \in Thread, sys[t] = "user", NEW where \in {"lock", "cond", "wr"},
           Go(t, where) \/ (pc' = pc /\ pc[t] = where), NEW b,
           thrsleep(t, p_thrslpid, t, b), p_wchan' = p_wchan
    PROVE  UserStep(t)
<1>1. IdentAt(t, where) = t /\ where \in Sleepers
  BY DEF IdentAt, Sleepers
<1>2. thrsleep(t, Cleared({}), IdentAt(t, where), b) /\ WakeThem({})
  BY <1>1, WakeNobody DEF TypeOK
<1> QED
  BY <1>1, <1>2, SleepingStep

\* The steps on the mutex and the condition variable have these shapes, ...
LEMMA SyncUser ==
    ASSUME TypeOK, ThrInv, NEW t \in Thread, Sync(t)
    PROVE  UserStep(t)
<1>1. CASE MutexCall(t) \/ MutexStep(t)
  <2>1. sys[t] = "user"
    BY <1>1 DEF MutexCall, MutexStep, pthread_mutex_lock, MutexLockWakes, At
  <2>2. \/ UNCHANGED <<p_thrslpid, sys, p_wchan>> /\ (pc' = pc \/ \E w : Go(t, w))
        \/ \E b : SleepSelf(t, b, "lock")
    BY <1>1 DEF MutexCall, MutexStep, pthread_mutex_lock, MutexLockWakes, NoSys, Done
  <2>3. ASSUME NEW b, SleepSelf(t, b, "lock") PROVE UserStep(t)
    BY <2>1, <2>3, SelfStep DEF SleepSelf
  <2> QED
    BY <2>1, <2>2, <2>3, QuietStep
<1>2. CASE MutexUnlock(t) \/ CondNotify(t) \/ ExitCanceled(t)
  <2>1. sys[t] = "user" /\ UNCHANGED <<p_thrslpid, sys, p_wchan>>
    BY <1>2 DEF MutexUnlock, CondNotify, pthread_mutex_unlock, pthread_cond_signal,
       pthread_cond_broadcast, ExitCanceled, NoSys, At
  <2>2. pc' = pc \/ \E w : Go(t, w)
    BY <1>2 DEF MutexUnlock, CondNotify, pthread_mutex_unlock, pthread_cond_signal,
       pthread_cond_broadcast, ExitCanceled, SignalTakes, BroadcastTakes, WakeLater, syncVars
  <2> QED
    BY <2>1, <2>2, QuietStep
<1>3. CASE WakeStep(t)
  <2>1. /\ sys[t] = "user" /\ Go(t, "idle") /\ WakeThem(Found(wake[t]))
        /\ p_thrslpid' = Cleared(Found(wake[t])) /\ sys' = sys
    BY <1>3 DEF WakeStep, Thrwakeup, At
  <2> QED
    BY <2>1, WakingStep
<1>4. ASSUME NEW b, pthread_cond_wait(t, b) PROVE UserStep(t)
  <2>1. /\ sys[t] = "user" /\ Go(t, "cond") /\ WakeThem(NextOwnerWoken)
        /\ thrsleep(t, Cleared(NextOwnerWoken), t, b)
    BY <1>4 DEF pthread_cond_wait, At
  <2>2. IdentAt(t, "cond") = t /\ "cond" \in Sleepers
    BY DEF IdentAt, Sleepers
  <2> QED
    BY <2>1, <2>2, SleepingStep
<1>5. ASSUME NEW s, CondLoop(t, s), pc[t] = "cond", sys[t] = "user" PROVE UserStep(t)
  <2>1. CASE owner = t
    <3>1. UNCHANGED <<p_thrslpid, sys, p_wchan>> /\ Go(t, "idle")
      BY <1>5, <2>1 DEF CondLoop, CondReturn, Done
    <3> QED
      BY <1>5, <3>1, QuietStep
  <2>2. CASE owner # t
    <3>1. PICK b : b = (timed[t] /\ s)
      OBVIOUS
    <3>2. thrsleep(t, p_thrslpid, t, b) /\ UNCHANGED <<pc, p_wchan>>
      BY <1>5, <2>2, <3>1 DEF CondLoop
    <3> QED
      BY <1>5, <3>2, SelfStep
  <2> QED
    BY <2>1, <2>2
<1>6. CASE CondAwake(t)
  <2>1. pc[t] = "cond" /\ sys[t] = "user"
    BY <1>6 DEF CondAwake, At
  <2>2. CASE CondLeaves(t)
    <3>1. UNCHANGED <<p_thrslpid, sys, p_wchan>> /\ Go(t, "requeue")
      BY <2>2 DEF CondLeaves
    <3> QED
      BY <2>1, <3>1, QuietStep
  <2>3. CondLeaves(t) \/ \E s : CondLoop(t, s)
    BY <1>6 DEF CondAwake
  <2> QED
    BY <1>5, <2>1, <2>2, <2>3
<1>7. CASE CondRequeue(t)
  <2>1. sys[t] = "user"
    BY <1>7 DEF CondRequeue, At
  <2>2. \/ UNCHANGED <<p_thrslpid, sys, p_wchan>> /\ Go(t, "idle")
        \/ SleepSelf(t, FALSE, "cond")
    BY <1>7 DEF CondRequeue, CondReturn, Done
  <2>3. ASSUME SleepSelf(t, FALSE, "cond") PROVE UserStep(t)
    BY <2>1, <2>3, SelfStep DEF SleepSelf
  <2> QED
    BY <2>1, <2>2, <2>3, QuietStep
<1> QED
  BY <1>1, <1>2, <1>3, <1>4, <1>6, <1>7 DEF Sync, CondCall, CondStep

\* ... those on the read/write lock ...
LEMMA RwUser ==
    ASSUME TypeOK, ThrInv, NEW t \in Thread, Rw(t)
    PROVE  UserStep(t)
<1>1. sys[t] = "user"
  BY DEF Rw, RwCall, RwStep, RwUnlock, pthread_rwlock_rdlock, pthread_rwlock_wrlock, RdlockWakes,
     WrlockWakes, pthread_rwlock_unlock, At
<1>2. ASSUME NEW b, ReaderSleeps(t, b) PROVE UserStep(t)
  <2>1. IdentAt(t, "rd") = "rwlock" /\ "rd" \in Sleepers
    BY DEF IdentAt, Sleepers
  <2>2. thrsleep(t, Cleared({}), "rwlock", b) /\ WakeThem({}) /\ Go(t, "rd")
    BY <1>2, WakeNobody DEF TypeOK, ReaderSleeps
  <2> QED
    BY <1>1, <2>1, <2>2, SleepingStep
<1>3. ASSUME NEW b, SleepSelf(t, b, "wr") PROVE UserStep(t)
  BY <1>1, <1>3, SelfStep DEF SleepSelf
<1>4. ASSUME NEW b, RwPassOn(t, b) PROVE UserStep(t)
  <2>1. CASE writers # << >>
    <3>1. UNCHANGED <<p_thrslpid, sys, p_wchan>> /\ (pc' = pc \/ \E w : Go(t, w))
      BY <1>4, <2>1 DEF RwPassOn, NoSys, WakeLater
    <3> QED
      BY <1>1, <3>1, QuietStep
  <2>2. CASE writers = << >>
    <3>1. /\ WakeThem(ReadersWake(b)) /\ p_thrslpid' = Cleared(ReadersWake(b))
          /\ UNCHANGED <<sys, pc>>
      BY <1>4, <2>2 DEF RwPassOn
    <3> QED
      BY <1>1, <3>1, WakingStep
  <2> QED
    BY <2>1, <2>2
<1>5. \/ UNCHANGED <<p_thrslpid, sys, p_wchan>> /\ (pc' = pc \/ \E w : Go(t, w))
      \/ \E b : ReaderSleeps(t, b) \/ SleepSelf(t, b, "wr") \/ RwPassOn(t, b)
  <2>1. CASE RwCall(t)
    BY <2>1 DEF RwCall, pthread_rwlock_rdlock, pthread_rwlock_wrlock, NoSys
  <2>2. CASE RwStep(t)
    BY <2>2 DEF RwStep, RdlockWakes, WrlockWakes, NoSys, Done
  <2>3. CASE RwUnlock(t)
    BY <2>3 DEF RwUnlock, pthread_rwlock_unlock, NoSys
  <2> QED
    BY <2>1, <2>2, <2>3 DEF Rw
<1> QED
  BY <1>1, <1>2, <1>3, <1>4, <1>5, QuietStep

\* ... and those on the semaphore.
LEMMA SemUser ==
    ASSUME TypeOK, ThrInv, NEW t \in Thread, Sem(t)
    PROVE  UserStep(t)
<1>1. sys[t] = "user"
  BY DEF Sem, SemCall, SemStep, sem_wait, sem_post, SemWakes, At
<1>2. ASSUME NEW b, SemSleeps(t, b) PROVE UserStep(t)
  <2>1. IdentAt(t, "sem") = "sem" /\ "sem" \in Sleepers
    BY DEF IdentAt, Sleepers
  <2>2. thrsleep(t, Cleared({}), "sem", b) /\ WakeThem({}) /\ Go(t, "sem")
    BY <1>2, WakeNobody DEF TypeOK, SemSleeps
  <2> QED
    BY <1>1, <2>1, <2>2, SleepingStep
<1>3. ASSUME NEW u, WakeThem({u}), p_thrslpid' = Cleared({u}), UNCHANGED <<sys, pc>>
      PROVE  UserStep(t)
  <2>1. PICK W : W = {u}
    OBVIOUS
  <2> QED
    BY <1>1, <1>3, <2>1, WakingStep
<1>4. \/ UNCHANGED <<p_thrslpid, sys, p_wchan>> /\ (pc' = pc \/ \E w : Go(t, w))
      \/ \E b : SemSleeps(t, b)
      \/ \E u : WakeThem({u}) /\ p_thrslpid' = Cleared({u}) /\ UNCHANGED <<sys, pc>>
  <2>1. CASE SemCall(t)
    BY <2>1 DEF SemCall, sem_wait, sem_post, NoSys
  <2>2. CASE SemStep(t)
    BY <2>2 DEF SemStep, SemWakes, SemReturns, Done
  <2> QED
    BY <2>1, <2>2 DEF Sem
<1> QED
  BY <1>1, <1>2, <1>3, <1>4, QuietStep

\* What the kernel does to a thread: it goes to sleep if nobody has called
\* __thrwakeup() for it, and p_thrslpid is reset when __thrsleep() returns.
KernelOnly(t) ==
    /\ sys[t] # "user" /\ \A x \in Thread \ {t} : sys'[x] = sys[x] /\ Kept(x)
    /\ \/ /\ sys'[t] = "user" /\ p_thrslpid'[t] = NoIdent
          /\ p_wchan'[t] = p_wchan[t] /\ p_wchan[t] = NoChan
       \/ sys'[t] = "sleep" /\ p_thrslpid'[t] = p_thrslpid[t] /\ p_thrslpid[t] # NoIdent
       \/ sys'[t] = sys[t] /\ p_thrslpid'[t] = p_thrslpid[t] /\ p_wchan'[t] = NoChan

\* Its steps have this shape, ...
LEMMA KernelShape ==
    ASSUME TypeOK, ThrInv, NEW t \in Thread, KernelStep(t) \/ KernelEvent(t)
    PROVE  KernelOnly(t) \/ UNCHANGED <<sys, p_thrslpid, p_wchan>>
<1> USE DEF TypeOK, ThrTypeOK
<1>1. CASE ThrsleepEnter(t)
  <2>1. sys[t] = "enter" /\ p_wchan[t] = NoChan
    BY <1>1 DEF ThrsleepEnter, ThrInv
  <2>2. CASE \E e : SysReturn(t, e) /\ UNCHANGED p_wchan
    BY <2>1, <2>2 DEF SysReturn, KernelOnly, Kept
  <2>3. CASE /\ p_thrslpid[t] # NoIdent /\ p_wchan' = SleepCatch(p_wchan, t, t)
             /\ sys' = [sys EXCEPT ![t] = "sleep"] /\ UNCHANGED p_thrslpid
    BY <2>1, <2>3 DEF SleepCatch, KernelOnly, Kept
  <2> QED
    BY <1>1, <2>2, <2>3 DEF ThrsleepEnter
<1>2. CASE ThrsleepReturn(t)
  BY <1>2 DEF ThrsleepReturn, SysReturn, Awake, KernelOnly, Kept
<1>3. CASE KernelEvent(t)
  <2>1. /\ UNCHANGED <<p_thrslpid, sys>>
        /\ p_wchan' = p_wchan \/ (p_wchan' = [p_wchan EXCEPT ![t] = NoChan] /\ sys[t] # "user")
    BY <1>3 DEF KernelEvent, ThrTimeout, ThrSignal, pthread_cancel, EndTsleep, PostSignal
  <2> QED
    BY <2>1 DEF KernelOnly, Kept
<1> QED
  BY <1>1, <1>2, <1>3 DEF KernelStep

\* ... and keep the invariant.
LEMMA KernelKeeps ==
    ASSUME TypeOK, ThrInv, NEW t \in Thread, KernelStep(t) \/ KernelEvent(t), pc' = pc
    PROVE  ThrInv'
<1>1. CASE UNCHANGED <<sys, p_thrslpid, p_wchan>>
  BY <1>1 DEF ThrInv, IdentAt, Sleepers
<1>2. CASE KernelOnly(t)
  <2> SUFFICES ASSUME NEW x \in Thread
               PROVE  /\ sys'[x] = "user" => p_thrslpid'[x] = NoIdent
                      /\ sys'[x] # "sleep" => p_wchan'[x] = NoChan
                      /\ sys'[x] # "user" => pc'[x] \in Sleepers
                      /\ p_wchan'[x] # NoChan => p_thrslpid'[x] # NoIdent
                      /\ p_thrslpid'[x] \in {NoIdent, IdentAt(x, pc'[x])}
    BY DEF ThrInv, IdentAt, Sleepers
  <2>1. CASE x = t
    BY <1>2, <2>1 DEF KernelOnly, ThrInv, TypeOK, ThrTypeOK
  <2>2. CASE x # t
    BY <1>2, <2>2 DEF KernelOnly, Kept, ThrInv
  <2> QED
    BY <2>1, <2>2
<1> QED
  BY <1>1, <1>2, KernelShape
-----------------------------------------------------------------------------
\* Somebody is about to call __thrwakeup() for x.
IsWoken(x) == \E u \in Thread : wake[u] = x

WakeInv == \A x \in Thread : pc[x] \in {"wake", "bwake"} <=> wake[x] # NoThread

\* Whoever was to be woken still is, unless that has happened.
WakesKept == \A x \in Thread : IsWoken(x) => IsWoken(x)' \/ p_thrslpid'[x] # x

\* A step that leaves the wakeups alone ...
LEMMA WakesStay ==
    ASSUME WakeInv, PcKept({"wake", "bwake"}), wake' = wake
    PROVE  WakeInv' /\ WakesKept
<1>1. WakeInv'
  BY DEF WakeInv, PcKept
<1>2. WakesKept
  BY DEF WakesKept, IsWoken
<1> QED
  BY <1>1, <1>2

\* ... or adds one, of a thread that has none, ...
LEMMA WakeAdded ==
    ASSUME PcWakeTyped, WakeInv, NEW t \in Thread, pc[t] = "idle", NEW u,
           NEW w \in {"wake", "bwake"}, WakeLater(t, u, w)
    PROVE  WakeInv' /\ WakesKept /\ (u # NoThread => wake'[t] = u)
<1>1. CASE u = NoThread
  <2>1. UNCHANGED <<pc, wake>>
    BY <1>1 DEF WakeLater
  <2> QED
    BY <1>1, <2>1, WakesStay DEF PcKept
<1>2. CASE u # NoThread
  <2>1. /\ \A x \in Thread : pc'[x] = IF x = t THEN w ELSE pc[x]
        /\ \A x \in Thread : wake'[x] = IF x = t THEN u ELSE wake[x]
    BY <1>2 DEF WakeLater, Go, PcWakeTyped
  <2>2. wake[t] = NoThread
    BY DEF WakeInv
  <2>3. WakeInv'
    BY <1>2, <2>1 DEF WakeInv
  <2>4. WakesKept
    <3> SUFFICES ASSUME NEW x \in Thread, NEW v \in Thread, wake[v] = x PROVE wake'[v] = x
      BY DEF WakesKept, IsWoken
    <3> QED
      BY <2>1, <2>2, ThrsleepAssumption
  <2> QED
    BY <2>1, <2>3, <2>4
<1> QED
  BY <1>1, <1>2

\* ... keeps both, and so does __thrwakeup().
LEMMA WakeDone ==
    ASSUME TypeOK, PcWakeTyped, WakeInv, NEW t \in Thread, Thrwakeup(t)
    PROVE  WakeInv' /\ WakesKept
<1>1. /\ pc' = [pc EXCEPT ![t] = "idle"] /\ wake' = [wake EXCEPT ![t] = NoThread]
      /\ p_thrslpid' = Cleared(Found(wake[t]))
  BY DEF Thrwakeup, Go
<1>2. /\ \A x \in Thread : pc'[x] = IF x = t THEN "idle" ELSE pc[x]
      /\ \A x \in Thread : wake'[x] = IF x = t THEN NoThread ELSE wake[x]
  BY <1>1 DEF PcWakeTyped
<1>3. WakeInv'
  BY <1>2 DEF WakeInv
<1>4. WakesKept
  <2> SUFFICES ASSUME NEW x \in Thread, NEW v \in Thread, wake[v] = x, p_thrslpid'[x] = x
               PROVE  wake'[v] = x
    BY DEF WakesKept, IsWoken
  <2>1. v # t
    BY <1>1, ThrsleepAssumption DEF Cleared, Found
  <2> QED
    BY <1>2, <2>1
<1> QED
  BY <1>3, <1>4

\* All steps on the mutex and the condition variable do, ...
LEMMA SyncWakes ==
    ASSUME TypeOK, PcWakeTyped, WakeInv, NEW t \in Thread, Sync(t)
    PROVE  WakeInv' /\ WakesKept
<1>1. ASSUME NEW w, pc' = pc \/ Go(t, w), w \notin {"wake", "bwake"},
             pc[t] \notin {"wake", "bwake"}, wake' = wake
      PROVE  WakeInv' /\ WakesKept
  <2>1. PcKept({"wake", "bwake"})
    BY <1>1 DEF PcKept, Go, PcWakeTyped
  <2> QED
    BY <1>1, <2>1, WakesStay
<1>2. CASE MutexCall(t) \/ MutexStep(t)
  <2>1. wake' = wake /\ pc[t] \in {"idle", "lock"}
    BY <1>2 DEF MutexCall, MutexStep, pthread_mutex_lock, MutexLockWakes, At
  <2>2. \E w \in {"idle", "lock"} : pc' = pc \/ Go(t, w)
    BY <1>2 DEF MutexCall, MutexStep, pthread_mutex_lock, MutexLockWakes, SleepSelf, Done
  <2> QED
    BY <1>1, <2>1, <2>2
<1>3. CASE MutexUnlock(t)
  <2>1. pc[t] = "idle" /\ (UNCHANGED <<pc, wake>> \/ WakeLater(t, Next1, "wake"))
    BY <1>3 DEF MutexUnlock, pthread_mutex_unlock, At
  <2>2. CASE WakeLater(t, Next1, "wake")
    <3>1. PICK u : u = Next1
      OBVIOUS
    <3> QED
      BY <2>1, <2>2, <3>1, WakeAdded
  <2> QED
    BY <1>1, <2>1, <2>2
<1>4. CASE WakeStep(t)
  BY <1>4, WakeDone DEF WakeStep
<1>5. CASE CondCall(t)
  <2>1. wake' = wake /\ pc[t] = "idle" /\ (pc' = pc \/ Go(t, "cond"))
    BY <1>5 DEF CondCall, pthread_cond_wait, ExitCanceled, syncVars, At
  <2> QED
    BY <1>1, <2>1
<1>6. CASE CondStep(t)
  <2>1. wake' = wake /\ pc[t] \in {"cond", "requeue"}
    BY <1>6 DEF CondStep, CondAwake, CondRequeue, At
  <2>2. \E w \in {"idle", "cond", "requeue"} : pc' = pc \/ Go(t, w)
    BY <1>6 DEF CondStep, CondAwake, CondRequeue, CondLoop, CondLeaves, CondReturn, SleepSelf, Done
  <2> QED
    BY <1>1, <2>1, <2>2
<1>7. CASE CondNotify(t)
  <2>1. /\ pc[t] = "idle"
        /\ \/ UNCHANGED <<pc, wake>>
           \/ \E w \in {"wake", "bwake"} : WakeLater(t, Head(waiters), w)
    BY <1>7 DEF CondNotify, pthread_cond_signal, pthread_cond_broadcast, SignalTakes,
       BroadcastTakes, At
  <2>2. PICK u : u = Head(waiters)
    OBVIOUS
  <2>3. ASSUME NEW w \in {"wake", "bwake"}, WakeLater(t, Head(waiters), w)
        PROVE  WakeInv' /\ WakesKept
    BY <2>1, <2>2, <2>3, WakeAdded
  <2> QED
    BY <1>1, <2>1, <2>3
<1> QED
  BY <1>2, <1>3, <1>4, <1>5, <1>6, <1>7 DEF Sync

\* ... those on the read/write lock ...
LEMMA RwWakes ==
    ASSUME PcWakeTyped, WakeInv, NEW t \in Thread, Rw(t)
    PROVE  WakeInv' /\ WakesKept
<1>1. ASSUME NEW w \in {"idle", "rd", "wr"}, pc' = pc \/ Go(t, w),
             pc[t] \notin {"wake", "bwake"}, wake' = wake
      PROVE  WakeInv' /\ WakesKept
  <2>1. PcKept({"wake", "bwake"})
    BY <1>1 DEF PcKept, Go, PcWakeTyped
  <2> QED
    BY <1>1, <2>1, WakesStay
<1>2. CASE RwCall(t) \/ RwStep(t)
  <2>1. wake' = wake /\ pc[t] \in {"idle", "rd", "wr"}
    BY <1>2 DEF RwCall, RwStep, pthread_rwlock_rdlock, pthread_rwlock_wrlock, RdlockWakes,
       WrlockWakes, At
  <2>2. \E w \in {"idle", "rd", "wr"} : pc' = pc \/ Go(t, w)
    BY <1>2 DEF RwCall, RwStep, pthread_rwlock_rdlock, pthread_rwlock_wrlock, RdlockWakes,
       WrlockWakes, ReaderSleeps, SleepSelf, Done
  <2> QED
    BY <1>1, <2>1, <2>2
<1>3. CASE RwUnlock(t)
  <2>1. pc[t] = "idle" /\ (UNCHANGED <<pc, wake>> \/ WakeLater(t, Head(writers), "wake"))
    BY <1>3 DEF RwUnlock, pthread_rwlock_unlock, RwPassOn, At
  <2>2. PICK u : u = Head(writers)
    OBVIOUS
  <2>3. CASE WakeLater(t, Head(writers), "wake")
    BY <2>1, <2>2, <2>3, WakeAdded
  <2> QED
    BY <1>1, <2>1, <2>3
<1> QED
  BY <1>2, <1>3 DEF Rw

\* ... and those on the semaphore.
LEMMA SemWakeups ==
    ASSUME PcWakeTyped, WakeInv, NEW t \in Thread, Sem(t)
    PROVE  WakeInv' /\ WakesKept
<1>1. wake' = wake /\ pc[t] \in {"idle", "sem"}
  BY DEF Sem, SemCall, SemStep, sem_wait, sem_post, SemWakes, At
<1>2. \E w \in {"idle", "sem"} : pc' = pc \/ Go(t, w)
  BY DEF Sem, SemCall, SemStep, sem_wait, sem_post, SemWakes, SemSleeps, SemReturns, Done
<1>3. PcKept({"wake", "bwake"})
  BY <1>1, <1>2 DEF PcKept, Go, PcWakeTyped
<1> QED
  BY <1>1, <1>3, WakesStay

-----------------------------------------------------------------------------
\* Whoever is in the loop of a lock is in its queue or owns it, and an owner that
\* still sleeps is woken by somebody.
MutexHand ==
    \A x \in Thread :
        /\ pc[x] = "lock" => x \in ToSet(lockers) \/ owner = x
        /\ pc[x] = "cond" => x \in ToSet(lockers) \/ x \in ToSet(waiters) \/ owner = x
        /\ pc[x] \in {"lock", "cond"} /\ owner = x /\ p_thrslpid[x] = x => IsWoken(x)

RwHand ==
    \A x \in Thread :
        /\ pc[x] = "wr" => x \in ToSet(writers) \/ rw_owner = x
        /\ pc[x] = "wr" /\ rw_owner = x /\ p_thrslpid[x] = x => IsWoken(x)

\* A step of t drops nobody from the queues but who becomes the owner, ...
QueueMoves(t) ==
    \A x \in Thread \ {t} :
        /\ x \in ToSet(lockers) => x \in ToSet(lockers') \/ owner' = x
        /\ x \in ToSet(waiters) => x \in ToSet(waiters') \/ x \in ToSet(lockers') \/ owner' = x
        /\ owner = x => owner' = x

\* ... t is in the queue that it waits in, ...
InPlace(t) ==
    /\ pc'[t] = "lock" => t \in ToSet(lockers') \/ owner' = t
    /\ pc'[t] = "cond" => t \in ToSet(lockers') \/ t \in ToSet(waiters') \/ owner' = t

\* ... and a new owner is awake or will be woken.
HandedOver(t) ==
    \/ owner' = owner /\ (owner = t => p_thrslpid'[t] # t)
    \/ owner' \notin Thread
    \/ p_thrslpid'[owner'] # owner'
    \/ \E u \in Thread : wake'[u] = owner'

\* That is enough.
LEMMA HandKept ==
    ASSUME MutexInv, ThrInv, MutexHand, NEW t \in Thread, UserStep(t), WakesKept,
           QueueMoves(t), InPlace(t), HandedOver(t)
    PROVE  MutexHand'
<1> SUFFICES ASSUME NEW x \in Thread
             PROVE  /\ pc'[x] = "lock" => x \in ToSet(lockers') \/ owner' = x
                    /\ pc'[x] = "cond" => x \in ToSet(lockers') \/ x \in ToSet(waiters') \/ owner' = x
                    /\ pc'[x] \in {"lock", "cond"} /\ owner' = x /\ p_thrslpid'[x] = x => IsWoken(x)'
  BY DEF MutexHand
<1>1. x # t => pc'[x] = pc[x] /\ (p_thrslpid'[x] = x => p_thrslpid[x] = x)
  BY ThrsleepAssumption DEF UserStep, Others, Kept, Woken
<1>2. pc'[x] = "lock" => x \in ToSet(lockers') \/ owner' = x
  BY <1>1 DEF InPlace, QueueMoves, MutexHand
<1>3. pc'[x] = "cond" => x \in ToSet(lockers') \/ x \in ToSet(waiters') \/ owner' = x
  BY <1>1 DEF InPlace, QueueMoves, MutexHand
<1>4. pc'[x] \in {"lock", "cond"} /\ owner' = x /\ p_thrslpid'[x] = x => IsWoken(x)'
  <2> SUFFICES ASSUME pc'[x] \in {"lock", "cond"}, owner' = x, p_thrslpid'[x] = x
               PROVE  IsWoken(x)'
    OBVIOUS
  <2>1. CASE owner = x /\ x # t
    BY <1>1, <2>1 DEF MutexHand, WakesKept
  <2>2. CASE ~(owner = x /\ x # t)
    BY <2>2 DEF HandedOver, IsWoken
  <2> QED
    BY <2>1, <2>2
<1> QED
  BY <1>2, <1>3, <1>4

\* (the empty queue becomes shorter by nothing)
LEMMA PassOnMoves ==
    ASSUME SyncInv, NEW t \in Thread, owner = t, PassOn,
           waiters' = waiters \/ waiters' = Append(waiters, t)
    PROVE  /\ QueueMoves(t) /\ Next1 \in Thread \cup {NoThread} /\ owner' = Next1
           /\ lockers # << >> => Next1 \in Thread
<1> USE DEF SyncInv
<1>1. lockers \in Seq(Thread) /\ waiters \in Seq(Thread) /\ IsInjective(lockers)
  BY DEF SyncTypeOK, MutexInv
<1>2. ToSet(waiters) \subseteq ToSet(waiters')
  <2>1. ToSet(Append(waiters, t)) = ToSet(waiters) \cup {t}
    BY <1>1, QueueAppend
  <2> QED
    BY <2>1
<1>3. /\ \A x \in Thread : x \in ToSet(lockers) => x \in ToSet(lockers') \/ owner' = x
      /\ Next1 \in Thread \cup {NoThread} /\ owner' = Next1
      /\ lockers # << >> => Next1 \in Thread
  <2>1. CASE lockers = << >>
    BY <2>1 DEF PassOn, Next1
  <2>2. CASE lockers # << >>
    <3>1. /\ owner' = Head(lockers) /\ lockers' = Tail(lockers) /\ Next1 = Head(lockers)
      BY <2>2 DEF PassOn, Next1
    <3>2. Head(lockers) \in Thread /\ ToSet(Tail(lockers)) = ToSet(lockers) \ {Head(lockers)}
      BY <1>1, <2>2, QueueTail
    <3> QED
      BY <3>1, <3>2
  <2> QED
    BY <2>1, <2>2
<1>4. QueueMoves(t)
  BY <1>2, <1>3 DEF QueueMoves
<1> QED
  BY <1>3, <1>4

\* The steps of pthread_mutex_lock() and of pthread_mutex_unlock() do that, ...
LEMMA MutexHands ==
    ASSUME TypeOK, SyncInv, ThrInv, MutexHand, WakeInv, NEW t \in Thread, UserStep(t),
           MutexCall(t) \/ MutexStep(t) \/ MutexUnlock(t)
    PROVE  QueueMoves(t) /\ InPlace(t) /\ HandedOver(t)
<1> USE DEF SyncInv
<1>1. /\ lockers \in Seq(Thread) /\ waiters' = waiters /\ sys[t] = "user" /\ p_thrslpid[t] = NoIdent
      /\ NoIdent # t /\ IsInjective(lockers) /\ NoThread \notin Thread
  BY ThrsleepAssumption DEF MutexCall, MutexStep, MutexUnlock, pthread_mutex_lock, MutexLockWakes,
     pthread_mutex_unlock, condVars, At, SyncTypeOK, ThrInv, MutexInv
<1>2. ASSUME NEW b, pthread_mutex_lock(t, b) PROVE QueueMoves(t) /\ InPlace(t) /\ HandedOver(t)
  <2>1. CASE Free /\ owner' = t /\ UNCHANGED <<lockers, pc>> /\ NoSys
    <3>1. pc'[t] = "idle" /\ owner = NoThread /\ p_thrslpid'[t] = NoIdent
      BY <1>1, <1>2, <2>1 DEF pthread_mutex_lock, At, Free, NoSys
    <3> QED
      BY <1>1, <2>1, <3>1 DEF QueueMoves, InPlace, HandedOver
  <2>2. CASE owner = t /\ UNCHANGED <<owner, lockers, pc>> /\ NoSys
    <3>1. pc'[t] = "idle" /\ p_thrslpid'[t] = NoIdent
      BY <1>1, <1>2, <2>2 DEF pthread_mutex_lock, At, NoSys
    <3> QED
      BY <1>1, <2>2, <3>1 DEF QueueMoves, InPlace, HandedOver
  <2>3. CASE /\ owner # t /\ lockers' = Append(lockers, t) /\ SleepSelf(t, b, "lock")
             /\ UNCHANGED owner
    <3>1. ToSet(lockers') = ToSet(lockers) \cup {t} /\ pc'[t] = "lock"
      BY <1>1, <2>3, QueueAppend DEF SleepSelf, Go, SyncTypeOK
    <3> QED
      BY <1>1, <2>3, <3>1 DEF QueueMoves, InPlace, HandedOver
  <2> QED
    BY <1>2, <2>1, <2>2, <2>3 DEF pthread_mutex_lock
<1>3. CASE MutexLockWakes(t)
  <2>0. owner' = owner /\ pc[t] = "lock"
    BY <1>3 DEF MutexLockWakes, mutexVars, At
  <2>1. CASE owner = t
    <3>1. lockers' = lockers /\ pc'[t] = "idle" /\ p_thrslpid'[t] = NoIdent
      BY <1>1, <1>3, <2>1 DEF MutexLockWakes, Done, Go, NoSys, SyncTypeOK
    <3> QED
      BY <1>1, <2>0, <2>1, <3>1 DEF QueueMoves, InPlace, HandedOver
  <2>2. CASE owner # t /\ lockers' = Without(lockers, t) /\ Done(t)
    <3>1. ToSet(lockers') = ToSet(lockers) \ {t} /\ pc'[t] = "idle"
      BY <1>1, <2>2, QueueRemove DEF Without, Done, Go, SyncTypeOK
    <3> QED
      BY <1>1, <2>0, <2>2, <3>1 DEF QueueMoves, InPlace, HandedOver
  <2>3. CASE owner # t /\ lockers' = lockers /\ SleepSelf(t, timed[t], "lock")
    <3>1. pc'[t] = "lock" /\ t \in ToSet(lockers')
      BY <2>0, <2>3 DEF SleepSelf, Go, SyncTypeOK, MutexHand
    <3> QED
      BY <1>1, <2>0, <2>3, <3>1 DEF QueueMoves, InPlace, HandedOver
  <2> QED
    BY <1>3, <2>1, <2>2, <2>3 DEF MutexLockWakes, mutexVars
<1>4. CASE pthread_mutex_unlock(t)
  <2>0. pc[t] = "idle" /\ owner = t /\ NoSys /\ p_thrslpid' = p_thrslpid
    BY <1>4 DEF pthread_mutex_unlock, At, NoSys
  <2>1. CASE count # 1
    <3>1. UNCHANGED <<owner, lockers, pc>>
      BY <1>4, <2>1 DEF pthread_mutex_unlock
    <3> QED
      BY <1>1, <2>0, <3>1 DEF QueueMoves, InPlace, HandedOver
  <2>2. CASE count = 1
    <3>1. PassOn /\ WakeLater(t, Next1, "wake")
      BY <1>4, <2>2 DEF pthread_mutex_unlock
    <3>2. QueueMoves(t) /\ Next1 \in Thread \cup {NoThread} /\ owner' = Next1
      BY <1>1, <2>0, <3>1, PassOnMoves
    <3>3. pc'[t] \notin {"lock", "cond"} /\ (Next1 # NoThread => wake'[t] = Next1)
      BY <2>0, <3>1 DEF WakeLater, Go, SyncTypeOK
    <3>4. InPlace(t)
      BY <3>3 DEF InPlace
    <3>5. HandedOver(t)
      BY <1>1, <3>2, <3>3 DEF HandedOver
    <3> QED
      BY <3>2, <3>4, <3>5
  <2> QED
    BY <2>1, <2>2
<1> QED
  BY <1>2, <1>3, <1>4 DEF MutexCall, MutexStep, MutexUnlock

\* ... those of pthread_cond_wait(), which wakes the next owner by itself, ...
LEMMA CondHands ==
    ASSUME TypeOK, SyncInv, ThrInv, MutexHand, WakeInv, NEW t \in Thread, UserStep(t),
           CondCall(t) \/ CondStep(t)
    PROVE  QueueMoves(t) /\ InPlace(t) /\ HandedOver(t)
<1> USE DEF SyncInv
<1>1. /\ lockers \in Seq(Thread) /\ waiters \in Seq(Thread) /\ sys[t] = "user"
      /\ p_thrslpid[t] = NoIdent /\ NoIdent \notin Thread /\ NoThread \notin Thread
      /\ IsInjective(lockers) /\ IsInjective(waiters)
  BY ThrsleepAssumption DEF CondCall, CondStep, pthread_cond_wait, ExitCanceled, CondAwake,
     CondRequeue, At, SyncTypeOK, ThrInv, MutexInv
<1>2. CASE ExitCanceled(t)
  BY <1>1, <1>2 DEF ExitCanceled, syncVars, condVars, mutexVars, QueueMoves, InPlace, HandedOver, At
<1>3. ASSUME NEW b, pthread_cond_wait(t, b) PROVE QueueMoves(t) /\ InPlace(t) /\ HandedOver(t)
  <2>1. /\ owner = t /\ PassOn /\ waiters' = Append(waiters, t)
        /\ pc' = [pc EXCEPT ![t] = "cond"] /\ pc[t] = "idle"
        /\ thrsleep(t, Cleared(NextOwnerWoken), t, b)
    BY <1>3 DEF pthread_cond_wait, Go, At
  <2>2. /\ QueueMoves(t) /\ Next1 \in Thread \cup {NoThread} /\ owner' = Next1
        /\ lockers # << >> => Next1 \in Thread
    BY <2>1, PassOnMoves
  <2>3. InPlace(t)
    <3>1. ToSet(waiters') = ToSet(waiters) \cup {t}
      BY <1>1, <2>1, QueueAppend
    <3>2. pc'[t] = "cond"
      BY <2>1 DEF SyncTypeOK
    <3> QED
      BY <3>1, <3>2 DEF InPlace
  <2>4. HandedOver(t)
    <3>1. CASE Next1 = NoThread
      BY <1>1, <2>2, <3>1 DEF HandedOver
    <3>2. CASE Next1 # NoThread
      <4>1. Next1 \in Thread /\ Next1 # t
        <5>1. lockers # << >> /\ Next1 = Head(lockers)
          BY <3>2 DEF Next1
        <5>2. Head(lockers) \in ToSet(lockers)
          BY <1>1, <5>1, QueueTail
        <5> QED
          BY <2>1, <2>2, <5>1, <5>2 DEF MutexInv
      <4>2. p_thrslpid'[Next1] = Cleared(NextOwnerWoken)[Next1]
        BY <2>1, <4>1 DEF thrsleep, Cleared
      <4>3. Cleared(NextOwnerWoken)[Next1] # Next1
        BY <1>1, <3>2, <4>1 DEF Cleared, NextOwnerWoken, Found
      <4> QED
        BY <2>2, <4>1, <4>2, <4>3 DEF HandedOver
    <3> QED
      BY <3>1, <3>2
  <2> QED
    BY <2>2, <2>3, <2>4
<1>4. ASSUME NEW s, CondLoop(t, s), pc[t] = "cond", UNCHANGED condVars
      PROVE  QueueMoves(t) /\ InPlace(t) /\ HandedOver(t)
  <2>1. UNCHANGED <<owner, lockers, waiters>>
    BY <1>4 DEF CondLoop, condVars
  <2>2. CASE owner = t
    <3>1. pc'[t] = "idle" /\ p_thrslpid'[t] = NoIdent
      BY <1>1, <1>4, <2>2 DEF CondLoop, CondReturn, Done, Go, SyncTypeOK
    <3> QED
      BY <1>1, <2>1, <2>2, <3>1 DEF QueueMoves, InPlace, HandedOver
  <2>3. CASE owner # t
    <3>1. pc'[t] = "cond" /\ (t \in ToSet(lockers) \/ t \in ToSet(waiters))
      BY <1>4, <2>3 DEF CondLoop, MutexHand
    <3> QED
      BY <1>1, <2>1, <2>3, <3>1 DEF QueueMoves, InPlace, HandedOver
  <2> QED
    BY <2>2, <2>3
<1>5. CASE CondLeaves(t) /\ t \in blocking
  <2>1. /\ waiters' = Without(waiters, t) /\ UNCHANGED <<owner, lockers, p_thrslpid>>
        /\ pc' = [pc EXCEPT ![t] = "requeue"]
    BY <1>5 DEF CondLeaves, Go, mutexVars
  <2>2. ToSet(waiters') = ToSet(waiters) \ {t}
    BY <1>1, <2>1, QueueRemove DEF Without
  <2>3. pc'[t] = "requeue"
    BY <2>1 DEF SyncTypeOK
  <2> QED
    BY <1>1, <2>1, <2>2, <2>3 DEF QueueMoves, InPlace, HandedOver
<1>6. CASE CondAwake(t)
  <2>1. pc[t] = "cond"
    BY <1>6 DEF CondAwake, At
  <2>2. (CondLeaves(t) /\ t \in blocking) \/ \E s : CondLoop(t, s) /\ UNCHANGED condVars
    BY <1>6 DEF CondAwake, condVars
  <2> QED
    BY <1>4, <1>5, <2>1, <2>2
<1>7. CASE CondRequeue(t)
  <2>0. pc[t] = "requeue" /\ waiters' = waiters
    BY <1>7 DEF CondRequeue, condVars, At
  <2>1. CASE Free /\ owner' = t /\ lockers' = lockers /\ CondReturn(t)
    <3>1. pc'[t] = "idle" /\ p_thrslpid'[t] = NoIdent /\ owner = NoThread
      BY <1>1, <2>1 DEF CondReturn, Done, Go, SyncTypeOK, Free
    <3> QED
      BY <1>1, <2>0, <2>1, <3>1 DEF QueueMoves, InPlace, HandedOver
  <2>2. CASE lockers' = Append(lockers, t) /\ SleepSelf(t, FALSE, "cond") /\ owner' = owner
    <3>1. ToSet(lockers') = ToSet(lockers) \cup {t}
      BY <1>1, <2>2, QueueAppend
    <3>2. owner # t
      BY <2>0 DEF MutexInv
    <3> QED
      BY <1>1, <2>0, <2>2, <3>1, <3>2 DEF QueueMoves, InPlace, HandedOver
  <2> QED
    BY <1>7, <2>1, <2>2 DEF CondRequeue
<1> QED
  BY <1>2, <1>3, <1>6, <1>7 DEF CondCall, CondStep

\* ... of pthread_cond_signal() and pthread_cond_broadcast(), ...
LEMMA NotifyHands ==
    ASSUME TypeOK, SyncInv, ThrInv, MutexHand, WakeInv, NEW t \in Thread, UserStep(t), CondNotify(t)
    PROVE  QueueMoves(t) /\ InPlace(t) /\ HandedOver(t)
<1> USE DEF SyncInv
<1>1. /\ lockers \in Seq(Thread) /\ waiters \in Seq(Thread) /\ waiters # << >>
      /\ IsInjective(waiters) /\ pc[t] = "idle" /\ p_thrslpid[t] = NoIdent
      /\ NoIdent \notin Thread /\ NoThread \notin Thread /\ p_thrslpid' = p_thrslpid
  BY ThrsleepAssumption DEF CondNotify, pthread_cond_signal, pthread_cond_broadcast, At, SyncTypeOK,
     ThrInv, MutexInv, NoSys
<1>2. PICK h \in Thread : h = Head(waiters)
  BY <1>1, QueueTail
<1>3. ToSet(Tail(waiters)) = ToSet(waiters) \ {h} /\ h \in ToSet(waiters)
  BY <1>1, <1>2, QueueTail
<1>4. ASSUME NEW w \in {"wake", "bwake"}, Free, owner' = h, WakeLater(t, h, w)
      PROVE  HandedOver(t) /\ InPlace(t)
  <2>1. wake'[t] = h /\ pc'[t] = w
    BY <1>1, <1>4 DEF WakeLater, Go, SyncTypeOK
  <2> QED
    BY <1>4, <2>1 DEF HandedOver, InPlace
<1>5. ASSUME owner' = owner, pc' = pc PROVE HandedOver(t) /\ InPlace(t)
  BY <1>1, <1>5 DEF HandedOver, InPlace
<1>6. CASE pthread_cond_signal(t)
  <2>1. waiters' = Tail(waiters)
    BY <1>6 DEF pthread_cond_signal, SignalTakes
  <2>2. CASE Free
    <3>1. owner' = h /\ lockers' = lockers /\ WakeLater(t, h, "wake") /\ owner = NoThread
      BY <1>2, <1>6, <2>2 DEF pthread_cond_signal, SignalTakes, Free
    <3>2. QueueMoves(t)
      BY <1>1, <1>3, <2>1, <3>1 DEF QueueMoves
    <3> QED
      BY <1>4, <2>2, <3>1, <3>2
  <2>3. CASE ~Free
    <3>1. lockers' = Append(lockers, h) /\ UNCHANGED <<owner, pc>>
      BY <1>2, <1>6, <2>3 DEF pthread_cond_signal, SignalTakes
    <3>2. ToSet(lockers') = ToSet(lockers) \cup {h}
      BY <1>1, <3>1, QueueAppend
    <3>3. QueueMoves(t)
      BY <1>3, <2>1, <3>1, <3>2 DEF QueueMoves
    <3> QED
      BY <1>5, <3>1, <3>3
  <2> QED
    BY <2>2, <2>3
<1>7. CASE pthread_cond_broadcast(t)
  <2>1. CASE Free
    <3>1. /\ owner' = h /\ lockers' = Tail(waiters) /\ WakeLater(t, h, "bwake") /\ owner = NoThread
          /\ lockers = << >>
      BY <1>2, <1>7, <2>1 DEF pthread_cond_broadcast, BroadcastTakes, Free
    <3>2. ToSet(lockers) = {}
      BY <1>1, <3>1, QueueSet
    <3>3. QueueMoves(t)
      BY <1>1, <1>3, <3>1, <3>2 DEF QueueMoves
    <3> QED
      BY <1>4, <2>1, <3>1, <3>3
  <2>2. CASE ~Free
    <3>1. lockers' = lockers \o waiters /\ UNCHANGED <<owner, pc>>
      BY <1>7, <2>2 DEF pthread_cond_broadcast, BroadcastTakes
    <3>2. ToSet(lockers') = ToSet(lockers) \cup ToSet(waiters)
      BY <1>1, <3>1, QueueConcat
    <3>3. QueueMoves(t)
      BY <3>1, <3>2 DEF QueueMoves
    <3> QED
      BY <1>5, <3>1, <3>3
  <2> QED
    BY <2>1, <2>2
<1> QED
  BY <1>6, <1>7 DEF CondNotify

\* ... and so do all of them.
LEMMA SyncHands ==
    ASSUME TypeOK, SyncInv, ThrInv, MutexHand, WakeInv, NEW t \in Thread, UserStep(t), WakesKept,
           Sync(t)
    PROVE  MutexHand'
<1>1. CASE WakeStep(t)
  <2>1. /\ UNCHANGED <<owner, lockers, waiters>> /\ pc' = [pc EXCEPT ![t] = "idle"]
        /\ sys' = sys /\ sys[t] = "user"
    BY <1>1 DEF WakeStep, Thrwakeup, mutexVars, Go, At
  <2>2. p_thrslpid'[t] # t /\ pc'[t] = "idle"
    BY <2>1, ThrsleepAssumption DEF UserStep, Itself, SyncInv, SyncTypeOK
  <2>3. QueueMoves(t) /\ InPlace(t) /\ HandedOver(t)
    BY <2>1, <2>2 DEF QueueMoves, InPlace, HandedOver
  <2> QED
    BY <2>3, HandKept DEF SyncInv
<1>2. CASE ~WakeStep(t)
  <2>1. QueueMoves(t) /\ InPlace(t) /\ HandedOver(t)
    BY <1>2, MutexHands, CondHands, NotifyHands DEF Sync
  <2> QED
    BY <2>1, HandKept DEF SyncInv
<1> QED
  BY <1>1, <1>2

\* The same for the read/write lock.
WriterMoves(t) ==
    \A x \in Thread \ {t} :
        (x \in ToSet(writers) => x \in ToSet(writers') \/ rw_owner' = x)
        /\ (rw_owner = x => rw_owner' = x)
WriterInPlace(t) == pc'[t] = "wr" => t \in ToSet(writers') \/ rw_owner' = t
WriterHandedOver(t) ==
    \/ rw_owner' = rw_owner /\ (rw_owner = t => p_thrslpid'[t] # t)
    \/ rw_owner' \notin Thread
    \/ p_thrslpid'[rw_owner'] # rw_owner'
    \/ \E u \in Thread : wake'[u] = rw_owner'

\* That is enough for RwHand, ...
LEMMA WriterKept ==
    ASSUME RwHand, NEW t \in Thread, UserStep(t), WakesKept,
           WriterMoves(t), WriterInPlace(t), WriterHandedOver(t)
    PROVE  RwHand'
<1> SUFFICES ASSUME NEW x \in Thread
             PROVE  /\ pc'[x] = "wr" => x \in ToSet(writers') \/ rw_owner' = x
                    /\ pc'[x] = "wr" /\ rw_owner' = x /\ p_thrslpid'[x] = x => IsWoken(x)'
  BY DEF RwHand
<1>1. x # t => pc'[x] = pc[x] /\ (p_thrslpid'[x] = x => p_thrslpid[x] = x)
  BY ThrsleepAssumption DEF UserStep, Others, Kept, Woken
<1>2. pc'[x] = "wr" => x \in ToSet(writers') \/ rw_owner' = x
  BY <1>1 DEF WriterInPlace, WriterMoves, RwHand
<1>3. ASSUME pc'[x] = "wr", rw_owner' = x, p_thrslpid'[x] = x PROVE IsWoken(x)'
  <2>1. CASE rw_owner = x /\ x # t
    BY <1>1, <1>3, <2>1 DEF RwHand, WakesKept
  <2>2. CASE ~(rw_owner = x /\ x # t)
    BY <1>3, <2>2 DEF WriterHandedOver, IsWoken
  <2> QED
    BY <2>1, <2>2
<1> QED
  BY <1>2, <1>3

\* ... and pthread_rwlock_unlock() and the two others do it.
LEMMA RwHands ==
    ASSUME TypeOK, RwLockInv, ThrInv, RwHand, NEW t \in Thread, UserStep(t), WakesKept, Rw(t)
    PROVE  RwHand'
<1> USE DEF RwLockInv
<1>1. /\ writers \in Seq(Thread) /\ IsInjective(writers) /\ sys[t] = "user"
      /\ p_thrslpid[t] = NoIdent /\ NoIdent \notin Thread /\ NoThread \notin Thread
  BY ThrsleepAssumption DEF RwTypeOK, RwInv, UserStep, ThrInv
<1>2. ASSUME UNCHANGED <<rw_owner, writers>>, pc'[t] # "wr", rw_owner = t => p_thrslpid'[t] # t
      PROVE  RwHand'
  <2>1. WriterMoves(t) /\ WriterInPlace(t) /\ WriterHandedOver(t)
    BY <1>2 DEF WriterMoves, WriterInPlace, WriterHandedOver
  <2> QED
    BY <2>1, WriterKept
<1>3. ASSUME NEW b, pthread_rwlock_rdlock(t, b) PROVE RwHand'
  <2>1. UNCHANGED <<rw_owner, writers>> /\ pc'[t] # "wr" /\ pc[t] = "idle" /\ t \notin wrhas
    BY <1>3 DEF pthread_rwlock_rdlock, ReaderSleeps, Go, At, PcWakeTyped
  <2>2. rw_owner # t
    BY <2>1 DEF RwInv
  <2> QED
    BY <1>2, <2>1, <2>2
<1>4. CASE RdlockWakes(t)
  <2>1. UNCHANGED <<rw_owner, writers>> /\ pc'[t] # "wr" /\ pc[t] = "rd"
    BY <1>4 DEF RdlockWakes, ReaderSleeps, Done, Go, At, PcWakeTyped
  <2>2. rw_owner # t
    BY <2>1 DEF RwInv
  <2> QED
    BY <1>2, <2>1, <2>2
<1>5. ASSUME NEW b, pthread_rwlock_wrlock(t, b) PROVE RwHand'
  <2>0. pc[t] = "idle" /\ t \notin wrhas
    BY <1>5 DEF pthread_rwlock_wrlock, At
  <2>1. CASE MayWrite /\ rw_owner' = t /\ UNCHANGED <<writers, pc>> /\ NoSys
    <3>1. rw_owner = NoThread /\ pc'[t] = "idle" /\ p_thrslpid'[t] # t
      BY <1>1, <2>0, <2>1 DEF MayWrite, NoSys
    <3>2. WriterMoves(t) /\ WriterInPlace(t) /\ WriterHandedOver(t)
      BY <1>1, <2>1, <3>1 DEF WriterMoves, WriterInPlace, WriterHandedOver
    <3> QED
      BY <3>2, WriterKept
  <2>2. CASE writers' = Append(writers, t) /\ rw_owner' = rw_owner
    <3>1. ToSet(writers') = ToSet(writers) \cup {t} /\ rw_owner # t
      BY <1>1, <2>0, <2>2, QueueAppend DEF RwInv
    <3>2. WriterMoves(t) /\ WriterInPlace(t) /\ WriterHandedOver(t)
      BY <2>2, <3>1 DEF WriterMoves, WriterInPlace, WriterHandedOver
    <3> QED
      BY <3>2, WriterKept
  <2> QED
    BY <1>5, <2>1, <2>2 DEF pthread_rwlock_wrlock
<1>6. CASE WrlockWakes(t)
  <2>0. rw_owner' = rw_owner /\ pc[t] = "wr"
    BY <1>6 DEF WrlockWakes, At
  <2>1. CASE rw_owner = t
    <3>1. writers' = writers /\ pc'[t] = "idle" /\ p_thrslpid'[t] # t
      BY <1>1, <1>6, <2>1 DEF WrlockWakes, Done, Go, NoSys, PcWakeTyped
    <3> QED
      BY <1>2, <2>0, <3>1
  <2>2. CASE rw_owner # t /\ writers' = Without(writers, t) /\ Done(t)
    <3>1. ToSet(writers') = ToSet(writers) \ {t} /\ pc'[t] = "idle"
      BY <1>1, <2>2, QueueRemove DEF Without, Done, Go, PcWakeTyped
    <3>2. WriterMoves(t) /\ WriterInPlace(t) /\ WriterHandedOver(t)
      BY <2>0, <2>2, <3>1 DEF WriterMoves, WriterInPlace, WriterHandedOver
    <3> QED
      BY <3>2, WriterKept
  <2>3. CASE rw_owner # t /\ writers' = writers
    <3>1. t \in ToSet(writers')
      BY <2>0, <2>3 DEF RwHand
    <3>2. WriterMoves(t) /\ WriterInPlace(t) /\ WriterHandedOver(t)
      BY <2>0, <2>3, <3>1 DEF WriterMoves, WriterInPlace, WriterHandedOver
    <3> QED
      BY <3>2, WriterKept
  <2> QED
    BY <1>6, <2>1, <2>2, <2>3 DEF WrlockWakes
<1>7. CASE pthread_rwlock_unlock(t)
  <2>1. pc[t] = "idle" /\ (t \in wrhas \/ t \in rdhas)
    BY <1>7 DEF pthread_rwlock_unlock, At
  <2>2. \A x \in Thread \ {t} : rw_owner # x
    BY <1>1, <2>1 DEF RwInv
  <2>3. CASE UNCHANGED <<rw_owner, writers, pc>> /\ NoSys
    BY <1>1, <1>2, <2>1, <2>3 DEF NoSys
  <2>4. ASSUME NEW b, RwPassOn(t, b) PROVE RwHand'
    <3>1. CASE writers = << >>
      <4>1. rw_owner' = NoThread /\ UNCHANGED <<writers, pc>> /\ ToSet(writers) = {}
        BY <1>1, <2>4, <3>1, QueueSet DEF RwPassOn
      <4>2. WriterMoves(t) /\ WriterInPlace(t) /\ WriterHandedOver(t)
        BY <1>1, <2>1, <2>2, <4>1 DEF WriterMoves, WriterInPlace, WriterHandedOver
      <4> QED
        BY <4>2, WriterKept
    <3>2. CASE writers # << >>
      <4>1. PICK h \in Thread : h = Head(writers)
        BY <1>1, <3>2, QueueTail
      <4>2. rw_owner' = h /\ writers' = Tail(writers) /\ WakeLater(t, h, "wake")
        BY <2>4, <3>2, <4>1 DEF RwPassOn
      <4>3. ToSet(writers') = ToSet(writers) \ {h}
        BY <1>1, <3>2, <4>1, <4>2, QueueTail
      <4>4. pc'[t] = "wake" /\ wake'[t] = h
        BY <1>1, <4>2 DEF WakeLater, Go, PcWakeTyped
      <4>5. WriterMoves(t) /\ WriterInPlace(t) /\ WriterHandedOver(t)
        BY <2>2, <4>2, <4>3, <4>4 DEF WriterMoves, WriterInPlace, WriterHandedOver
      <4> QED
        BY <4>5, WriterKept
    <3> QED
      BY <3>1, <3>2
  <2> QED
    BY <1>7, <2>3, <2>4 DEF pthread_rwlock_unlock
<1> QED
  BY <1>3, <1>4, <1>5, <1>6, <1>7 DEF Rw, RwCall, RwStep, RwUnlock

\* A step on another object, or of the kernel, changes nothing of this.
LEMMA HandsUntouched ==
    ASSUME MutexHand, RwHand, WakesKept, NEW t \in Thread,
           \A x \in Thread \ {t} : pc'[x] = pc[x],
           \A x \in Thread : p_thrslpid'[x] = x => p_thrslpid[x] = x \/ x = t
    PROVE  /\ (PcKept({"lock", "cond"}) /\ (pc[t] \notin {"lock", "cond"} \/ p_thrslpid'[t] # t)
                 /\ UNCHANGED <<owner, lockers, waiters>>) => MutexHand'
           /\ (PcKept({"wr"}) /\ (pc[t] # "wr" \/ p_thrslpid'[t] # t)
                 /\ UNCHANGED <<rw_owner, writers>>) => RwHand'
<1>1. ASSUME PcKept({"lock", "cond"}), pc[t] \notin {"lock", "cond"} \/ p_thrslpid'[t] # t,
             UNCHANGED <<owner, lockers, waiters>>
      PROVE  MutexHand'
  <2> SUFFICES ASSUME NEW x \in Thread
               PROVE  /\ pc'[x] = "lock" => x \in ToSet(lockers) \/ owner = x
                      /\ pc'[x] = "cond" => x \in ToSet(lockers) \/ x \in ToSet(waiters) \/ owner = x
                      /\ pc'[x] \in {"lock", "cond"} /\ owner = x /\ p_thrslpid'[x] = x => IsWoken(x)'
    BY <1>1 DEF MutexHand
  <2>1. pc'[x] \in {"lock", "cond"} => pc[x] = pc'[x]
    BY <1>1 DEF PcKept
  <2> QED
    BY <1>1, <2>1 DEF MutexHand, WakesKept
<1>2. ASSUME PcKept({"wr"}), pc[t] # "wr" \/ p_thrslpid'[t] # t, UNCHANGED <<rw_owner, writers>>
      PROVE  RwHand'
  <2> SUFFICES ASSUME NEW x \in Thread
               PROVE  /\ pc'[x] = "wr" => x \in ToSet(writers) \/ rw_owner = x
                      /\ pc'[x] = "wr" /\ rw_owner = x /\ p_thrslpid'[x] = x => IsWoken(x)'
    BY <1>2 DEF RwHand
  <2>1. pc'[x] = "wr" => pc[x] = "wr"
    BY <1>2 DEF PcKept
  <2> QED
    BY <1>2, <2>1 DEF RwHand, WakesKept
<1> QED
  BY <1>1, <1>2

-----------------------------------------------------------------------------
HandInv == RThreadInv /\ ThrInv /\ WakeInv /\ MutexHand /\ RwHand

\* It holds when the program starts ...
LEMMA HandInit == Init => HandInv
<1> SUFFICES ASSUME Init PROVE HandInv
  OBVIOUS
<1>1. ThrInv
  BY DEF Init, ThrInit, SleepInit, SyncInit, ThrInv
<1>2. WakeInv /\ MutexHand /\ RwHand
  BY DEF Init, SyncInit, WakeInv, MutexHand, RwHand
<1> QED
  BY <1>1, <1>2, RThreadInit DEF HandInv

\* (where a thread is that makes a step on one of the objects)
LEMMA StepPlaces ==
    ASSUME NEW t \in Thread
    PROVE  /\ Sync(t) => pc[t] # "wr" /\ pc[t] # "rd" /\ pc[t] # "sem"
           /\ Rw(t) => pc[t] \in {"idle", "rd", "wr"}
           /\ Sem(t) => pc[t] \in {"idle", "sem"}
<1>1. Sync(t) => pc[t] # "wr" /\ pc[t] # "rd" /\ pc[t] # "sem"
  BY DEF Sync, MutexCall, MutexStep, MutexUnlock, WakeStep, CondCall, CondStep, CondNotify,
     pthread_mutex_lock, MutexLockWakes, pthread_mutex_unlock, Thrwakeup, pthread_cond_wait,
     ExitCanceled, CondAwake, CondRequeue, pthread_cond_signal, pthread_cond_broadcast, At
<1>2. Rw(t) => pc[t] \in {"idle", "rd", "wr"}
  BY DEF Rw, RwCall, RwStep, RwUnlock, pthread_rwlock_rdlock, pthread_rwlock_wrlock, RdlockWakes,
     WrlockWakes, pthread_rwlock_unlock, At
<1>3. Sem(t) => pc[t] \in {"idle", "sem"}
  BY DEF Sem, SemCall, SemStep, sem_wait, sem_post, SemWakes, At
<1> QED
  BY <1>1, <1>2, <1>3

\* ... and every step keeps it.
LEMMA HandNext == HandInv /\ [Next]_vars => HandInv'
<1> SUFFICES ASSUME HandInv, [Next]_vars PROVE HandInv'
  OBVIOUS
<1>1. /\ SyncInv /\ RwLockInv /\ SemLockInv /\ ThrTypeOK /\ TypeOK /\ PcWakeTyped
      /\ ThrInv /\ WakeInv /\ MutexHand /\ RwHand
  BY DEF HandInv, RThreadInv, TypeOK, SyncInv, RwLockInv, SemLockInv, PcWakeTyped, SyncTypeOK
<1>2. RThreadInv'
  BY RThreadNext DEF HandInv
<1>3. ASSUME NEW t \in Thread, UserStep(t)
      PROVE  /\ \A x \in Thread \ {t} : pc'[x] = pc[x]
             /\ \A x \in Thread : p_thrslpid'[x] = x => p_thrslpid[x] = x \/ x = t
  BY <1>3, ThrsleepAssumption DEF UserStep, Others, Kept, Woken
<1>4. ASSUME NEW t \in Thread, Sync(t), UNCHANGED <<rwVars, semVars>> PROVE HandInv'
  <2>1. UserStep(t) /\ ThrInv'
    BY <1>1, <1>4, SyncUser, UserStepKeeps
  <2>2. WakeInv' /\ WakesKept
    BY <1>1, <1>4, SyncWakes
  <2>3. MutexHand'
    BY <1>1, <1>4, <2>1, <2>2, SyncHands
  <2>4. PcKept({"wr"}) /\ pc[t] # "wr" /\ UNCHANGED <<rw_owner, writers>>
    BY <1>1, <1>4, SyncFrame, StepPlaces DEF PcKept, rwVars, SyncInv
  <2>5. RwHand'
    BY <1>1, <1>3, <2>1, <2>2, <2>4, HandsUntouched
  <2> QED
    BY <1>2, <2>1, <2>2, <2>3, <2>5 DEF HandInv
<1>5. ASSUME NEW t \in Thread, Rw(t), UNCHANGED <<syncOnly, semVars>> PROVE HandInv'
  <2>1. UserStep(t) /\ ThrInv'
    BY <1>1, <1>5, RwUser, UserStepKeeps
  <2>2. WakeInv' /\ WakesKept
    BY <1>1, <1>5, RwWakes
  <2>3. RwHand'
    BY <1>1, <1>5, <2>1, <2>2, RwHands
  <2>4. /\ PcKept({"lock", "cond"}) /\ pc[t] \notin {"lock", "cond"}
        /\ UNCHANGED <<owner, lockers, waiters>>
    BY <1>1, <1>5, RwKeeps, StepPlaces DEF PcKept, syncOnly, condVars, mutexVars
  <2>5. MutexHand'
    BY <1>1, <1>3, <2>1, <2>2, <2>4, HandsUntouched
  <2> QED
    BY <1>2, <2>1, <2>2, <2>3, <2>5 DEF HandInv
<1>6. ASSUME NEW t \in Thread, Sem(t), UNCHANGED <<syncOnly, rwVars>> PROVE HandInv'
  <2>1. UserStep(t) /\ ThrInv'
    BY <1>1, <1>6, SemUser, UserStepKeeps
  <2>2. WakeInv' /\ WakesKept
    BY <1>1, <1>6, SemWakeups
  <2>3. /\ PcKept({"lock", "cond"}) /\ PcKept({"wr"}) /\ pc[t] \notin {"lock", "cond", "wr"}
        /\ UNCHANGED <<owner, lockers, waiters, rw_owner, writers>>
    BY <1>1, <1>6, SemKeeps, StepPlaces DEF PcKept, syncOnly, condVars, mutexVars, rwVars
  <2>4. MutexHand' /\ RwHand'
    BY <1>1, <1>3, <2>1, <2>2, <2>3, HandsUntouched
  <2> QED
    BY <1>2, <2>1, <2>2, <2>4 DEF HandInv
<1>7. ASSUME UNCHANGED <<syncVars, rwVars, semVars>>, ThrInv', NEW t \in Thread,
             \A x \in Thread : p_thrslpid'[x] = x => p_thrslpid[x] = x
      PROVE  HandInv'
  <2>1. /\ UNCHANGED <<pc, wake, owner, lockers, waiters, rw_owner, writers>>
    BY <1>7 DEF syncVars, condVars, mutexVars, rwVars
  <2>2. WakeInv' /\ WakesKept
    BY <1>1, <2>1, WakesStay DEF PcKept
  <2>3. MutexHand'
    BY <1>1, <1>7, <2>1, <2>2 DEF MutexHand, WakesKept
  <2>4. RwHand'
    BY <1>1, <1>7, <2>1, <2>2 DEF RwHand, WakesKept
  <2> QED
    BY <1>2, <1>7, <2>2, <2>3, <2>4 DEF HandInv
<1>8. ASSUME NEW t \in Thread, KernelStep(t) \/ KernelEvent(t),
             UNCHANGED <<syncVars, rwVars, semVars>>
      PROVE  HandInv'
  <2>1. ThrInv'
    BY <1>1, <1>8, KernelKeeps DEF syncVars
  <2>2. \A x \in Thread : p_thrslpid'[x] = x => p_thrslpid[x] = x
    BY <1>1, <1>8, KernelShape, ThrsleepAssumption DEF KernelOnly, Kept
  <2> QED
    BY <1>7, <1>8, <2>1, <2>2
<1>9. CASE UNCHANGED vars
  <2>1. ThrInv' /\ WakeInv' /\ MutexHand' /\ RwHand'
    BY <1>1, <1>9 DEF vars, thrVars, syncVars, condVars, mutexVars, rwVars, ThrInv, WakeInv,
       MutexHand, RwHand, IsWoken, IdentAt, Sleepers
  <2> QED
    BY <1>2, <2>1 DEF HandInv
<1> QED
  BY <1>4, <1>5, <1>6, <1>8, <1>9 DEF Next

\* What a thread sleeps on, and who will wake it, hold of every behaviour.
THEOREM HandInvariance == Spec => []HandInv
  BY HandInit, HandNext, PTL DEF Spec

\* Then whoever sleeps can be found, and whoever sleeps on itself waits in a
\* queue or is being woken.
LEMMA HandFinds == HandInv => NoMissedHandoff
<1> SUFFICES ASSUME HandInv, NEW t \in Thread, Asleep(t)
             PROVE  /\ p_thrslpid[t] # NoIdent
                    /\ p_thrslpid[t] = t => t \in ToSet(lockers \o waiters \o writers) \/ IsWoken(t)
  BY DEF NoMissedHandoff, IsWoken
<1>1. p_thrslpid[t] # NoIdent
  BY DEF HandInv, ThrInv, Asleep, Awake
<1>2. ASSUME p_thrslpid[t] = t
      PROVE  t \in ToSet(lockers \o waiters \o writers) \/ IsWoken(t)
  <2>1. pc[t] \in {"lock", "cond", "wr"}
    BY <1>1, <1>2, ThrsleepAssumption DEF HandInv, ThrInv, IdentAt
  <2>2. t \in ToSet(lockers) \cup ToSet(waiters) \cup ToSet(writers) \/ IsWoken(t)
    BY <1>2, <2>1 DEF HandInv, MutexHand, RwHand
  <2>3. lockers \in Seq(Thread) /\ waiters \in Seq(Thread) /\ writers \in Seq(Thread)
    BY DEF HandInv, RThreadInv, TypeOK, SyncTypeOK, RwTypeOK
  <2>4. PICK q \in Seq(Thread) : q = lockers \o waiters
    BY <2>3, QueueConcat
  <2>5. ToSet(q) = ToSet(lockers) \cup ToSet(waiters)
    BY <2>3, <2>4, QueueConcat
  <2>6. ToSet(q \o writers) = ToSet(q) \cup ToSet(writers)
    BY <2>3, QueueConcat
  <2> QED
    BY <2>2, <2>4, <2>5, <2>6
<1> QED
  BY <1>1, <1>2

\* A thread that sleeps in __thrsleep() can be found by __thrwakeup(), and one
\* that sleeps on itself, in pthread_mutex_lock(), pthread_cond_wait() or
\* pthread_rwlock_wrlock(), is in a queue or somebody is about to wake it.
THEOREM HandoversWake == Spec => []NoMissedHandoff
  BY HandFinds, HandInvariance, PTL

-----------------------------------------------------------------------------
(***************************************************************************)
(* A writer that gives up leaves the readers behind it asleep, and a thread *)
(* that gives up on the semaphore takes the wakeup of a post with it.  So   *)
(* readers and waiters for the semaphore are sure to be woken only in       *)
(* programs whose threads wait for both as long as it takes.                *)
(***************************************************************************)
Patient(w) ==
    \A t \in Thread :
        /\ w[t] \cap {"timedwrlock", "sem_timedwait"} = {}
        /\ "sem_wait" \in w[t] => "canceled" \notin w[t]

\* In such a program nobody gives up.
PatientInv ==
    \A x \in Thread :
        /\ p_timeout[x] = TRUE => sys[x] # "user" /\ pc[x] \notin {"wr", "sem"}
        /\ pc[x] \in {"wr", "sem"} => timed[x] = FALSE /\ error[x] # "EWOULDBLOCK"
        /\ pc[x] \in {"idle", "wake", "bwake"} => error[x] = "0"
        /\ canceled[x] = TRUE => "canceled" \in calls[x]
        /\ pc[x] = "sem" => "sem_wait" \in calls[x]

\* What a step in user mode does to a thread's arguments and results.
OthersCalls(t) ==
    \A x \in Thread \ {t} :
        /\ pc'[x] = pc[x] /\ timed'[x] = timed[x] /\ error'[x] = error[x]
        /\ canceled'[x] = canceled[x]
ItsCall(t) ==
    /\ canceled'[t] = TRUE => canceled[t] = TRUE
    /\ pc'[t] \in {"wr", "sem"} =>
          timed'[t] = FALSE /\ error'[t] = error[t] /\ pc[t] \in {"idle", "wr", "sem"}
    /\ pc'[t] \in {"idle", "wake", "bwake"} =>
          error'[t] = "0" \/ (error'[t] = error[t] /\ pc[t] \in {"idle", "wake", "bwake"})
    /\ pc'[t] = "sem" => "sem_wait" \in calls[t]
CallStep(t) ==
    sys[t] = "user" /\ UNCHANGED <<p_timeout, calls>> /\ OthersCalls(t) /\ ItsCall(t)

\* It keeps the invariant.
LEMMA CallStepKeeps ==
    ASSUME PatientInv, NEW t \in Thread, CallStep(t), UserStep(t)
    PROVE  PatientInv'
<1> SUFFICES ASSUME NEW x \in Thread
             PROVE  /\ p_timeout'[x] = TRUE => sys'[x] # "user" /\ pc'[x] \notin {"wr", "sem"}
                    /\ pc'[x] \in {"wr", "sem"} => timed'[x] = FALSE /\ error'[x] # "EWOULDBLOCK"
                    /\ pc'[x] \in {"idle", "wake", "bwake"} => error'[x] = "0"
                    /\ canceled'[x] = TRUE => "canceled" \in calls'[x]
                    /\ pc'[x] = "sem" => "sem_wait" \in calls'[x]
  BY DEF PatientInv
<1>1. CASE x = t
  BY <1>1 DEF CallStep, ItsCall, PatientInv
<1>2. CASE x # t
  BY <1>2 DEF CallStep, OthersCalls, UserStep, Others, PatientInv
<1> QED
  BY <1>1, <1>2

\* The pieces: a return, ...
LEMMA DonePiece ==
    ASSUME ThrTypeOK, SyncTypeOK, NEW t \in Thread, Done(t)
    PROVE  /\ \A x \in Thread \ {t} : timed'[x] = timed[x] /\ error'[x] = error[x]
           /\ error'[t] = "0" /\ pc'[t] = "idle"
  BY DEF ThrTypeOK, SyncTypeOK, Done, Go

\* ... and __thrsleep().
LEMMA SleepPiece ==
    ASSUME ThrTypeOK, NEW t \in Thread, NEW slpid, NEW ident, NEW b, thrsleep(t, slpid, ident, b)
    PROVE  /\ \A x \in Thread \ {t} : timed'[x] = timed[x] /\ error'[x] = error[x]
           /\ b = FALSE => timed'[t] = FALSE /\ error'[t] = error[t]
<1>1. \A x \in Thread \ {t} : timed'[x] = timed[x] /\ error'[x] = error[x]
  BY DEF ThrTypeOK, thrsleep
<1>2. ASSUME b = FALSE PROVE timed'[t] = FALSE /\ error'[t] = error[t]
  <2>1. timed' = [timed EXCEPT ![t] = FALSE] /\ error' = error
    BY <1>2 DEF thrsleep
  <2> QED
    BY <2>1 DEF ThrTypeOK
<1> QED
  BY <1>1, <1>2

\* (what a step does to THREAD_CANCELED and P_TIMEOUT)
FlagsKept(t) ==
    /\ p_timeout' = p_timeout
    /\ \A x \in Thread \ {t} : canceled'[x] = canceled[x]
    /\ canceled'[t] = TRUE => canceled[t] = TRUE

\* (pthread_cond_wait() forgets a cancelation that it has acted on)
LEMMA CondReturnFlags ==
    ASSUME ThrTypeOK, NEW t \in Thread, CondReturn(t)
    PROVE  FlagsKept(t)
<1>1. p_timeout' = p_timeout /\ canceled' = [canceled EXCEPT ![t] = @ /\ rv[t] # "canceled"]
  BY DEF CondReturn
<1>2. /\ \A x \in Thread \ {t} : canceled'[x] = canceled[x]
      /\ canceled'[t] = (canceled[t] /\ rv[t] # "canceled") /\ canceled[t] \in BOOLEAN
  BY <1>1, Zenon DEF ThrTypeOK
<1> QED
  BY <1>1, <1>2, Zenon DEF FlagsKept

\* The steps on the mutex and the condition variable are such steps, ...
LEMMA SyncCalls ==
    ASSUME TypeOK, SyncInv, NEW t \in Thread, UserStep(t), Sync(t), calls' = calls
    PROVE  CallStep(t)
<1> USE DEF TypeOK
<1>1. pc'[t] \notin {"wr", "sem"}
  BY SyncFrame, StepPlaces DEF PcKept
<1>2. ASSUME UNCHANGED <<p_timeout, canceled>> PROVE FlagsKept(t)
  BY <1>2 DEF FlagsKept
<1>3. FlagsKept(t)
  <2>1. CASE MutexCall(t) \/ MutexStep(t) \/ MutexUnlock(t) \/ WakeStep(t)
    BY <1>2, <2>1 DEF MutexCall, MutexStep, MutexUnlock, WakeStep, pthread_mutex_lock,
       MutexLockWakes, pthread_mutex_unlock, Thrwakeup, SleepSelf, NoSys
  <2>2. CASE CondNotify(t)
    BY <1>2, <2>2 DEF CondNotify, pthread_cond_signal, pthread_cond_broadcast, NoSys
  <2>3. CASE ExitCanceled(t)
    <3>1. /\ p_timeout' = p_timeout /\ \A x \in Thread \ {t} : canceled'[x] = canceled[x]
          /\ canceled'[t] = FALSE
      BY <2>3 DEF ExitCanceled, ThrTypeOK
    <3> QED
      BY <3>1, Zenon DEF FlagsKept
  <2>4. ASSUME NEW b, pthread_cond_wait(t, b) PROVE FlagsKept(t)
    BY <1>2, <2>4 DEF pthread_cond_wait
  <2>5. CASE CondStep(t)
    <3>1. UNCHANGED <<p_timeout, canceled>> \/ CondReturn(t)
      BY <2>5 DEF CondStep, CondAwake, CondRequeue, CondLoop, CondLeaves, SleepSelf
    <3> QED
      BY <1>2, <3>1, CondReturnFlags
  <2> QED
    BY <2>1, <2>2, <2>3, <2>4, <2>5 DEF Sync, CondCall
<1>4. \/ Done(t)
      \/ pc'[t] \in {"lock", "cond"} /\ \E slpid, b : thrsleep(t, slpid, t, b)
      \/ UNCHANGED <<timed, error>> /\ (pc[t] \in {"idle", "wake", "bwake"} \/ pc'[t] = "requeue")
  <2>1. CASE MutexCall(t) \/ MutexStep(t)
    <3>1. \/ Done(t)
          \/ UNCHANGED <<timed, error>> /\ pc[t] = "idle"
          \/ \E b : SleepSelf(t, b, "lock")
      BY <2>1 DEF MutexCall, MutexStep, pthread_mutex_lock, MutexLockWakes, At
    <3>2. ASSUME NEW b, SleepSelf(t, b, "lock")
          PROVE  pc'[t] = "lock" /\ \E slpid, c : thrsleep(t, slpid, t, c)
      BY <3>2 DEF SleepSelf, Go, SyncTypeOK
    <3> QED
      BY <3>1, <3>2
  <2>2. CASE MutexUnlock(t) \/ WakeStep(t) \/ CondNotify(t) \/ ExitCanceled(t)
    BY <2>2 DEF MutexUnlock, WakeStep, pthread_mutex_unlock, Thrwakeup, CondNotify,
       pthread_cond_signal, pthread_cond_broadcast, ExitCanceled, At
  <2>3. ASSUME NEW b, pthread_cond_wait(t, b)
        PROVE  pc'[t] = "cond" /\ \E slpid, c : thrsleep(t, slpid, t, c)
    BY <2>3 DEF pthread_cond_wait, Go, SyncTypeOK
  <2>4. ASSUME NEW s, CondLoop(t, s), pc[t] = "cond"
        PROVE  Done(t) \/ (pc'[t] = "cond" /\ \E slpid, c : thrsleep(t, slpid, t, c))
    BY <2>4 DEF CondLoop, CondReturn
  <2>5. CASE CondAwake(t)
    <3>1. pc[t] = "cond" /\ (CondLeaves(t) \/ \E s : CondLoop(t, s))
      BY <2>5 DEF CondAwake, At
    <3>2. CondLeaves(t) => UNCHANGED <<timed, error>> /\ pc'[t] = "requeue"
      BY DEF CondLeaves, Go, SyncTypeOK
    <3> QED
      BY <2>4, <3>1, <3>2
  <2>6. CASE CondRequeue(t)
    <3>1. Done(t) \/ SleepSelf(t, FALSE, "cond")
      BY <2>6 DEF CondRequeue, CondReturn
    <3>2. SleepSelf(t, FALSE, "cond") => pc'[t] = "cond" /\ \E slpid, c : thrsleep(t, slpid, t, c)
      BY DEF SleepSelf, Go, SyncTypeOK
    <3> QED
      BY <3>1, <3>2
  <2> QED
    BY <2>1, <2>2, <2>3, <2>5, <2>6 DEF Sync, CondCall, CondStep
<1>5. /\ \A x \in Thread \ {t} : timed'[x] = timed[x] /\ error'[x] = error[x]
      /\ pc'[t] \in {"idle", "wake", "bwake"} =>
            error'[t] = "0" \/ (error'[t] = error[t] /\ pc[t] \in {"idle", "wake", "bwake"})
  BY <1>4, DonePiece, SleepPiece
<1>6. OthersCalls(t) /\ sys[t] = "user"
  BY <1>3, <1>5 DEF OthersCalls, FlagsKept, UserStep, Others
<1>7. ItsCall(t)
  BY <1>1, <1>3, <1>5 DEF ItsCall, FlagsKept
<1> QED
  BY <1>3, <1>6, <1>7 DEF CallStep, FlagsKept

\* ... in a patient program those on the read/write lock ...
LEMMA RwCalls ==
    ASSUME TypeOK, Patient(calls), PatientInv, NEW t \in Thread, UserStep(t), Rw(t), calls' = calls
    PROVE  CallStep(t)
<1> USE DEF TypeOK
<1>1. pc[t] \in {"idle", "rd", "wr"} /\ UNCHANGED <<p_timeout, canceled>>
  BY StepPlaces DEF Rw, RwCall, RwStep, RwUnlock, pthread_rwlock_rdlock, pthread_rwlock_wrlock,
     RdlockWakes, WrlockWakes, pthread_rwlock_unlock, RwPassOn, ReaderSleeps, SleepSelf, NoSys
<1>2. \/ Done(t)
      \/ pc'[t] = "rd" /\ \E slpid, b : thrsleep(t, slpid, "rwlock", b)
      \/ pc'[t] = "wr" /\ \E slpid : thrsleep(t, slpid, t, FALSE)
      \/ UNCHANGED <<timed, error>> /\ pc[t] = "idle" /\ pc'[t] \in {"idle", "wake"}
  <2>1. ASSUME NEW b, ReaderSleeps(t, b)
        PROVE  pc'[t] = "rd" /\ \E slpid, c : thrsleep(t, slpid, "rwlock", c)
    BY <2>1 DEF ReaderSleeps, Go, SyncTypeOK
  <2>2. ASSUME SleepSelf(t, FALSE, "wr")
        PROVE  pc'[t] = "wr" /\ \E slpid : thrsleep(t, slpid, t, FALSE)
    BY <2>2 DEF SleepSelf, Go, SyncTypeOK
  <2>3. CASE RwCall(t)
    <3>1. (\E b : pthread_rwlock_rdlock(t, b)) \/ pthread_rwlock_wrlock(t, FALSE)
      BY <2>3 DEF RwCall, Does, Patient
    <3>2. ASSUME NEW b, pthread_rwlock_rdlock(t, b)
          PROVE  ReaderSleeps(t, b) \/ (UNCHANGED <<timed, error, pc>> /\ pc[t] = "idle")
      BY <3>2 DEF pthread_rwlock_rdlock, At
    <3>3. ASSUME pthread_rwlock_wrlock(t, FALSE)
          PROVE  SleepSelf(t, FALSE, "wr") \/ (UNCHANGED <<timed, error, pc>> /\ pc[t] = "idle")
      BY <3>3 DEF pthread_rwlock_wrlock, At
    <3> QED
      BY <2>1, <2>2, <3>1, <3>2, <3>3
  <2>4. CASE RdlockWakes(t)
    <3>1. Done(t) \/ \E b : ReaderSleeps(t, b)
      BY <2>4 DEF RdlockWakes
    <3> QED
      BY <2>1, <3>1
  <2>5. CASE WrlockWakes(t)
    <3>1. timed[t] = FALSE
      BY <2>5 DEF WrlockWakes, At, PatientInv
    <3>2. Done(t) \/ SleepSelf(t, timed[t], "wr")
      BY <2>5 DEF WrlockWakes
    <3>3. Done(t) \/ SleepSelf(t, FALSE, "wr")
      BY <3>1, <3>2
    <3> QED
      BY <2>2, <3>3
  <2>6. CASE RwUnlock(t)
    <3>1. UNCHANGED <<timed, error>> /\ pc[t] = "idle"
      BY <2>6 DEF RwUnlock, pthread_rwlock_unlock, At
    <3>2. pc' = pc \/ pc' = [pc EXCEPT ![t] = "wake"]
      BY <2>6 DEF RwUnlock, pthread_rwlock_unlock, RwPassOn, WakeLater, Go
    <3> QED
      BY <3>1, <3>2 DEF SyncTypeOK
  <2> QED
    BY <2>3, <2>4, <2>5, <2>6 DEF Rw, RwStep
<1>3. /\ \A x \in Thread \ {t} : timed'[x] = timed[x] /\ error'[x] = error[x]
      /\ pc'[t] \in {"idle", "wake", "bwake"} =>
            error'[t] = "0" \/ (error'[t] = error[t] /\ pc[t] \in {"idle", "wake", "bwake"})
      /\ pc'[t] \in {"wr", "sem"} => timed'[t] = FALSE /\ error'[t] = error[t]
      /\ pc'[t] # "sem"
  BY <1>2, DonePiece, SleepPiece
<1>4. pc'[t] = "wr" => pc[t] \in {"idle", "wr"}
  BY DEF Rw, RwCall, RwStep, RwUnlock, pthread_rwlock_rdlock, pthread_rwlock_wrlock, RdlockWakes,
     WrlockWakes, pthread_rwlock_unlock, RwPassOn, WakeLater, ReaderSleeps, Done, Go, At, SyncTypeOK
<1>5. OthersCalls(t) /\ sys[t] = "user"
  BY <1>1, <1>3 DEF OthersCalls, UserStep, Others
<1>6. ItsCall(t)
  BY <1>1, <1>3, <1>4 DEF ItsCall
<1> QED
  BY <1>1, <1>5, <1>6 DEF CallStep

\* ... and those on the semaphore.
LEMMA SemCalls ==
    ASSUME TypeOK, Patient(calls), PatientInv, NEW t \in Thread, UserStep(t), Sem(t), calls' = calls
    PROVE  CallStep(t)
<1> USE DEF TypeOK
<1>1. pc[t] \in {"idle", "sem"}
  BY StepPlaces
<1>2. FlagsKept(t)
  <2>1. UNCHANGED <<p_timeout, canceled>> \/ \E f : SemReturns(t, f)
    BY DEF Sem, SemCall, SemStep, sem_wait, sem_post, SemWakes, SemSleeps, NoSys
  <2>2. ASSUME NEW f, SemReturns(t, f) PROVE FlagsKept(t)
    <3>1. p_timeout' = p_timeout /\ canceled' = [canceled EXCEPT ![t] = @ /\ ~f]
      BY <2>2 DEF SemReturns
    <3>2. /\ \A x \in Thread \ {t} : canceled'[x] = canceled[x]
          /\ canceled'[t] = (canceled[t] /\ ~f) /\ canceled[t] \in BOOLEAN
      BY <3>1, Zenon DEF ThrTypeOK
    <3> QED
      BY <3>1, <3>2, Zenon DEF FlagsKept
  <2>3. ASSUME UNCHANGED <<p_timeout, canceled>> PROVE FlagsKept(t)
    BY <2>3 DEF FlagsKept
  <2> QED
    BY <2>1, <2>2, <2>3
<1>3. \/ Done(t)
      \/ pc'[t] = "sem" /\ "sem_wait" \in calls[t] /\ \E slpid : thrsleep(t, slpid, "sem", FALSE)
      \/ UNCHANGED <<timed, error, pc>> /\ pc[t] = "idle"
  <2>1. ASSUME SemSleeps(t, FALSE)
        PROVE  pc'[t] = "sem" /\ \E slpid : thrsleep(t, slpid, "sem", FALSE)
    BY <2>1 DEF SemSleeps, Go, SyncTypeOK
  <2>2. CASE SemCall(t)
    <3>1. ("sem_wait" \in calls[t] /\ sem_wait(t, FALSE)) \/ sem_post(t)
      BY <2>2 DEF SemCall, Does, Patient
    <3>2. sem_wait(t, FALSE) =>
             SemSleeps(t, FALSE) \/ (UNCHANGED <<timed, error, pc>> /\ pc[t] = "idle")
      BY DEF sem_wait, At
    <3>3. sem_post(t) => UNCHANGED <<timed, error, pc>> /\ pc[t] = "idle"
      BY DEF sem_post, At
    <3> QED
      BY <2>1, <3>1, <3>2, <3>3
  <2>3. CASE SemStep(t)
    <3>1. pc[t] = "sem" /\ timed[t] = FALSE /\ "sem_wait" \in calls[t]
      BY <2>3 DEF SemStep, SemWakes, At, PatientInv
    <3>2. Done(t) \/ SemSleeps(t, timed[t])
      BY <2>3 DEF SemStep, SemWakes, SemReturns
    <3>3. Done(t) \/ SemSleeps(t, FALSE)
      BY <3>1, <3>2
    <3> QED
      BY <2>1, <3>1, <3>3
  <2> QED
    BY <2>2, <2>3 DEF Sem
<1>4. /\ \A x \in Thread \ {t} : timed'[x] = timed[x] /\ error'[x] = error[x]
      /\ pc'[t] \in {"idle", "sem"}
      /\ pc'[t] = "idle" => error'[t] = "0" \/ (error'[t] = error[t] /\ pc[t] = "idle")
      /\ pc'[t] = "sem" => timed'[t] = FALSE /\ error'[t] = error[t] /\ "sem_wait" \in calls[t]
  BY <1>3, DonePiece, SleepPiece
<1>5. OthersCalls(t) /\ sys[t] = "user"
  BY <1>2, <1>4 DEF OthersCalls, FlagsKept, UserStep, Others
<1>6. ItsCall(t)
  BY <1>1, <1>2, <1>4 DEF ItsCall, FlagsKept
<1> QED
  BY <1>2, <1>5, <1>6 DEF CallStep, FlagsKept

\* In the kernel, a thread that did not ask for a time does not time out.
LEMMA KernelCalls ==
    ASSUME TypeOK, ThrInv, PatientInv, NEW t \in Thread, KernelStep(t) \/ KernelEvent(t),
           UNCHANGED <<pc, calls>>
    PROVE  PatientInv'
<1> USE DEF TypeOK, ThrTypeOK
<1>1. ASSUME NEW e, SysReturn(t, e), sys[t] # "user",
             e = "EWOULDBLOCK" => p_timeout[t] = TRUE
      PROVE  PatientInv'
  <2>1. pc[t] \in Sleepers
    BY <1>1 DEF ThrInv
  <2>2. pc[t] \in {"wr", "sem"} => e # "EWOULDBLOCK"
    BY <1>1 DEF PatientInv
  <2>3. /\ \A x \in Thread : error'[x] = IF x = t THEN e ELSE error[x]
        /\ \A x \in Thread : sys'[x] = IF x = t THEN "user" ELSE sys[x]
        /\ \A x \in Thread : p_timeout'[x] = IF x = t THEN FALSE ELSE p_timeout[x]
        /\ UNCHANGED <<timed, canceled>>
    BY <1>1, Zenon DEF SysReturn
  <2> QED
    BY <2>1, <2>2, <2>3 DEF PatientInv, Sleepers
<1>2. CASE ThrsleepEnter(t)
  <2>1. CASE \E e \in {"EINTR", "0"} : SysReturn(t, e)
    BY <1>1, <1>2, <2>1 DEF ThrsleepEnter
  <2>2. CASE sys' = [sys EXCEPT ![t] = "sleep"] /\ UNCHANGED <<timed, error, canceled, p_timeout>>
    BY <2>2 DEF PatientInv
  <2> QED
    BY <1>2, <2>1, <2>2 DEF ThrsleepEnter
<1>3. CASE ThrsleepReturn(t)
  <2>1. PICK e : e = TsleepError(t)
    OBVIOUS
  <2>2. e = "EWOULDBLOCK" => p_timeout[t] = TRUE
    BY <2>1, Zenon DEF TsleepError
  <2>3. SysReturn(t, e) /\ sys[t] # "user"
    BY <1>3, <2>1 DEF ThrsleepReturn
  <2> QED
    BY <1>1, <2>2, <2>3
<1>4. CASE ThrTimeout(t)
  <2>1. /\ sys[t] = "sleep" /\ timed[t] = TRUE /\ UNCHANGED <<sys, timed, error, canceled>>
    BY <1>4, Zenon DEF ThrTimeout
  <2>2. \A x \in Thread : p_timeout'[x] = IF x = t THEN TRUE ELSE p_timeout[x]
    BY <1>4, Zenon DEF ThrTimeout, EndTsleep
  <2> QED
    BY <2>1, <2>2 DEF PatientInv
<1>5. CASE ThrSignal(t)
  BY <1>5 DEF ThrSignal, PostSignal, PatientInv
<1>6. CASE Does(t, "canceled") /\ pthread_cancel(t)
  <2>1. UNCHANGED <<sys, timed, error, p_timeout>>
    BY <1>6 DEF pthread_cancel, PostSignal
  <2>2. \A x \in Thread : canceled'[x] = IF x = t THEN TRUE ELSE canceled[x]
    BY <1>6, Zenon DEF pthread_cancel
  <2> QED
    BY <1>6, <2>1, <2>2 DEF PatientInv, Does
<1> QED
  BY <1>2, <1>3, <1>4, <1>5, <1>6 DEF KernelStep, KernelEvent

-----------------------------------------------------------------------------
\* Readers sleep behind a writer, ...
ReadersWait ==
    (\E x \in Thread : p_thrslpid[x] = "rwlock") => rw_owner # NoThread \/ writers # << >>

\* ... and every unit of the semaphore has a thread that has been woken for it,
\* while there are others that have not.
SemUp == {x \in Thread : pc[x] = "sem" /\ p_thrslpid[x] # "sem"}
SemWait == (\E x \in Thread : p_thrslpid[x] = "sem") => value <= Cardinality(SemUp)

\* (where a thread is that sleeps on the lock or the semaphore)
LEMMA WhoSleeps ==
    ASSUME ThrInv, NEW x \in Thread
    PROVE  /\ p_thrslpid[x] = "rwlock" => pc[x] = "rd"
           /\ p_thrslpid[x] = "sem" => pc[x] = "sem"
           /\ pc[x] = "sem" /\ p_thrslpid[x] # "sem" => p_thrslpid[x] = NoIdent
<1>1. {"rwlock", "sem"} \cap (Thread \cup {NoIdent}) = {}
  BY ThrsleepAssumption
<1> QED
  BY <1>1 DEF ThrInv, IdentAt

\* More threads that are up do no harm, ...
LEMMA MoreUp ==
    ASSUME SemWait, value \in Nat, value' = value, SemUp \subseteq SemUp',
           \A x \in Thread : p_thrslpid'[x] = "sem" => \E y \in Thread : p_thrslpid[y] = "sem"
    PROVE  SemWait'
<1>1. SemUp' \subseteq Thread
  BY DEF SemUp
<1>2. IsFiniteSet(SemUp') /\ Cardinality(SemUp') \in Nat
  BY <1>1, FS_Subset, FS_CardinalityType, ThrsleepAssumption
<1>3. Cardinality(SemUp) <= Cardinality(SemUp') /\ Cardinality(SemUp) \in Nat
  <2>1. PICK A : A = SemUp
    OBVIOUS
  <2>2. PICK B : B = SemUp'
    OBVIOUS
  <2>3. A \subseteq B /\ IsFiniteSet(B)
    BY <1>2, <2>1, <2>2
  <2> QED
    BY <2>1, <2>2, <2>3, FS_Subset, FS_CardinalityType
<1>4. ASSUME NEW x \in Thread, p_thrslpid'[x] = "sem" PROVE value <= Cardinality(SemUp')
  <2>1. value <= Cardinality(SemUp)
    BY <1>4 DEF SemWait
  <2> QED
    BY <1>2, <1>3, <2>1
<1> QED
  BY <1>4 DEF SemWait

\* ... and that is all that steps on the other objects and of the kernel do.
LEMMA SemWaitUntouched ==
    ASSUME ThrInv, SemWait, value \in Nat, value' = value, PcKept({"sem"}),
           \A x \in Thread : p_thrslpid'[x] = "sem" => p_thrslpid[x] = "sem"
    PROVE  SemWait'
<1>1. SemUp \subseteq SemUp'
  BY DEF SemUp, PcKept
<1> QED
  BY <1>1, MoreUp

\* A step puts nobody to sleep on the lock or the semaphore but t.
LEMMA NewSleepers ==
    ASSUME ThrInv, ThrInv', NEW t \in Thread, UserStep(t), NEW x \in Thread
    PROVE  /\ p_thrslpid'[x] = "rwlock" => p_thrslpid[x] = "rwlock" \/ (x = t /\ pc'[t] = "rd")
           /\ p_thrslpid'[x] = "sem" => p_thrslpid[x] = "sem" \/ (x = t /\ pc'[t] = "sem")
<1>1. {"rwlock", "sem"} \cap (Thread \cup {NoIdent}) = {}
  BY ThrsleepAssumption
<1>2. CASE x # t
  BY <1>1, <1>2 DEF UserStep, Others, Kept, Woken
<1>3. CASE x = t
  <2>1. p_thrslpid'[t] = NoIdent \/ p_thrslpid'[t] = IdentAt(t, pc'[t])
    BY DEF UserStep, Itself
  <2> QED
    BY <1>1, <1>3, <2>1 DEF IdentAt
<1> QED
  BY <1>2, <1>3

\* The steps on the read/write lock of a patient program leave no reader behind.
LEMMA RwReaders ==
    ASSUME TypeOK, RwLockInv, ThrInv, ThrInv', RwHand, PatientInv, ReadersWait, NEW t \in Thread,
           UserStep(t), Rw(t)
    PROVE  ReadersWait'
<1> USE DEF RwLockInv
<1>1. writers \in Seq(Thread) /\ NoThread \notin Thread
  BY ThrsleepAssumption DEF RwTypeOK
<1>2. ASSUME rw_owner' # NoThread \/ writers' # << >> PROVE ReadersWait'
  BY <1>2 DEF ReadersWait
<1>3. ASSUME UNCHANGED <<rw_owner, writers>>, pc'[t] # "rd" PROVE ReadersWait'
  BY <1>3, NewSleepers DEF ReadersWait
<1>4. ASSUME UNCHANGED <<rw_owner, writers>>, ~MayRead PROVE ReadersWait'
  BY <1>2, <1>4 DEF MayRead
<1>5. ASSUME NEW b, pthread_rwlock_rdlock(t, b) PROVE ReadersWait'
  <2>1. UNCHANGED <<rw_owner, writers>> /\ pc[t] = "idle"
    BY <1>5 DEF pthread_rwlock_rdlock, At
  <2>2. ~MayRead \/ pc' = pc
    BY <1>5 DEF pthread_rwlock_rdlock
  <2> QED
    BY <1>3, <1>4, <2>1, <2>2
<1>6. CASE RdlockWakes(t)
  <2>1. UNCHANGED <<rw_owner, writers>>
    BY <1>6 DEF RdlockWakes
  <2>2. ~MayRead \/ pc'[t] = "idle"
    BY <1>6 DEF RdlockWakes, Done, Go, PcWakeTyped
  <2> QED
    BY <1>3, <1>4, <2>1, <2>2
<1>7. ASSUME NEW b, pthread_rwlock_wrlock(t, b) PROVE ReadersWait'
  <2>1. rw_owner' = t \/ writers' = Append(writers, t)
    BY <1>7 DEF pthread_rwlock_wrlock
  <2> QED
    BY <1>1, <1>2, <2>1, QueueAppend
<1>8. CASE WrlockWakes(t)
  <2>1. pc[t] = "wr" /\ rw_owner' = rw_owner /\ error[t] # "EWOULDBLOCK"
    BY <1>8 DEF WrlockWakes, At, PatientInv
  <2>2. rw_owner = t \/ (writers' = writers /\ t \in ToSet(writers))
    BY <1>8, <2>1 DEF WrlockWakes, RwHand
  <2>3. t \in ToSet(writers) => writers # << >>
    BY <1>1, QueueSet
  <2> QED
    BY <1>1, <1>2, <2>1, <2>2, <2>3
<1>9. CASE pthread_rwlock_unlock(t)
  <2>1. pc[t] = "idle"
    BY <1>9 DEF pthread_rwlock_unlock, At
  <2>2. ASSUME NEW b, RwPassOn(t, b), writers # << >> PROVE ReadersWait'
    <3>1. rw_owner' = Head(writers) /\ Head(writers) \in Thread
      BY <1>1, <2>2, QueueTail DEF RwPassOn
    <3> QED
      BY <1>1, <1>2, <3>1
  <2>3. ASSUME RwPassOn(t, TRUE), writers = << >> PROVE ReadersWait'
    <3>1. p_thrslpid' = Cleared(Found("rwlock"))
      BY <2>3 DEF RwPassOn, ReadersWake
    <3>2. \A x \in Thread : p_thrslpid'[x] # "rwlock"
      BY <3>1, ThrsleepAssumption DEF Cleared, Found
    <3> QED
      BY <3>2 DEF ReadersWait
  <2>4. ASSUME t \in rdhas, RwPassOn(t, FALSE), writers = << >> PROVE ReadersWait'
    <3>1. rw_owner = NoThread /\ rw_owner' = NoThread /\ writers' = writers /\ pc' = pc
      BY <2>4 DEF RwPassOn, RwInv
    <3> QED
      BY <1>3, <2>1, <3>1
  <2>5. ASSUME UNCHANGED <<rw_owner, writers, pc>> PROVE ReadersWait'
    BY <1>3, <2>1, <2>5
  <2> QED
    BY <1>9, <2>2, <2>3, <2>4, <2>5 DEF pthread_rwlock_unlock
<1> QED
  BY <1>5, <1>6, <1>7, <1>8, <1>9 DEF Rw, RwCall, RwStep, RwUnlock

\* The steps on its semaphore leave no waiter behind: a post wakes one for its
\* unit, and one that is up takes a unit or finds none.
LEMMA SemWaits ==
    ASSUME TypeOK, SemLockInv, ThrInv, ThrInv', Patient(calls), PatientInv, SemWait,
           NEW t \in Thread, UserStep(t), Sem(t)
    PROVE  SemWait'
<1> USE DEF SemLockInv
<1>1. /\ value \in Nat /\ waitcount = Cardinality(SemWaiters) /\ SemUp \subseteq Thread
      /\ "sem" # NoIdent
  BY RThreadSemAssumption, ThrsleepAssumption DEF SemTypeOK, SemInv, SemUp
<1>2. ASSUME value' = 0 PROVE SemWait'
  <2>1. SemUp' \subseteq Thread
    BY DEF SemUp
  <2>2. Cardinality(SemUp') \in Nat
    BY <2>1, FS_Subset, FS_CardinalityType, ThrsleepAssumption
  <2> QED
    BY <1>2, <2>2 DEF SemWait
<1>3. ASSUME NEW b, sem_wait(t, b) PROVE SemWait'
  <2>1. CASE value = 0
    BY <1>2, <1>3, <2>1 DEF sem_wait
  <2>2. CASE value > 0
    <3>1. value' = value - 1 /\ UNCHANGED <<pc, p_thrslpid>>
      BY <1>3, <2>2 DEF sem_wait, NoSys
    <3>2. SemUp' = SemUp
      BY <3>1 DEF SemUp
    <3>3. Cardinality(SemUp) \in Nat
      BY <1>1, FS_Subset, FS_CardinalityType, ThrsleepAssumption
    <3> QED
      BY <1>1, <3>1, <3>2, <3>3 DEF SemWait
  <2> QED
    BY <1>1, <2>1, <2>2
<1>4. CASE SemWakes(t)
  <2>1. pc[t] = "sem" /\ sys[t] = "user"
    BY <1>4 DEF SemWakes, At
  <2>2. error[t] # "EWOULDBLOCK" /\ canceled[t] = FALSE
    <3>1. canceled[t] # TRUE /\ error[t] # "EWOULDBLOCK"
      BY <2>1 DEF PatientInv, Patient
    <3>2. canceled[t] \in BOOLEAN
      BY DEF TypeOK, ThrTypeOK
    <3> QED
      BY <3>1, <3>2
  <2>3. CASE value = 0
    <3>1. ~(value > 0)
      BY <2>3
    <3>2. value' = value
      BY <1>4, <3>1, Zenon DEF SemWakes, semVars
    <3> QED
      BY <1>2, <2>3, <3>2
  <2>4. CASE value > 0
    <3>1. value' = value - 1 /\ pc' = [pc EXCEPT ![t] = "idle"] /\ p_thrslpid' = p_thrslpid
      BY <1>4, <2>2, <2>4 DEF SemWakes, SemReturns, Done, Go
    <3>2. \A x \in Thread : pc'[x] = IF x = t THEN "idle" ELSE pc[x]
      BY <3>1 DEF PcWakeTyped
    <3>3. t \in SemUp /\ SemUp' = SemUp \ {t}
      BY <1>1, <2>1, <3>1, <3>2 DEF SemUp, ThrInv
    <3>4. Cardinality(SemUp') = Cardinality(SemUp) - 1 /\ Cardinality(SemUp) \in Nat
      BY <1>1, <3>3, ReaderCount, FS_Subset, FS_CardinalityType, ThrsleepAssumption
    <3>5. ASSUME NEW x \in Thread, p_thrslpid'[x] = "sem" PROVE value' <= Cardinality(SemUp')
      <4>1. value <= Cardinality(SemUp)
        BY <3>1, <3>5 DEF SemWait
      <4> QED
        BY <1>1, <3>1, <3>4, <4>1
    <3> QED
      BY <3>5 DEF SemWait
  <2> QED
    BY <1>1, <2>3, <2>4
<1>5. CASE sem_post(t)
  <2>1. value' = value + 1 /\ pc' = pc
    BY <1>5 DEF sem_post
  <2>2. CASE ~PostWakes(Found("sem")) /\ p_thrslpid' = p_thrslpid
    <3>1. \A x \in Thread : p_thrslpid[x] # "sem"
      <4>1. CASE Found("sem") = {}
        BY <4>1 DEF Found
      <4>2. CASE ~(waitcount > 0)
        <5>1. SemWaiters = {}
          <6>1. SemWaiters \subseteq Thread
            BY DEF SemWaiters
          <6>2. waitcount \in 0 .. Cardinality(Thread) /\ Cardinality(Thread) \in Nat
            BY FS_CardinalityType, ThrsleepAssumption DEF SemTypeOK
          <6>3. waitcount = 0
            BY <4>2, <6>2
          <6> QED
            BY <1>1, <6>1, <6>3, ReaderCount
        <5> QED
          BY <5>1, WhoSleeps DEF SemWaiters
      <4> QED
        BY <2>2, <4>1, <4>2 DEF PostWakes
    <3> QED
      BY <2>2, <3>1 DEF SemWait
  <2>3. ASSUME NEW u \in Found("sem"), p_thrslpid' = Cleared({u}) PROVE SemWait'
    <3>1. u \in Thread /\ p_thrslpid[u] = "sem"
      BY DEF Found
    <3>2. \A x \in Thread : p_thrslpid'[x] = IF x = u THEN NoIdent ELSE p_thrslpid[x]
      BY <2>3 DEF Cleared
    <3>3. SemUp' = SemUp \cup {u} /\ u \in Thread \ SemUp
      BY <1>1, <2>1, <3>1, <3>2, WhoSleeps DEF SemUp
    <3>4. Cardinality(SemUp') = Cardinality(SemUp) + 1 /\ Cardinality(SemUp) \in Nat
      BY <1>1, <3>3, ReaderCount, FS_Subset, FS_CardinalityType, ThrsleepAssumption
    <3>5. value <= Cardinality(SemUp)
      BY <3>1 DEF SemWait
    <3>6. value' <= Cardinality(SemUp')
      BY <1>1, <2>1, <3>4, <3>5
    <3> QED
      BY <3>6 DEF SemWait
  <2> QED
    BY <1>5, <2>2, <2>3 DEF sem_post
<1> QED
  BY <1>3, <1>4, <1>5 DEF Sem, SemCall, SemStep

-----------------------------------------------------------------------------
AwakeInv == HandInv /\ PatientInv /\ ReadersWait /\ SemWait /\ Patient(calls)

\* It holds when a patient program starts ...
LEMMA AwakeInit == Init /\ (\A w \in Workloads : Patient(w)) => AwakeInv
<1> SUFFICES ASSUME Init, \A w \in Workloads : Patient(w) PROVE AwakeInv
  OBVIOUS
<1>1. Patient(calls)
  BY DEF Init
<1>2. PatientInv
  BY DEF Init, ThrInit, SleepInit, SyncInit, PatientInv
<1>3. \A x \in Thread : p_thrslpid[x] # "rwlock" /\ p_thrslpid[x] # "sem"
  BY ThrsleepAssumption DEF Init, ThrInit
<1>4. ReadersWait /\ SemWait
  BY <1>3 DEF ReadersWait, SemWait
<1> QED
  BY <1>1, <1>2, <1>4, HandInit DEF AwakeInv

\* ... and every step keeps it.
LEMMA AwakeNext == AwakeInv /\ [Next]_vars => AwakeInv'
<1> SUFFICES ASSUME AwakeInv, [Next]_vars PROVE AwakeInv'
  OBVIOUS
<1>1. /\ SyncInv /\ RwLockInv /\ SemLockInv /\ ThrTypeOK /\ TypeOK /\ PcWakeTyped
      /\ ThrInv /\ WakeInv /\ MutexHand /\ RwHand /\ PatientInv /\ ReadersWait /\ SemWait
      /\ Patient(calls)
  BY DEF AwakeInv, HandInv, RThreadInv, TypeOK, SyncInv, RwLockInv, SemLockInv, PcWakeTyped,
     SyncTypeOK
<1>2. HandInv' /\ ThrInv'
  BY HandNext DEF AwakeInv, HandInv
<1>3. value \in Nat
  BY <1>1, RThreadSemAssumption DEF SemLockInv, SemTypeOK
<1>4. ASSUME PatientInv', ReadersWait', SemWait', calls' = calls PROVE AwakeInv'
  BY <1>1, <1>2, <1>4 DEF AwakeInv, Patient
<1>5. ASSUME \A x \in Thread : p_thrslpid'[x] = "rwlock" => p_thrslpid[x] = "rwlock",
             UNCHANGED rwVars
      PROVE  ReadersWait'
  BY <1>1, <1>5 DEF ReadersWait, rwVars
<1>6. ASSUME NEW t \in Thread, Sync(t), UNCHANGED <<rwVars, semVars>>, calls' = calls
      PROVE  AwakeInv'
  <2>1. UserStep(t) /\ PcKept({"rd", "wr", "sem"}) /\ pc[t] \notin {"rd", "sem"}
    BY <1>1, <1>6, SyncUser, SyncFrame, StepPlaces DEF SyncInv
  <2>2. PatientInv'
    BY <1>1, <1>6, <2>1, SyncCalls, CallStepKeeps
  <2>3. pc'[t] \notin {"rd", "sem"} /\ PcKept({"sem"})
    BY <2>1 DEF PcKept
  <2>4. ReadersWait'
    BY <1>1, <1>2, <1>5, <1>6, <2>1, <2>3, NewSleepers
  <2>5. SemWait'
    BY <1>1, <1>2, <1>3, <1>6, <2>1, <2>3, NewSleepers, SemWaitUntouched DEF semVars
  <2> QED
    BY <1>4, <1>6, <2>2, <2>4, <2>5
<1>7. ASSUME NEW t \in Thread, Rw(t), UNCHANGED <<syncOnly, semVars>>, calls' = calls
      PROVE  AwakeInv'
  <2>1. UserStep(t) /\ PcKept({"lock", "cond", "requeue", "sem"}) /\ pc[t] # "sem"
    BY <1>1, <1>7, RwUser, RwKeeps, StepPlaces
  <2>2. PatientInv'
    BY <1>1, <1>7, <2>1, RwCalls, CallStepKeeps
  <2>3. pc'[t] # "sem" /\ PcKept({"sem"})
    BY <2>1 DEF PcKept
  <2>4. ReadersWait'
    BY <1>1, <1>2, <1>7, <2>1, RwReaders
  <2>5. SemWait'
    BY <1>1, <1>2, <1>3, <1>7, <2>1, <2>3, NewSleepers, SemWaitUntouched DEF semVars
  <2> QED
    BY <1>4, <1>7, <2>2, <2>4, <2>5
<1>8. ASSUME NEW t \in Thread, Sem(t), UNCHANGED <<syncOnly, rwVars>>, calls' = calls
      PROVE  AwakeInv'
  <2>1. UserStep(t) /\ PcKept({"lock", "cond", "requeue", "rd", "wr"}) /\ pc[t] # "rd"
    BY <1>1, <1>8, SemUser, SemKeeps, StepPlaces
  <2>2. PatientInv'
    BY <1>1, <1>8, <2>1, SemCalls, CallStepKeeps
  <2>3. pc'[t] # "rd"
    BY <2>1 DEF PcKept
  <2>4. ReadersWait'
    BY <1>1, <1>2, <1>5, <1>8, <2>1, <2>3, NewSleepers
  <2>5. SemWait'
    BY <1>1, <1>2, <1>8, <2>1, SemWaits
  <2> QED
    BY <1>4, <1>8, <2>2, <2>4, <2>5
<1>9. ASSUME NEW t \in Thread, KernelStep(t) \/ KernelEvent(t),
             UNCHANGED <<syncVars, rwVars, semVars>>, calls' = calls
      PROVE  AwakeInv'
  <2>1. pc' = pc /\ value' = value
    BY <1>9 DEF syncVars, semVars
  <2>2. PatientInv'
    BY <1>1, <1>9, <2>1, KernelCalls
  <2>3. \A x \in Thread : p_thrslpid'[x] \in {p_thrslpid[x], NoIdent}
    BY <1>1, <1>9, KernelShape DEF KernelOnly, Kept
  <2>4. \A x \in Thread : /\ p_thrslpid'[x] = "rwlock" => p_thrslpid[x] = "rwlock"
                          /\ p_thrslpid'[x] = "sem" => p_thrslpid[x] = "sem"
    BY <2>3, ThrsleepAssumption
  <2>5. ReadersWait'
    BY <1>5, <1>9, <2>4
  <2>6. SemWait'
    BY <1>1, <1>3, <2>1, <2>4, SemWaitUntouched DEF PcKept
  <2> QED
    BY <1>4, <1>9, <2>2, <2>5, <2>6
<1>10. CASE UNCHANGED vars
  <2>1. UNCHANGED <<pc, sys, p_thrslpid, p_timeout, timed, error, canceled, calls, rwVars, value>>
    BY <1>10 DEF vars, thrVars, syncVars, semVars
  <2>2. PatientInv'
    BY <1>1, <2>1 DEF PatientInv
  <2>3. ReadersWait'
    BY <1>5, <2>1
  <2>4. SemWait'
    BY <1>1, <1>3, <2>1, SemWaitUntouched DEF PcKept
  <2> QED
    BY <1>4, <2>1, <2>2, <2>3, <2>4
<1> QED
  BY <1>6, <1>7, <1>8, <1>9, <1>10 DEF Next

\* In a program whose threads wait for the read/write lock as writers, and for
\* the semaphore, as long as it takes, nobody sleeps in __thrsleep() who should
\* have been woken: by a hand over, by the pthread_rwlock_unlock() that lets
\* readers in, or by a sem_post().  (Without that it is false: see
\* MCRThreadRwlock.cfg.)
THEOREM NobodyIsForgotten ==
    ASSUME \A w \in Workloads : Patient(w)
    PROVE  Spec => []NobodyForgotten
<1>1. Init => AwakeInv
  BY AwakeInit
<1>2. HandInv => NoMissedHandoff
  BY HandFinds
<1>3. AwakeInv => NobodyForgotten
  <2> SUFFICES ASSUME AwakeInv PROVE NobodyForgotten
    OBVIOUS
  <2>1. ReadersNotForgotten
    BY DEF AwakeInv, ReadersWait, ReadersNotForgotten
  <2>2. SemNotForgotten
    <3> SUFFICES ASSUME NEW t \in Thread, p_thrslpid[t] = "sem"
                 PROVE  value <= Cardinality({x \in Thread : pc[x] = "sem" /\ ~Asleep(x)})
      BY DEF SemNotForgotten
    <3> DEFINE Up == {x \in Thread : pc[x] = "sem" /\ ~Asleep(x)}
    <3>1. SemUp \subseteq Up
      BY WhoSleeps DEF SemUp, AwakeInv, HandInv, ThrInv, Asleep, Awake
    <3>2. Up \subseteq Thread
      OBVIOUS
    <3> HIDE DEF Up
    <3>3. /\ Cardinality(SemUp) <= Cardinality(Up)
          /\ Cardinality(SemUp) \in Nat /\ Cardinality(Up) \in Nat
      BY <3>1, <3>2, FS_Subset, FS_CardinalityType, ThrsleepAssumption
    <3>4. value <= Cardinality(SemUp) /\ value \in Nat
      BY RThreadSemAssumption DEF AwakeInv, SemWait, HandInv, RThreadInv, TypeOK, SemTypeOK
    <3>5. value <= Cardinality(Up)
      BY <3>3, <3>4
    <3> QED
      BY <3>5 DEF Up
  <2> QED
    BY <1>2, <2>1, <2>2 DEF NobodyForgotten, AwakeInv
<1> QED
  BY <1>1, <1>3, AwakeNext, PTL DEF Spec
=============================================================================
