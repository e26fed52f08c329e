------------------------------- MODULE RWLock -------------------------------
(***************************************************************************)
(* Read/write locks of the kernel (sys/kern/kern_rwlock.c) on a             *)
(* multiprocessor: threads that load rwl_owner, decide, and compare and     *)
(* swap it, and that put themselves on the sleep queue in between.          *)
(***************************************************************************)
EXTENDS SleepQueue

CONSTANTS
    rwl,        \* the lock: its address is the channel its waiters sleep on
    FlagSets    \* the combinations of flags rw_enter() is called with

Flag == {"RW_INTR", "RW_SLEEPFAIL", "RW_NOSLEEP"}

ASSUME RWLockAssumption ==
    /\ Chan = {rwl}
    /\ FlagSets \subseteq SUBSET Flag

VARIABLES
    rwl_owner,  \* the lock word
    pc,         \* where each thread is in the code
    op,         \* what it called: RW_READ, RW_WRITE, RW_DOWNGRADE or none
    flags,      \* the flags of the call
    o,          \* the value of rwl_owner it has loaded
    wrlock,     \* rw_exit(): the lock was write locked when it looked
    sls,        \* its struct sleep_state
    held        \* what its caller holds: none, read or write

rwVars == <<rwl_owner, pc, op, flags, o, wrlock, sls, held>>
vars == <<rwl_owner, pc, op, flags, o, wrlock, sls, held, sleepVars>>

(***************************************************************************)
(* The lock word: [ owner or count of readers | wrlock | wrwant | wait ].   *)
(* The upper bits are the writer (wr) when WRLOCK is set, else the number   *)
(* of readers (rd).                                                         *)
(***************************************************************************)
Word == [wr : Proc \cup {NoProc}, rd : Nat, want : BOOLEAN, wait : BOOLEAN]

Free == [wr |-> NoProc, rd |-> 0, want |-> FALSE, wait |-> FALSE]

WriteLocked(w) == w.wr # NoProc

Op == {"RW_READ", "RW_WRITE", "RW_DOWNGRADE"}

\* Mutant: the check of RW_READ is left empty.
BlockedMutant(k, w) == k = "RW_WRITE" /\ w # Free

\* rw_ops[].check: the bits that keep an operation from succeeding.
Blocked(k, w) ==
    \/ k = "RW_WRITE" /\ w # Free
    \/ k = "RW_READ" /\ WriteLocked(w)

\* rw_ops[].wait_set: the flags a waiter adds to the word.
WaitSet(k, w) ==
    [wr |-> w.wr, rd |-> w.rd,
     want |-> w.want \/ k = "RW_WRITE", wait |-> TRUE]

\* Mutant: RW_DOWNGRADE's inc lacks RWLOCK_READ_INCR.
GrantedMutant(t, k, w) ==
    [wr   |-> IF k = "RW_WRITE" THEN t
              ELSE IF k = "RW_DOWNGRADE" THEN NoProc ELSE w.wr,
     rd   |-> IF k = "RW_READ" THEN w.rd + 1 ELSE w.rd,
     want |-> w.want,
     wait |-> w.wait]

\* rw_ops[].inc and proc_mult: what a successful operation adds to the word.
Granted(t, k, w) ==
    [wr   |-> IF k = "RW_WRITE" THEN t
              ELSE IF k = "RW_DOWNGRADE" THEN NoProc ELSE w.wr,
     rd   |-> IF k = "RW_WRITE" THEN w.rd ELSE w.rd + 1,
     want |-> w.want,
     wait |-> w.wait]

\* What rw_exit_read() stores.
ReaderLeft(w) == [w EXCEPT !.rd = @ - 1]

\* Mutant: the last reader leaves the waiter bits behind.
ReleasedMutant(writer, w) ==
    IF writer THEN Free ELSE ReaderLeft(w)

\* What rw_exit() stores.
Released(writer, w) ==
    IF writer THEN Free
    ELSE [wr |-> w.wr, rd |-> w.rd - 1, want |-> FALSE, wait |-> FALSE]

HeldAfter(k) == IF k = "RW_WRITE" THEN "write" ELSE "read"

NoSleepState == [catch |-> FALSE, do_sleep |-> FALSE, sig |-> FALSE]

PC == {"idle", "enter_read", "test", "setup", "cursig", "stopped", "setwait",
       "asleep", "slept", "stopped_again", "cas", "exit_read", "exit_write",
       "exit_load", "exit_cas", "wakeup"}

TypeOK ==
    /\ SleepTypeOK
    /\ rwl_owner \in Word
    /\ pc \in [Proc -> PC]
    /\ op \in [Proc -> Op \cup {"none"}]
    /\ flags \in [Proc -> SUBSET Flag]
    /\ o \in [Proc -> Word]
    /\ wrlock \in [Proc -> BOOLEAN]
    /\ sls \in [Proc -> [catch : BOOLEAN, do_sleep : BOOLEAN, sig : BOOLEAN]]
    /\ held \in [Proc -> {"none", "read", "write"}]

Init ==
    /\ SleepInit
    /\ rwl_owner = Free
    /\ pc = [t \in Proc |-> "idle"]
    /\ op = [t \in Proc |-> "none"]
    /\ flags = [t \in Proc |-> {}]
    /\ o = [t \in Proc |-> Free]
    /\ wrlock = [t \in Proc |-> FALSE]
    /\ sls = [t \in Proc |-> NoSleepState]
    /\ held = [t \in Proc |-> "none"]

-----------------------------------------------------------------------------
Goto(t, l) == pc' = [pc EXCEPT ![t] = l]

\* Return to the caller; what is left on the stack is forgotten.
Return(t) ==
    /\ Goto(t, "idle")
    /\ op' = [op EXCEPT ![t] = "none"]
    /\ flags' = [flags EXCEPT ![t] = {}]
    /\ o' = [o EXCEPT ![t] = Free]
    /\ wrlock' = [wrlock EXCEPT ![t] = FALSE]
    /\ sls' = [sls EXCEPT ![t] = NoSleepState]

\* Enter the slow path rw_enter(rwl, k | f).
Call(t, k, f) ==
    /\ Goto(t, "test")
    /\ op' = [op EXCEPT ![t] = k]
    /\ flags' = [flags EXCEPT ![t] = f]

Load(t) == o' = [o EXCEPT ![t] = rwl_owner]

\* The loaded value will not be used again.
Forget(t) == o' = [o EXCEPT ![t] = Free]

Acquire(t, k) ==
    /\ rwl_owner' = Granted(t, k, rwl_owner)
    /\ held' = [held EXCEPT ![t] = HeldAfter(k)]

(***************************************************************************)
(* rw_enter_read(), rw_enter_write(): one attempt, then rw_enter().         *)
(***************************************************************************)
EnterRead(t) ==
    /\ pc[t] = "idle" /\ held[t] = "none"
    /\ Load(t)
    /\ Goto(t, "enter_read")
    /\ UNCHANGED <<rwl_owner, op, flags, wrlock, sls, held, sleepVars>>

EnterReadCas(t) ==
    /\ pc[t] = "enter_read"
    /\ \/ /\ ~WriteLocked(o[t]) /\ rwl_owner = o[t]
          /\ Acquire(t, "RW_READ")
          /\ Return(t)
       \/ /\ WriteLocked(o[t]) \/ rwl_owner # o[t]
          /\ Call(t, "RW_READ", {})
          /\ Forget(t)
          /\ UNCHANGED <<rwl_owner, wrlock, sls, held>>
    /\ UNCHANGED sleepVars

EnterWrite(t) ==
    /\ pc[t] = "idle" /\ held[t] = "none"
    /\ \/ /\ rwl_owner = Free
          /\ Acquire(t, "RW_WRITE")
          /\ Return(t)
       \/ /\ rwl_owner # Free
          /\ Call(t, "RW_WRITE", {})
          /\ UNCHANGED <<rwl_owner, o, wrlock, sls, held>>
    /\ UNCHANGED sleepVars

(***************************************************************************)
(* rw_enter().                                                              *)
(***************************************************************************)
Enter(t) ==
    /\ pc[t] = "idle"
    /\ \/ /\ held[t] = "none"
          /\ \E k \in {"RW_READ", "RW_WRITE"}, f \in FlagSets : Call(t, k, f)
       \/ /\ held[t] = "write"
          /\ Call(t, "RW_DOWNGRADE", {})
    /\ UNCHANGED <<rwl_owner, o, wrlock, sls, held, sleepVars>>

\* The condition of the while loop, and RW_NOSLEEP.
Test(t) ==
    /\ pc[t] = "test"
    /\ \/ /\ ~Blocked(op[t], rwl_owner)
          /\ Load(t)
          /\ Goto(t, "cas")
          /\ UNCHANGED <<op, flags, wrlock, sls>>
       \/ /\ Blocked(op[t], rwl_owner) /\ "RW_NOSLEEP" \in flags[t]
          /\ Return(t)
       \/ /\ Blocked(op[t], rwl_owner) /\ "RW_NOSLEEP" \notin flags[t]
          /\ Load(t)
          /\ Goto(t, "setup")
          /\ UNCHANGED <<op, flags, wrlock, sls>>
    /\ UNCHANGED <<rwl_owner, held, sleepVars>>

\* sleep_setup(), and the first lines of sleep_setup_signal().
Setup(t) ==
    LET intr == "RW_INTR" \in flags[t] IN
    /\ pc[t] = "setup"
    /\ SleepSetup(t, rwl)
    /\ sls' = [sls EXCEPT ![t] = [catch |-> intr, do_sleep |-> TRUE,
                                  sig |-> TRUE]]
    /\ p_sintr' = [p_sintr EXCEPT ![t] = intr]
    /\ Goto(t, IF intr THEN "cursig" ELSE "setwait")
    /\ UNCHANGED <<rwl_owner, op, flags, o, wrlock, held,
                   p_stat, p_siglist, psig>>

\* CURSIG() in sleep_setup_signal(), with SCHED_LOCK held.
SetupSignal(t) ==
    /\ pc[t] = "cursig"
    /\ \/ /\ HasSignal(t)
          /\ Unsleep(t)
          /\ p_stat' = [p_stat EXCEPT ![t] = "SONPROC"]
          /\ sls' = [sls EXCEPT ![t] = [catch |-> TRUE, do_sleep |-> FALSE,
                                        sig |-> TRUE]]
          /\ Goto(t, "setwait")
          /\ UNCHANGED <<sched_lock, p_siglist>>
       \/ /\ MustStop(t)
          /\ p_siglist' = [p_siglist EXCEPT ![t] = @ \ {"STOP"}]
          /\ SwitchAway(t, "SSTOP")
          /\ Goto(t, "stopped")
          /\ UNCHANGED <<p_wchan, sls>>
       \/ /\ ~HasSignal(t) /\ ~MustStop(t)
          /\ p_siglist' = [p_siglist EXCEPT ![t] = {}]
          /\ sls' = [sls EXCEPT ![t] =
                IF p_wchan[t] = NoChan
                THEN [catch |-> FALSE, do_sleep |-> FALSE, sig |-> FALSE]
                ELSE [catch |-> TRUE, do_sleep |-> TRUE, sig |-> FALSE]]
          /\ Goto(t, "setwait")
          /\ UNCHANGED <<p_stat, p_wchan, sched_lock>>
    /\ UNCHANGED <<rwl_owner, op, flags, o, wrlock, held, p_sintr, psig>>

\* proc_stop()'s mi_switch() returns into issignal()'s loop.
SetupContinued(t) ==
    /\ pc[t] = "stopped"
    /\ SwitchBack(t)
    /\ Goto(t, "cursig")
    /\ UNCHANGED <<rwl_owner, op, flags, o, wrlock, sls, held,
                   p_wchan, p_sintr, p_siglist, psig>>

\* Mutant: sleep_finish() does not take a thread that will not sleep off the
\* queue.
SetWaitMutant(t) ==
    LET do_sleep == rwl_owner = o[t] IN
    /\ pc[t] = "setwait"
    /\ rwl_owner' = IF do_sleep THEN WaitSet(op[t], o[t]) ELSE rwl_owner
    /\ \/ /\ sls[t].do_sleep /\ do_sleep
          /\ SwitchAway(t, "SSLEEP")
          /\ Goto(t, "asleep")
          /\ UNCHANGED p_sintr
       \/ /\ ~(sls[t].do_sleep /\ do_sleep)
          /\ sched_lock' = NoProc
          /\ p_sintr' = [p_sintr EXCEPT ![t] = FALSE]
          /\ Goto(t, "slept")
          /\ UNCHANGED p_stat
    /\ Forget(t)
    /\ UNCHANGED <<op, flags, wrlock, sls, held, p_wchan, p_siglist, psig>>

\* The swap that announces the waiter, and sleep_finish().
SetWait(t) ==
    LET do_sleep == rwl_owner = o[t] IN
    /\ pc[t] = "setwait"
    /\ rwl_owner' = IF do_sleep THEN WaitSet(op[t], o[t]) ELSE rwl_owner
    /\ \/ /\ sls[t].do_sleep /\ do_sleep
          /\ SwitchAway(t, "SSLEEP")
          /\ Goto(t, "asleep")
          /\ UNCHANGED <<p_wchan, p_sintr>>
       \/ /\ ~(sls[t].do_sleep /\ do_sleep)
          /\ p_wchan' = [p_wchan EXCEPT ![t] = IF do_sleep THEN @ ELSE NoChan]
          /\ sched_lock' = NoProc
          /\ p_sintr' = [p_sintr EXCEPT ![t] = FALSE]
          /\ Goto(t, "slept")
          /\ UNCHANGED p_stat
    /\ Forget(t)
    /\ UNCHANGED <<op, flags, wrlock, sls, held, p_siglist, psig>>

\* mi_switch() returns to sleep_finish(), which drops SCHED_LOCK.
Resume(t) ==
    /\ pc[t] = "asleep"
    /\ p_stat[t] = "SRUN"
    /\ sched_lock = NoProc
    /\ p_stat' = [p_stat EXCEPT ![t] = "SONPROC"]
    /\ p_sintr' = [p_sintr EXCEPT ![t] = FALSE]
    /\ Goto(t, "slept")
    /\ UNCHANGED <<rwl_owner, op, flags, o, wrlock, sls, held,
                   p_wchan, p_siglist, psig, sched_lock>>

\* sleep_finish_signal() and RW_SLEEPFAIL, and back to the loop: EINTR or
\* ERESTART for a signal, a stop inside CURSIG(), or no signal at all.
FinishSleep(t) ==
    LET catch == sls[t].catch
        sig == catch /\ (sls[t].sig \/ HasSignal(t))
        stop == catch /\ ~sig /\ MustStop(t)
    IN
    /\ pc[t] = "slept"
    /\ \/ /\ sig
          /\ Return(t)
          /\ UNCHANGED <<p_stat, p_siglist>>
       \/ /\ stop /\ sched_lock = NoProc
          /\ p_siglist' = [p_siglist EXCEPT ![t] = @ \ {"STOP"}]
          /\ p_stat' = [p_stat EXCEPT ![t] = "SSTOP"]
          /\ Goto(t, "stopped_again")
          /\ UNCHANGED <<op, flags, o, wrlock, sls>>
       \/ /\ ~sig /\ ~stop
          /\ p_siglist' = [p_siglist EXCEPT ![t] = IF catch THEN {} ELSE @]
          /\ \/ /\ "RW_SLEEPFAIL" \in flags[t]
                /\ Return(t)
             \/ /\ "RW_SLEEPFAIL" \notin flags[t]
                /\ Goto(t, "test")
                /\ UNCHANGED <<op, flags, o, wrlock, sls>>
          /\ UNCHANGED p_stat
    /\ UNCHANGED <<rwl_owner, held, p_wchan, p_sintr, psig, sched_lock>>

FinishContinued(t) ==
    /\ pc[t] = "stopped_again"
    /\ p_stat[t] = "SRUN"
    /\ sched_lock = NoProc
    /\ p_stat' = [p_stat EXCEPT ![t] = "SONPROC"]
    /\ Goto(t, "slept")
    /\ UNCHANGED <<rwl_owner, op, flags, o, wrlock, sls, held,
                   p_wchan, p_sintr, p_siglist, psig, sched_lock>>

\* The swap that takes the lock; a downgrade wakes the readers it let in.
Cas(t) ==
    /\ pc[t] = "cas"
    /\ \/ /\ rwl_owner = o[t]
          /\ Acquire(t, op[t])
          /\ \/ /\ WriteLocked(o[t]) /\ o[t].wait
                /\ Goto(t, "wakeup")
                /\ Forget(t)
                /\ UNCHANGED <<op, flags, wrlock, sls>>
             \/ /\ ~(WriteLocked(o[t]) /\ o[t].wait)
                /\ Return(t)
       \/ /\ rwl_owner # o[t]
          /\ Goto(t, "test")
          /\ Forget(t)
          /\ UNCHANGED <<rwl_owner, op, flags, wrlock, sls, held>>
    /\ UNCHANGED sleepVars

(***************************************************************************)
(* rw_exit_read(), rw_exit_write(): one attempt, then rw_exit().            *)
(***************************************************************************)
ExitRead(t) ==
    /\ pc[t] = "idle" /\ held[t] = "read"
    /\ Load(t)
    /\ Goto(t, "exit_read")
    /\ UNCHANGED <<rwl_owner, op, flags, wrlock, sls, held, sleepVars>>

ExitWrite(t) ==
    /\ pc[t] = "idle" /\ held[t] = "write"
    /\ Load(t)
    /\ Goto(t, "exit_write")
    /\ UNCHANGED <<rwl_owner, op, flags, wrlock, sls, held, sleepVars>>

\* The first lines of rw_exit(): which kind of lock is it?
CallExit(t) ==
    /\ wrlock' = [wrlock EXCEPT ![t] = WriteLocked(rwl_owner)]
    /\ Goto(t, "exit_load")

Exit(t) ==
    /\ pc[t] = "idle" /\ held[t] # "none"
    /\ CallExit(t)
    /\ UNCHANGED <<rwl_owner, op, flags, o, sls, held, sleepVars>>

\* Mutant: the fast path does not look at RWLOCK_WAIT.
ExitFastCasMutant(t) ==
    /\ pc[t] \in {"exit_read", "exit_write"}
    /\ \/ /\ rwl_owner = o[t]
          /\ rwl_owner' = Released(pc[t] = "exit_write", o[t])
          /\ held' = [held EXCEPT ![t] = "none"]
          /\ Return(t)
       \/ /\ rwl_owner # o[t]
          /\ CallExit(t)
          /\ Forget(t)
          /\ UNCHANGED <<rwl_owner, op, flags, sls, held>>
    /\ UNCHANGED sleepVars

ExitFastCas(t) ==
    /\ pc[t] \in {"exit_read", "exit_write"}
    /\ \/ /\ ~o[t].wait /\ rwl_owner = o[t]
          /\ rwl_owner' = IF pc[t] = "exit_write" THEN Free
                          ELSE ReaderLeft(o[t])
          /\ held' = [held EXCEPT ![t] = "none"]
          /\ Return(t)
       \/ /\ o[t].wait \/ rwl_owner # o[t]
          /\ CallExit(t)
          /\ Forget(t)
          /\ UNCHANGED <<rwl_owner, op, flags, sls, held>>
    /\ UNCHANGED sleepVars

ExitLoad(t) ==
    /\ pc[t] = "exit_load"
    /\ Load(t)
    /\ Goto(t, "exit_cas")
    /\ UNCHANGED <<rwl_owner, op, flags, wrlock, sls, held, sleepVars>>

\* Mutant: the word is stored without being compared.
ExitCasMutant(t) ==
    /\ pc[t] = "exit_cas"
    /\ rwl_owner' = Released(wrlock[t], o[t])
    /\ held' = [held EXCEPT ![t] = "none"]
    /\ \/ /\ o[t].wait
          /\ Goto(t, "wakeup")
          /\ Forget(t)
          /\ UNCHANGED <<op, flags, wrlock, sls>>
       \/ /\ ~o[t].wait
          /\ Return(t)
    /\ UNCHANGED sleepVars

ExitCas(t) ==
    /\ pc[t] = "exit_cas"
    /\ \/ /\ rwl_owner = o[t]
          /\ rwl_owner' = Released(wrlock[t], o[t])
          /\ held' = [held EXCEPT ![t] = "none"]
          /\ \/ /\ o[t].wait
                /\ Goto(t, "wakeup")
                /\ Forget(t)
                /\ UNCHANGED <<op, flags, wrlock, sls>>
             \/ /\ ~o[t].wait
                /\ Return(t)
       \/ /\ rwl_owner # o[t]
          /\ Goto(t, "exit_load")
          /\ Forget(t)
          /\ UNCHANGED <<rwl_owner, op, flags, wrlock, sls, held>>
    /\ UNCHANGED sleepVars

WakeWaiters(t) ==
    /\ pc[t] = "wakeup"
    /\ Wakeup(rwl)
    /\ Return(t)
    /\ UNCHANGED <<rwl_owner, held, p_sintr, p_siglist, psig, sched_lock>>

-----------------------------------------------------------------------------
\* Somebody sends a thread a signal.
Kill(t) ==
    /\ \E sig \in Signals : PostSignal(t, sig)
    /\ UNCHANGED rwVars

SignalThread(t) ==
    /\ DeliverSignal(t)
    /\ UNCHANGED rwVars

\* Without a lock, on the way back to user mode, userret() handles what is
\* pending.
UserRet(t) ==
    /\ pc[t] = "idle" /\ held[t] = "none" /\ p_siglist[t] # {}
    /\ p_siglist' = [p_siglist EXCEPT ![t] = {}]
    /\ UNCHANGED <<rwVars, p_stat, p_wchan, p_sintr, psig, sched_lock>>

\* The steps of a thread inside the code of kern_rwlock.c.
Step(t) ==
    \/ EnterReadCas(t) \/ Test(t) \/ Setup(t) \/ SetupSignal(t)
    \/ SetupContinued(t) \/ SetWait(t) \/ Resume(t) \/ FinishSleep(t)
    \/ FinishContinued(t) \/ Cas(t) \/ ExitFastCas(t) \/ ExitLoad(t)
    \/ ExitCas(t) \/ WakeWaiters(t)

\* The calls a thread makes to give the lock back.
Release(t) == ExitRead(t) \/ ExitWrite(t) \/ Exit(t)

Next ==
    \E t \in Proc :
        \/ Step(t) \/ Release(t)
        \/ EnterRead(t) \/ EnterWrite(t) \/ Enter(t)
        \/ Kill(t) \/ SignalThread(t) \/ UserRet(t)

Spec == Init /\ [][Next]_vars

\* A thread on a processor keeps running, whoever holds the lock gives it
\* back in the end, and whoever sends a signal finishes ptsignal().  The
\* wakeup and the return from mi_switch() wait for SCHED_LOCK, which is
\* passed on in the order in which it was asked for (kern_mplock.c), so
\* they are strongly fair.
Fairness ==
    \A t \in Proc :
        /\ WF_vars(Step(t))
        /\ WF_vars(Release(t))
        /\ SF_vars(WakeWaiters(t))
        /\ SF_vars(Resume(t))
        /\ SF_vars(SignalThread(t))

FairSpec == Spec /\ Fairness

-----------------------------------------------------------------------------
(***************************************************************************)
(* Properties.                                                              *)
(***************************************************************************)

\* The word says who holds the lock: the owner field is the one thread whose
\* rw_enter(RW_WRITE) returned 0, the count is the number of threads that
\* hold it for reading, and there is never a writer beside another holder.
\* A swap of rw_enter() or rw_exit() that was decided on a stale load would
\* break it.
Readers == {t \in Proc : held[t] = "read"}

WordMatchesHolders ==
    /\ \A t \in Proc : held[t] = "write" <=> rwl_owner.wr = t
    /\ rwl_owner.rd = Cardinality(Readers)
    /\ WriteLocked(rwl_owner) => rwl_owner.rd = 0

\* sys/rwlock.h: "it's not possible to have owner/read count unset and
\* waiter bits set".  rw_enter(RW_WRITE) tests for a word that is entirely
\* zero, so a stray bit on a free lock would lock writers out for good.
NoStrayWaiterBits ==
    ~WriteLocked(rwl_owner) /\ rwl_owner.rd = 0 => rwl_owner = Free

\* While a thread is queued in rw_enter()'s sleep, the word tells the next
\* rw_exit() to call wakeup(), or a wakeup() is already on its way.
NoLostWakeup ==
    (\E t \in Proc : pc[t] = "asleep" /\ p_wchan[t] = rwl)
        => rwl_owner.wait \/ \E u \in Proc : pc[u] = "wakeup"

\* None of the DIAGNOSTIC panics is reachable: wakeup_n() meets only sleeping
\* and stopped threads on the queue, sleep_setup() and sleep_finish() run on
\* a thread that is SONPROC, rw_enter_diag() does not find the caller to be
\* the owner, and rw_assert_wrlock() and rw_assert_rdlock() hold where
\* rw_exit_write(), rw_exit_read() and rw_exit() call them.
NoPanic ==
    \A t \in Proc :
        /\ p_wchan[t] # NoChan /\ sched_lock = NoProc
              => p_stat[t] \in {"SSLEEP", "SSTOP"}
        /\ pc[t] \in {"setup", "slept"} => p_stat[t] = "SONPROC"
        /\ pc[t] = "setup" => rwl_owner.wr # t
        /\ pc[t] = "exit_write" => rwl_owner.wr = t
        /\ pc[t] = "exit_read" => ~WriteLocked(rwl_owner) /\ rwl_owner.rd > 0
        /\ pc[t] = "exit_load" =>
              IF wrlock[t] THEN rwl_owner.wr = t
              ELSE ~WriteLocked(rwl_owner) /\ rwl_owner.rd > 0

\* The swaps, retries and sleeps together behave like the lock of RWLockAbs:
\* who holds it changes one thread at a time, a reader never joins a writer,
\* a writer comes in alone, and a downgrade lets nobody in between.
Abs == INSTANCE RWLockAbs WITH hold <- held

ImplementsLock == Abs!Spec

\* A thread that sleeps on the lock does not sleep forever, however rw_exit(),
\* downgrades, failed swaps and signals interleave: sleep_setup_signal() says
\* that a thread must be ready for sleep when CURSIG() is called, because
\* "a SIGCONT would cause us to be marked as SSLEEP without resuming us".
SleeperWakes ==
    \A t \in Proc : (p_stat[t] = "SSLEEP") ~> (p_stat[t] # "SSLEEP")

\* The word, the waiter bits, the wakeups and the panics together, for threads
\* that are interrupted, stopped, continued and killed at any point of
\* rw_enter() and rw_exit().
LockSound == WordMatchesHolders /\ NoStrayWaiterBits /\ NoLostWakeup /\ NoPanic
=============================================================================
