---------------------------- MODULE RWLockProofs ----------------------------
(***************************************************************************)
(* Proofs about RWLock, for any finite set of threads, any signals and any  *)
(* flags.                                                                   *)
(***************************************************************************)
EXTENDS RWLock, FiniteSetTheorems, TLAPS

\* What a thread holds, and what it has loaded, at each point of the code.
Control ==
    \A t \in Proc :
        /\ pc[t] = "enter_read" => held[t] = "none"
        /\ pc[t] \in {"test", "cas"} =>
              \/ op[t] \in {"RW_READ", "RW_WRITE"} /\ held[t] = "none"
              \/ op[t] = "RW_DOWNGRADE" /\ held[t] = "write"
        /\ pc[t] \in {"setup", "cursig", "stopped", "setwait", "asleep",
                      "slept", "stopped_again"} =>
              op[t] \in {"RW_READ", "RW_WRITE"} /\ held[t] = "none"
        /\ pc[t] \in {"setup", "cursig", "stopped", "setwait"} =>
              Blocked(op[t], o[t])
        /\ pc[t] = "cas" => ~Blocked(op[t], o[t])
        /\ pc[t] = "exit_read" => held[t] = "read"
        /\ pc[t] = "exit_write" => held[t] = "write"
        /\ pc[t] \in {"exit_load", "exit_cas"} =>
              /\ held[t] # "none"
              /\ wrlock[t] <=> held[t] = "write"

\* Where a queued thread can be, and who has SCHED_LOCK there.
Queue ==
    \A t \in Proc :
        /\ pc[t] \in {"cursig", "setwait"} => sched_lock = t
        /\ pc[t] = "setwait" /\ p_wchan[t] # NoChan => sls[t].do_sleep
        /\ pc[t] \notin {"stopped", "asleep", "stopped_again"} =>
              p_stat[t] = "SONPROC"
        /\ p_wchan[t] # NoChan =>
              \/ pc[t] \in {"cursig", "setwait"}
              \/ /\ pc[t] \in {"stopped", "asleep"}
                 /\ p_stat[t] \in {"SSLEEP", "SSTOP"}

\* RWLOCK_WRWANT never appears without RWLOCK_WAIT.
WantImpliesWait == rwl_owner.want => rwl_owner.wait

IInv ==
    /\ TypeOK
    /\ Control
    /\ Queue
    /\ WordMatchesHolders
    /\ NoStrayWaiterBits
    /\ WantImpliesWait
    /\ NoLostWakeup

-----------------------------------------------------------------------------
(***************************************************************************)
(* The lock word.                                                           *)
(***************************************************************************)

\* An unlocked word is a word.
LEMMA FreeType == Free \in Word
BY DEF Free, Word

\* What rw_enter() adds to the word, for each operation.
LEMMA GrantedType ==
    ASSUME NEW t \in Proc, NEW w \in Word, NEW k \in Op
    PROVE  /\ Granted(t, k, w) \in Word
           /\ Granted(t, k, w).wait = w.wait
           /\ Granted(t, k, w).want = w.want
           /\ k = "RW_WRITE" => /\ Granted(t, k, w).wr = t
                                /\ Granted(t, k, w).rd = w.rd
           /\ k = "RW_READ" => /\ Granted(t, k, w).wr = w.wr
                               /\ Granted(t, k, w).rd = w.rd + 1
           /\ k = "RW_DOWNGRADE" => /\ Granted(t, k, w).wr = NoProc
                                    /\ Granted(t, k, w).rd = w.rd + 1
BY DEF Granted, Word, Op

\* The flags a waiter adds change nothing else.
LEMMA WaitSetType ==
    ASSUME NEW w \in Word, NEW k \in Op
    PROVE  /\ WaitSet(k, w) \in Word
           /\ WaitSet(k, w).wait
           /\ WaitSet(k, w).wr = w.wr
           /\ WaitSet(k, w).rd = w.rd
BY DEF WaitSet, Word

\* What rw_exit() stores, for a word with a writer or with readers.
LEMMA ReleasedType ==
    ASSUME NEW w \in Word, NEW writer \in BOOLEAN,
           writer \/ w.rd > 0
    PROVE  /\ Released(writer, w) \in Word
           /\ ~Released(writer, w).wait
           /\ ~Released(writer, w).want
           /\ writer => Released(writer, w) = Free
           /\ ~writer => /\ Released(writer, w).wr = w.wr
                         /\ Released(writer, w).rd = w.rd - 1
BY FreeType DEF Released, Word, Free

\* What rw_exit_read() stores for a word with readers.
LEMMA ReaderLeftType ==
    ASSUME NEW w \in Word, w.rd > 0
    PROVE  /\ ReaderLeft(w) \in Word
           /\ ReaderLeft(w).wait = w.wait
           /\ ReaderLeft(w).want = w.want
           /\ ReaderLeft(w).wr = w.wr
           /\ ReaderLeft(w).rd = w.rd - 1
BY DEF ReaderLeft, Word

-----------------------------------------------------------------------------
(***************************************************************************)
(* The readers.                                                             *)
(***************************************************************************)

\* There are finitely many readers.
LEMMA ReadersFinite == IsFiniteSet(Readers) /\ Cardinality(Readers) \in Nat
BY SleepQueueAssumption, FS_Subset, FS_CardinalityType DEF Readers

\* A thread that holds the lock for reading is counted in the word, and no
\* thread holds the lock for writing beside it.
LEMMA ReaderCounted ==
    ASSUME TypeOK, WordMatchesHolders, NEW t \in Proc, held[t] = "read"
    PROVE  rwl_owner.rd > 0 /\ ~WriteLocked(rwl_owner)
<1>1. t \in Readers
  BY DEF Readers
<1>2. Cardinality(Readers) # 0
  BY <1>1, ReadersFinite, FS_EmptySet
<1> QED
  BY <1>2, ReadersFinite DEF WordMatchesHolders

-----------------------------------------------------------------------------
(***************************************************************************)
(* Types.                                                                   *)
(***************************************************************************)

\* What Return() leaves is well typed.
LEMMA ReturnType ==
    ASSUME TypeOK, NEW t \in Proc, Return(t)
    PROVE  /\ pc' \in [Proc -> PC]
           /\ op' \in [Proc -> Op \cup {"none"}]
           /\ flags' \in [Proc -> SUBSET Flag]
           /\ o' \in [Proc -> Word]
           /\ wrlock' \in [Proc -> BOOLEAN]
           /\ sls' \in [Proc -> [catch : BOOLEAN, do_sleep : BOOLEAN, sig : BOOLEAN]]
BY FreeType DEF TypeOK, Return, Goto, NoSleepState, PC

\* So is what a call of rw_enter() sets up,
LEMMA CallType ==
    ASSUME TypeOK, NEW t \in Proc, NEW k \in Op, NEW f \in SUBSET Flag,
           Call(t, k, f)
    PROVE  /\ pc' \in [Proc -> PC]
           /\ op' \in [Proc -> Op \cup {"none"}]
           /\ flags' \in [Proc -> SUBSET Flag]
BY DEF TypeOK, Call, Goto, PC

\* the sleep state,
LEMMA SlsType ==
    ASSUME TypeOK, NEW t \in Proc, NEW c \in BOOLEAN, NEW d \in BOOLEAN,
           NEW s \in BOOLEAN,
           sls' = [sls EXCEPT ![t] = [catch |-> c, do_sleep |-> d, sig |-> s]]
    PROVE  sls' \in [Proc -> [catch : BOOLEAN, do_sleep : BOOLEAN, sig : BOOLEAN]]
BY DEF TypeOK

\* a value loaded from the word,
LEMMA LoadType ==
    ASSUME TypeOK, NEW t \in Proc, Load(t) \/ Forget(t)
    PROVE  o' \in [Proc -> Word]
BY FreeType DEF TypeOK, Load, Forget

\* a program counter,
LEMMA GotoType ==
    ASSUME TypeOK, NEW t \in Proc, NEW l \in PC, Goto(t, l)
    PROVE  pc' \in [Proc -> PC]
BY DEF TypeOK, Goto

\* a word after a successful swap,
LEMMA AcquireType ==
    ASSUME TypeOK, NEW t \in Proc, NEW k \in Op, Acquire(t, k)
    PROVE  /\ rwl_owner' \in Word
           /\ held' \in [Proc -> {"none", "read", "write"}]
BY GrantedType DEF TypeOK, Acquire, HeldAfter

\* and the sleep queue after ptsignal() has acted on it.
LEMMA SignalType ==
    ASSUME SleepTypeOK, NEW t \in Proc, DeliverSignal(t)
    PROVE  SleepTypeOK'
<1>1. PICK sig \in psig[t] : DeliverSignal(t)!(sig)
  BY DEF DeliverSignal
<1> USE DEF SleepTypeOK, Stat
<1>2. CASE SignalSleeping(t, sig)
  BY <1>1, <1>2 DEF SignalSleeping, SetRunnable
<1>3. CASE SignalStopped(t, sig)
  BY <1>1, <1>3 DEF SignalStopped, SetRunnable, Unsleep
<1>4. CASE SignalRunning(t)
  BY <1>1, <1>4 DEF SignalRunning
<1> QED
  BY <1>1, <1>2, <1>3, <1>4

\* Every step keeps the state well typed.  Only rw_exit() and rw_exit_read()
\* need more than the types: they decrement a count that is not zero.
LEMMA TypeStep ==
    ASSUME TypeOK, Control, WordMatchesHolders, Next
    PROVE  TypeOK'
<1>1. PICK t \in Proc : Step(t) \/ Release(t)
                       \/ EnterRead(t) \/ EnterWrite(t) \/ Enter(t)
                       \/ Kill(t) \/ SignalThread(t) \/ UserRet(t)
  BY DEF Next
<1> USE DEF TypeOK, SleepTypeOK
<1>2. CASE EnterRead(t)
  BY <1>2, LoadType, GotoType DEF EnterRead, PC, sleepVars
<1>3. CASE EnterReadCas(t)
  BY <1>3, AcquireType, ReturnType, CallType, LoadType DEF EnterReadCas, Op, sleepVars
<1>4. CASE EnterWrite(t)
  BY <1>4, AcquireType, ReturnType, CallType DEF EnterWrite, Op, sleepVars
<1>5. CASE Enter(t)
  BY <1>5, RWLockAssumption, CallType DEF Enter, Op, sleepVars
<1>6. CASE Test(t)
  BY <1>6, ReturnType, LoadType, GotoType DEF Test, PC, sleepVars
<1>7. CASE Setup(t)
  BY <1>7, RWLockAssumption, GotoType DEF Setup, PC, SleepSetup
<1>8. CASE SetupSignal(t)
  <2>1. pc' \in [Proc -> PC]
    BY <1>8, GotoType DEF SetupSignal, PC
  <2>2. sls' \in [Proc -> [catch : BOOLEAN, do_sleep : BOOLEAN, sig : BOOLEAN]]
    <3>1. CASE HasSignal(t)
      <4>1. sls' = [sls EXCEPT ![t] = [catch |-> TRUE, do_sleep |-> FALSE,
                                       sig |-> TRUE]]
        BY <1>8, <3>1 DEF SetupSignal, MustStop
      <4> QED
        BY <4>1, SlsType
    <3>2. CASE MustStop(t)
      BY <1>8, <3>2 DEF SetupSignal, MustStop
    <3>3. CASE ~HasSignal(t) /\ ~MustStop(t)
      <4>1. PICK q \in BOOLEAN :
               sls' = [sls EXCEPT ![t] = [catch |-> q, do_sleep |-> q,
                                          sig |-> FALSE]]
        BY <1>8, <3>3 DEF SetupSignal
      <4> QED
        BY <4>1, SlsType
    <3> QED
      BY <3>1, <3>2, <3>3
  <2>3. p_stat' \in [Proc -> Stat] /\ sched_lock' \in Proc \cup {NoProc}
    BY <1>8 DEF SetupSignal, SwitchAway, Stat
  <2>4. p_wchan' \in [Proc -> Chan \cup {NoChan}]
    BY <1>8 DEF SetupSignal, Unsleep
  <2>5. p_siglist' \in [Proc -> SUBSET SigKind]
    BY <1>8 DEF SetupSignal
  <2> QED
    BY <1>8, <2>1, <2>2, <2>3, <2>4, <2>5 DEF SetupSignal
<1>9. CASE SetupContinued(t)
  BY <1>9, GotoType DEF SetupContinued, PC, SwitchBack, Stat
<1>10. CASE SetWait(t)
  <2>1. rwl_owner' \in Word
    BY <1>10, WaitSetType DEF SetWait, Control, Op
  <2>2. p_stat' \in [Proc -> Stat]
    BY <1>10 DEF SetWait, SwitchAway, Stat
  <2>3. p_wchan' \in [Proc -> Chan \cup {NoChan}]
    BY <1>10 DEF SetWait
  <2> QED
    BY <1>10, <2>1, <2>2, <2>3, LoadType, GotoType DEF SetWait, PC, SwitchAway
<1>11. CASE Resume(t)
  BY <1>11, GotoType DEF Resume, PC, Stat
<1>12. CASE FinishSleep(t)
  <2>1. p_siglist' \in [Proc -> SUBSET SigKind]
    BY <1>12 DEF FinishSleep
  <2>2. p_stat' \in [Proc -> Stat]
    BY <1>12 DEF FinishSleep, Stat
  <2> QED
    BY <1>12, <2>1, <2>2, ReturnType, GotoType DEF FinishSleep, PC
<1>13. CASE FinishContinued(t)
  BY <1>13, GotoType DEF FinishContinued, PC, Stat
<1>14. CASE Cas(t)
  BY <1>14, AcquireType, ReturnType, GotoType, LoadType DEF Cas, PC, sleepVars, Control
<1>15. CASE ExitRead(t)
  BY <1>15, LoadType, GotoType DEF ExitRead, PC, sleepVars
<1>16. CASE ExitWrite(t)
  BY <1>16, LoadType, GotoType DEF ExitWrite, PC, sleepVars
<1>17. CASE Exit(t)
  BY <1>17, GotoType DEF Exit, PC, CallExit, WriteLocked, sleepVars
<1>18. CASE ExitFastCas(t)
  <2>1. rwl_owner' \in Word
    BY <1>18, FreeType, ReaderCounted, ReaderLeftType DEF ExitFastCas, Control
  <2> QED
    BY <1>18, <2>1, ReturnType, LoadType, GotoType
    DEF ExitFastCas, PC, CallExit, WriteLocked, sleepVars
<1>19. CASE ExitLoad(t)
  BY <1>19, LoadType, GotoType DEF ExitLoad, PC, sleepVars
<1>20. CASE ExitCas(t)
  <2>1. wrlock[t] \/ held[t] = "read"
    BY <1>20 DEF ExitCas, Control
  <2>2. rwl_owner' \in Word
    BY <1>20, <2>1, ReaderCounted, ReleasedType DEF ExitCas
  <2> QED
    BY <1>20, <2>2, ReturnType, LoadType, GotoType DEF ExitCas, PC, sleepVars
<1>21. CASE WakeWaiters(t)
  BY <1>21, ReturnType DEF WakeWaiters, Wakeup, WakeupSet, Stat
<1>22. CASE Kill(t)
  BY <1>22, SleepQueueAssumption DEF Kill, PostSignal, rwVars
<1>23. CASE SignalThread(t)
  BY <1>23, SignalType DEF SignalThread, rwVars
<1>24. CASE UserRet(t)
  BY <1>24 DEF UserRet, rwVars
<1> QED
  BY <1>1, <1>2, <1>3, <1>4, <1>5, <1>6, <1>7, <1>8, <1>9, <1>10, <1>11, <1>12, <1>13, <1>14, <1>15, <1>16, <1>17, <1>18, <1>19, <1>20, <1>21, <1>22, <1>23, <1>24 DEF Step, Release

-----------------------------------------------------------------------------
(***************************************************************************)
(* Control.                                                                 *)
(***************************************************************************)

\* A holder that looks at RWLOCK_WRLOCK learns what it holds itself.
LEMMA WriterSeen ==
    ASSUME TypeOK, WordMatchesHolders, NEW t \in Proc, held[t] # "none"
    PROVE  WriteLocked(rwl_owner) <=> held[t] = "write"
BY ReaderCounted, SleepQueueAssumption DEF TypeOK, WordMatchesHolders, WriteLocked

\* Every step keeps the control invariant.
LEMMA ControlStep ==
    ASSUME TypeOK, Control, WordMatchesHolders, Next
    PROVE  Control'
<1>1. PICK t \in Proc : Step(t) \/ Release(t)
                       \/ EnterRead(t) \/ EnterWrite(t) \/ Enter(t)
                       \/ Kill(t) \/ SignalThread(t) \/ UserRet(t)
  BY DEF Next
<1> USE DEF TypeOK, Control
<1>2. CASE EnterRead(t)
  BY <1>2 DEF EnterRead, Load, Goto
<1>3. CASE EnterReadCas(t)
  BY <1>3 DEF EnterReadCas, Acquire, HeldAfter, Return, Call, Forget, Goto
<1>4. CASE EnterWrite(t)
  BY <1>4 DEF EnterWrite, Acquire, HeldAfter, Return, Call, Goto
<1>5. CASE Enter(t)
  BY <1>5 DEF Enter, Call, Goto
<1>6. CASE Test(t)
  BY <1>6 DEF Test, Load, Return, Goto, Blocked
<1>7. CASE Setup(t)
  BY <1>7 DEF Setup, Goto
<1>8. CASE SetupSignal(t)
  BY <1>8 DEF SetupSignal, Goto
<1>9. CASE SetupContinued(t)
  BY <1>9 DEF SetupContinued, Goto
<1>10. CASE SetWait(t)
  BY <1>10 DEF SetWait, Forget, Goto
<1>11. CASE Resume(t)
  BY <1>11 DEF Resume, Goto
<1>12. CASE FinishSleep(t)
  BY <1>12 DEF FinishSleep, Return, Goto
<1>13. CASE FinishContinued(t)
  BY <1>13 DEF FinishContinued, Goto
<1>14. CASE Cas(t)
  BY <1>14 DEF Cas, Acquire, HeldAfter, Return, Forget, Goto
<1>15. CASE ExitRead(t)
  BY <1>15 DEF ExitRead, Load, Goto
<1>16. CASE ExitWrite(t)
  BY <1>16 DEF ExitWrite, Load, Goto
<1>17. CASE Exit(t)
  BY <1>17, WriterSeen DEF Exit, CallExit, Goto
<1>18. CASE ExitFastCas(t)
  BY <1>18, WriterSeen DEF ExitFastCas, Return, CallExit, Forget, Goto
<1>19. CASE ExitLoad(t)
  BY <1>19 DEF ExitLoad, Load, Goto
<1>20. CASE ExitCas(t)
  BY <1>20 DEF ExitCas, Return, Forget, Goto
<1>21. CASE WakeWaiters(t)
  BY <1>21 DEF WakeWaiters, Return, Goto
<1>22. CASE Kill(t)
  BY <1>22 DEF Kill, rwVars
<1>23. CASE SignalThread(t)
  BY <1>23 DEF SignalThread, rwVars
<1>24. CASE UserRet(t)
  BY <1>24 DEF UserRet, rwVars
<1> QED
  BY <1>1, <1>2, <1>3, <1>4, <1>5, <1>6, <1>7, <1>8, <1>9, <1>10, <1>11, <1>12,
     <1>13, <1>14, <1>15, <1>16, <1>17, <1>18, <1>19, <1>20, <1>21, <1>22, <1>23, <1>24 DEF Step, Release

-----------------------------------------------------------------------------
(***************************************************************************)
(* The sleep queue.                                                         *)
(***************************************************************************)

\* ptsignal() changes the status only of a thread that is asleep or stopped,
\* and takes it off the queue when it makes it runnable.
LEMMA SignalQueue ==
    ASSUME SleepTypeOK, NEW t \in Proc, DeliverSignal(t), NEW u \in Proc
    PROVE  /\ p_stat[u] = "SONPROC" => p_stat'[u] = "SONPROC"
           /\ p_wchan'[u] # NoChan => /\ p_wchan'[u] = p_wchan[u]
                                      /\ p_stat[u] \in {"SSLEEP", "SSTOP"} =>
                                           p_stat'[u] \in {"SSLEEP", "SSTOP"}
           /\ sched_lock' = sched_lock
<1>1. PICK sig \in psig[t] : DeliverSignal(t)!(sig)
  BY DEF DeliverSignal
<1> USE DEF SleepTypeOK
<1>2. CASE SignalSleeping(t, sig)
  BY <1>1, <1>2 DEF SignalSleeping, SetRunnable
<1>3. CASE SignalStopped(t, sig)
  BY <1>1, <1>3 DEF SignalStopped, SetRunnable, Unsleep
<1>4. CASE SignalRunning(t)
  BY <1>1, <1>4 DEF SignalRunning
<1> QED
  BY <1>1, <1>2, <1>3, <1>4

\* Every step keeps the queue and the status of the threads in line.
LEMMA QueueStep ==
    ASSUME TypeOK, Queue, Next
    PROVE  Queue'
<1>1. PICK t \in Proc : Step(t) \/ Release(t)
                       \/ EnterRead(t) \/ EnterWrite(t) \/ Enter(t)
                       \/ Kill(t) \/ SignalThread(t) \/ UserRet(t)
  BY DEF Next
<1> USE SleepQueueAssumption DEF TypeOK, SleepTypeOK, Queue
<1>2. CASE EnterRead(t)
  BY <1>2 DEF EnterRead, Goto, sleepVars
<1>3. CASE EnterReadCas(t)
  BY <1>3 DEF EnterReadCas, Return, Call, Goto, sleepVars
<1>4. CASE EnterWrite(t)
  BY <1>4 DEF EnterWrite, Return, Call, Goto, sleepVars
<1>5. CASE Enter(t)
  BY <1>5 DEF Enter, Call, Goto, sleepVars
<1>6. CASE Test(t)
  BY <1>6 DEF Test, Return, Goto, sleepVars
<1>7. CASE Setup(t)
  BY <1>7 DEF Setup, SleepSetup, Goto
<1>8. CASE SetupSignal(t)
  BY <1>8 DEF SetupSignal, SwitchAway, Unsleep, Goto
<1>9. CASE SetupContinued(t)
  BY <1>9 DEF SetupContinued, SwitchBack, Goto
<1>10. CASE SetWait(t)
  BY <1>10 DEF SetWait, SwitchAway, Goto
<1>11. CASE Resume(t)
  BY <1>11 DEF Resume, Goto
<1>12. CASE FinishSleep(t)
  BY <1>12 DEF FinishSleep, Return, Goto
<1>13. CASE FinishContinued(t)
  BY <1>13 DEF FinishContinued, Goto
<1>14. CASE Cas(t)
  <2>1. UNCHANGED sleepVars
    BY <1>14 DEF Cas
  <2>2. \A u \in Proc : pc'[u] # pc[u] => /\ pc[u] = "cas"
                                         /\ pc'[u] \in {"idle", "wakeup", "test"}
    BY <1>14 DEF Cas, Return, Goto
  <2>3. \/ UNCHANGED sls
        \/ pc'[t] = "idle" /\ \A u \in Proc \ {t} : sls'[u] = sls[u]
    BY <1>14 DEF Cas, Return, Goto
  <2> QED
    BY <2>1, <2>2, <2>3 DEF sleepVars
<1>15. CASE ExitRead(t)
  BY <1>15 DEF ExitRead, Goto, sleepVars
<1>16. CASE ExitWrite(t)
  BY <1>16 DEF ExitWrite, Goto, sleepVars
<1>17. CASE Exit(t)
  BY <1>17 DEF Exit, CallExit, Goto, sleepVars
<1>18. CASE ExitFastCas(t)
  BY <1>18 DEF ExitFastCas, Return, CallExit, Goto, sleepVars
<1>19. CASE ExitLoad(t)
  BY <1>19 DEF ExitLoad, Goto, sleepVars
<1>20. CASE ExitCas(t)
  BY <1>20 DEF ExitCas, Return, Goto, sleepVars
<1>21. CASE WakeWaiters(t)
  BY <1>21 DEF WakeWaiters, Wakeup, WakeupSet, Return, Goto
<1>22. CASE Kill(t)
  BY <1>22 DEF Kill, PostSignal, rwVars
<1>23. CASE SignalThread(t)
  BY <1>23, SignalQueue DEF SignalThread, rwVars
<1>24. CASE UserRet(t)
  BY <1>24 DEF UserRet, rwVars
<1> QED
  BY <1>1, <1>2, <1>3, <1>4, <1>5, <1>6, <1>7, <1>8, <1>9, <1>10, <1>11, <1>12,
     <1>13, <1>14, <1>15, <1>16, <1>17, <1>18, <1>19, <1>20, <1>21, <1>22, <1>23, <1>24 DEF Step, Release

-----------------------------------------------------------------------------
(***************************************************************************)
(* The word and the holders.                                                *)
(***************************************************************************)

\* A thread becomes a reader.
LEMMA ReadersAdd ==
    ASSUME TypeOK, NEW t \in Proc, held[t] # "read",
           held' = [held EXCEPT ![t] = "read"]
    PROVE  Cardinality(Readers') = Cardinality(Readers) + 1
<1>1. Readers' = Readers \cup {t} /\ t \notin Readers
  BY DEF TypeOK, Readers
<1> QED
  BY <1>1, ReadersFinite, FS_AddElement

\* A reader leaves.
LEMMA ReadersRemove ==
    ASSUME TypeOK, NEW t \in Proc, held[t] = "read",
           held' = [held EXCEPT ![t] = "none"]
    PROVE  Cardinality(Readers') = Cardinality(Readers) - 1
<1>1. Readers' = Readers \ {t} /\ t \in Readers
  BY DEF TypeOK, Readers
<1> QED
  BY <1>1, ReadersFinite, FS_RemoveElement

\* A writer comes or goes.
LEMMA ReadersSame ==
    ASSUME TypeOK, NEW t \in Proc, held[t] # "read", NEW h, h # "read",
           held' = [held EXCEPT ![t] = h]
    PROVE  Readers' = Readers
BY DEF TypeOK, Readers

\* The invariant of the word: what it says of the holders, and which waiter
\* bits it may carry.
WordInv == WordMatchesHolders /\ NoStrayWaiterBits /\ WantImpliesWait

\* A step that leaves the word and the holders alone keeps it.
LEMMA WordSame ==
    ASSUME WordInv, UNCHANGED <<rwl_owner, held>>
    PROVE  WordInv'
BY DEF WordInv, WordMatchesHolders, NoStrayWaiterBits, WantImpliesWait,
       Readers, WriteLocked

\* A successful swap of rw_enter() or of one of its fast paths keeps it.
LEMMA WordAcquire ==
    ASSUME TypeOK, WordInv, NEW t \in Proc, NEW k \in Op, Acquire(t, k),
           ~Blocked(k, rwl_owner),
           IF k = "RW_DOWNGRADE" THEN held[t] = "write" ELSE held[t] = "none"
    PROVE  WordInv'
<1> DEFINE w == Granted(t, k, rwl_owner)
<1>1. rwl_owner' = w /\ rwl_owner \in Word /\ w \in Word
  BY GrantedType DEF Acquire, TypeOK
<1>2. held' = [held EXCEPT ![t] = HeldAfter(k)]
  BY DEF Acquire
<1>3. rwl_owner.rd = Cardinality(Readers) /\ Cardinality(Readers) \in Nat
  BY ReadersFinite DEF WordInv, WordMatchesHolders
<1>4. CASE k = "RW_READ"
  <2>1. w.wr = rwl_owner.wr /\ w.rd = rwl_owner.rd + 1
    BY <1>1, <1>4, GrantedType
  <2>2. ~WriteLocked(rwl_owner)
    BY <1>4 DEF Blocked
  <2>3. Cardinality(Readers') = Cardinality(Readers) + 1
    BY <1>2, <1>4, ReadersAdd DEF HeldAfter
  <2>4. WordMatchesHolders'
    BY <1>1, <1>2, <1>3, <1>4, <2>1, <2>2, <2>3
    DEF WordInv, WordMatchesHolders, WriteLocked, HeldAfter, TypeOK
  <2> QED
    BY <1>1, <1>3, <2>1, <2>4, GrantedType
    DEF WordInv, NoStrayWaiterBits, WantImpliesWait
<1>5. CASE k = "RW_WRITE"
  <2>1. w.wr = t /\ w.rd = 0 /\ rwl_owner = Free
    BY <1>1, <1>5, GrantedType DEF Blocked, Free
  <2>2. Readers' = Readers
    BY <1>2, <1>5, ReadersSame DEF HeldAfter
  <2>3. WordMatchesHolders'
    BY <1>1, <1>2, <1>3, <1>5, <2>1, <2>2, SleepQueueAssumption
    DEF WordInv, WordMatchesHolders, WriteLocked, HeldAfter, TypeOK, Free
  <2> QED
    BY <1>1, <2>1, <2>3, GrantedType, SleepQueueAssumption
    DEF WordInv, NoStrayWaiterBits, WantImpliesWait, WriteLocked, Free
<1>6. CASE k = "RW_DOWNGRADE"
  <2>1. w.wr = NoProc /\ w.rd = rwl_owner.rd + 1
    BY <1>1, <1>6, GrantedType
  <2>2. rwl_owner.wr = t /\ rwl_owner.rd = 0
    BY <1>6, SleepQueueAssumption DEF WordInv, WordMatchesHolders, WriteLocked
  <2>3. Cardinality(Readers') = Cardinality(Readers) + 1
    BY <1>2, <1>6, ReadersAdd DEF HeldAfter
  <2>4. WordMatchesHolders'
    BY <1>1, <1>2, <1>3, <1>6, <2>1, <2>2, <2>3, SleepQueueAssumption
    DEF WordInv, WordMatchesHolders, WriteLocked, HeldAfter, TypeOK
  <2> QED
    BY <1>1, <2>1, <2>2, <2>4, GrantedType
    DEF WordInv, NoStrayWaiterBits, WantImpliesWait
<1> QED
  BY <1>4, <1>5, <1>6 DEF Op

\* A waiter sets its bits only in a word that says the lock is held.
LEMMA WordWait ==
    ASSUME TypeOK, WordInv, NEW k \in {"RW_READ", "RW_WRITE"},
           Blocked(k, rwl_owner), rwl_owner' = WaitSet(k, rwl_owner),
           held' = held
    PROVE  WordInv'
<1>1. /\ rwl_owner'.wait
      /\ rwl_owner'.wr = rwl_owner.wr
      /\ rwl_owner'.rd = rwl_owner.rd
  BY WaitSetType DEF TypeOK, Op
<1>2. WriteLocked(rwl_owner) \/ rwl_owner.rd # 0
  BY DEF WordInv, NoStrayWaiterBits, Blocked
<1> QED
  BY <1>1, <1>2 DEF WordInv, WordMatchesHolders, NoStrayWaiterBits,
                    WantImpliesWait, WriteLocked, Readers

\* A reader takes itself off the count and leaves no waiter bit behind.
LEMMA WordReaderLeaves ==
    ASSUME TypeOK, WordInv, NEW t \in Proc, held[t] = "read",
           held' = [held EXCEPT ![t] = "none"],
           rwl_owner' \in Word, rwl_owner'.wr = rwl_owner.wr,
           rwl_owner'.rd = rwl_owner.rd - 1,
           ~rwl_owner'.wait, ~rwl_owner'.want
    PROVE  WordInv'
<1>1. Cardinality(Readers') = Cardinality(Readers) - 1
  BY ReadersRemove
<1>2. ~WriteLocked(rwl_owner)
  BY ReaderCounted DEF WordInv
<1>3. WordMatchesHolders'
  BY <1>1, <1>2 DEF WordInv, WordMatchesHolders, WriteLocked, TypeOK
<1>4. NoStrayWaiterBits'
  BY DEF NoStrayWaiterBits, Word, Free, WriteLocked
<1> QED
  BY <1>3, <1>4 DEF WordInv, WantImpliesWait

\* A writer leaves the lock free.
LEMMA WordWriterLeaves ==
    ASSUME TypeOK, WordInv, NEW t \in Proc, held[t] = "write",
           held' = [held EXCEPT ![t] = "none"], rwl_owner' = Free
    PROVE  WordInv'
<1>1. Readers' = Readers
  BY ReadersSame
<1>2. rwl_owner.wr = t /\ rwl_owner.rd = 0
  BY SleepQueueAssumption DEF WordInv, WordMatchesHolders, WriteLocked
<1>3. WordMatchesHolders'
  BY <1>1, <1>2, SleepQueueAssumption
  DEF WordInv, WordMatchesHolders, WriteLocked, TypeOK, Free
<1> QED
  BY <1>3 DEF WordInv, NoStrayWaiterBits, WantImpliesWait, Free

\* Every step keeps the word and the holders in line.
LEMMA WordStep ==
    ASSUME TypeOK, Control, WordInv, Next
    PROVE  WordInv'
<1>1. PICK t \in Proc : Step(t) \/ Release(t)
                       \/ EnterRead(t) \/ EnterWrite(t) \/ Enter(t)
                       \/ Kill(t) \/ SignalThread(t) \/ UserRet(t)
  BY DEF Next
<1>2. CASE EnterRead(t)
  BY <1>2, WordSame DEF EnterRead
<1>3. CASE EnterReadCas(t)
  <2>1. CASE rwl_owner = o[t] /\ ~WriteLocked(o[t])
    BY <1>3, <2>1, WordAcquire DEF EnterReadCas, Control, Blocked, Op
  <2>2. CASE ~(rwl_owner = o[t] /\ ~WriteLocked(o[t]))
    BY <1>3, <2>2, WordSame DEF EnterReadCas
  <2> QED
    BY <2>1, <2>2
<1>4. CASE EnterWrite(t)
  <2>1. CASE rwl_owner = Free
    BY <1>4, <2>1, WordAcquire DEF EnterWrite, Blocked, Op
  <2>2. CASE rwl_owner # Free
    BY <1>4, <2>2, WordSame DEF EnterWrite
  <2> QED
    BY <2>1, <2>2
<1>5. CASE Enter(t)
  BY <1>5, WordSame DEF Enter
<1>6. CASE Test(t)
  BY <1>6, WordSame DEF Test
<1>7. CASE Setup(t)
  BY <1>7, WordSame DEF Setup
<1>8. CASE SetupSignal(t)
  BY <1>8, WordSame DEF SetupSignal
<1>9. CASE SetupContinued(t)
  BY <1>9, WordSame DEF SetupContinued
<1>10. CASE SetWait(t)
  <2>1. CASE rwl_owner = o[t]
    BY <1>10, <2>1, WordWait DEF SetWait, Control
  <2>2. CASE rwl_owner # o[t]
    BY <1>10, <2>2, WordSame DEF SetWait
  <2> QED
    BY <2>1, <2>2
<1>11. CASE Resume(t)
  BY <1>11, WordSame DEF Resume
<1>12. CASE FinishSleep(t)
  BY <1>12, WordSame DEF FinishSleep
<1>13. CASE FinishContinued(t)
  BY <1>13, WordSame DEF FinishContinued
<1>14. CASE Cas(t)
  <2>1. CASE rwl_owner = o[t]
    BY <1>14, <2>1, WordAcquire DEF Cas, Control, Op
  <2>2. CASE rwl_owner # o[t]
    BY <1>14, <2>2, WordSame DEF Cas
  <2> QED
    BY <2>1, <2>2
<1>15. CASE ExitRead(t)
  BY <1>15, WordSame DEF ExitRead
<1>16. CASE ExitWrite(t)
  BY <1>16, WordSame DEF ExitWrite
<1>17. CASE Exit(t)
  BY <1>17, WordSame DEF Exit
<1>18. CASE ExitFastCas(t)
  <2>1. CASE pc[t] = "exit_read" /\ rwl_owner = o[t] /\ ~o[t].wait
    BY <1>18, <2>1, WordReaderLeaves, ReaderCounted, ReaderLeftType
    DEF ExitFastCas, Control, WordInv, WantImpliesWait, TypeOK
  <2>2. CASE pc[t] = "exit_write" /\ rwl_owner = o[t] /\ ~o[t].wait
    BY <1>18, <2>2, WordWriterLeaves DEF ExitFastCas, Control
  <2>3. CASE ~(rwl_owner = o[t] /\ ~o[t].wait)
    BY <1>18, <2>3, WordSame DEF ExitFastCas
  <2> QED
    BY <1>18, <2>1, <2>2, <2>3 DEF ExitFastCas
<1>19. CASE ExitLoad(t)
  BY <1>19, WordSame DEF ExitLoad
<1>20. CASE ExitCas(t)
  <2>1. CASE held[t] = "read" /\ rwl_owner = o[t]
    <3>1. /\ ~wrlock[t] /\ wrlock[t] \in BOOLEAN
          /\ rwl_owner \in Word /\ rwl_owner.rd > 0
      BY <1>20, <2>1, ReaderCounted DEF ExitCas, Control, WordInv, TypeOK
    <3>2. rwl_owner' = Released(wrlock[t], rwl_owner)
      BY <1>20, <2>1 DEF ExitCas
    <3>3. held' = [held EXCEPT ![t] = "none"]
      BY <1>20, <2>1 DEF ExitCas
    <3> QED
      BY <2>1, <3>1, <3>2, <3>3, WordReaderLeaves, ReleasedType
  <2>2. CASE held[t] = "write" /\ rwl_owner = o[t]
    BY <1>20, <2>2, WordWriterLeaves DEF ExitCas, Control, Released
  <2>3. CASE rwl_owner # o[t]
    BY <1>20, <2>3, WordSame DEF ExitCas
  <2> QED
    BY <1>20, <2>1, <2>2, <2>3 DEF ExitCas, Control, TypeOK
<1>21. CASE WakeWaiters(t)
  BY <1>21, WordSame DEF WakeWaiters
<1>22. CASE Kill(t)
  BY <1>22, WordSame DEF Kill, rwVars
<1>23. CASE SignalThread(t)
  BY <1>23, WordSame DEF SignalThread, rwVars
<1>24. CASE UserRet(t)
  BY <1>24, WordSame DEF UserRet, rwVars
<1> QED
  BY <1>1, <1>2, <1>3, <1>4, <1>5, <1>6, <1>7, <1>8, <1>9, <1>10, <1>11, <1>12,
     <1>13, <1>14, <1>15, <1>16, <1>17, <1>18, <1>19, <1>20, <1>21, <1>22, <1>23, <1>24 DEF Step, Release

-----------------------------------------------------------------------------
(***************************************************************************)
(* Wakeups.                                                                 *)
(***************************************************************************)

\* What rw_enter() adds keeps RWLOCK_WAIT.
LEMMA AcquireWait ==
    ASSUME TypeOK, NEW t \in Proc, NEW k \in Op, Acquire(t, k)
    PROVE  rwl_owner'.wait = rwl_owner.wait
BY GrantedType DEF Acquire, TypeOK

\* A step that puts nobody to sleep, takes RWLOCK_WAIT out of the word only
\* on its way to wakeup(), and is not that wakeup().
LEMMA KeepsWaker ==
    ASSUME NoLostWakeup, NEW t \in Proc,
           \A u \in Proc : pc'[u] = "asleep" /\ p_wchan'[u] = rwl
                             => pc[u] = "asleep" /\ p_wchan[u] = rwl,
           \A u \in Proc \ {t} : pc'[u] = pc[u],
           pc[t] # "wakeup",
           rwl_owner.wait => rwl_owner'.wait \/ pc'[t] = "wakeup"
    PROVE  NoLostWakeup'
BY DEF NoLostWakeup

\* Every step leaves the sleepers somebody to wake them.
LEMMA WakeupStep ==
    ASSUME TypeOK, Control, NoLostWakeup, Next
    PROVE  NoLostWakeup'
<1>1. PICK t \in Proc : Step(t) \/ Release(t)
                       \/ EnterRead(t) \/ EnterWrite(t) \/ Enter(t)
                       \/ Kill(t) \/ SignalThread(t) \/ UserRet(t)
  BY DEF Next
<1> USE SleepQueueAssumption, RWLockAssumption DEF TypeOK, SleepTypeOK, NoLostWakeup
<1>2. CASE EnterRead(t)
  BY <1>2, KeepsWaker DEF EnterRead, Goto, sleepVars
<1>3. CASE EnterReadCas(t)
  BY <1>3, KeepsWaker, AcquireWait DEF EnterReadCas, Return, Call, Goto, sleepVars, Op
<1>4. CASE EnterWrite(t)
  BY <1>4, KeepsWaker, AcquireWait DEF EnterWrite, Return, Call, Goto, sleepVars, Op
<1>5. CASE Enter(t)
  BY <1>5, KeepsWaker DEF Enter, Call, Goto, sleepVars
<1>6. CASE Test(t)
  BY <1>6, KeepsWaker DEF Test, Return, Goto, sleepVars
<1>7. CASE Setup(t)
  BY <1>7, KeepsWaker DEF Setup, SleepSetup, Goto
<1>8. CASE SetupSignal(t)
  BY <1>8, KeepsWaker DEF SetupSignal, Unsleep, Goto
<1>9. CASE SetupContinued(t)
  BY <1>9, KeepsWaker DEF SetupContinued, Goto
<1>10. CASE SetWait(t)
  <2>1. CASE rwl_owner = o[t]
    <3>1. rwl_owner'.wait
      BY <1>10, <2>1, WaitSetType DEF SetWait, Control, Op
    <3> QED
      BY <3>1
  <2>2. CASE rwl_owner # o[t]
    BY <1>10, <2>2, KeepsWaker DEF SetWait, Goto
  <2> QED
    BY <2>1, <2>2
<1>11. CASE Resume(t)
  BY <1>11, KeepsWaker DEF Resume, Goto
<1>12. CASE FinishSleep(t)
  BY <1>12, KeepsWaker DEF FinishSleep, Return, Goto
<1>13. CASE FinishContinued(t)
  BY <1>13, KeepsWaker DEF FinishContinued, Goto
<1>14. CASE Cas(t)
  <2>1. rwl_owner'.wait = rwl_owner.wait
    BY <1>14, AcquireWait DEF Cas, Control, Op
  <2>2. \A u \in Proc : pc'[u] # "asleep" \/ pc'[u] = pc[u]
    BY <1>14 DEF Cas, Return, Goto
  <2>3. \A u \in Proc \ {t} : pc'[u] = pc[u]
    BY <1>14 DEF Cas, Return, Goto
  <2> QED
    BY <1>14, <2>1, <2>2, <2>3, KeepsWaker DEF Cas, sleepVars
<1>15. CASE ExitRead(t)
  BY <1>15, KeepsWaker DEF ExitRead, Goto, sleepVars
<1>16. CASE ExitWrite(t)
  BY <1>16, KeepsWaker DEF ExitWrite, Goto, sleepVars
<1>17. CASE Exit(t)
  BY <1>17, KeepsWaker DEF Exit, CallExit, Goto, sleepVars
<1>18. CASE ExitFastCas(t)
  BY <1>18, KeepsWaker DEF ExitFastCas, Return, CallExit, Goto, sleepVars
<1>19. CASE ExitLoad(t)
  BY <1>19, KeepsWaker DEF ExitLoad, Goto, sleepVars
<1>20. CASE ExitCas(t)
  BY <1>20, KeepsWaker DEF ExitCas, Return, Goto, sleepVars
<1>21. CASE WakeWaiters(t)
  BY <1>21 DEF WakeWaiters, Wakeup, WakeupSet, Sleepers
<1>22. CASE Kill(t)
  BY <1>22 DEF Kill, PostSignal, rwVars
<1>23. CASE SignalThread(t)
  BY <1>23, SignalQueue DEF SignalThread, rwVars
<1>24. CASE UserRet(t)
  BY <1>24 DEF UserRet, rwVars
<1> QED
  BY <1>1, <1>2, <1>3, <1>4, <1>5, <1>6, <1>7, <1>8, <1>9, <1>10, <1>11, <1>12,
     <1>13, <1>14, <1>15, <1>16, <1>17, <1>18, <1>19, <1>20, <1>21, <1>22, <1>23, <1>24 DEF Step, Release

-----------------------------------------------------------------------------
(***************************************************************************)
(* The theorems.                                                            *)
(***************************************************************************)

\* IInv holds initially.
LEMMA InitIInv == Init => IInv
<1> SUFFICES ASSUME Init PROVE IInv
  OBVIOUS
<1>1. TypeOK
  BY FreeType DEF Init, SleepInit, TypeOK, SleepTypeOK, Stat, PC, NoSleepState
<1>2. Control /\ Queue
  BY DEF Init, SleepInit, Control, Queue
<1>3. Readers = {}
  BY DEF Init, Readers
<1>4. WordMatchesHolders
  BY <1>3, FS_EmptySet, SleepQueueAssumption
  DEF Init, WordMatchesHolders, Free, WriteLocked
<1>5. NoStrayWaiterBits /\ WantImpliesWait /\ NoLostWakeup
  BY DEF Init, NoStrayWaiterBits, WantImpliesWait, NoLostWakeup, Free
<1> QED
  BY <1>1, <1>2, <1>4, <1>5 DEF IInv

\* Every step preserves IInv.
LEMMA NextIInv == IInv /\ [Next]_vars => IInv'
<1> SUFFICES ASSUME IInv, [Next]_vars PROVE IInv'
  OBVIOUS
<1>1. CASE Next
  <2>1. WordInv'
    BY <1>1, WordStep DEF IInv, WordInv
  <2> QED
    BY <1>1, <2>1, TypeStep, ControlStep, QueueStep, WakeupStep
    DEF IInv, WordInv
<1>2. CASE UNCHANGED vars
  <2>1. TypeOK' /\ Control' /\ Queue' /\ NoLostWakeup'
    BY <1>2 DEF IInv, vars, sleepVars, TypeOK, SleepTypeOK, Control, Queue,
                NoLostWakeup
  <2>2. WordInv'
    BY <1>2, WordSame DEF IInv, WordInv, vars
  <2> QED
    BY <2>1, <2>2 DEF IInv, WordInv
<1> QED
  BY <1>1, <1>2

\* The inductive invariant holds in every reachable state.
THEOREM Invariance == Spec => []IInv
BY InitIInv, NextIInv, PTL DEF Spec

\* Every state rw_enter() and rw_exit() reach is well typed; in particular the
\* count of readers never goes below zero.
THEOREM TypeCorrect == Spec => []TypeOK
<1>1. IInv => TypeOK
  BY DEF IInv
<1> QED
  BY <1>1, Invariance, PTL

\* For any number of threads: one writer or any number of readers, and the
\* word says which.
THEOREM MutualExclusion == Spec => []WordMatchesHolders
<1>1. IInv => WordMatchesHolders
  BY DEF IInv
<1> QED
  BY <1>1, Invariance, PTL

\* For any number of threads: a free lock carries no waiter bits.
THEOREM NoStrayBits == Spec => []NoStrayWaiterBits
<1>1. IInv => NoStrayWaiterBits
  BY DEF IInv
<1> QED
  BY <1>1, Invariance, PTL

\* For any number of threads, whatever signals are sent: nobody who went to
\* sleep in rw_enter() is left on the queue without a wakeup to come.
THEOREM WakeupNotLost == Spec => []NoLostWakeup
<1>1. IInv => NoLostWakeup
  BY DEF IInv
<1> QED
  BY <1>1, Invariance, PTL

\* For any number of threads: no DIAGNOSTIC panic of the sleep queue or of
\* the lock is reachable.
THEOREM DiagnosticsPass == Spec => []NoPanic
<1>1. IInv => NoPanic
  <2> SUFFICES ASSUME IInv, NEW t \in Proc PROVE NoPanic!(t)
    BY DEF NoPanic
  <2>1. /\ p_wchan[t] # NoChan /\ sched_lock = NoProc
              => p_stat[t] \in {"SSLEEP", "SSTOP"}
        /\ pc[t] \in {"setup", "slept"} => p_stat[t] = "SONPROC"
    BY SleepQueueAssumption DEF IInv, Queue
  <2>2. pc[t] = "setup" => rwl_owner.wr # t
    BY DEF IInv, Control, WordMatchesHolders
  <2>3. held[t] = "write" => rwl_owner.wr = t
    BY DEF IInv, WordMatchesHolders
  <2>4. held[t] = "read" => ~WriteLocked(rwl_owner) /\ rwl_owner.rd > 0
    BY ReaderCounted DEF IInv
  <2>5. held[t] \in {"none", "read", "write"}
    BY DEF IInv, TypeOK
  <2> QED
    BY <2>1, <2>2, <2>3, <2>4, <2>5 DEF IInv, Control
<1> QED
  BY <1>1, Invariance, PTL

-----------------------------------------------------------------------------
(***************************************************************************)
(* The refinement.                                                          *)
(***************************************************************************)

\* A successful swap of rw_enter() is a step of the abstract lock.
LEMMA AbsAcquire ==
    ASSUME TypeOK, WordInv, NEW t \in Proc, NEW k \in Op, Acquire(t, k),
           ~Blocked(k, rwl_owner),
           IF k = "RW_DOWNGRADE" THEN held[t] = "write" ELSE held[t] = "none"
    PROVE  Abs!Next
<1>1. held' = [held EXCEPT ![t] = HeldAfter(k)]
  BY DEF Acquire
<1>2. CASE k = "RW_READ"
  <2>1. \A u \in Proc : held[u] # "write"
    BY <1>2, SleepQueueAssumption
    DEF Blocked, WordInv, WordMatchesHolders, WriteLocked
  <2> QED
    BY <1>1, <1>2, <2>1 DEF HeldAfter, Abs!Next, Abs!EnterRead
<1>3. CASE k = "RW_WRITE"
  <2>1. rwl_owner = Free
    BY <1>3 DEF Blocked
  <2>2. \A u \in Proc : held[u] # "read"
    BY <2>1, ReaderCounted DEF WordInv, Free
  <2>3. \A u \in Proc : held[u] # "write"
    BY <2>1, SleepQueueAssumption DEF WordInv, WordMatchesHolders, Free
  <2>4. \A u \in Proc : held[u] = "none"
    BY <2>2, <2>3 DEF TypeOK
  <2> QED
    BY <1>1, <1>3, <2>4 DEF HeldAfter, Abs!Next, Abs!EnterWrite
<1>4. CASE k = "RW_DOWNGRADE"
  BY <1>1, <1>4 DEF HeldAfter, Abs!Next, Abs!Downgrade
<1> QED
  BY <1>2, <1>3, <1>4 DEF Op

\* Every step is a step of the abstract lock or leaves the holders alone.
LEMMA AbsStep ==
    ASSUME TypeOK, Control, WordInv, Next
    PROVE  Abs!Next \/ UNCHANGED held
<1>1. PICK t \in Proc : Step(t) \/ Release(t)
                       \/ EnterRead(t) \/ EnterWrite(t) \/ Enter(t)
                       \/ Kill(t) \/ SignalThread(t) \/ UserRet(t)
  BY DEF Next
<1>2. CASE EnterRead(t)
  BY <1>2 DEF EnterRead
<1>3. CASE EnterReadCas(t)
  BY <1>3, AbsAcquire DEF EnterReadCas, Control, Blocked, Op
<1>4. CASE EnterWrite(t)
  BY <1>4, AbsAcquire DEF EnterWrite, Blocked, Op
<1>5. CASE Enter(t)
  BY <1>5 DEF Enter
<1>6. CASE Test(t)
  BY <1>6 DEF Test
<1>7. CASE Setup(t)
  BY <1>7 DEF Setup
<1>8. CASE SetupSignal(t)
  BY <1>8 DEF SetupSignal
<1>9. CASE SetupContinued(t)
  BY <1>9 DEF SetupContinued
<1>10. CASE SetWait(t)
  BY <1>10 DEF SetWait
<1>11. CASE Resume(t)
  BY <1>11 DEF Resume
<1>12. CASE FinishSleep(t)
  BY <1>12 DEF FinishSleep
<1>13. CASE FinishContinued(t)
  BY <1>13 DEF FinishContinued
<1>14. CASE Cas(t)
  BY <1>14, AbsAcquire DEF Cas, Control, Op
<1>15. CASE ExitRead(t)
  BY <1>15 DEF ExitRead
<1>16. CASE ExitWrite(t)
  BY <1>16 DEF ExitWrite
<1>17. CASE Exit(t)
  BY <1>17 DEF Exit
<1>18. CASE ExitFastCas(t)
  BY <1>18 DEF ExitFastCas, Control, Abs!Next, Abs!Exit
<1>19. CASE ExitLoad(t)
  BY <1>19 DEF ExitLoad
<1>20. CASE ExitCas(t)
  BY <1>20 DEF ExitCas, Control, Abs!Next, Abs!Exit
<1>21. CASE WakeWaiters(t)
  BY <1>21 DEF WakeWaiters
<1>22. CASE Kill(t)
  BY <1>22 DEF Kill, rwVars
<1>23. CASE SignalThread(t)
  BY <1>23 DEF SignalThread, rwVars
<1>24. CASE UserRet(t)
  BY <1>24 DEF UserRet, rwVars
<1> QED
  BY <1>1, <1>2, <1>3, <1>4, <1>5, <1>6, <1>7, <1>8, <1>9, <1>10, <1>11, <1>12,
     <1>13, <1>14, <1>15, <1>16, <1>17, <1>18, <1>19, <1>20, <1>21, <1>22, <1>23, <1>24 DEF Step, Release

\* All of it together, for threads that are interrupted, stopped, continued
\* and killed at any point of rw_enter() and rw_exit(): any number of them.
THEOREM LockIsSound == Spec => []LockSound
<1>1. WordMatchesHolders /\ NoStrayWaiterBits /\ NoLostWakeup /\ NoPanic => LockSound
  BY DEF LockSound
<1> QED
  BY <1>1, MutualExclusion, NoStrayBits, WakeupNotLost, DiagnosticsPass, PTL

\* The lock implements its abstract specification, for any number of threads,
\* any signals and any flags.
THEOREM Refinement == Spec => ImplementsLock
<1>1. Init => Abs!Init
  BY DEF Init, Abs!Init
<1>2. IInv /\ [Next]_vars => [Abs!Next]_held
  BY AbsStep DEF IInv, WordInv, vars
<1> QED
  BY <1>1, <1>2, Invariance, PTL DEF Spec, ImplementsLock, Abs!Spec
=============================================================================
