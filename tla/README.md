# Waiting, waking and locking in the Bitrig kernel

This directory models the part of the Bitrig system that makes code wait: spin
locks between processors, read/write locks and the sleep queue below them, the
signals that act on sleeping threads, timeouts, the task queues that defer work
to kernel threads, pipes with the polls and closes that meet their readers and
writers, the single threading of a process for execve, exit and core dumps, and
the thread library's mutexes, condition variables, read/write locks and
semaphores over `__thrsleep`. The code is in `src/sys/kern` and
`src/lib/librthread`; the rest of the repository (drivers, file systems, network,
virtual memory, other libraries and programs) uses it and is not modelled.

Contents: inventory, modules and how they correspond to the code, what the runs
check, fairness, what is proved, findings, what is left out, plan.

## Inventory

| component | state | operations | interacts with | what is hard |
|---|---|---|---|---|
| `__mp_lock` (`kern_mplock.c`): kernel lock, `SCHED_LOCK` | next ticket, served ticket; per processor its ticket and depth | lock, unlock, release all, release all but one, acquire count, held | everything; `mi_switch` gives both up | interrupt handlers nest in the ticket their processor spins with; tickets wrap |
| mutexes (`kern_mutex.c`, `sys/mutex.h`) | owner, saved level, next and current ticket | init, enter, enter_try, leave | interrupt level of the processor, kernel lock | the saved level lives in the lock; a try compares a stale ticket; lock order with the kernel lock |
| sleep queue (`kern_synch.c`) | `p_stat`, `p_wchan`, `P_SINTR` of threads | sleep_setup, sleep_finish, wakeup, unsleep | signals, timeouts, scheduler, all under `SCHED_LOCK` | a thread is queued before it sleeps, can be woken, stopped and continued in between |
| signals to threads (`kern_sig.c`) | pending signals, `p_stat` | ptsignal, issignal (CURSIG), proc_stop, userret | sleep queue | entering the signal and acting on the thread are two steps |
| read/write locks (`kern_rwlock.c`) | one word: owner or reader count, waiter bits | rw_enter and variants, downgrade, rw_exit and variants | sleep queue | compare-and-swap against sleep and wakeup; interrupted waiters |
| timeouts (`kern_timeout.c`) | wheel of 4 levels, worklist, `ticks`; per timeout time and flags | timeout_add, timeout_del, hardclock update, softclock, adjust_ticks | hardclock, softclock on several processors, kernel lock | wrapping times; postponed timeouts left in old buckets; functions called without the mutex |
| task queues (`kern_task.c`) | worklist, state, number of threads; a flag per task | create, destroy, task_add, task_del, the threads | mutex, msleep, kthread creation | unlocked flag tests, wakeups after the mutex, destruction against threads that start, end or fail to start |
| timed sleeps (`kern_synch.c`) | `p_wchan`, `P_TIMEOUT`, pending signals | tsleep, wakeup, endtsleep | sleep queue, timeouts, signals | which of a wakeup, a timeout and a signal ended the sleep |
| pipes (`sys_pipe.c`), with poll, select (`sys_generic.c`) and close (`kern_descrip.c`) | circular buffer, `pipe_state`, `pipe_busy`, `nbigpipe`, the recorded poller | pipe_read, pipe_write, pipe_poll, pipe_close, resizing | timed sleeps, kernel lock, user memory that faults | state read before a sleep and used after it; one channel for four kinds of sleepers; freeing under sleepers |
| single threading (`kern_sig.c`, `kern_exit.c`, `kern_exec.c`, `kern_fork.c`) | `ps_single`, `ps_singlecount`, mode; `P_SUSPSINGLE`, `P_SUSPSIG`, `P_WEXIT` of threads | single_thread_set, _check, _wait, _clear; execve, exit1, sigexit, fork1, userret | sleep queue, stop signals | each thread is counted once wherever it is; two that want the process at once |
| `__thrsleep`, `__thrwakeup` (`kern_synch.c`) | `p_thrslpid` | both system calls | timed sleeps, signals | the caller's lock is released before the sleep |
| librthread mutexes, conditions, read/write locks, semaphores | owner, queues linked through `thread->waiting`, counts, cancelation flags | lock, unlock, wait, signal, broadcast, rdlock, wrlock, sem_wait, sem_post | `__thrsleep`, signals, cancelation | locks are handed over to threads that time out, are interrupted or canceled at that moment |
| scheduler (`kern_sched.c`, `sched_bsd.c`) | run queues, idle processes | setrunqueue, chooseproc, steal | everything that sleeps | stealing, halting processors |
| process life (`kern_fork.c`, `kern_exit.c`) | process tree, zombies, dead list | fork1, wait4, reaper | scheduler, signals | exit against wait |
| System V IPC, file locks | semaphores, lock lists | semop, fcntl | sleep queue | state that changes during the sleep |

`PROJECT.json` lists these and the larger subsystems that are out of scope, and
the hazards of the code line by line, with the property that covers each.

What makes the modelled components correct, in words:

- read/write lock: the word agrees with who holds the lock; a free lock is all
  zero; whoever sleeps has told the holder so or has a wakeup coming; no
  `DIAGNOSTIC` panic; together: it behaves like an abstract read/write lock;
- spin locks: one owner; the depth of the kernel lock is the nesting of the
  contexts of the processor; the `KASSERT`s hold; the interrupt level comes
  back; no handler spins for the kernel lock, or for the mutex, on top of a mutex;
  every spin ends;
- timeouts: no timeout in a bucket when it is due, none early, each that is due
  runs;
- task queues: the thread count is exact, no thread idles beside work, no
  `task_add` is without effect, destroying waits, ends and leaves nobody using
  the queue;
- pipes: what is read is what was written, in order; writes of up to `PIPE_BUF`
  bytes are not mixed; nobody uses a freed pipe; the count of big pipes is exact;
  nobody sleeps on a lock, data, space, an event or an end that is there already;
- single threading: whoever asked for it is alone when the call returns, and it
  returns; the count is exact; afterwards nobody stays suspended, and nobody runs
  whom a signal had stopped; a process that exits goes away;
- librthread: one owner, whose call returns; a thread is in one queue; nobody
  sleeps whom nobody will wake; a wait that was signaled does not report a timeout;
  readers and semaphore waiters are not forgotten.

## Modules

### `SleepQueue`, `RWLock`, `RWLockAbs`

`SleepQueue` has the per-thread state (`p_stat`, `p_wchan`, `p_sintr`,
`p_siglist`), `sched_lock`, and an operator for each region that runs under
`SCHED_LOCK`: `SleepSetup`, `SwitchAway`/`SwitchBack` (the two halves of
`mi_switch`), `WakeupSet`, `Unsleep`, `SetRunnable`, and the three branches of
`ptsignal` by `p_stat` (`SignalSleeping`, `SignalStopped`, `SignalRunning`).
`ptsignal` is two steps, `PostSignal` (the bit in `p_siglist`, no lock) and
`DeliverSignal` (under `SCHED_LOCK`); `psig` holds what is in between. Signals
are four kinds by what the code does with them: INT, KILL, STOP, CONT.

`RWLock` adds the lock word, a record (`wr`, `rd`, `want`, `wait`) of the fields
packed into `rwl_owner`, and per thread a program counter, the operation, the
flags, the loaded word `o` and the `sleep_state`. Each load and each
compare-and-swap is a step. `Test`, `Setup`, `SetupSignal`, `SetWait`, `Resume`,
`FinishSleep`, `Cas` are the body of `rw_enter` in order; `ExitFastCas`,
`ExitLoad`, `ExitCas`, `WakeWaiters` that of the exits. `SetWait` is the swap of
the waiter bits together with `sleep_finish`: `SCHED_LOCK` is held from
`sleep_setup` on and only the swap itself is visible to others. `held` records
what each thread got from its last call; it is the refinement mapping to
`RWLockAbs`, which has one action per successful call.

Abstractions: the order of the sleep queue (a wakeup of n picks any n), the
kernel lock, priorities, signal masks, tracing and `ps_single`. A thread is sent
signals at any time. Threads give the lock back before they return to user mode,
where `UserRet` takes the pending signals; stopping there is left out.

### `MPLock`, `Mutex`, `SpinLocks`

`MPLock` has an operator for each function of `kern_mplock.c`; what is done with
interrupts disabled is one step, the spin is `mp_lock_turn`. Tickets wrap at
`TICKETS` (2^32 in the code), which has to be at least the number of processors.
`Mutex` has an operator for each access to the shared fields, and `MUTEX_IPL`.
Its tickets do not wrap: `mtx_enter_try` would otherwise need the assumption that
nobody is held up for 2^32 acquisitions, which is what the code relies on.

`SpinLocks` composes the two with the interrupt level `cpl` of each processor. A
context is a processor and a level; the running one is the highest that is not
off. A handler starts when `cpl` is below its level, takes the locks its level is
allowed (`MpLevel`, `MtxLevel`), and returns to the level it interrupted. The
process context also does what `mi_switch` does: release all, or all but one and
hand over, and acquire the count again. The thread is assumed to resume on the
processor it left. Callers keep the rules that `SpinLocks` states at its head. They
are those of the kernel lock: `SCHED_LOCK` is also taken with a mutex held (the
wakeup of `taskq_destroy`, `kern_task.c:128`), which is not modelled.

### `Timeout`

One step per critical section of `timeout_mutex`. `WHEELSIZE` is a parameter and
ints have `WHEELSIZE^4` values, so that the top level of the wheel ends where the
ints do, as in the code (2^8 and 2^32); `Span(w)`, the ticks that a bucket of
level w stands for, is the code's `1 << (w * WHEELBITS)`, and `Signed`, `Rel` and
`BUCKET` wrap with the ints.
The worklist is a sequence, buckets are sets. `softclock` is five steps: start,
put an element that is not due into the wheel, take one that is due, call its
function (after `timeout_mutex` is released), return; it runs on any processor,
since `proc_stop` requests it there. `left` is history: how many ticks a timeout
has to go, counted without wrapping, against which the wheel is compared.
`MaxLag` bounds how late softclock may be.

### `Taskq`

One step per critical section of `tq_mtx`, per unlocked load and per wakeup.
`msleep` belongs to the step before it because the sleeper is queued, and
`SCHED_LOCK` held, before the mutex is left. Threads are created by
`taskq_create_thread`, which is called by `taskq_create` or, before there is an
init process (`deferred`), by the boot sequence later; the creation may fail.
`kthread_create` does not sleep once the new thread is runnable and is called
with the kernel lock, with which the thread starts; so the new thread does not
run before the creator has the mutex again, and `CreateThread` is one step.
Tasks may call `task_add` and `task_del` themselves, also during the destruction.
A queue that is gone is created again, with the same tasks, as a queue of any of
`Kinds` (number of threads, `TASKQ_MPSAFE`, created early or not). `wanted` is
history.

### `TSleep`, `Pipe`

`TSleep` is `tsleep` as code under the kernel lock sees it: a thread is on a
channel until a wakeup, an endtsleep or a signal takes it off, and the error it
returns with says which it was (`TsleepError`); a signal that is already pending
keeps it from sleeping (`SleepCatch`). `Pipe` and `Thrsleep` instantiate it.

`Pipe` is `sys_pipe.c` with one pipe that both ends are open on. A step goes from
one point where the kernel lock is given up to the next: the sleeps, and `uiomove`
and `km_alloc`, which may fault or wait for memory. The loops of `pipe_read` and
`pipe_write` are `ReadLoop`, `ReadMove`, `ReadRelock` and `WriteLoop`,
`WriteLock`, `WriteMove`, `WriteAgain`; the path that makes the pipe bigger is
`ResizeLock`, `WriteResize`, `pipespace`. `Lock` and `LockSleep` are `pipelock`,
`CloseLoop` the wait of `pipeclose`. The buffer is a circular array of cells that
name the writer, its call and the position, with `in`, `out`, `cnt` and `size`;
history variables hold what was written and read. `Poll` is the scan and sleep
of select and poll, with `selrecord`, `selwakeup` and their collisions. A
descriptor that is closed lives on until the calls with it have returned
(`Referenced`). When both ends are gone, `dopipe` makes a new pipe. What threads
do is a constant (`Workloads`); so is who may be interrupted (`Signalled`) and
whose memory may fault (`Faulty`).

### `Single`

`single_thread_set` and its relatives with their callers; a step goes from one
sleep, stop or return to user mode to the next. `Counted`, `Roused` and `Frozen`
are the loop of `single_thread_set` over the threads, by `p_stat` and mode;
`CheckIn` is what `single_thread_check` does for a thread that does not unwind;
`Resume` is its loop after the stop. `cont` holds what a thread goes on to do
after the check. `execve` is three steps: it asks the others to unwind, then it
fails and releases them (`ExecReturns`), or commits, makes them exit
(`ExecCommits`) and returns. The end of `exit1` is two steps, `ExitUnlink` and
`ThreadDies` or `MainDies`, since it may sleep for memory after the thread has left
`ps_threads`. A thread that was stopped in `sleep_setup_signal` does not check in
when it comes back to a sleep that is over (`SleepFinishStopped`), but in `userret`.
A process may run out of threads: then it is over.

In two places the model has more behaviours than the code: between the decrement of
`ps_singlecount` by a thread that exits, or the end of its check, and its
`ExitUnlink`, which the code does without a sleep, others may run; and SIGSTOP also
reaches a process that is past `PS_EXITING` or has `PS_PPWAIT`.

### `Thrsleep`, `RThreadSync`, `RThreadRwlock`, `RThreadSem`, `RThread`

`Thrsleep` is the pair of system calls, with the step between the release of the
caller's lock and the sleep; `pthread_cancel` is there because it is one of the
things that happen to a sleeper. `RThreadSync` has the mutex and the condition
variable, `RThreadRwlock` and `RThreadSem` what their names say, one step per
region under the object's spin lock; a `__thrwakeup` after the lock is released
is a step of its own. `RThread` composes the four. Rules that the program keeps:
only the owner unlocks a mutex or waits with it, one mutex per condition,
cancelation stays enabled and deferred, no thread locks the read/write lock twice or while it has the mutex. A canceled
thread is replaced by a new one under the same name. `has`, `rdhas`, `wrhas` and
`signaled` are history.

## Runs

| run | instance | what it shows |
|---|---|---|
| `rwlock` | 2 threads, `RW_INTR` and `RW_SLEEPFAIL`, INT, fair | the word, the waiter bits, wakeups, panics, the refinement of `RWLockAbs`, and that nobody sleeps on the lock for ever |
| `rwlock_signals` | 2 threads, INT, KILL, STOP, CONT | the same invariants when waiters are interrupted, stopped, continued and killed anywhere |
| `rwlock_continued` | 2 threads, STOP, CONT, fair | violated: see Findings |
| `spinlocks` | 2 processors, 2 interrupt levels, depth 2, 2 tickets, 3 mutex tickets | exclusion of both locks, nesting, assertions, interrupt level, lock order |
| `spinlocks_liveness` | 2 processors, 1 interrupt each | every spin ends |
| `timeout` | 2 timeouts, 4-bit ints, a delay in each level, fair | never in a bucket when due, never early, and what is due runs |
| `taskq` | a queue of 2 threads with the kernel lock or of 1 without it and possibly early, creation failing, 1 caller, 2 tasks, fair | count, idle threads, lost tasks, destruction, use after free; tasks are served, destruction ends |
| `pipe` | six groups of readers, writers of less and more than `PIPE_BUF` and `PIPE_SIZE`, pollers; both ends closed at any time | the data, atomic writes, frees, the count, and the five kinds of sleepers |
| `pipe_resize` | a reader, a small and a big writer, no signals or faults | violated: see Findings |
| `rthread` | 3 threads, seven mixes of calls, timeouts, signals and cancelations, fair | exclusion, hand over, queues, wakeups, notifications, and that a new owner returns |
| `rthread_rwlock` | two readers and a timed writer | violated: see Findings |
| `single` | 2 to 4 threads, eight mixes of execve, exit, core dump, thread creation, sleeps, SIGSTOP and SIGCONT, fair | alone on return, exact count, nobody left stopped or resumed by mistake, every call and every exit completes |

Bounds. Two threads suffice for each pair of interleaved steps of the kernel's
read/write lock; the theorems cover any number.
`rwlock_signals` has two because each thread has 16 sets of pending signals, and
its constraint `InterruptOrKill` leaves out the states past one in which an INT
and a KILL are pending together: the code treats the two alike except on a
stopped thread, where each of them is met alone.
Two processors with two handler levels reach a handler on a handler on a spin;
with two tickets all of them are in use. The wheel has four levels of two buckets,
so that every delay is at the end of a level, and two timeouts for the order of
the worklist. Two threads of a task queue allow one that sleeps beside one that
takes the work.

The pipe has 3 bytes, 4 when it is big, and `PIPE_BUF` is 2, one big pipe is
allowed: transfers wrap, end at the end of the buffer, do not fit, and the limit
is met. Each group of `Workloads` has the two or three threads that its hazard
needs and one that closes. Threads that compete for a resize get no signals and
no faults, because of what `pipe_resize` shows.

Three threads of librthread are a holder, one that waits and one that interferes;
a recursion of 2 and a semaphore value of 2 are the first that differ from 1. The
writers that give up and the waits for the semaphore that fail are in workloads
without a further waiter (`GiveUp`, `OneSem`), because of what `rthread_rwlock`
shows and what is said below of semaphores.

Four threads of a process are two that want it for themselves, one that sleeps
and one that is created or leaves. SIGCONT waits until no thread single-threads,
and no execve fails beside two threads that are leaving: see below for both.

`spinlocks_liveness` and `taskq` do not ask TLC for deadlocks, because waiting for
ever is what their liveness properties are about, and `single` does not because
the process ends. In all other runs deadlock is checked.

Some of the properties are conjunctions of named parts that are stated, with
their comments, before them in the same module: `LockSound` (the invariants of
`rwlock`), `KernelLockSound` (`KernelLockExclusive`, `DepthIsNesting`),
`DestroySafe` and `Progress` of `Taskq` (`DestroyCompletes`, `NoUseAfterFree`;
`TaskServed`, `DestroyReturns`), `DataIntact`, `ResourcesSafe` and
`NobodyForgotten` of `Pipe` (stream order and atomic writes; frees and the count
of big pipes; one part for each kind of sleeper), `QueuesSound` and
`NobodyForgotten` of `RThread`, `SingleSound` and `Completes` of `Single`. To
learn which part a counterexample breaks, list the parts in the configuration.

Every property has a mutant in `PROJECT.json`: a definition changed the way a
plausible bug would, defined beside the original and named `...Mutant`, with
which TLC finds the property violated.

## Fairness

- `RWLock`: a thread on a processor goes on (WF), holders release in the end
  (WF), and what waits for `SCHED_LOCK` gets it (SF): it is a ticket lock, passed
  on in the order of asking.
- `SpinLocks`: a processor goes on (WF); handlers return and locks are released
  although interrupts may disable these steps again and again (SF). The number
  of interrupts is bounded (`MaxIntr`): a processor that is interrupted for ever
  does not get on, in the code either.
- `Timeout`: the clock ticks (WF), softclock goes on (WF).
- `RThread`: a thread that can run does (WF on its own steps and the kernel's part
  of them). Nothing is assumed of the program: not that it unlocks, signals or
  posts.
- `Single`: a thread that can run does (WF), and what a thread sleeps for without
  `PCATCH` happens (WF): a disk answers, a lock is released. An interruptible sleep
  may last for ever (a read of a terminal or a pipe), so `single_thread_set` has to
  end it itself (`setrunnable`, `kern_sig.c:1921`; the mutant of `Completes` leaves
  it out). SIGSTOP and SIGCONT are not assumed to come; the liveness properties
  except processes in which a signal keeps a thread stopped.
- `Taskq`: threads are scheduled (WF), the mutex is a ticket lock, so that a
  critical section that is wanted is executed; tasks return (SF, since a task
  may call `task_add` any number of times before).

## Proofs

`RWLockProofs` (for any finite set of threads and any signals). The inductive
invariant `IInv` is the conjunction of `TypeOK`; `Control`, which says for each
program counter what `p_stat`, `held` and the loaded word can be; `Queue`, that
queued threads are asleep, stopped or hold `SCHED_LOCK` on their way there;
`WordMatchesHolders`; `NoStrayWaiterBits`; that the want bit implies the wait
bit; and `NoLostWakeup`. `WordMatchesHolders` is not inductive by itself: an exit
subtracts from the word on the strength of a check some steps before, which
`Control` carries. From it: `TypeCorrect`, `MutualExclusion`, `NoStrayBits`,
`WakeupNotLost`, `DiagnosticsPass`, and `Refinement`, that every step is a step
of `RWLockAbs` or leaves `held` alone.

`SpinLocksProofs` (for any processors, levels and rules that satisfy the
assumptions). `MutexInv` is `MutexTypes`; `Tickets`, that every ticket from
`mtx_cur` to `mtx_ticket - 1` is in the hands of one context and the one in the
mutex has `mtx_cur`; `MutexExclusive`; `Owner`, that owner and saved level are
set exactly while the mutex is held; `Rules`, which code can be where and what
level it will restore; and `Stacked`, that the contexts of a processor are
ordered by the levels they run at and each remembers the level of the one below.
`Tickets` is what makes exclusion inductive, including the stale comparison of
`mtx_enter_try`; `Stacked` is what makes a handler that enters the mutex, or the
kernel lock, above its owner impossible. From it: `MutualExclusion`,
`AssertionsHold`, `LevelRestored`, and `OrderOfLocks`, the last for mutexes with
a level (`ipl # IPL_NONE`).

The second half of `SpinLocksProofs` is about the kernel lock (for any depths too,
and any number of tickets that is at least the number of processors). `MpInv`, on
top of `MutexInv`, is `TypeOK`; `MpTickets`, that the tickets from `mpl_ticket` to
`mpl_users - 1`, modulo the range of an int, are in the hands of the processors
whose depth is not 0, one each; `MpHolder`, that code which has the lock has the
ticket being served; `MpControl`, how many locks code at each place has; and
`DepthIsNesting`, which equates `mplc_depth` with a sum over the contexts of the
processor. `MpTickets` is why a wrapped ticket is not given out twice. From it:
`TypesCorrect`, `KernelLock`.

`RWLockProofs` also has `LockIsSound`, the conjunction that `rwlock_signals`
checks.

`DataTheorems` has the facts about data that the other proofs need: what
`SumFunction` of the community modules does when one value changes, and what
appending, taking the first, removing and concatenating do to a queue, a sequence
without duplicates, and to the set of its elements. The provers cannot use an
induction rule, so the two inductions it needs, over numbers and over subsets of a
finite set, are arguments about a minimal counterexample.

`TaskqProofs` (for any threads, callers and tasks). `TaskqInv` adds to the checked
invariants `Exact`, the thread count of a queue that is freed; `OnQueue`, that
`TASK_ONQUEUE` marks what is on the worklist, once; `Hands`; `Kind`, `Life` and
`Leaving`, which states of creation, destruction and threads go together; and
`LeftWork`, that work left in a queue being destroyed has a thread to do it.
`RunningCounts` is not inductive without the count of the freed queue, and
`DestroySafe` needs `Life` and `Leaving`: the destroyer may be woken by a failed
creation or by the last thread, and must be alone in both cases. From it:
`TypeCorrect`, `CountsAreRight`, `WakeupsSuffice`, `TasksAreKept`, and
`DestructionSafe`, under the hypothesis that queues with `TASKQ_MPSAFE` have one
thread; without it the property is false (see Findings), and the queues of this
kernel satisfy it.

`RThreadProofs` (for any finite set of threads and any workload). `RThreadInv` is
`TypeOK`; `MutexInv`, where a thread that is in the queue of the mutex or of the
condition, or that owns the mutex, can be; `WaitInv`, what a wait will return with
while it is queued and after a signal; `RwInv`, that readers and writers of the
read/write lock exclude each other and a queue of writers has someone in front of
it; and `SemInv`. Exclusion is stated on what calls have returned with (`has`,
`rdhas`, `wrhas`), so `MutexInv` and `RwInv` have to connect it with an owner that
was handed the lock in its sleep. From it: `Types`, `LocksExclude`,
`QueuesAreSound`, `SignalsAreConsumed`.

Its second half is about wakeups. `ThrInv` says when the `p_thrslpid` of a thread
is set and what it sleeps on; `HandInv`, that whoever was handed the mutex, the
turn as a writer or a signal while it sleeps has a `__thrwakeup` on the way, in
the hands of a thread that is at the step which makes it; `AwakeInv`, that a
blocked reader has a writer or a queue of writers in front of it, and that a
waiter for the semaphore sleeps beside a unit only when a wakeup for it is on the
way. `HandInv` gives `HandoversWake`, that no handover is missed, for every
program. `AwakeInv` gives `NobodyIsForgotten` for patient programs: no
`timedwrlock`, no `sem_timedwait`, and no thread that may be canceled while it
waits for the semaphore. In the others the property is false (`rthread_rwlock`
and Findings). The proofs use that the objects which threads sleep on have
different addresses, none of them NULL, which `ThrsleepAssumption` says.

`TimeoutProofs` (for any wheel size of at least 2, 256 included, any finite set of
timeouts and any processors). `TimeoutInv` is `TypeOK`; `TimesMatch`, that
`to_time` is the tick, wrapped, that the history variable `left` says; and
`BucketComesUp`, that the bucket a timeout is in is emptied at one of the ticks
until then. The last is the strengthening that makes `BucketMovesInTime`
inductive: it looks ahead over the ticks, through all four levels and across the
wrap. The lemmas below it are about the arithmetic of `BUCKET` and of the buckets
that a tick empties, level by level. From it: `TypeCorrect`, `WheelInTime`, and
the action property `NeverEarly`.

`PipeProofs` (for any finite set of threads, any workload and any sizes of the
buffers that leave room for an atomic write). `PipeInv` is `Types`; `CallsFit`,
which system call is at which place; `References`, that a descriptor in use is not
closed; `BusyCounts`, that `pipe_busy` is the number of threads between its two
changes; `LockExclusive`, that `PIPE_LOCK` is set and in one thread's hands during
`uiomove` and `km_alloc`; `Channels`, who may sleep on what; `Connected`, that a
pipe points to its peer until that is freed, and a freed one is empty;
`Transfers`, what is left to be moved, and that `space`, which is computed before
`pipelock` and compared again after it, fits when the bytes are moved; and the
three checked properties `BigPipesCounted`, `StreamInOrder` and `AtomicWrites`. The data are
safe over a fault or a sleep because of `LockExclusive` and `Transfers`; a small
write is atomic because `Transfers` says that it has not begun until all of it
fits; and nothing is used after its free because a reader has a reference to the
pipe's descriptor, a writer is in `BusyCounts`, and `Connected` has cut the link.
Every action is shown to be one of two kinds of step, `Step` of a thread or
`Ending` of a close, and what those keep is shown once. From it:
`PipeTypeCorrect`, `DataArrives`, `ResourcesAreSafe`.

The second half is about sleepers. `NobodyForgotten` needs `WatchInv` beside
`PipeInv`: `Ended`, that `PIPE_EOF` is set exactly when an end is closing or the
other one is gone; `LockHeld` and `LockWanted`, that `PIPE_LOCK` is in somebody's
hands and whoever sleeps for it has set `PIPE_LWANT`; `ReaderNotForgotten`;
`WriterWaits`, which says more than `WriterNotForgotten`: the writer that has
emptied the pipe by a resize does not fault and has `MINPIPESIZE` bytes and the
space for them (`Filler`); `PollerRecorded` and `PollerWaits`, that a sleeping
poller is in `si_selpid` or behind a collision, with `PIPE_SEL`, wherever it
polls; `CloserWaits`; `Starts` and `SoleEmpty`, what a write that may resize has
found. The argument is about wakeups, not places: every operator is `Mild`, a flag
that asks for a wakeup goes away only with that wakeup, and a poller leaves the
record only awake. A thread's step is a `Turn`, which adds that whoever leaves more
data or more space than it found has woken readers, writers and pollers (`Feeds`,
`Drains`) unless it is still there to do so; calls, polls, signals and timeouts are
an `Aside`; closes and `dopipe` are `Elsewhere`, where a pipe is untouched or has
lost all its sleepers. `NobodyIsForgotten` holds for the programs that `Sturdy`
describes (`MCPipe` has TLC evaluate it for the workloads of the run): a poll asks
for some event, and a thread whose memory may fault does not write more than
`PIPE_SIZE` bytes to a pipe that others write to. The code does not do better: see
the last findings.

`SingleProofs` (for any finite set of threads and any workload). `SingleInv` is
`Types`; `Control`, what a thread sleeps on and what it is about to do, by where it
is; `Owner`, that `ps_single` is a thread of the process at one of the places from
`single_thread_set` to `single_thread_clear`; `Flags` and `Marked`, which threads
have `P_SUSPSINGLE` and `P_SUSPSIG`; `Stopped`, that a stopped thread is stopped
for one of the two reasons; `Counts`, that `ps_singlecount` is the number of the
threads that have yet to check in; `RefCount`; and `SingleAlone`. `SingleAlone` is
not inductive alone: `single_thread_wait` returns on a count of 0, which `Counts`
has to equate with the absence of others, wherever they were when they were
counted. Every action is shown to be one of a few kinds of step: a thread begins
to single-thread, checks in, or goes on. `StopsSurvive`, that single threading
never resumes whom a signal has stopped, holds for every program. `SingleTypeCorrect`,
`CountsExact` and `SingleThreadingSound` have the hypothesis that every step is
`Orderly`: not one of the two in which the code does count a thread twice
(SIGCONT in the midst of single threading, `kern_sig.c:1011`, and a leaving thread
that is passed over, `kern_sig.c:1893`). `TameSafe` replaces it by a condition on
the program: no SIGCONT, and either every execve succeeds or no thread exits,
leaves or dumps core by itself.

TLC has checked each of these invariants on the instance of its run.

Only model-checked: everything under fairness (`SleeperWakes`,
`EveryoneIsServed`, `DueRuns`, `HandoverCompletes`, `Progress` of `Taskq` and
`Completes` of `Single`), because the prover has no liveness rules. Every invariant
and every action property of a passing run is stated by a theorem.

## Findings

- `rwlock_continued`: `rw_enter` with `RW_INTR` can stop in `sleep_setup_signal`
  before it has set `RWLOCK_WAIT`. If the holder leaves meanwhile, there is no
  wakeup, and SIGCONT puts the thread to sleep on a free lock.
- `pipe_resize`: `pipe_write` finds the pipe empty, sleeps for `PIPE_LOCK`, and
  `pipespace` then replaces the buffer without a second look: what another writer
  wrote meanwhile is lost.
- `rthread_rwlock`: readers block behind a waiting writer. A timed writer that
  gives up wakes nobody, and the unlock of the last reader wakes only writers: a
  blocked reader sleeps on a lock that is free.

Also seen, without a run of their own: a reader gets past a waiting writer,
which the comment on `rw_ops` rules out; `timeout_add(to, 0)` can run in the same
tick, which timeout(9) rules out; a mutex of level `IPL_NONE` raises no level,
which the comment on `__MUTEX_IPL` rules out (with `ipl = 0` TLC finds
`LockOrder` violated); a task queue with several `TASKQ_MPSAFE` threads can be
freed while a thread that is not the last loads `tq_flags`; and
`taskq_create_thread` of such a queue goes on creating threads after it was
destroyed; a timeout's function can start after `timeout_del` has returned, when
softclock took it off the queue before; `taskq_destroy` during the boot returns
without having waited, and the tasks are dropped with `TASK_ONQUEUE` set;
`sem_post` may wake a thread whose `sem_timedwait` has just timed out, or that was
canceled, which leaves with an error while another waiter sleeps beside the unit;
the error path of a resizing `pipe_write` leaves a writer asleep on a pipe that
another resize has emptied; a poll of a pipe for no events (POLLHUP alone) is not on
record there and sleeps through the close; the limit on big pipes is checked before a sleep and
can be exceeded; SIGCONT while a thread single-threads resumes the threads that
it has stopped, which then count down `ps_singlecount` a second time; and so does
a leaving thread that a failed execve released and the next `single_thread_set`
passes over. TLC found each of these as a violation on a suitable instance, or
the code shows it directly. The hazards in `PROJECT.json` have the lines.

## Not modelled

Signal actions and delivery, tracing (`SINGLE_PTRACE`, ptrace), SIGKILL in
`Single`, scheduling policy, the recursive `rrw_*` wrappers, `MP_LOCKDEBUG`,
several mutexes at once, `cold` and `panicstr` shortcuts of the sleep functions,
an endtsleep that is late for its sleep, several descriptors in one poll, kqueue,
SIGIO and ioctl on pipes, the error paths of `dopipe`, disabled and asynchronous
cancelation, semaphores and locks that processes share, mutexes used
against the rules of their type, and the components of the last rows of the
inventory. Memory
ordering: loads and stores are sequentially consistent; the code's atomic
operations carry acquire and release where the models rely on it.

## Plan

1. `Sched` (run queues, idle processes, stealing) and `SemOp` (System V
   semaphores), which like pipes have state that changes during a sleep.
2. Signal actions, so that `Single` can have SIGKILL and traced processes.
