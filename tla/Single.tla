------------------------------- MODULE Single -------------------------------
(***************************************************************************)
(* Single threading of a process (sys/kern/kern_sig.c: single_thread_set,   *)
(* _check, _wait, _clear, userret), with what needs it and what gets in its *)
(* way: execve(), exit1() of the process or of one thread, sigexit() with   *)
(* its core dump, the creation of threads (kern_fork.c), sleeps             *)
(* (kern_synch.c), SIGSTOP and SIGCONT.                                     *)
(*                                                                         *)
(* All of it is done under the kernel lock, which a thread lets go of when  *)
(* it sleeps, stops or leaves the kernel: what it does in between is one    *)
(* step.                                                                    *)
(***************************************************************************)
EXTENDS Integers, FiniteSets

CONSTANTS
    Thread, NoThread,
    Main,         \* the thread without P_THREAD
    Workloads     \* what threads there are and what happens to them: records
                  \* of the first threads and of a function from Thread to
                  \* sets of the names in Calls

Calls == {"exec", "execfail", "execonce", "exit", "threxit", "core", "fork", "sleep", "dsleep"}

ASSUME SingleAssumption ==
    /\ IsFiniteSet(Thread) /\ NoThread \notin Thread /\ Main \in Thread
    /\ \A w \in Workloads :
        /\ w.threads \subseteq Thread /\ Main \in w.threads
        /\ w.calls \in [Thread -> SUBSET Calls]
        /\ w.stop \in BOOLEAN /\ w.cont \in BOOLEAN

VARIABLES
    ps_threads, ps_refcnt,
    ps_single, ps_singlecount,
    ps_mode,      \* PS_SINGLEUNWIND ("unwind") and PS_SINGLEEXIT ("exit")
    p_stat,       \* SRUN stands for SONPROC, too
    p_wchan,      \* "event", "count" (&ps_singlecount), "threads" or NoChan
    p_sintr,      \* P_SINTR
    suspsingle, suspsig, wexit,   \* P_SUSPSINGLE, P_SUSPSIG, P_WEXIT
    stopsig,      \* SIGSTOP is in p_siglist
    pc,           \* where a thread is
    mode,         \* the argument of its single_thread_set()
    cont,         \* what it does after single_thread_check()
    tried,        \* whose execve() has failed (an "execonce" is made once)
    work          \* the workload

procVars == <<ps_threads, ps_refcnt>>
singleVars == <<ps_single, ps_singlecount, ps_mode>>
statVars == <<p_stat, p_wchan, p_sintr>>
flagVars == <<suspsingle, suspsig, wexit, stopsig>>
codeVars == <<pc, mode, cont>>
vars == <<procVars, singleVars, statVars, flagVars, codeVars, tried, work>>

TypeOK ==
    /\ ps_threads \subseteq Thread /\ ps_refcnt \in 0 .. Cardinality(Thread)
    /\ ps_single \in Thread \cup {NoThread}
    /\ ps_singlecount \in 0 .. Cardinality(Thread)
    /\ ps_mode \in {"none", "unwind", "exit"}
    /\ p_stat \in [Thread -> {"SRUN", "SSLEEP", "SSTOP", "SDEAD"}]
    /\ p_wchan \in [Thread -> {"event", "count", "threads", "none"}]
    /\ p_sintr \in [Thread -> BOOLEAN]
    /\ {suspsingle, suspsig, wexit, stopsig} \subseteq SUBSET Thread
    /\ pc \in [Thread -> {"user", "kernel", "catch", "cursig", "slept", "suspended", "wait",
                          "alone", "exit", "thrdeath", "unlinked", "dead"}]
    /\ mode \in [Thread -> {"none", "unwind", "exit", "suspend"}]
    /\ cont \in [Thread -> {"none", "user", "deep", "exec", "exit", "threxit", "core"}]
    /\ tried \subseteq Thread /\ work \in Workloads

Init ==
    /\ work \in Workloads /\ tried = {}
    /\ ps_threads = work.threads /\ ps_refcnt = Cardinality(work.threads)
    /\ ps_single = NoThread /\ ps_singlecount = 0 /\ ps_mode = "none"
    /\ p_stat = [t \in Thread |-> IF t \in work.threads THEN "SRUN" ELSE "SDEAD"]
    /\ p_wchan = [t \in Thread |-> "none"]
    /\ p_sintr = [t \in Thread |-> FALSE]
    /\ suspsingle = {} /\ suspsig = {} /\ wexit = {} /\ stopsig = {}
    /\ pc = [t \in Thread |-> IF t \in work.threads THEN "user" ELSE "dead"]
    /\ mode = [t \in Thread |-> "none"]
    /\ cont = [t \in Thread |-> "none"]

Does(t, call) == call \in work.calls[t]
ExecFails(t) == Does(t, "execfail") \/ (Does(t, "execonce") /\ t \notin tried)
At(t, where) == pc[t] = where /\ p_stat[t] = "SRUN"

-----------------------------------------------------------------------------
(***************************************************************************)
(* Pieces.                                                                  *)
(***************************************************************************)

\* setrunnable() of the threads W
SetRunnable(stat, W) == [t \in Thread |-> IF t \in W THEN "SRUN" ELSE stat[t]]
Unsleep(W) == [t \in Thread |-> IF t \in W THEN "none" ELSE p_wchan[t]]

\* whom wakeup(ident) finds: threads that sleep without PCATCH
Sleepers(ident) == {t \in Thread : p_wchan[t] = ident}

\* tsleep() of t
TSleep(t, ident, catch, where) ==
    /\ p_stat' = [p_stat EXCEPT ![t] = "SSLEEP"]
    /\ p_wchan' = [p_wchan EXCEPT ![t] = ident]
    /\ p_sintr' = [p_sintr EXCEPT ![t] = catch]
    /\ pc' = [pc EXCEPT ![t] = where]

\* "if (pr->ps_single != NULL && pr->ps_single != p)"
Others(t) == ps_single \notin {NoThread, t}

\* "if we're in deep, we need to unwind to the edge"
Unwinds(deep) == deep /\ ps_mode # "none"

\* single_thread_check() of a thread that does not unwind: it is counted, the
\* last one wakes who waits; it exits, or stops.  wx is P_WEXIT so far.
CheckIn(t, then, wx) ==
    LET W == IF ps_singlecount = 1 THEN Sleepers("count") ELSE {} IN
    /\ ps_singlecount' = ps_singlecount - 1
    /\ p_stat' = [SetRunnable(p_stat, W) EXCEPT
                     ![t] = IF ps_mode = "exit" THEN "SRUN" ELSE "SSTOP"]
    /\ p_wchan' = Unsleep(W)
    /\ pc' = [pc EXCEPT ![t] = IF ps_mode = "exit" THEN "exit" ELSE "suspended"]
    /\ wexit' = IF ps_mode = "exit" THEN wx \cup {t} ELSE wx
    /\ cont' = [cont EXCEPT ![t] = IF ps_mode = "exit" THEN "none" ELSE then]
    /\ UNCHANGED <<ps_single, ps_mode>>

\* t goes on at where.
Goto(t, where) ==
    /\ pc' = [pc EXCEPT ![t] = where]
    /\ cont' = [cont EXCEPT ![t] = "none"]

\* t goes on at where, and changes nothing that others see.
Continue(t, where) ==
    /\ Goto(t, where)
    /\ UNCHANGED <<singleVars, p_stat, p_wchan, wexit>>

-----------------------------------------------------------------------------
(***************************************************************************)
(* single_thread_set() after its check.                                     *)
(***************************************************************************)
Exiting(m) == m = "exit"

\* Mutant: does not count the threads it sets running.
CountedMutant(t, m) ==
    {q \in ps_threads \ ({t} \cup wexit) :
        \/ p_stat[q] = "SRUN"
        \/ p_stat[q] = "SSLEEP" /\ ~(p_sintr[q] /\ m = "suspend")}

\* The threads that have to check in: those that run, those that sleep and
\* cannot just be stopped and, to exit, those that are stopped.
Counted(t, m) ==
    {q \in ps_threads \ ({t} \cup wexit) :
        \/ p_stat[q] = "SRUN"
        \/ p_stat[q] = "SSLEEP" /\ ~(p_sintr[q] /\ m = "suspend")
        \/ p_stat[q] = "SSTOP" /\ Exiting(m)}
    \cup {q \in (ps_threads \ {t}) \cap wexit : p_stat[q] = "SSTOP" /\ Exiting(m)}

\* Mutant: leaves those that sleep interruptibly to be woken by their event.
RousedMutant(t, m) == {q \in Counted(t, m) : p_stat[q] = "SSTOP"}

\* ... those of them that are set running
Roused(t, m) ==
    {q \in Counted(t, m) : \/ p_stat[q] = "SSLEEP" /\ p_sintr[q]
                           \/ p_stat[q] = "SSTOP"}

\* "merely need to suspend?  just stop it"
Frozen(t, m) ==
    {q \in ps_threads \ ({t} \cup wexit) :
        p_stat[q] = "SSLEEP" /\ p_sintr[q] /\ m = "suspend"}

\* p_stat after it has gone through the threads
SetStat(t, m) ==
    [q \in Thread |-> IF q \in Frozen(t, m) THEN "SSTOP"
                      ELSE IF q \in Roused(t, m) THEN "SRUN" ELSE p_stat[q]]

SingleThreadSet(t, m) ==
    /\ ps_mode' = IF m = "suspend" THEN ps_mode ELSE m
    /\ ps_single' = t
    /\ ps_singlecount' = Cardinality(Counted(t, m))
    /\ suspsingle' = suspsingle \cup (ps_threads \ ({t} \cup wexit))
    /\ mode' = [mode EXCEPT ![t] = m]
    /\ cont' = [cont EXCEPT ![t] = "none"]
    /\ IF Counted(t, m) = {}
       THEN /\ pc' = [pc EXCEPT ![t] = "alone"]
            /\ p_stat' = SetStat(t, m) /\ UNCHANGED <<p_wchan, p_sintr>>
       ELSE /\ p_stat' = [SetStat(t, m) EXCEPT ![t] = "SSLEEP"]
            /\ p_wchan' = [Unsleep(Roused(t, m)) EXCEPT ![t] = "count"]
            /\ p_sintr' = [p_sintr EXCEPT ![t] = FALSE]
            /\ pc' = [pc EXCEPT ![t] = "wait"]
    /\ UNCHANGED <<procVars, suspsig, stopsig>>

\* single_thread_wait() after a wakeup
SingleThreadWait(t) ==
    /\ At(t, "wait")
    /\ IF ps_singlecount > 0
       THEN TSleep(t, "count", FALSE, "wait")
       ELSE pc' = [pc EXCEPT ![t] = "alone"] /\ UNCHANGED statVars
    /\ UNCHANGED <<procVars, singleVars, flagVars, mode, cont>>

\* Mutant: also resumes the threads that a signal stopped.
ReleasedMutant(t) == {q \in suspsingle \ {t} : p_stat[q] = "SSTOP"}

\* the threads that were "only stopped for single threading"
Released(t) == {q \in suspsingle \ {t} : p_stat[q] = "SSTOP" /\ q \notin suspsig}

\* single_thread_clear(p, P_SUSPSIG), at the end of execve()
SingleThreadClear(t) ==
    LET R == Released(t) \cap ps_threads IN
    /\ ps_single' = NoThread /\ ps_mode' = "none" /\ UNCHANGED ps_singlecount
    /\ suspsingle' = suspsingle \ (ps_threads \ {t})
    /\ p_stat' = [q \in Thread |->
                     IF q \notin R THEN p_stat[q]
                     ELSE IF p_wchan[q] = "none" THEN "SRUN" ELSE "SSLEEP"]
    /\ mode' = [mode EXCEPT ![t] = "none"]
    /\ pc' = [pc EXCEPT ![t] = "kernel"]
    /\ UNCHANGED <<procVars, p_wchan, p_sintr, suspsig, wexit, stopsig, cont>>

-----------------------------------------------------------------------------
(***************************************************************************)
(* Calls that want the process for themselves.                              *)
(***************************************************************************)

Untouched == <<procVars, p_sintr, suspsingle, suspsig, stopsig, mode>>

\* single_thread_check(t, deep), called for then, when there is someone else:
\* an error that unwinds to userret(), or the thread checks in.
CheckOther(t, deep, then, wx) ==
    IF Unwinds(deep)
    THEN /\ Goto(t, "kernel") /\ wexit' = wx
         /\ UNCHANGED <<singleVars, p_stat, p_wchan>>
    ELSE CheckIn(t, then, wx)

\* single_thread_check(t, deep); here is what follows if there is nobody.
Check(t, deep, then, wx, here) ==
    IF Others(t) THEN CheckOther(t, deep, then, wx)
    ELSE /\ Goto(t, here) /\ wexit' = wx
         /\ UNCHANGED <<singleVars, p_stat, p_wchan>>

\* single_thread_set(t, m, deep)
Set(t, m, deep, then, wx) ==
    \/ ~Others(t) /\ SingleThreadSet(t, m) /\ wexit' = wx
    \/ Others(t) /\ CheckOther(t, deep, then, wx) /\ UNCHANGED Untouched

\* A system call starts in user mode and ends in userret(), which signotify()
\* makes a thread in user mode go through, too.
AtUserret(t) == At(t, "user") \/ At(t, "kernel")
LastThread(t) == ps_threads = {t}

execve(t) ==
    /\ At(t, "user")
    /\ Does(t, "exec") \/ ExecFails(t)
    /\ Set(t, "unwind", TRUE, "exec", wexit)

\* "we're committed": the other threads are told to exit.
ExecCommits(t) ==
    /\ At(t, "alone") /\ mode[t] = "unwind" /\ Does(t, "exec")
    /\ SingleThreadSet(t, "exit") /\ UNCHANGED wexit

ExecReturns(t) ==
    /\ At(t, "alone") /\ t \notin wexit
    /\ mode[t] = "exit" \/ (mode[t] = "unwind" /\ ExecFails(t))
    /\ SingleThreadClear(t)
    /\ tried' = tried \cup {t}

\* t exits and nobody has to wait.
ExitAtOnce(t) ==
    /\ Goto(t, "exit") /\ wexit' = wexit \cup {t}
    /\ UNCHANGED <<singleVars, p_stat, p_wchan, Untouched>>

\* exit1() with EXIT_NORMAL
ExitProcess(t) ==
    /\ At(t, "user") /\ Does(t, "exit")
    /\ IF LastThread(t) THEN ExitAtOnce(t)
       ELSE Set(t, "exit", FALSE, "exit", wexit \cup {t})

\* exit1() with EXIT_THREAD
ExitThread(t) ==
    /\ At(t, "user") /\ Does(t, "threxit")
    /\ IF LastThread(t) THEN ExitAtOnce(t)
       ELSE /\ Check(t, FALSE, "threxit", wexit \cup {t}, "exit")
            /\ UNCHANGED Untouched

\* sigexit() of a signal with SA_CORE
SigExit(t) ==
    /\ AtUserret(t) /\ Does(t, "core")
    /\ IF LastThread(t) THEN ExitAtOnce(t)
       ELSE Set(t, "suspend", FALSE, "core", wexit \cup {t})

\* exit1() after the core dump
CoreDumped(t) ==
    /\ At(t, "alone") /\ mode[t] = "suspend"
    /\ IF LastThread(t) THEN ExitAtOnce(t)
       ELSE SingleThreadSet(t, "exit") /\ UNCHANGED wexit

\* exit1() after single_thread_set()
ExitAlone(t) ==
    /\ At(t, "alone") /\ mode[t] = "exit" /\ t \in wexit
    /\ ExitAtOnce(t)

\* "if (--pr->ps_refcnt == 1)"
OnlyMainLeft == ps_refcnt - 1 = 1

\* "unlink ourselves from the active threads"
ExitUnlink(t) ==
    /\ At(t, "exit")
    /\ ps_threads' = ps_threads \ {t}
    /\ pc' = [pc EXCEPT ![t] = IF t = Main THEN "thrdeath" ELSE "unlinked"]
    /\ UNCHANGED <<ps_refcnt, singleVars, statVars, flagVars, mode, cont>>

\* "just a thread? detach it from its process": the end of exit1(), which may
\* have slept since the thread was unlinked.
ThreadDies(t) ==
    LET W == IF OnlyMainLeft THEN Sleepers("threads") ELSE {} IN
    /\ At(t, "unlinked")
    /\ pc' = [pc EXCEPT ![t] = "dead"]
    /\ ps_refcnt' = ps_refcnt - 1
    /\ p_stat' = [SetRunnable(p_stat, W) EXCEPT ![t] = "SDEAD"]
    /\ p_wchan' = Unsleep(W)
    /\ UNCHANGED <<ps_threads, singleVars, p_sintr, flagVars, mode, cont>>

\* "main thread gotta wait because it has the pid"
MainDies(t) ==
    /\ At(t, "thrdeath")
    /\ \/ ps_refcnt > 1 /\ TSleep(t, "threads", FALSE, "thrdeath")
       \/ /\ ps_refcnt = 1
          /\ pc' = [pc EXCEPT ![t] = "dead"]
          /\ p_stat' = [p_stat EXCEPT ![t] = "SDEAD"]
          /\ UNCHANGED <<p_wchan, p_sintr>>
    /\ UNCHANGED <<procVars, singleVars, flagVars, mode, cont>>

\* single_thread_check() once the thread runs again, and what it was for
Resume(t) ==
    /\ At(t, "suspended")
    /\ \/ /\ ps_single # NoThread
          /\ CheckOther(t, cont[t] \in {"deep", "exec"}, cont[t], wexit)
          /\ UNCHANGED Untouched
       \/ /\ ps_single = NoThread /\ cont[t] \in {"exec", "exit", "core"}
          /\ SingleThreadSet(t, [exec |-> "unwind", exit |-> "exit", core |-> "suspend"][cont[t]])
          /\ UNCHANGED wexit
       \/ /\ ps_single = NoThread /\ cont[t] \in {"threxit", "user", "deep"}
          /\ Continue(t, IF cont[t] = "threxit" THEN "exit" ELSE "kernel")
          /\ UNCHANGED Untouched

-----------------------------------------------------------------------------
(***************************************************************************)
(* What the other threads do meanwhile.                                     *)
(***************************************************************************)

\* userret(): with a signal that stops it, or P_SUSPSINGLE, or neither.  A
\* thread in user mode comes here because of signotify().
ProcStop(t) ==
    /\ AtUserret(t) /\ t \in stopsig
    /\ p_stat' = [p_stat EXCEPT ![t] = "SSTOP"]
    /\ suspsig' = suspsig \cup {t} /\ stopsig' = stopsig \ {t}
    /\ UNCHANGED <<procVars, singleVars, p_wchan, p_sintr, suspsingle, wexit, codeVars>>

userret(t) ==
    /\ AtUserret(t) /\ t \notin stopsig
    /\ IF t \in suspsingle THEN Check(t, FALSE, "user", wexit, "user")
       ELSE pc[t] = "kernel" /\ Continue(t, "user")
    /\ UNCHANGED Untouched

\* tsleep() with PCATCH: sleep_setup_signal() may find a reason not to sleep.
TsleepCatch(t) ==
    /\ At(t, "user") /\ Does(t, "sleep")
    /\ \/ /\ ps_single # NoThread
          /\ pc' = [pc EXCEPT ![t] = "catch"]
          /\ UNCHANGED <<statVars, suspsig, stopsig>>
       \/ /\ ps_single = NoThread /\ t \in stopsig
          /\ p_stat' = [p_stat EXCEPT ![t] = "SSTOP"]
          /\ p_wchan' = [p_wchan EXCEPT ![t] = "event"]
          /\ p_sintr' = [p_sintr EXCEPT ![t] = TRUE]
          /\ pc' = [pc EXCEPT ![t] = "cursig"]
          /\ suspsig' = suspsig \cup {t} /\ stopsig' = stopsig \ {t}
       \/ /\ ps_single = NoThread /\ t \notin stopsig
          /\ TSleep(t, "event", TRUE, "catch")
          /\ UNCHANGED <<suspsig, stopsig>>
    /\ UNCHANGED <<procVars, singleVars, suspsingle, wexit, mode, cont>>

\* "If the wakeup happens while we're stopped, p->p_wchan will be 0 upon return
\* from CURSIG": the sleep is over, and sleep_finish_signal() has nothing to do.
SleepFinishStopped(t) ==
    /\ At(t, "cursig")
    /\ p_sintr' = [p_sintr EXCEPT ![t] = FALSE]
    /\ Continue(t, "kernel")
    /\ UNCHANGED <<procVars, suspsingle, suspsig, stopsig, mode>>

\* sleep_finish_signal()
SleepFinishSignal(t) ==
    /\ At(t, "catch")
    /\ p_sintr' = [p_sintr EXCEPT ![t] = FALSE]
    /\ Check(t, TRUE, "deep", wexit, "kernel")
    /\ UNCHANGED <<procVars, suspsingle, suspsig, stopsig, mode>>

\* tsleep() without PCATCH
Tsleep(t) ==
    /\ At(t, "user") /\ Does(t, "dsleep")
    /\ TSleep(t, "event", FALSE, "slept")
    /\ UNCHANGED <<procVars, singleVars, flagVars, mode, cont>>

Slept(t) == At(t, "slept") /\ Continue(t, "kernel") /\ UNCHANGED Untouched

\* wakeup(), of what a thread sleeps on
Event(t) ==
    /\ p_wchan[t] = "event"
    /\ p_wchan' = [p_wchan EXCEPT ![t] = "none"]
    /\ p_stat' = [p_stat EXCEPT ![t] = IF @ = "SSLEEP" THEN "SRUN" ELSE @]
    /\ UNCHANGED <<procVars, singleVars, p_sintr, flagVars, codeVars>>

\* Mutant: does not count the new thread in.
ForkCountsMutant == ps_singlecount

\* "if somebody else wants to take us to single threaded mode"
ForkCounts == IF ps_single # NoThread THEN ps_singlecount + 1 ELSE ps_singlecount

\* fork1() with FORK_THREAD, from where it no longer sleeps
fork1(t) ==
    /\ At(t, "user") /\ Does(t, "fork")
    /\ \E u \in Thread \ {Main} :
        /\ pc[u] = "dead"
        /\ ps_threads' = ps_threads \cup {u} /\ ps_refcnt' = ps_refcnt + 1
        /\ ps_singlecount' = ForkCounts
        /\ suspsingle' = IF ps_single # NoThread THEN suspsingle \cup {u}
                         ELSE suspsingle \ {u}
        /\ p_stat' = [p_stat EXCEPT ![u] = "SRUN"]
        /\ pc' = [pc EXCEPT ![t] = "kernel", ![u] = "kernel"]
        /\ mode' = [mode EXCEPT ![u] = "none"]
        /\ suspsig' = suspsig \ {u} /\ wexit' = wexit \ {u} /\ stopsig' = stopsig \ {u}
    /\ UNCHANGED <<ps_single, ps_mode, p_wchan, p_sintr, cont>>

\* SIGSTOP, to all threads
SIGSTOP ==
    LET S == {t \in ps_threads : p_stat[t] = "SSLEEP" /\ p_sintr[t]} IN
    /\ work.stop /\ ps_threads # {}
    /\ p_stat' = [t \in Thread |-> IF t \in S THEN "SSTOP" ELSE p_stat[t]]
    /\ suspsig' = suspsig \cup S
    /\ stopsig' = stopsig \cup {t \in ps_threads \ S : p_stat[t] # "SSTOP"}
    /\ UNCHANGED <<procVars, singleVars, p_wchan, p_sintr, suspsingle, wexit, codeVars>>

\* SIGCONT, to all threads
SIGCONT ==
    LET S == {t \in ps_threads : p_stat[t] = "SSTOP"} IN
    /\ work.stop /\ (work.cont \/ ps_single = NoThread)
    /\ p_stat' = [t \in Thread |-> IF t \notin S THEN p_stat[t]
                                   ELSE IF p_wchan[t] = "none" THEN "SRUN" ELSE "SSLEEP"]
    /\ suspsig' = suspsig \ S /\ stopsig' = stopsig \ ps_threads
    /\ UNCHANGED <<procVars, singleVars, p_wchan, p_sintr, suspsingle, wexit, codeVars>>

-----------------------------------------------------------------------------
\* what a thread does by itself once it runs
Runs(t) ==
    \/ ExecReturns(t)
    \/ /\ \/ SingleThreadWait(t) \/ ExecCommits(t)
          \/ CoreDumped(t) \/ ExitAlone(t) \/ ExitUnlink(t) \/ ThreadDies(t)
          \/ MainDies(t) \/ Resume(t) \/ ProcStop(t) \/ userret(t)
          \/ SleepFinishStopped(t) \/ SleepFinishSignal(t) \/ Slept(t)
       /\ UNCHANGED tried

Call(t) ==
    /\ \/ execve(t) \/ ExitProcess(t) \/ ExitThread(t) \/ SigExit(t)
       \/ TsleepCatch(t) \/ Tsleep(t) \/ fork1(t)
    /\ UNCHANGED tried

Next ==
    /\ \/ \E t \in Thread : Runs(t) \/ Call(t) \/ (Event(t) /\ UNCHANGED tried)
       \/ (SIGSTOP \/ SIGCONT) /\ UNCHANGED tried
    /\ UNCHANGED work

Spec == Init /\ [][Next]_vars

\* Threads that can run do, and what a thread waits for without PCATCH happens.
\* Nothing says so of an interruptible sleep, a read of a terminal or a pipe.
FairSpec ==
    /\ Spec
    /\ \A t \in Thread :
        /\ WF_vars(Runs(t) /\ UNCHANGED work)
        /\ WF_vars(Event(t) /\ ~p_sintr[t] /\ UNCHANGED <<tried, work>>)

-----------------------------------------------------------------------------
\* "wait until they're all suspended": a thread that single_thread_set() has
\* returned to has the process for itself.  The others are stopped, or past
\* the point in exit1() from where they only take their leave.
SingleAlone ==
    \A t \in Thread : pc[t] = "alone" =>
        /\ ps_single = t
        /\ \A q \in ps_threads \ {t} : \/ p_stat[q] = "SSTOP" /\ mode[t] # "exit"
                                       \/ pc[q] = "exit"

\* While a thread single-threads, ps_singlecount counts every thread that runs
\* or sleeps and will still check in, each once.  A thread that a signal
\* stopped is counted if the signal came after single_thread_set(), and not if
\* it came before.
CountExact ==
    LET others == (suspsingle \cap ps_threads) \ {ps_single}
        due == {q \in others : p_stat[q] \in {"SRUN", "SSLEEP"} /\ pc[q] # "exit"}
        signalled == {q \in others \cap suspsig : p_stat[q] = "SSTOP"} IN
    ps_single \in ps_threads =>
        ps_singlecount \in Cardinality(due) .. Cardinality(due \cup signalled)

\* Whoever single threading stopped runs again once it is over; and whoever
\* a signal stopped stays stopped.
NobodyLeftStopped ==
    ps_single = NoThread =>
        \A t \in ps_threads : p_stat[t] = "SSTOP" => t \in suspsig

\* Single threading excludes the others while it lasts, and only then.
SingleSound == SingleAlone /\ NobodyLeftStopped

\* Only SIGCONT, or the end of the process, resumes a thread that SIGSTOP
\* stopped: not an execve() that failed.
StopSurvives ==
    [][\A t \in ps_threads :
          t \in suspsig /\ p_stat[t] = "SSTOP" /\ p_stat'[t] # "SSTOP"
              => t \notin suspsig' \/ ps_mode' = "exit"]_vars

\* While a signal keeps a thread stopped, the others may have to wait.
StoppedBySignal == \E q \in ps_threads \cap suspsig : p_stat[q] = "SSTOP"

\* single_thread_set() returns, whatever the other threads are doing, a sleep
\* with PCATCH that nothing but single_thread_set() ends included; unless one of
\* them is stopped by a signal.
SetReturns == \A t \in Thread : pc[t] = "wait" ~> pc[t] # "wait" \/ StoppedBySignal

\* A process that exits, or is killed, goes away with all of its threads.
ExitCompletes ==
    (ps_mode = "exit" /\ ps_single \in wexit) ~>
        (ps_threads = {} /\ \A t \in Thread : pc[t] = "dead") \/ StoppedBySignal

\* Nobody waits for ever for the other threads, in single_thread_wait() or in
\* exit1().
Completes == SetReturns /\ ExitCompletes

=============================================================================
