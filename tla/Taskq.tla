------------------------------- MODULE Taskq --------------------------------
(***************************************************************************)
(* A task queue (sys/kern/kern_task.c): callers put tasks on a worklist,    *)
(* kernel threads take them off and call their functions, a thread of its   *)
(* own (or the boot sequence) creates the threads, and somebody destroys    *)
(* the queue.                                                               *)
(*                                                                         *)
(* What is done under tq_mtx is one step.  msleep() is part of the step     *)
(* before it: the sleeper is on the sleep queue before it leaves the mutex. *)
(* Loads of t_flags and tq_flags outside the mutex and wakeups are steps of *)
(* their own.  Rules that callers keep: a queue is destroyed once, after    *)
(* all calls from outside have returned and with no further ones; the tasks *)
(* themselves may still call.  What becomes of a thread that uses the queue *)
(* after free() is not modelled: it stops there.                            *)
(***************************************************************************)
EXTENDS Naturals, Sequences, FiniteSets, SequencesExt

CONSTANTS
    Task,           \* struct task
    NoTask,
    Thread,         \* the kernel threads there may be at once
    Caller,         \* other code that calls task_add() and task_del()
    Kinds,          \* what queues are created with: tq_nthreads, TASKQ_MPSAFE,
                    \* and whether that may be before there is init
    CreateFails     \* may kthread_create() fail?

ASSUME TaskqAssumption ==
    /\ NoTask \notin Task
    /\ IsFiniteSet(Thread) /\ Thread \cap Caller = {}
    /\ Kinds \subseteq [n : 1 .. Cardinality(Thread), mpsafe : BOOLEAN,
                       early : BOOLEAN]
    /\ CreateFails \in BOOLEAN

VARIABLES
    tq_state, tq_running, tq_worklist,
    onqueue,    \* the tasks with TASK_ONQUEUE in t_flags
    freed,      \* there is no queue, or no more
    tq_nthreads,
    MPSAFE,     \* TASKQ_MPSAFE in tq_flags: threads run without the kernel lock
    deferred,   \* the queue was created before there was init
    creator,    \* where taskq_create_thread() is
    destroyer,  \* where taskq_destroy() is
    pc,         \* where a thread or a caller is
    work,       \* taskq_thread(): the copy of the task
    arg,        \* task_add(), task_del(): the argument
    wanted      \* history: tasks added, whose function has not started since

tqVars == <<tq_state, tq_running, tq_worklist, onqueue, freed>>
kindVars == <<tq_nthreads, MPSAFE, deferred>>
vars == <<tqVars, kindVars, creator, destroyer, pc, work, arg, wanted>>

Actor == Thread \cup Caller

Go(a, where) == pc' = [pc EXCEPT ![a] = where]

\* where a task or a caller is outside of task_add() and task_del()
Home(a) == IF a \in Thread THEN "running" ELSE "idle"

Init ==
    /\ tq_state = "destroyed" /\ tq_running = 0 /\ tq_worklist = << >>
    /\ onqueue = {}
    /\ freed = TRUE /\ deferred = FALSE
    /\ tq_nthreads = 0 /\ MPSAFE = FALSE
    /\ creator = "done" /\ destroyer = "returned"
    /\ pc = [a \in Actor |-> IF a \in Thread THEN "none" ELSE "idle"]
    /\ work = [w \in Thread |-> NoTask]
    /\ arg = [a \in Actor |-> NoTask]
    /\ wanted = {}

-----------------------------------------------------------------------------
(***************************************************************************)
(* wakeup_one(tq) and wakeup(tq): threads asleep in taskq_next_work().      *)
(***************************************************************************)
Bored == {w \in Thread : pc[w] = "bored"}

\* wakeup_one(tq) by a, which goes on at where
WakeupOne(a, where) ==
    \/ Bored = {} /\ Go(a, where)
    \/ \E w \in Bored : pc' = [pc EXCEPT ![a] = where, ![w] = "next"]

\* wakeup_one(&tq->tq_running): only taskq_destroy() sleeps there.
WakeupDestroyer ==
    destroyer' = IF destroyer = "asleep" THEN "wait" ELSE destroyer

-----------------------------------------------------------------------------
(***************************************************************************)
(* taskq_create() and taskq_create_thread().                                *)
(***************************************************************************)

\* taskq_create_thread() is over, with "orphan" if the queue got no thread.
Created == creator \in {"done", "orphan"}

\* A queue that is gone is created again, and its tasks are set up again:
\* task_set() clears t_flags.
taskq_create ==
    /\ freed /\ Created /\ destroyer = "returned"
    /\ \A w \in Thread : pc[w] = "none"
    /\ tq_state' = "created" /\ tq_running' = 0 /\ tq_worklist' = << >>
    /\ freed' = FALSE
    /\ \E k \in Kinds :
        /\ tq_nthreads' = k.n /\ MPSAFE' = k.mpsafe
        /\ deferred' \in {FALSE, k.early}
    /\ creator' = "start" /\ destroyer' = "none"
    /\ onqueue' = {} /\ wanted' = {}
    /\ UNCHANGED <<pc, work, arg>>

\* taskq_create() has returned: at once, if the thread creation is deferred.
Known == Created \/ deferred

CreateStart ==
    /\ creator = "start" /\ ~freed
    /\ IF tq_state = "destroyed"
       THEN /\ freed' = TRUE
            /\ creator' = "done"
            /\ UNCHANGED <<tq_state, tq_running>>
       ELSE /\ tq_state' = "running"
            /\ tq_running' = tq_running + 1
            /\ creator' = "create"
            /\ UNCHANGED freed
    /\ UNCHANGED <<tq_worklist, onqueue, kindVars, destroyer, pc, work, arg, wanted>>

\* Mutant: only the first thread is counted.
CreateThreadMutant ==
    /\ creator = "create"
    /\ \E w \in Thread : pc[w] = "none" /\ Go(w, "next")
    /\ creator' = IF \E w \in Thread : pc'[w] = "none" THEN creator ELSE "done"
    /\ UNCHANGED <<tqVars, kindVars, destroyer, work, arg, wanted>>

\* kthread_create() is called outside the mutex and may sleep.  Once the new
\* thread is runnable it does not: the kernel lock, which the thread starts
\* with, is kept until taskq_create_thread() has the mutex again.
CreateThread ==
    /\ creator = "create"
    /\ \/ /\ \E w \in Thread : pc[w] = "none" /\ Go(w, "next")
          /\ IF tq_running < tq_nthreads
             THEN tq_running' = tq_running + 1 /\ UNCHANGED creator
             ELSE creator' = "done" /\ UNCHANGED tq_running
       \/ /\ CreateFails
          /\ creator' = "failed"
          /\ UNCHANGED <<pc, tq_running>>
    /\ UNCHANGED <<tq_state, tq_worklist, onqueue, freed, kindVars, destroyer,
                   work, arg, wanted>>

\* Mutant: the thread that could not be created still counts.
CreateFailedMutant ==
    /\ creator = "failed" /\ ~freed
    /\ creator' = "done"
    /\ UNCHANGED <<tqVars, kindVars, destroyer, pc, work, arg, wanted>>

CreateFailed ==
    /\ creator = "failed" /\ ~freed
    /\ tq_running' = tq_running - 1
    /\ IF tq_state = "destroyed" /\ tq_running = 1
       THEN WakeupDestroyer
       ELSE UNCHANGED destroyer
    /\ creator' = IF tq_running = 1 THEN "orphan" ELSE "done"
    /\ UNCHANGED <<tq_state, tq_worklist, onqueue, freed, kindVars, pc, work,
                   arg, wanted>>

-----------------------------------------------------------------------------
(***************************************************************************)
(* taskq_destroy().                                                         *)
(***************************************************************************)

\* Mutant: does not wake the threads.
DestroyRoundMutant ==
    /\ destroyer' = IF tq_running > 0 THEN "asleep" ELSE "returned"
    /\ freed' = (tq_running = 0)
    /\ UNCHANGED pc

\* One round of the loop, or free().
DestroyRound ==
    IF tq_running > 0
    THEN /\ pc' = [a \in Actor |-> IF a \in Bored THEN "next" ELSE pc[a]]
         /\ destroyer' = "asleep"
         /\ UNCHANGED freed
    ELSE /\ destroyer' = "returned"
         /\ freed' = TRUE
         /\ UNCHANGED pc

\* Up to the first msleep().  A queue that has no threads yet is left to
\* taskq_create_thread().
taskq_destroy ==
    /\ ~freed /\ Known /\ destroyer = "none"
    /\ \A a \in Caller : pc[a] = "idle"
    /\ tq_state' = "destroyed"
    /\ IF tq_state = "created"
       THEN destroyer' = "returned" /\ UNCHANGED <<pc, freed>>
       ELSE DestroyRound
    /\ UNCHANGED <<tq_running, tq_worklist, onqueue, kindVars, creator, work,
                   arg, wanted>>

DestroyLoop ==
    /\ destroyer = "wait" /\ ~freed
    /\ DestroyRound
    /\ UNCHANGED <<tq_state, tq_running, tq_worklist, onqueue, kindVars,
                   creator, work, arg, wanted>>

-----------------------------------------------------------------------------
(***************************************************************************)
(* task_add() and task_del(), from outside or from a task.                  *)
(***************************************************************************)
MayCall(a) ==
    /\ pc[a] = Home(a)
    /\ a \in Caller => ~freed /\ Known /\ destroyer = "none"

\* The load of t_flags before the mutex.
task_add(a, t) ==
    /\ MayCall(a)
    /\ wanted' = wanted \cup {t}
    /\ IF t \in onqueue
       THEN UNCHANGED <<pc, arg>>
       ELSE Go(a, "add") /\ arg' = [arg EXCEPT ![a] = t]
    /\ UNCHANGED <<tqVars, kindVars, creator, destroyer, work>>

\* Mutant: the wakeup comes first, when there is nothing to wake up for.
AddInsertMutant(a) ==
    /\ pc[a] = "add" /\ ~freed
    /\ IF arg[a] \in onqueue
       THEN UNCHANGED <<onqueue, tq_worklist>>
       ELSE /\ onqueue' = onqueue \cup {arg[a]}
            /\ tq_worklist' = Append(tq_worklist, arg[a])
    /\ Go(a, Home(a))
    /\ arg' = [arg EXCEPT ![a] = NoTask]
    /\ UNCHANGED <<tq_state, tq_running, freed, kindVars, creator, destroyer,
                   work, wanted>>

AddInsert(a) ==
    /\ pc[a] = "add" /\ ~freed
    /\ IF arg[a] \in onqueue
       THEN Go(a, Home(a)) /\ UNCHANGED <<onqueue, tq_worklist>>
       ELSE /\ onqueue' = onqueue \cup {arg[a]}
            /\ tq_worklist' = Append(tq_worklist, arg[a])
            /\ Go(a, "addwakeup")
    /\ arg' = [arg EXCEPT ![a] = NoTask]
    /\ UNCHANGED <<tq_state, tq_running, freed, kindVars, creator, destroyer,
                   work, wanted>>

AddWakeup(a) ==
    /\ pc[a] = "addwakeup"
    /\ WakeupOne(a, Home(a))
    /\ UNCHANGED <<tqVars, kindVars, creator, destroyer, work, arg, wanted>>

task_del(a, t) ==
    /\ MayCall(a)
    /\ t \in onqueue
    /\ Go(a, "del") /\ arg' = [arg EXCEPT ![a] = t]
    /\ UNCHANGED <<tqVars, kindVars, creator, destroyer, work, wanted>>

DelRemove(a) ==
    /\ pc[a] = "del" /\ ~freed
    /\ IF arg[a] \in onqueue
       THEN /\ onqueue' = onqueue \ {arg[a]}
            /\ \E i \in DOMAIN tq_worklist :
                /\ tq_worklist[i] = arg[a]
                /\ tq_worklist' = RemoveAt(tq_worklist, i)
            /\ wanted' = wanted \ {arg[a]}
       ELSE UNCHANGED <<onqueue, tq_worklist, wanted>>
    /\ arg' = [arg EXCEPT ![a] = NoTask]
    /\ Go(a, Home(a))
    /\ UNCHANGED <<tq_state, tq_running, freed, kindVars, creator, destroyer, work>>

-----------------------------------------------------------------------------
(***************************************************************************)
(* taskq_thread() and taskq_next_work().                                    *)
(***************************************************************************)

\* Mutant: TASK_ONQUEUE stays set.
NextWorkMutant(w) ==
    /\ pc[w] = "next" /\ ~freed
    /\ IF tq_worklist = << >>
       THEN /\ Go(w, IF tq_state = "running" THEN "bored" ELSE "exit")
            /\ UNCHANGED <<tq_worklist, work>>
       ELSE /\ tq_worklist' = Tail(tq_worklist)
            /\ work' = [work EXCEPT ![w] = Head(tq_worklist)]
            /\ Go(w, IF Tail(tq_worklist) = << >> THEN "call" ELSE "wakeup")
    /\ UNCHANGED <<tq_state, tq_running, onqueue, freed, kindVars, creator,
                   destroyer, arg, wanted>>

NextWork(w) ==
    /\ pc[w] = "next" /\ ~freed
    /\ IF tq_worklist = << >>
       THEN /\ Go(w, IF tq_state = "running" THEN "bored" ELSE "exit")
            /\ UNCHANGED <<tq_worklist, onqueue, work>>
       ELSE /\ tq_worklist' = Tail(tq_worklist)
            /\ onqueue' = onqueue \ {Head(tq_worklist)}
            /\ work' = [work EXCEPT ![w] = Head(tq_worklist)]
            /\ Go(w, IF Tail(tq_worklist) = << >> THEN "call" ELSE "wakeup")
    /\ UNCHANGED <<tq_state, tq_running, freed, kindVars, creator, destroyer,
                   arg, wanted>>

WakeupNext(w) ==
    /\ pc[w] = "wakeup"
    /\ WakeupOne(w, "call")
    /\ UNCHANGED <<tqVars, kindVars, creator, destroyer, work, arg, wanted>>

\* The function starts.
CallTask(w) ==
    /\ pc[w] = "call"
    /\ Go(w, "running")
    /\ wanted' = wanted \ {work[w]}
    /\ UNCHANGED <<tqVars, kindVars, creator, destroyer, work, arg>>

TaskReturns(w) ==
    /\ pc[w] = "running"
    /\ Go(w, "next")
    /\ work' = [work EXCEPT ![w] = NoTask]
    /\ UNCHANGED <<tqVars, kindVars, creator, destroyer, arg, wanted>>

\* With the kernel lock tq_flags is loaded before anybody else runs.
ExitThread(w) ==
    /\ pc[w] = "exit" /\ ~freed
    /\ tq_running' = tq_running - 1
    /\ Go(w, IF tq_running = 1
             THEN IF MPSAFE THEN "lastflags" ELSE "last"
             ELSE IF MPSAFE THEN "flags" ELSE "none")
    /\ UNCHANGED <<tq_state, tq_worklist, onqueue, freed, kindVars, creator,
                   destroyer, work, arg, wanted>>

\* The loads of tq_flags after the mutex, without the kernel lock.
ExitFlags(w) ==
    /\ pc[w] \in {"flags", "lastflags"} /\ ~freed
    /\ Go(w, IF pc[w] = "flags" THEN "none" ELSE "last")
    /\ UNCHANGED <<tqVars, kindVars, creator, destroyer, work, arg, wanted>>

\* Mutant: a load of tq_flags after the wakeup.
ExitWakeupMutant(w) ==
    /\ pc[w] = "last"
    /\ WakeupDestroyer
    /\ Go(w, "flags")
    /\ UNCHANGED <<tqVars, kindVars, creator, work, arg, wanted>>

ExitWakeup(w) ==
    /\ pc[w] = "last"
    /\ WakeupDestroyer
    /\ Go(w, "none")
    /\ UNCHANGED <<tqVars, kindVars, creator, work, arg, wanted>>

-----------------------------------------------------------------------------
Creating == CreateStart \/ CreateThread \/ CreateFailed

InCall(a) == AddInsert(a) \/ AddWakeup(a) \/ DelRemove(a)

Working(w) ==
    \/ NextWork(w) \/ WakeupNext(w) \/ CallTask(w) \/ TaskReturns(w)
    \/ ExitThread(w) \/ ExitFlags(w) \/ ExitWakeup(w)

Next ==
    \/ taskq_create \/ Creating
    \/ taskq_destroy \/ DestroyLoop
    \/ \E w \in Thread : Working(w)
    \/ \E a \in Actor :
        \/ InCall(a)
        \/ \E t \in Task : task_add(a, t) \/ task_del(a, t)

Spec == Init /\ [][Next]_vars

\* Threads are scheduled, tasks return: "running" is left, too, however often
\* the task calls.
Fairness ==
    /\ WF_vars(Creating)
    /\ WF_vars(DestroyLoop)
    /\ \A w \in Thread : WF_vars(Working(w)) /\ SF_vars(TaskReturns(w))
    /\ \A a \in Actor : WF_vars(InCall(a))

FairSpec == Spec /\ Fairness

-----------------------------------------------------------------------------
Where == {"none", "next", "bored", "wakeup", "call", "running", "add",
          "addwakeup", "del", "exit", "flags", "lastflags", "last", "idle"}

TypeOK ==
    /\ tq_state \in {"created", "running", "destroyed"}
    /\ tq_running \in Nat
    /\ tq_worklist \in Seq(Task)
    /\ onqueue \subseteq Task /\ wanted \subseteq Task
    /\ freed \in BOOLEAN /\ deferred \in BOOLEAN
    /\ tq_nthreads \in Nat /\ MPSAFE \in BOOLEAN
    /\ creator \in {"start", "create", "failed", "done", "orphan"}
    /\ destroyer \in {"none", "wait", "asleep", "returned"}
    /\ pc \in [Actor -> Where]
    /\ work \in [Thread -> Task \cup {NoTask}]
    /\ arg \in [Actor -> Task \cup {NoTask}]

\* The threads that tq_running counts: from before kthread_create() until
\* they find no more work.
Counted == {w \in Thread : pc[w] \notin {"none", "flags", "lastflags", "last"}}

\* tq_running counts the threads that will still look at the worklist and the
\* one that is being created, through failures of kthread_create() and
\* threads that end while others are created: taskq_destroy() frees the queue
\* by this number.
RunningCounts ==
    ~freed => tq_running = Cardinality(Counted)
                            + (IF creator \in {"create", "failed"} THEN 1 ELSE 0)

\* No thread sleeps in taskq_next_work() while there is work, unless a wakeup
\* or a thread that will look at the worklist is on its way, although
\* wakeup_one() is called outside the mutex and may wake nobody.
NoBoredThread ==
    tq_worklist # << >> /\ Bored # {} =>
        \/ \E w \in Thread : pc[w] \in {"next", "wakeup"}
        \/ \E a \in Actor : pc[a] = "addwakeup"

\* A task_add() is good for one start of the function after the call, unless
\* task_del() took the task off, even if it returned 0 because it saw
\* TASK_ONQUEUE without the mutex.
NoLostTask ==
    \A t \in wanted :
        \/ Contains(tq_worklist, t)
        \/ \E w \in Thread : pc[w] \in {"wakeup", "call"} /\ work[w] = t
        \/ \E a \in Actor : pc[a] = "add" /\ arg[a] = t

\* Once taskq_destroy() has returned there is no task left to do or being
\* done: "It will wait till all the tasks in the work queue are completed
\* before returning" (task_add.9).  Exceptions are a queue created before
\* there was init, for all of its life although it drops its tasks only until
\* it has threads, and one for which no thread could be created.
DestroyCompletes ==
    destroyer = "returned" /\ ~deferred /\ creator # "orphan" =>
        /\ tq_worklist = << >>
        /\ \A w \in Thread : pc[w] \notin {"wakeup", "call", "running"}

\* Nobody is in the middle of code that uses the queue.
Unused ==
    /\ Created
    /\ \A w \in Thread : pc[w] \in {"none", "last"}
    /\ \A a \in Caller : pc[a] = "idle"

\* A queue that is freed is not used any more, by the thread whose wakeup
\* taskq_destroy() waits for, by other threads that end, or by
\* taskq_create_thread().
NoUseAfterFree == freed => Unused

\* taskq_destroy() returns only when the tasks are done and frees the queue
\* only when nobody uses it, however its threads start, fail to start and end
\* meanwhile.
DestroySafe == DestroyCompletes /\ NoUseAfterFree

\* Every task on the worklist of a queue that has a thread is taken off it.
TaskServed ==
    \A t \in Task :
        Contains(tq_worklist, t) /\ Counted # {} ~> ~Contains(tq_worklist, t)

\* taskq_destroy() returns, whatever state of the thread creation it meets,
\* unless tasks keep adding tasks.
DestroyReturns ==
    (destroyer \in {"wait", "asleep"} ~> destroyer = "returned")
        \/ []<>(\E w \in Thread : pc[w] = "add")

\* Tasks are served and a destruction ends, although wakeups come after the
\* mutex is released and threads fail to be created.
Progress == TaskServed /\ DestroyReturns

-----------------------------------------------------------------------------
(***************************************************************************)
(* The parts of the inductive invariant behind these.                       *)
(***************************************************************************)

\* TASK_ONQUEUE is set for the tasks on the worklist, which are there once.
OnQueue ==
    /\ \A t \in Task : t \in onqueue <=> Contains(tq_worklist, t)
    /\ IsInjective(tq_worklist)

\* tq_running is exact before the queue is there and once it is gone, too.
Exact ==
    tq_running = Cardinality(Counted) + (IF creator \in {"create", "failed"} THEN 1 ELSE 0)

\* What queues there are: at most tq_nthreads threads, and not none.
Kind ==
    /\ tq_running <= tq_nthreads
    /\ ~freed => tq_nthreads > 0
    /\ MPSAFE => \E k \in Kinds : k.mpsafe /\ k.n = tq_nthreads

\* The life of a queue: what its creation, its destruction and its state have
\* to do with each other.
Life ==
    /\ freed => destroyer = "returned" /\ Created /\ Counted = {}
    /\ destroyer = "returned" => freed \/ (creator = "start" /\ tq_state = "destroyed")
    /\ creator = "start" => ~freed /\ tq_state # "running"
                            /\ \A w \in Thread : pc[w] = "none"
    /\ tq_state = "created" => creator = "start"
    /\ tq_state = "destroyed" <=> destroyer # "none"
    /\ ~Created /\ destroyer # "none" => deferred
    /\ creator = "start" /\ tq_state = "destroyed" => destroyer = "returned"
    /\ creator = "done" /\ tq_state = "running" => Counted # {}

\* Who is where: callers have returned before the queue is destroyed, threads
\* end after that, and only one of them is the last.
Leaving ==
    /\ \A a \in Caller : pc[a] \in {"idle", "add", "addwakeup", "del"}
    /\ \A w \in Thread : pc[w] # "idle"
    /\ destroyer # "none" => \A a \in Caller : pc[a] = "idle"
    /\ \A w \in Thread :
        /\ pc[w] \in {"exit", "flags", "lastflags", "last"} => tq_state = "destroyed"
        /\ pc[w] = "flags" => MPSAFE /\ tq_nthreads > 1
        /\ pc[w] = "lastflags" => ~freed
        /\ pc[w] \in {"lastflags", "last"} =>
              tq_running = 0 /\ \A v \in Thread : pc[v] \in {"lastflags", "last"} => v = w
    /\ destroyer = "wait" => /\ tq_running = 0
                             /\ \A w \in Thread : pc[w] \notin {"lastflags", "last"}

\* Work that is left when the queue is being destroyed has a thread to do it.
LeftWork ==
    tq_state = "destroyed" /\ tq_worklist # << >> =>
        \/ deferred \/ creator = "orphan"
        \/ \E w \in Counted : pc[w] # "exit"

\* What threads and callers have in their hands
Hands ==
    /\ \A a \in Actor : pc[a] \in {"add", "del"} => arg[a] \in Task
    /\ \A w \in Thread : pc[w] \in {"wakeup", "call"} => work[w] \in Task

TaskqInv ==
    /\ TypeOK /\ Exact /\ OnQueue /\ Hands
    /\ NoBoredThread /\ NoLostTask
    /\ Kind /\ Life /\ Leaving /\ LeftWork
=============================================================================
