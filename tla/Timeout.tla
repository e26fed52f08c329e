------------------------------ MODULE Timeout ------------------------------
(***************************************************************************)
(* The kernel's timeouts (sys/kern/kern_timeout.c): a hierarchical timing   *)
(* wheel of four levels, the hardclock that turns it, and the softclocks    *)
(* that empty its worklist and call the functions.                          *)
(*                                                                         *)
(* The code has WHEELSIZE = 256 (WHEELBITS = 8) and 32-bit ints.  Here      *)
(* WHEELSIZE is a parameter and an int has WHEELSIZE^4 values, so that the  *)
(* top level of the wheel ends where the ints do, as in the code.  The      *)
(* worklist is a sequence; a bucket is the set of timeouts whose `queue' is *)
(* its number, and they reach the worklist in any order.  Everything the    *)
(* code does between mtx_enter(&timeout_mutex) and mtx_leave() is one step. *)
(***************************************************************************)
EXTENDS Integers, Sequences, FiniteSets, SequencesExt

CONSTANTS
    WHEELSIZE,   \* buckets in one level of the wheel
    To,          \* the timeouts
    NoTo,        \* no timeout
    Cpu,         \* processors
    Primary,     \* the one that runs timeout_hardclock_update()
    AddTicks,    \* the values timeout_add() is called with
    AdjTicks,    \* the values timeout_adjust_ticks() is called with
    MaxLag       \* by how many ticks softclock may be late

\* "1 << (wheel * WHEELBITS)": the ticks in a bucket of a level
Span(wheel) ==
    CASE wheel = 0 -> 1
      [] wheel = 1 -> WHEELSIZE
      [] wheel = 2 -> WHEELSIZE * WHEELSIZE
      [] wheel = 3 -> WHEELSIZE * WHEELSIZE * WHEELSIZE

INT_SIZE == Span(3) * WHEELSIZE
INT_MAX == INT_SIZE \div 2 - 1

ASSUME TimeoutAssumption ==
    /\ WHEELSIZE \in Nat \ {0, 1}
    /\ IsFiniteSet(To) /\ NoTo \notin To
    /\ Primary \in Cpu
    /\ AddTicks \subseteq 0 .. INT_MAX
    /\ AdjTicks \subseteq 1 .. INT_MAX
    /\ MaxLag \in 0 .. INT_MAX

VARIABLES
    ticks,      \* an int, wrapping; kept as its two's complement bits
    to_time,    \* the value of ticks at which a timeout is due; nothing reads
                \* it while the timeout is on no queue, where it is set to 0
    queue,      \* the queue a timeout is on: a bucket of the wheel, Todo or Off
    todo,       \* timeout_todo, the worklist
    triggered,  \* TIMEOUT_TRIGGERED
    softintr,   \* a softclock interrupt is pending on a processor
    pc,         \* where a processor is in softclock(): idle, loop, lock, call
    to,         \* the timeout softclock() is calling on a processor
    left        \* history: ticks until a queued timeout should run, unwrapped

vars == <<ticks, to_time, queue, todo, triggered, softintr, pc, to, left>>

BUCKETS == 4 * WHEELSIZE
Todo == BUCKETS
Off == BUCKETS + 1

\* TIMEOUT_ONQUEUE; CIRCQ_INSERT and CIRCQ_REMOVE change it with the queue.
OnQueue(t) == queue[t] # Off

Signed(x) == IF x % INT_SIZE <= INT_MAX THEN x % INT_SIZE
             ELSE (x % INT_SIZE) - INT_SIZE

\* "to->to_time - ticks" in C.
Rel(t) == Signed(to_time[t] - ticks)

MASKWHEEL(wheel, time) == (time \div Span(wheel)) % WHEELSIZE

BUCKET(rel, abs) ==
    IF rel <= Span(1) THEN MASKWHEEL(0, abs)
    ELSE IF rel <= Span(2) THEN MASKWHEEL(1, abs) + WHEELSIZE
    ELSE IF rel <= Span(3) THEN MASKWHEEL(2, abs) + 2 * WHEELSIZE
    ELSE MASKWHEEL(3, abs) + 3 * WHEELSIZE

\* The buckets MOVEBUCKET empties when the time becomes `time'.
Moved(time) ==
    {MASKWHEEL(w, time) + w * WHEELSIZE :
        w \in {v \in 0 .. 3 : \A u \in 0 .. (v - 1) : MASKWHEEL(u, time) = 0}}

Init ==
    /\ ticks = 0
    /\ to_time = [t \in To |-> 0]
    /\ queue = [t \in To |-> Off]
    /\ todo = <<>>
    /\ triggered = [t \in To |-> FALSE]
    /\ softintr = [c \in Cpu |-> FALSE]
    /\ pc = [c \in Cpu |-> "idle"]
    /\ to = [c \in Cpu |-> NoTo]
    /\ left = [t \in To |-> 0]

-----------------------------------------------------------------------------
\* CIRCQ_REMOVE() from the worklist, if t is there
Without(list, t) == RemoveFirst(list, t)

\* Mutant: CIRCQ_INSERT without the CIRCQ_REMOVE.
RequeueMutant(t) ==
    /\ queue' = [queue EXCEPT ![t] = Todo]
    /\ todo' = Append(todo, t)

\* CIRCQ_REMOVE from wherever t is, CIRCQ_INSERT at the end of the worklist
Requeue(t) ==
    /\ queue' = [queue EXCEPT ![t] = Todo]
    /\ todo' = Append(Without(todo, t), t)

\* CIRCQ_APPEND of buckets that hold the timeouts S
ToWorklist(S) ==
    /\ queue' = [t \in To |-> IF t \in S THEN Todo ELSE queue[t]]
    /\ \E s \in SetToSeqs(S) : todo' = todo \o s

\* Mutant: compares the wrapping times themselves, not their distances.
AddTimeoutMutant(t, to_ticks) ==
    /\ to_time' = [to_time EXCEPT ![t] = (to_ticks + ticks) % INT_SIZE]
    /\ triggered' = [triggered EXCEPT ![t] = FALSE]
    /\ IF ~OnQueue(t) \/ Signed(to_ticks + ticks) < Signed(to_time[t])
       THEN Requeue(t) ELSE UNCHANGED <<queue, todo>>
    /\ left' = [left EXCEPT ![t] = to_ticks]

\* A timeout that is queued and now due later stays where it is until its
\* bucket comes up.
AddTimeout(t, to_ticks) ==
    /\ to_time' = [to_time EXCEPT ![t] = (to_ticks + ticks) % INT_SIZE]
    /\ triggered' = [triggered EXCEPT ![t] = FALSE]
    /\ IF ~OnQueue(t) \/ to_ticks < Rel(t)
       THEN Requeue(t) ELSE UNCHANGED <<queue, todo>>
    /\ left' = [left EXCEPT ![t] = to_ticks]

\* timeout_add(), called with ticks or through timeout_add_tv() to
\* timeout_add_nsec(), which convert and limit to INT_MAX.
timeout_add(t, to_ticks) ==
    /\ AddTimeout(t, to_ticks)
    /\ UNCHANGED <<ticks, softintr, pc, to>>

timeout_del(t) ==
    /\ queue' = [queue EXCEPT ![t] = Off]
    /\ todo' = Without(todo, t)
    /\ triggered' = [triggered EXCEPT ![t] = FALSE]
    /\ left' = [left EXCEPT ![t] = 0]
    /\ to_time' = [to_time EXCEPT ![t] = 0]
    /\ UNCHANGED <<ticks, softintr, pc, to>>

\* Mutant: asks for a softclock only when a bucket moved.
timeout_hardclock_updateMutant ==
    LET now == (ticks + 1) % INT_SIZE IN
    /\ \A t \in To : OnQueue(t) => left[t] > -MaxLag
    /\ ticks' = now
    /\ ToWorklist({t \in To : queue[t] \in Moved(now)})
    /\ softintr' = [softintr EXCEPT
                        ![Primary] = @ \/ \E t \in To : queue[t] \in Moved(now)]
    /\ left' = [t \in To |-> IF OnQueue(t) THEN left[t] - 1 ELSE 0]
    /\ UNCHANGED <<to_time, triggered, pc, to>>

\* timeout_hardclock_update(), and hardclock() that called it.
timeout_hardclock_update ==
    LET now == (ticks + 1) % INT_SIZE IN
    /\ \A t \in To : OnQueue(t) => left[t] > -MaxLag
    /\ ticks' = now
    /\ ToWorklist({t \in To : queue[t] \in Moved(now)})
    /\ softintr' = [softintr EXCEPT
                        ![Primary] = @ \/ todo' # <<>>]
    /\ left' = [t \in To |-> IF OnQueue(t) THEN left[t] - 1 ELSE 0]
    /\ UNCHANGED <<to_time, triggered, pc, to>>

\* proc_stop() adds its timeout with 0 ticks, and asks for a softclock on the
\* processor it runs on.
proc_stop(c, t) ==
    /\ ~OnQueue(t)
    /\ AddTimeout(t, 0)
    /\ softintr' = [softintr EXCEPT ![c] = TRUE]
    /\ UNCHANGED <<ticks, pc, to>>

\* timeout_adjust_ticks(): time jumps forward.  What is in the wheel goes back
\* to the worklist; what would have come due meanwhile is due now.
timeout_adjust_ticks(adj) ==
    LET new_ticks == (ticks + adj) % INT_SIZE
        moved(t) == queue[t] \in 0 .. BUCKETS - 1
        overtaken(t) == moved(t) /\ Rel(t) < adj
    IN  /\ \A t \in To : queue[t] = Todo => left[t] - adj > -MaxLag
        /\ to_time' = [t \in To |-> IF overtaken(t) THEN new_ticks ELSE to_time[t]]
        /\ ToWorklist({t \in To : moved(t)})
        /\ ticks' = new_ticks
        /\ left' = [t \in To |-> IF ~OnQueue(t) \/ overtaken(t) THEN 0
                                 ELSE left[t] - adj]
        /\ UNCHANGED <<triggered, softintr, pc, to>>

-----------------------------------------------------------------------------
(***************************************************************************)
(* softclock(), on any processor.                                           *)
(***************************************************************************)
SoftclockStart(c) ==
    /\ pc[c] = "idle" /\ softintr[c]
    /\ softintr' = [softintr EXCEPT ![c] = FALSE]
    /\ pc' = [pc EXCEPT ![c] = "loop"]
    /\ UNCHANGED <<ticks, to_time, queue, todo, triggered, to, left>>

SoftclockEnd(c) ==
    /\ pc[c] = "loop"
    /\ todo = <<>>
    /\ pc' = [pc EXCEPT ![c] = "idle"]
    /\ UNCHANGED <<ticks, to_time, queue, todo, triggered, softintr, to, left>>

First(t) == todo # <<>> /\ t = Head(todo)

\* An element that is not due goes into the wheel.
SoftclockInsert(c, t) ==
    /\ pc[c] = "loop" /\ First(t)
    /\ Rel(t) > 0
    /\ todo' = Tail(todo)
    /\ queue' = [queue EXCEPT ![t] = BUCKET(Rel(t), to_time[t])]
    /\ UNCHANGED <<ticks, to_time, triggered, softintr, pc, to, left>>

\* Mutant: takes a timeout that is due at the next tick, too.
SoftclockTakeMutant(c, t) ==
    /\ pc[c] = "loop" /\ First(t)
    /\ Rel(t) <= 1
    /\ todo' = Tail(todo)
    /\ queue' = [queue EXCEPT ![t] = Off]
    /\ triggered' = [triggered EXCEPT ![t] = TRUE]
    /\ to' = [to EXCEPT ![c] = t]
    /\ pc' = [pc EXCEPT ![c] = "lock"]
    /\ to_time' = [to_time EXCEPT ![t] = 0]
    /\ left' = [left EXCEPT ![t] = 0]
    /\ UNCHANGED <<ticks, softintr>>

\* One that is due leaves the queue before its function is called.
SoftclockTake(c, t) ==
    /\ pc[c] = "loop" /\ First(t)
    /\ Rel(t) <= 0
    /\ todo' = Tail(todo)
    /\ queue' = [queue EXCEPT ![t] = Off]
    /\ triggered' = [triggered EXCEPT ![t] = TRUE]
    /\ to' = [to EXCEPT ![c] = t]
    /\ pc' = [pc EXCEPT ![c] = "lock"]
    /\ to_time' = [to_time EXCEPT ![t] = 0]
    /\ left' = [left EXCEPT ![t] = 0]
    /\ UNCHANGED <<ticks, softintr>>

\* _kernel_lock(), unless TIMEOUT_MPSAFE, and the call.
SoftclockCall(c) ==
    /\ pc[c] = "lock"
    /\ pc' = [pc EXCEPT ![c] = "call"]
    /\ UNCHANGED <<ticks, to_time, queue, todo, triggered, softintr, to, left>>

SoftclockReturn(c) ==
    /\ pc[c] = "call"
    /\ pc' = [pc EXCEPT ![c] = "loop"]
    /\ to' = [to EXCEPT ![c] = NoTo]
    /\ UNCHANGED <<ticks, to_time, queue, todo, triggered, softintr, left>>

softclock(c) ==
    \/ SoftclockStart(c) \/ SoftclockEnd(c)
    \/ \E t \in To : SoftclockInsert(c, t) \/ SoftclockTake(c, t)
    \/ SoftclockCall(c) \/ SoftclockReturn(c)

Next ==
    \/ \E t \in To, n \in AddTicks : timeout_add(t, n)
    \/ \E t \in To : timeout_del(t)
    \/ timeout_hardclock_update
    \/ \E n \in AdjTicks : timeout_adjust_ticks(n)
    \/ \E c \in Cpu, t \in To : proc_stop(c, t)
    \/ \E c \in Cpu : softclock(c)

Spec == Init /\ [][Next]_vars

\* The clock keeps interrupting, and softclock() runs with nothing but hard
\* interrupts above it.
FairSpec ==
    /\ Spec
    /\ WF_vars(timeout_hardclock_update)
    /\ \A c \in Cpu : WF_vars(softclock(c))

-----------------------------------------------------------------------------
TypeOK ==
    /\ ticks \in 0 .. INT_SIZE - 1
    /\ to_time \in [To -> 0 .. INT_SIZE - 1]
    /\ queue \in [To -> 0 .. Off]
    /\ todo \in Seq(To) /\ IsInjective(todo)
    /\ ToSet(todo) = {t \in To : queue[t] = Todo}
    /\ triggered \in [To -> BOOLEAN]
    /\ softintr \in [Cpu -> BOOLEAN]
    /\ pc \in [Cpu -> {"idle", "loop", "lock", "call"}]
    /\ to \in [Cpu -> To \cup {NoTo}]
    /\ left \in [To -> -MaxLag .. INT_MAX]

\* A timeout that sits in a bucket of the wheel is not due: whatever level it
\* was put in, wherever it was left by a timeout_add() that postponed it, and
\* across the wrap of ticks, its bucket moves to the worklist no later than
\* the tick it is due.
BucketMovesInTime ==
    \A t \in To : queue[t] \in 0 .. BUCKETS - 1 => left[t] > 0

\* softclock() takes a timeout off the queue
Taken(t) == OnQueue(t) /\ queue'[t] = Off /\ triggered'[t]

\* No timeout runs before as many ticks have passed as the last timeout_add()
\* asked for, or timeout_adjust_ticks() skipped: timeout.9 "schedules the
\* execution of the to timeout in at least ticks/hz seconds".
NotEarly == [][\A t \in To : Taken(t) => left[t] <= 0]_vars

\* A timeout that is due and neither deleted nor postponed runs: a softclock
\* is always asked for, whichever way it came to be on the worklist, and no
\* softclock that is running passes it by.
DueRuns ==
    \A t \in To : OnQueue(t) /\ left[t] <= 0 ~> ~OnQueue(t) \/ left[t] > 0

-----------------------------------------------------------------------------
(***************************************************************************)
(* The inductive invariant behind BucketMovesInTime and NotEarly.           *)
(***************************************************************************)

\* "to->to_time - ticks" is how far in the future a timeout is.
TimesMatch ==
    \A t \in To : OnQueue(t) => to_time[t] = (ticks + left[t]) % INT_SIZE

\* The bucket that a timeout is in will be emptied by the time it is due.
BucketComesUp ==
    \A t \in To : queue[t] \in 0 .. BUCKETS - 1 =>
        \E d \in 1 .. left[t] : queue[t] \in Moved((ticks + d) % INT_SIZE)

TimeoutInv == TypeOK /\ TimesMatch /\ BucketComesUp
=============================================================================
