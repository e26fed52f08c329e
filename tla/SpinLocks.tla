----------------------------- MODULE SpinLocks ------------------------------
(***************************************************************************)
(* Processors that take an __mp_lock and a mutex, in process context and in *)
(* interrupt handlers that interrupt each other: MPLock and Mutex together  *)
(* with the interrupt priority level of each processor.                     *)
(*                                                                         *)
(* A context is a processor and a level: 0 is process context, l > 0 the    *)
(* handler of an interrupt at level l, which can only be running once since *)
(* it blocks itself.  The running context of a processor is the highest     *)
(* that is not "off".  The rules that callers keep, as all of the kernel    *)
(* does: a handler that takes the __mp_lock has a level of at most IPL_TTY, *)
(* one that enters the mutex at most the level the mutex was made for, the  *)
(* kernel lock is not taken with the mutex held, mutexes do not nest, and   *)
(* everything is released again.  (SCHED_LOCK, the other __mp_lock, is      *)
(* taken with a mutex held, by a wakeup() under tq_mtx for one: its levels  *)
(* are all blocked then, and it is not modelled beside the mutex.)          *)
(***************************************************************************)
EXTENDS MPLock, Mutex, Functions

CONSTANTS
    Intr,       \* levels of the interrupts
    MpLevel,    \* levels whose code takes the __mp_lock
    MtxLevel,   \* levels whose code enters the mutex
    MaxDepth,   \* bound: nesting of __mp_lock() in one context
    MaxTicket   \* bound: number of mutex tickets taken

Level == {0} \cup Intr

ASSUME SpinLocksAssumption ==
    /\ NoCpu \notin Cpu
    /\ Intr \subseteq Nat \ {0} /\ IsFiniteSet(Intr)
    /\ MpLevel \subseteq Level /\ \A l \in MpLevel : l <= IPL_TTY
    /\ MtxLevel \subseteq Level /\ \A l \in MtxLevel : l <= ipl
    /\ MaxDepth \in Nat /\ MaxTicket \in Nat

VARIABLES
    cpl,    \* the interrupt priority level of a processor
    pc,     \* where a context is
    base,   \* the level of the code a context interrupted
    n,      \* how often a context has the __mp_lock
    count,  \* what __mp_release_all() and ..._but_one() returned to it
    s,      \* mtx_enter(), mtx_leave(): the old level
    t       \* mtx_enter(): the ticket

ctxVars == <<cpl, pc, base, n, count, s, t>>
vars == <<mplVars, mtxVars, ctxVars>>

\* a value for each context
PerContext(S) == [Cpu -> [Level -> S]]

Runs(c, l) == pc[c][l] # "off" /\ \A k \in Level : k > l => pc[c][k] = "off"

At(c, l, where) == Runs(c, l) /\ pc[c][l] = where
Go(c, l, where) == pc' = [pc EXCEPT ![c][l] = where]

Init ==
    /\ MplInit /\ mtx_init
    /\ cpl = [c \in Cpu |-> IPL_NONE]
    /\ pc = [c \in Cpu |-> [l \in Level |-> IF l = 0 THEN "run" ELSE "off"]]
    /\ base = [c \in Cpu |-> [l \in Level |-> IPL_NONE]]
    /\ n = [c \in Cpu |-> [l \in Level |-> 0]]
    /\ count = [c \in Cpu |-> 0]
    /\ s = [c \in Cpu |-> [l \in Level |-> IPL_NONE]]
    /\ t = [c \in Cpu |-> [l \in Level |-> 0]]

-----------------------------------------------------------------------------
(***************************************************************************)
(* Interrupts.                                                              *)
(***************************************************************************)
Interrupt(c, l) ==
    /\ l \in Intr /\ cpl[c] < l /\ pc[c][l] = "off"
    /\ cpl' = [cpl EXCEPT ![c] = l]
    /\ base' = [base EXCEPT ![c][l] = cpl[c]]
    /\ Go(c, l, "run")
    /\ UNCHANGED <<mplVars, mtxVars, n, count, s, t>>

IntrReturn(c, l) ==
    /\ l \in Intr /\ At(c, l, "run") /\ n[c][l] = 0
    /\ cpl' = [cpl EXCEPT ![c] = base[c][l]]
    /\ Go(c, l, "off")
    /\ base' = [base EXCEPT ![c][l] = IPL_NONE]
    /\ UNCHANGED <<mplVars, mtxVars, n, count, s, t>>

-----------------------------------------------------------------------------
(***************************************************************************)
(* __mp_lock().                                                             *)
(***************************************************************************)
MpLock(c, l) ==
    /\ l \in MpLevel /\ At(c, l, "run") /\ n[c][l] < MaxDepth
    /\ mp_lock(c)
    /\ Go(c, l, "mp")
    /\ UNCHANGED <<mtxVars, cpl, base, n, count, s, t>>

\* The spin ends; __mp_acquire_count() goes on until its count is used up.
MpGranted(c, l) ==
    /\ At(c, l, "mp") /\ mp_lock_turn(c)
    /\ n' = [n EXCEPT ![c][l] = @ + 1]
    /\ Go(c, l, IF l = 0 /\ count[c] > 0 THEN "acquire" ELSE "run")
    /\ UNCHANGED <<mplVars, mtxVars, cpl, base, count, s, t>>

MpUnlock(c, l) ==
    /\ At(c, l, "run") /\ n[c][l] > 0
    /\ mp_unlock(c)
    /\ n' = [n EXCEPT ![c][l] = @ - 1]
    /\ UNCHANGED <<mtxVars, cpl, pc, base, count, s, t>>

\* mi_switch() and others give the lock up altogether if they hold it.
ReleaseAll(c) ==
    /\ At(c, 0, "run") /\ mp_lock_held(c)
    /\ mp_release_all(c)
    /\ count' = [count EXCEPT ![c] = mplc_depth[c]]
    /\ n' = [n EXCEPT ![c][0] = 0]
    /\ Go(c, 0, "acquire")
    /\ UNCHANGED <<mtxVars, cpl, base, s, t>>

\* mi_switch() on SCHED_LOCK: one level stays, for the next thread to release.
ReleaseAllButOne(c) ==
    /\ At(c, 0, "run") /\ mp_lock_held(c)
    /\ mp_release_all_but_one(c)
    /\ count' = [count EXCEPT ![c] = mplc_depth[c] - 1]
    /\ n' = [n EXCEPT ![c][0] = 1]
    /\ Go(c, 0, "handover")
    /\ UNCHANGED <<mtxVars, cpl, base, s, t>>

HandOver(c) ==
    /\ At(c, 0, "handover")
    /\ mp_unlock(c)
    /\ count' = [count EXCEPT ![c] = @ + 1]
    /\ n' = [n EXCEPT ![c][0] = 0]
    /\ Go(c, 0, "acquire")
    /\ UNCHANGED <<mtxVars, cpl, base, s, t>>

\* One round of __mp_acquire_count().
AcquireCount(c) ==
    /\ At(c, 0, "acquire")
    /\ count' = [count EXCEPT ![c] = @ - 1]
    /\ mp_lock(c)
    /\ Go(c, 0, "mp")
    /\ UNCHANGED <<mtxVars, cpl, base, n, s, t>>

-----------------------------------------------------------------------------
(***************************************************************************)
(* The mutex.                                                               *)
(***************************************************************************)

\* splraise() and splx(), unless the mutex is of level IPL_NONE
Raise(c, l) ==
    /\ s' = [s EXCEPT ![c][l] = IF mtx_wantipl = IPL_NONE THEN IPL_NONE ELSE cpl[c]]
    /\ cpl' = [cpl EXCEPT ![c] = IF mtx_wantipl > @ THEN mtx_wantipl ELSE @]

Lower(c, l) ==
    cpl' = [cpl EXCEPT ![c] = IF mtx_wantipl = IPL_NONE THEN @ ELSE s[c][l]]

\* The locals of mtx_enter() and mtx_leave() are dead.
Forget(c, l) ==
    /\ s' = [s EXCEPT ![c][l] = IPL_NONE]
    /\ t' = [t EXCEPT ![c][l] = 0]

MtxEnter(c, l) ==
    /\ l \in MtxLevel /\ At(c, l, "run") /\ mtx_ticket < MaxTicket
    /\ Raise(c, l)
    /\ \/ Go(c, l, "enter")
       \/ Go(c, l, "try")
    /\ UNCHANGED <<mplVars, mtxVars, base, n, count, t>>

MtxTicket(c, l) ==
    /\ At(c, l, "enter")
    /\ mtx_take
    /\ t' = [t EXCEPT ![c][l] = mtx_ticket]
    /\ Go(c, l, "spin")
    /\ UNCHANGED <<mplVars, cpl, base, n, count, s>>

MtxTurn(c, l) ==
    /\ At(c, l, "spin") /\ mtx_cur = t[c][l]
    /\ Go(c, l, "store")
    /\ UNCHANGED <<mplVars, mtxVars, cpl, base, n, count, s, t>>

MtxStore(c, l) ==
    /\ At(c, l, "store")
    /\ mtx_store(c, s[c][l])
    /\ Go(c, l, "held")
    /\ Forget(c, l)
    /\ UNCHANGED <<mplVars, cpl, base, n, count>>

TryLoad(c, l) ==
    /\ At(c, l, "try")
    /\ t' = [t EXCEPT ![c][l] = mtx_cur]
    /\ Go(c, l, "cas")
    /\ UNCHANGED <<mplVars, mtxVars, cpl, base, n, count, s>>

\* Mutant: takes a ticket whoever has the one before.
TryCasMutant(c, l) ==
    /\ At(c, l, "cas")
    /\ mtx_take /\ Go(c, l, "store") /\ UNCHANGED cpl
    /\ UNCHANGED <<mplVars, base, n, count, s, t>>

\* The ticket is taken only if it is the one being served.
TryCas(c, l) ==
    /\ At(c, l, "cas")
    /\ IF mtx_ticket = t[c][l]
       THEN mtx_take /\ Go(c, l, "store") /\ UNCHANGED <<cpl, s, t>>
       ELSE Lower(c, l) /\ Go(c, l, "run") /\ UNCHANGED mtxVars
            /\ Forget(c, l)
    /\ UNCHANGED <<mplVars, base, n, count>>

MtxClear(c, l) ==
    /\ At(c, l, "held")
    /\ s' = [s EXCEPT ![c][l] = mtx_oldipl]
    /\ mtx_clear
    /\ Go(c, l, "pass")
    /\ UNCHANGED <<mplVars, cpl, base, n, count, t>>

MtxPass(c, l) ==
    /\ At(c, l, "pass")
    /\ mtx_pass
    /\ Go(c, l, "splx")
    /\ UNCHANGED <<mplVars, cpl, base, n, count, s, t>>

\* Mutant: looks the old level up in the mutex, which others may have by now.
MtxSplxMutant(c, l) ==
    /\ At(c, l, "splx")
    /\ cpl' = [cpl EXCEPT ![c] = mtx_oldipl]
    /\ Go(c, l, "run")
    /\ UNCHANGED <<mplVars, mtxVars, base, n, count, s, t>>

MtxSplx(c, l) ==
    /\ At(c, l, "splx")
    /\ Lower(c, l)
    /\ Go(c, l, "run")
    /\ Forget(c, l)
    /\ UNCHANGED <<mplVars, mtxVars, base, n, count>>

-----------------------------------------------------------------------------
\* What a context goes on to do by itself.
Work(c, l) ==
    \/ MpGranted(c, l)
    \/ MtxTicket(c, l) \/ MtxTurn(c, l) \/ MtxStore(c, l)
    \/ TryLoad(c, l) \/ TryCas(c, l)
    \/ MtxClear(c, l) \/ MtxPass(c, l) \/ MtxSplx(c, l)
    \/ l = 0 /\ (HandOver(c) \/ AcquireCount(c))

Next ==
    \E c \in Cpu :
        \/ ReleaseAll(c) \/ ReleaseAllButOne(c)
        \/ \E l \in Level :
            \/ Work(c, l)
            \/ Interrupt(c, l) \/ IntrReturn(c, l)
            \/ MpLock(c, l) \/ MpUnlock(c, l)
            \/ MtxEnter(c, l)

Spec == Init /\ [][Next]_vars

\* A processor goes on; handlers return, and locks that are held are released,
\* sooner or later.
Fairness ==
    \A c \in Cpu :
        /\ WF_vars(\E l \in Level : Work(c, l))
        /\ SF_vars(\E l \in Level : IntrReturn(c, l))
        /\ SF_vars(\E l \in Level : MpUnlock(c, l))

-----------------------------------------------------------------------------
Where == {"off", "run", "mp", "acquire", "handover", "enter", "spin", "store",
          "held", "try", "cas", "pass", "splx"}

\* The types of the mutex and of what a context does with it
MutexTypes ==
    /\ mtx_owner \in Cpu \cup {NoCpu}
    /\ mtx_oldipl \in Nat /\ mtx_ticket \in Nat /\ mtx_cur \in Nat
    /\ cpl \in [Cpu -> Nat]
    /\ pc \in PerContext(Where)
    /\ base \in PerContext(Nat) /\ s \in PerContext(Nat) /\ t \in PerContext(Nat)

TypeOK ==
    /\ MutexTypes
    /\ MplTypeOK
    /\ n \in PerContext(Nat)
    /\ count \in [Cpu -> Nat]

\* Two processors never have the __mp_lock at once, even though interrupt
\* handlers share the ticket their processor is spinning with and tickets
\* wrap: "while (mpl->mpl_ticket != me)".
KernelLockExclusive ==
    \A c, d \in Cpu, k, l \in Level : n[c][k] > 0 /\ n[d][l] > 0 => c = d

\* The locks of each context of a processor, the one it spins for included
Locks(c) == [l \in Level |-> n[c][l] + (IF pc[c][l] = "mp" THEN 1 ELSE 0)]

\* The depth a processor keeps is what its contexts, the interrupted ones
\* too, have locked and still have to unlock, __mp_release_all() and
\* __mp_acquire_count() included; so the last unlock, and no other, passes
\* the lock on.
DepthIsNesting == \A c \in Cpu : mplc_depth[c] = SumFunction(Locks(c))

\* The kernel lock, used nested and given up altogether while handlers come
\* and go, stays exclusive and keeps the right depth: __mp_lock(),
\* __mp_unlock(), __mp_release_all() and __mp_acquire_count() together.
KernelLockSound == KernelLockExclusive /\ DepthIsNesting

\* A context has the mutex from its turn until mtx_cur moves on.
InMutex(c, l) == pc[c][l] \in {"store", "held", "pass"}

\* At most one context of one processor has the mutex, whether it waited in
\* mtx_enter() or compared a stale mtx_cur in mtx_enter_try().
MutexExclusive ==
    \A c, d \in Cpu, k, l \in Level :
        InMutex(c, k) /\ InMutex(d, l) => c = d /\ k = l

\* The KASSERTs of kern_mutex.c: mtx_store() finds the mutex clear,
\* mtx_clear() finds it owned by the processor, and mtx_enter() is never
\* called on a processor that owns the mutex, in whatever context.
NoPanic ==
    \A c \in Cpu, l \in Level :
        /\ pc[c][l] = "store" => mtx_owner = NoCpu /\ mtx_oldipl = IPL_NONE
        /\ pc[c][l] = "held" => mtx_owner = c
        /\ pc[c][l] \in {"enter", "try"} => mtx_owner # c

\* Code between splraise() and splx()
InCode(c, l) == pc[c][l] \in {"enter", "try", "cas", "spin", "store", "held",
                              "pass", "splx"}

\* Code that is done with the mutex runs at the level it had before it,
\* although the level is kept in the mutex, which somebody else may have by
\* the time of the splx().
IplRestored ==
    \A c \in Cpu, l \in Level : Runs(c, l) /\ ~InCode(c, l) => cpl[c] = l

\* No handler spins on top of code that has a ticket of the mutex: not for the
\* mutex, whose next ticket may be that of the code it interrupted, and not for
\* the __mp_lock, whose owner may be spinning for the mutex.  The last is what
\* __MUTEX_IPL is for: "To prevent lock ordering problems with the kernel
\* lock, we need to make sure we block all interrupts that can grab the kernel
\* lock" (sys/mutex.h).
LockOrder ==
    \A c \in Cpu, k, l \in Level :
        k > l /\ pc[c][k] \in {"mp", "spin"} => pc[c][l] # "spin" /\ ~InMutex(c, l)

\* Everyone who waits for the __mp_lock or the mutex gets it, unless held up
\* by interrupts for ever: the tickets are served in order, the spins of
\* __mp_lock() and mtx_enter() end, and no two processors wait for each other.
EveryoneIsServed ==
    \A c \in Cpu, l \in Level :
        /\ pc[c][l] = "mp" ~> pc[c][l] # "mp"
        /\ pc[c][l] = "spin" ~> pc[c][l] # "spin"

-----------------------------------------------------------------------------
(***************************************************************************)
(* The parts of the inductive invariant behind the mutex.                   *)
(***************************************************************************)

\* The tickets not yet served are those from mtx_cur to mtx_ticket - 1.  Each
\* is in the hands of one context: the one in the mutex has mtx_cur.
Tickets ==
    /\ mtx_cur <= mtx_ticket
    /\ \A c \in Cpu, l \in Level :
        /\ InMutex(c, l) => mtx_cur < mtx_ticket
        /\ pc[c][l] = "spin" => mtx_cur <= t[c][l] /\ t[c][l] < mtx_ticket
        /\ pc[c][l] = "cas" => t[c][l] <= mtx_cur
    /\ \A c, d \in Cpu, k, l \in Level :
        /\ pc[c][k] = "spin" /\ pc[d][l] = "spin" /\ t[c][k] = t[d][l]
              => c = d /\ k = l
        /\ pc[c][k] = "spin" /\ InMutex(d, l) => t[c][k] # mtx_cur

Owner ==
    /\ \A c \in Cpu, l \in Level : pc[c][l] = "held" => mtx_owner = c
    /\ (\A c \in Cpu, l \in Level : pc[c][l] # "held")
            => mtx_owner = NoCpu /\ mtx_oldipl = IPL_NONE

\* Which code is where, and what it will restore.
Rules ==
    \A c \in Cpu, l \in Level :
        /\ InCode(c, l) => l \in MtxLevel
        /\ pc[c][l] = "mp" => l = 0 \/ l \in MpLevel
        /\ InCode(c, l) /\ mtx_wantipl # IPL_NONE
              => l = IF pc[c][l] = "held" THEN mtx_oldipl ELSE s[c][l]

\* The interrupt priority level a context runs at.
RunLevel(c, l) == IF InCode(c, l) THEN mtx_wantipl ELSE l

\* The contexts of a processor are stacked by the levels they run at.
Stacked ==
    \A c \in Cpu, l \in Level :
        /\ pc[c][l] # "off" => cpl[c] >= RunLevel(c, l)
        /\ Runs(c, l) => cpl[c] = RunLevel(c, l)
        /\ \A k \in Level :
            k > l /\ pc[c][l] # "off" /\ pc[c][k] # "off" =>
                /\ base[c][k] >= RunLevel(c, l)
                /\ base[c][k] < k
                /\ (\A j \in Level : l < j /\ j < k => pc[c][j] = "off")
                       => base[c][k] = RunLevel(c, l)

MutexInv == MutexTypes /\ Tickets /\ MutexExclusive /\ Owner /\ Rules /\ Stacked

-----------------------------------------------------------------------------
(***************************************************************************)
(* The parts of the inductive invariant behind the __mp_lock.               *)
(***************************************************************************)

\* The processors that have the __mp_lock or spin for it.
Active == {c \in Cpu : mplc_depth[c] > 0}

\* How many tickets are served before this processor's.
Ahead(c) == (mplc_ticket[c] + TICKETS - mpl_ticket) % TICKETS

\* The tickets not yet served are as many as there are such processors, from
\* mpl_ticket on and around the end of the range: each has one of its own.
MpTickets ==
    /\ mpl_users = (mpl_ticket + Cardinality(Active)) % TICKETS
    /\ \A c \in Active : Ahead(c) < Cardinality(Active)
    /\ \A c, d \in Active : mplc_ticket[c] = mplc_ticket[d] => c = d

\* Whoever has the lock has the ticket that is being served.
MpHolder == \A c \in Cpu, l \in Level : n[c][l] > 0 => mplc_ticket[c] = mpl_ticket

\* Handlers return without locks; __mp_acquire_count() has locks left to take.
MpControl ==
    \A c \in Cpu :
        /\ \A l \in Level : pc[c][l] = "off" => n[c][l] = 0
        /\ pc[c][0] = "acquire" => count[c] > 0
        /\ pc[c][0] = "handover" => n[c][0] = 1

MpInv == TypeOK /\ MpTickets /\ MpHolder /\ MpControl /\ DepthIsNesting
=============================================================================
