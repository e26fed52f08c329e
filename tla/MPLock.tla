------------------------------- MODULE MPLock -------------------------------
(***************************************************************************)
(* A recursive ticket lock between processors, struct __mp_lock             *)
(* (sys/kern/kern_mplock.c): the kernel lock and SCHED_LOCK are two.        *)
(* What a processor does between intr_disable() and intr_restore() is one   *)
(* operator.  Tickets are u_ints and wrap at TICKETS.                       *)
(***************************************************************************)
EXTENDS Naturals, FiniteSets

CONSTANTS
    Cpu,        \* processors
    TICKETS     \* number of different tickets, 2^32 in the code

ASSUME MPLockAssumption ==
    /\ IsFiniteSet(Cpu)
    /\ TICKETS \in Nat \ {0}
    /\ Cardinality(Cpu) <= TICKETS

VARIABLES
    mpl_users,    \* the next ticket
    mpl_ticket,   \* the ticket that is being served
    mplc_ticket,  \* of each processor: the ticket it took last
    mplc_depth    \* of each processor: how often it has locked

mplVars == <<mpl_users, mpl_ticket, mplc_ticket, mplc_depth>>

MplTypeOK ==
    /\ mpl_users \in 0 .. TICKETS - 1
    /\ mpl_ticket \in 0 .. TICKETS - 1
    /\ mplc_ticket \in [Cpu -> 0 .. TICKETS - 1]
    /\ mplc_depth \in [Cpu -> Nat]

MplInit ==
    /\ mpl_users = 0
    /\ mpl_ticket = 0
    /\ mplc_ticket = [c \in Cpu |-> 0]
    /\ mplc_depth = [c \in Cpu |-> 0]

\* Mutant: tickets that do not wrap.
mp_lockMutant(c) ==
    /\ mplc_depth' = [mplc_depth EXCEPT ![c] = @ + 1]
    /\ IF mplc_depth[c] = 0
       THEN /\ mplc_ticket' = [mplc_ticket EXCEPT ![c] = mpl_users]
            /\ mpl_users' = mpl_users + 1
       ELSE UNCHANGED <<mplc_ticket, mpl_users>>
    /\ UNCHANGED mpl_ticket

\* __mp_lock() up to its spin loop: the first lock of a processor takes a
\* ticket, a nested one relies on the ticket the processor has.
mp_lock(c) ==
    /\ mplc_depth' = [mplc_depth EXCEPT ![c] = @ + 1]
    /\ IF mplc_depth[c] = 0
       THEN /\ mplc_ticket' = [mplc_ticket EXCEPT ![c] = mpl_users]
            /\ mpl_users' = (mpl_users + 1) % TICKETS
       ELSE UNCHANGED <<mplc_ticket, mpl_users>>
    /\ UNCHANGED mpl_ticket

\* The test that ends __mp_lock_spin().
mp_lock_turn(c) == mpl_ticket = mplc_ticket[c]

mp_unlock(c) ==
    /\ mplc_depth' = [mplc_depth EXCEPT ![c] = @ - 1]
    /\ mpl_ticket' = IF mplc_depth[c] = 1 THEN (mpl_ticket + 1) % TICKETS
                     ELSE mpl_ticket
    /\ UNCHANGED <<mpl_users, mplc_ticket>>

\* Mutant: passes the lock on but keeps the depth.
mp_release_allMutant(c) ==
    /\ mpl_ticket' = (mpl_ticket + 1) % TICKETS
    /\ UNCHANGED <<mpl_users, mplc_ticket, mplc_depth>>

mp_release_all(c) ==
    /\ mplc_depth' = [mplc_depth EXCEPT ![c] = 0]
    /\ mpl_ticket' = (mpl_ticket + 1) % TICKETS
    /\ UNCHANGED <<mpl_users, mplc_ticket>>

mp_release_all_but_one(c) ==
    /\ mplc_depth' = [mplc_depth EXCEPT ![c] = 1]
    /\ UNCHANGED <<mpl_users, mpl_ticket, mplc_ticket>>

mp_lock_held(c) == mplc_ticket[c] = mpl_ticket /\ mplc_depth[c] > 0
=============================================================================
