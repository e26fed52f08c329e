------------------------------- MODULE Mutex --------------------------------
(***************************************************************************)
(* A mutex (sys/kern/kern_mutex.c): a ticket lock owned by a processor that *)
(* also raises the processor's interrupt priority level.  One operator for  *)
(* each access to the shared fields.  mtx_ticket and mtx_cur are kept       *)
(* unwrapped: mtx_enter_try() compares a ticket it read earlier, and the    *)
(* code relies on no processor being held up there for 2^32 acquisitions.   *)
(***************************************************************************)
EXTENDS Naturals

CONSTANTS
    NoCpu,      \* mtx_owner = NULL
    IPL_TTY,    \* the highest level whose handlers take the kernel lock
    ipl         \* the level given to mtx_init()

IPL_NONE == 0

ASSUME MutexAssumption ==
    /\ IPL_TTY \in Nat \ {0}
    /\ ipl \in Nat

VARIABLES mtx_owner, mtx_oldipl, mtx_ticket, mtx_cur

mtxVars == <<mtx_owner, mtx_oldipl, mtx_ticket, mtx_cur>>

\* Mutant: the level as given.
MUTEX_IPLMutant(level) == level

\* __MUTEX_IPL on a multiprocessor.
MUTEX_IPL(level) == IF level > IPL_NONE /\ level < IPL_TTY THEN IPL_TTY ELSE level

mtx_wantipl == MUTEX_IPL(ipl)

mtx_init ==
    /\ mtx_owner = NoCpu
    /\ mtx_oldipl = IPL_NONE
    /\ mtx_ticket = 0
    /\ mtx_cur = 0

\* atomic_fetch_add of mtx_ticket; t is the ticket taken.
mtx_take ==
    /\ mtx_ticket' = mtx_ticket + 1
    /\ UNCHANGED <<mtx_owner, mtx_oldipl, mtx_cur>>

mtx_store(c, s) ==
    /\ mtx_owner' = c
    /\ mtx_oldipl' = s
    /\ UNCHANGED <<mtx_ticket, mtx_cur>>

\* Mutant: the owner stays.
mtx_clearMutant ==
    /\ mtx_oldipl' = IPL_NONE
    /\ UNCHANGED <<mtx_owner, mtx_ticket, mtx_cur>>

mtx_clear ==
    /\ mtx_owner' = NoCpu
    /\ mtx_oldipl' = IPL_NONE
    /\ UNCHANGED <<mtx_ticket, mtx_cur>>

\* atomic_fetch_add of mtx_cur
mtx_pass ==
    /\ mtx_cur' = mtx_cur + 1
    /\ UNCHANGED <<mtx_owner, mtx_oldipl, mtx_ticket>>
=============================================================================
