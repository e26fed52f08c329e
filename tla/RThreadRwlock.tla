---------------------------- MODULE RThreadRwlock ---------------------------
(***************************************************************************)
(* A read/write lock of librthread (lib/librthread/rthread_rwlock.c).       *)
(* A writer sleeps on itself and is handed the lock; a reader sleeps on the *)
(* lock and looks again.  What is done under lock->lock is one step.        *)
(*                                                                         *)
(* A thread does not lock the lock again while it has it: as a reader it    *)
(* could wait for a writer that waits for it, as a writer it is refused.    *)
(***************************************************************************)
EXTENDS RThreadSync

VARIABLES
    rw_owner, readers, writers,   \* the lock
    rdhas, wrhas   \* history: the threads whose call returned with the lock

rwVars == <<rw_owner, readers, writers, rdhas, wrhas>>

RwInit ==
    /\ rw_owner = NoThread /\ readers = 0 /\ writers = << >>
    /\ rdhas = {} /\ wrhas = {}

RwTypeOK ==
    /\ rw_owner \in Thread \cup {NoThread}
    /\ readers \in 0 .. Cardinality(Thread)
    /\ writers \in Seq(Thread)
    /\ rdhas \subseteq Thread /\ wrhas \subseteq Thread

\* "writers have precedence"
MayRead == rw_owner = NoThread /\ writers = << >>

GetRead(t) == readers' = readers + 1 /\ rdhas' = rdhas \cup {t}

\* __thrsleep(lock), back at "rd"
ReaderSleeps(t, hasTime) ==
    /\ thrsleep(t, p_thrslpid, "rwlock", hasTime)
    /\ Go(t, "rd")
    /\ UNCHANGED <<canceled, delay, p_wchan, p_sig, p_timeout>>

\* _rthread_rwlock_rdlock()
pthread_rwlock_rdlock(t, hasTime) ==
    /\ At(t, "idle") /\ t \notin rdhas \cup wrhas
    /\ \/ MayRead /\ GetRead(t) /\ UNCHANGED <<pc, timed, error>> /\ NoSys
       \/ ~MayRead /\ ReaderSleeps(t, hasTime) /\ UNCHANGED <<readers, rdhas>>
    /\ UNCHANGED <<rw_owner, writers, wrhas, wake>>

\* ... after __thrsleep(): on EWOULDBLOCK it does not look again
RdlockWakes(t) ==
    /\ At(t, "rd")
    /\ \/ /\ error[t] = "EWOULDBLOCK"
          /\ Done(t) /\ NoSys /\ UNCHANGED <<readers, rdhas>>
       \/ /\ error[t] # "EWOULDBLOCK" /\ MayRead
          /\ GetRead(t) /\ Done(t) /\ NoSys
       \/ /\ error[t] # "EWOULDBLOCK" /\ ~MayRead
          /\ ReaderSleeps(t, timed[t]) /\ UNCHANGED <<readers, rdhas>>
    /\ UNCHANGED <<rw_owner, writers, wrhas, wake>>

\* Mutant: does not look for readers.
MayWriteMutant == rw_owner = NoThread

MayWrite == readers = 0 /\ rw_owner = NoThread

\* _rthread_rwlock_wrlock()
pthread_rwlock_wrlock(t, hasTime) ==
    /\ At(t, "idle") /\ t \notin rdhas \cup wrhas
    /\ \/ /\ MayWrite
          /\ rw_owner' = t /\ wrhas' = wrhas \cup {t}
          /\ UNCHANGED <<writers, pc, timed, error>> /\ NoSys
       \/ /\ ~MayWrite
          /\ writers' = Append(writers, t)
          /\ SleepSelf(t, hasTime, "wr")
          /\ UNCHANGED <<rw_owner, wrhas>>
    /\ UNCHANGED <<readers, rdhas, wake>>

\* ... after __thrsleep()
WrlockWakes(t) ==
    /\ At(t, "wr")
    /\ \/ /\ rw_owner = t
          /\ wrhas' = wrhas \cup {t} /\ UNCHANGED writers
          /\ Done(t) /\ NoSys
       \/ /\ rw_owner # t /\ error[t] = "EWOULDBLOCK"
          /\ writers' = Without(writers, t) /\ UNCHANGED wrhas
          /\ Done(t) /\ NoSys
       \/ /\ rw_owner # t /\ error[t] # "EWOULDBLOCK"
          /\ SleepSelf(t, timed[t], "wr")
          /\ UNCHANGED <<writers, wrhas>>
    /\ UNCHANGED <<rw_owner, readers, rdhas, wake>>

\* __thrwakeup(lock, 0): "could there have been blocked readers?"
ReadersWake(wasWriter) == IF wasWriter THEN Found("rwlock") ELSE {}

\* The lock is passed to the first writer, whom t wakes in its next step, or
\* to all readers.
RwPassOn(t, wasWriter) ==
    IF writers # << >>
    THEN /\ rw_owner' = Head(writers) /\ writers' = Tail(writers)
         /\ WakeLater(t, Head(writers), "wake")
         /\ NoSys
    ELSE /\ rw_owner' = NoThread /\ UNCHANGED <<writers, pc, wake>>
         /\ WakeThem(ReadersWake(wasWriter))
         /\ p_thrslpid' = Cleared(ReadersWake(wasWriter))
         /\ UNCHANGED <<sys, canceled, delay, p_sig, p_timeout>>

pthread_rwlock_unlock(t) ==
    /\ At(t, "idle")
    /\ \/ /\ t \in wrhas
          /\ wrhas' = wrhas \ {t} /\ UNCHANGED <<readers, rdhas>>
          /\ RwPassOn(t, TRUE)
       \/ /\ t \in rdhas
          /\ readers' = readers - 1 /\ rdhas' = rdhas \ {t} /\ UNCHANGED wrhas
          /\ IF readers > 1 THEN NoSys /\ UNCHANGED <<rw_owner, writers, pc, wake>>
             ELSE RwPassOn(t, FALSE)
    /\ UNCHANGED <<timed, error>>

=============================================================================
