----------------------------- MODULE RWLockAbs ------------------------------
(***************************************************************************)
(* What a read/write lock promises its callers: any number of readers or    *)
(* one writer, and a downgrade that turns the writer into a reader with     *)
(* nobody in between.  How callers wait, fail and are woken is left out.    *)
(***************************************************************************)
CONSTANT Proc

VARIABLE hold   \* what each thread holds: none, read or write

Init == hold = [t \in Proc |-> "none"]

\* rw_enter(RW_READ) returned 0.
EnterRead(t) ==
    /\ hold[t] = "none"
    /\ \A u \in Proc : hold[u] # "write"
    /\ hold' = [hold EXCEPT ![t] = "read"]

\* rw_enter(RW_WRITE) returned 0.
EnterWrite(t) ==
    /\ \A u \in Proc : hold[u] = "none"
    /\ hold' = [hold EXCEPT ![t] = "write"]

\* rw_enter(RW_DOWNGRADE) returned 0.
Downgrade(t) ==
    /\ hold[t] = "write"
    /\ hold' = [hold EXCEPT ![t] = "read"]

Exit(t) ==
    /\ hold[t] # "none"
    /\ hold' = [hold EXCEPT ![t] = "none"]

Next == \E t \in Proc : EnterRead(t) \/ EnterWrite(t) \/ Downgrade(t) \/ Exit(t)

Spec == Init /\ [][Next]_hold
=============================================================================
