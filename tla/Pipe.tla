-------------------------------- MODULE Pipe --------------------------------
(***************************************************************************)
(* A pipe (sys/kern/sys_pipe.c): the two struct pipe that pipe(2) makes,    *)
(* the threads that read, write and poll them, and their last close.        *)
(* select() and poll() are those of sys/kern/sys_generic.c, on one pipe.    *)
(*                                                                         *)
(* A descriptor and the struct pipe in its f_data have the same name, "r"   *)
(* or "w".  read() on a descriptor takes data out of its own pipe, write()  *)
(* puts data into the peer.  All of this runs under the kernel lock: it is  *)
(* given up in tsleep(), in the page faults of uiomove() and in km_alloc(), *)
(* and what is between those is one step.                                   *)
(*                                                                         *)
(* Operators with an argument k take and return the state they change,      *)
(* [w |-> p_wchan, pp |-> pipe], so that they compose like the calls.       *)
(***************************************************************************)
EXTENDS Integers, Sequences, FiniteSets, FiniteSetsExt

CONSTANTS
    Proc, NoProc,
    NoChan,
    PIPE_SIZE, BIG_PIPE_SIZE, PIPE_BUF, LIMITBIGPIPES,
    Workloads,   \* each a set of operations that threads may do; see Op
    Signalled,   \* the threads that may get signals
    Faulty       \* the threads whose uiomove() and km_alloc() may fail

End == {"r", "w"}
Peer(f) == IF f = "r" THEN "w" ELSE "r"

\* What a thread does: n bytes to read or write, or the events to poll for.
Op == [p : Proc, op : {"read", "write", "poll"}, file : End, n : Nat,
       ev : SUBSET {"IN", "OUT"}]

MINPIPESIZE == PIPE_SIZE \div 3

ASSUME PipeAssumption ==
    /\ NoProc \notin Proc /\ Proc \cap End = {} /\ IsFiniteSet(Proc)
    /\ NoChan \notin End \cup {"selwait"}
    /\ {PIPE_SIZE, BIG_PIPE_SIZE, PIPE_BUF, LIMITBIGPIPES} \subseteq Nat \ {0}
    /\ PIPE_BUF + MINPIPESIZE <= PIPE_SIZE /\ PIPE_SIZE < BIG_PIPE_SIZE
    /\ MINPIPESIZE > 0
    /\ \A load \in Workloads : load \subseteq Op
    /\ Signalled \subseteq Proc /\ Faulty \subseteq Proc

VARIABLES
    pipe,       \* the two struct pipe
    closer,     \* where pipe_close() of a descriptor is
    nbigpipe,
    ops,        \* the workload
    pc,         \* where a thread is; see Place
    op,         \* its operation
    resid,      \* uio_resid
    space,      \* pipe_write(): space
    stream,     \* history: the bytes written to a pipe and not yet read
    last,       \* history: the byte last read from it
    p_wchan, p_sig, p_timeout

\* Whoever closes a descriptor sleeps under the descriptor's name.
Actor == Proc \cup End
INSTANCE TSleep

sleepVars == <<p_sig, p_timeout>>
localVars == <<ops, op, resid, space>>
vars == <<pipe, closer, nbigpipe, localVars, pc, stream, last, p_wchan, sleepVars>>

(***************************************************************************)
(* Where a thread is when another one runs: outside, about to call, in one  *)
(* of the tsleep()s, or in uiomove() or km_alloc() with PIPE_LOCK.          *)
(*   read, write, scan  the call, with a reference to the descriptor        *)
(*   lock, relock   pipe_read(): pipelock(), before and after "piperd"       *)
(*   piperd, move   pipe_read(): waiting for data; uiomove()                 *)
(*   wbig, alloc    pipe_write(): pipelock() and km_alloc() of the resize    *)
(*   wlock, wmove   pipe_write(): pipelock() and uiomove()                   *)
(*   pipewr         pipe_write(): waiting for space                         *)
(*   select         dopselect(), doppoll()                                  *)
(***************************************************************************)
Place == {"idle", "read", "write", "scan", "lock", "relock", "piperd", "move", "wbig", "alloc",
          "wlock", "wmove", "pipewr", "select"}

Byte == Proc \X (Nat \ {0})
NoByte == <<NoProc, 0>>

\* struct pipe after pipe_create(), connected.  pipe_sel is selpid and coll.
NewPipe ==
    [state |-> {}, cnt |-> 0, in |-> 0, out |-> 0, size |-> PIPE_SIZE,
     buffer |-> [i \in 0 .. PIPE_SIZE - 1 |-> NoByte], busy |-> 0,
     peer |-> TRUE, selpid |-> NoProc, coll |-> FALSE, live |-> TRUE]

NoOp == [p |-> NoProc, op |-> "none", file |-> "r", n |-> 0, ev |-> {}]

Init ==
    /\ pipe = [f \in End |-> NewPipe]
    /\ closer = [f \in End |-> "open"]
    /\ nbigpipe = 0
    /\ ops \in Workloads
    /\ pc = [p \in Proc |-> "idle"]
    /\ op = [p \in Proc |-> NoOp]
    /\ resid = [p \in Proc |-> 0]
    /\ space = [p \in Proc |-> 0]
    /\ stream = [f \in End |-> << >>]
    /\ last = [f \in End |-> NoByte]
    /\ SleepInit

-----------------------------------------------------------------------------
Now == [w |-> p_wchan, pp |-> pipe]
Commit(k) == p_wchan' = k.w /\ pipe' = k.pp

SetFlags(k, f, F) == [k EXCEPT !.pp[f].state = @ \cup F]
ClearFlags(k, f, F) == [k EXCEPT !.pp[f].state = @ \ F]
Wake(k, ident) == [k EXCEPT !.w = Wakeup(@, ident)]

\* "if (state & flag) { state &= ~flag; wakeup(pipe); }"
WakeIf(k, f, flag) ==
    IF flag \in k.pp[f].state THEN Wake(ClearFlags(k, f, {flag}), f) ELSE k

\* pipelock() when PIPE_LOCK is set: one round of its loop
LockSleep(k, p, f) ==
    [SetFlags(k, f, {"LWANT"}) EXCEPT !.w = SleepCatch(@, p, f)]

pipeunlock(k, f) == WakeIf(ClearFlags(k, f, {"LOCK"}), f, "LWANT")

Locked(k, f) == "LOCK" \in k.pp[f].state

-----------------------------------------------------------------------------
(***************************************************************************)
(* select() and poll().  Events of pipes come from other threads, never     *)
(* from interrupts: nothing can happen between the scan and tsleep(), which *)
(* is what P_SELECT and nselcoll guard against.                             *)
(***************************************************************************)
selrecord(k, p, f) ==
    LET first == k.pp[f].selpid IN
    IF first = p THEN k
    ELSE IF first # NoProc /\ k.w[first] = "selwait"
    THEN [k EXCEPT !.pp[f].coll = TRUE]
    ELSE [k EXCEPT !.pp[f].selpid = p]

\* Everybody on selwait if there was a collision, and the thread on record.
selwakeup(k, f) ==
    LET first == k.pp[f].selpid
        all == IF k.pp[f].coll THEN Wake(k, "selwait") ELSE k
    IN  IF first = NoProc THEN k
        ELSE [all EXCEPT !.pp[f].selpid = NoProc, !.pp[f].coll = FALSE,
                         !.w[first] = IF @ = "selwait" THEN NoChan ELSE @]

pipeselwakeup(k, f) ==
    IF "SEL" \in k.pp[f].state THEN selwakeup(ClearFlags(k, f, {"SEL"}), f) ELSE k

Eof(k, f) == "EOF" \in k.pp[f].state
Space(k, f) == k.pp[f].size - k.pp[f].cnt

\* pipe_poll()'s revents
Revents(k, f, ev) ==
    LET hup == Eof(k, f) \/ ~k.pp[f].peer \/ Eof(k, Peer(f)) IN
    \/ "IN" \in ev /\ (k.pp[f].cnt > 0 \/ Eof(k, f))
    \/ hup
    \/ "OUT" \in ev /\ ~hup /\ Space(k, Peer(f)) >= PIPE_BUF

\* pipe_poll() with no revents
PollRecord(k, p, f, ev) ==
    LET in == IF "IN" \in ev THEN SetFlags(selrecord(k, p, f), f, {"SEL"}) ELSE k
    IN  IF "OUT" \in ev
        THEN SetFlags(selrecord(in, p, Peer(f)), Peer(f), {"SEL"}) ELSE in

-----------------------------------------------------------------------------
\* p goes on to, or sleeps at, where, with `left' bytes still to move and room
\* for sp.
StayWith(p, k, where, left, sp) ==
    /\ Commit(k)
    /\ pc' = [pc EXCEPT ![p] = where]
    /\ resid' = [resid EXCEPT ![p] = left]
    /\ space' = [space EXCEPT ![p] = sp]
    /\ UNCHANGED <<op, sleepVars>>

Stay(p, k, where, left) == StayWith(p, k, where, left, 0)

\* The system call returns; its signal is taken on the way out.
Return(p, k) ==
    /\ Commit(k)
    /\ pc' = [pc EXCEPT ![p] = "idle"]
    /\ op' = [op EXCEPT ![p] = NoOp]
    /\ resid' = [resid EXCEPT ![p] = 0]
    /\ space' = [space EXCEPT ![p] = 0]
    /\ p_sig' = [p_sig EXCEPT ![p] = FALSE]
    /\ p_timeout' = [p_timeout EXCEPT ![p] = FALSE]

\* A system call finds its descriptor and holds on to it.
Call(p, o) ==
    /\ pc[p] = "idle" /\ o.p = p
    /\ closer[o.file] = "open"
    /\ op' = [op EXCEPT ![p] = o]
    /\ resid' = [resid EXCEPT ![p] = o.n]
    /\ pc' = [pc EXCEPT ![p] = IF o.op = "poll" THEN "scan" ELSE o.op]
    /\ UNCHANGED <<pipe, closer, nbigpipe, ops, space, stream, last, p_wchan,
                   sleepVars>>

\* p runs again, at where.
At(p, where) == pc[p] = where /\ Awake(p)

-----------------------------------------------------------------------------
(***************************************************************************)
(* pipe_read()                                                              *)
(***************************************************************************)

\* Mutant: the writer is not woken when there is enough space.
ReadDoneMutant(p, k, f) ==
    LET left == [k EXCEPT !.pp[f].busy = @ - 1]
        woken == IF left.pp[f].busy = 0 /\ "WANT" \in left.pp[f].state
                 THEN Wake(ClearFlags(left, f, {"WANT", "WANTW"}), f)
                 ELSE left
    IN  Return(p, IF Space(woken, f) >= PIPE_BUF
                  THEN pipeselwakeup(woken, f) ELSE woken)

\* from unlocked_error on
ReadDone(p, k, f) ==
    LET left == [k EXCEPT !.pp[f].busy = @ - 1]
        woken == IF left.pp[f].busy = 0 /\ "WANT" \in left.pp[f].state
                 THEN Wake(ClearFlags(left, f, {"WANT", "WANTW"}), f)
                 ELSE IF left.pp[f].cnt < MINPIPESIZE
                 THEN WakeIf(left, f, "WANTW") ELSE left
    IN  Return(p, IF Space(woken, f) >= PIPE_BUF
                  THEN pipeselwakeup(woken, f) ELSE woken)

\* No data and none read so far: EAGAIN, or wait for some.
ReadEmpty(p, k, f) ==
    LET awake == pipeunlock(WakeIf(k, f, "WANTW"), f)
        wants == SetFlags(awake, f, {"WANTR"})
    IN  \/ ReadDone(p, awake, f)
        \/ Stay(p, [wants EXCEPT !.w = SleepCatch(@, p, f)], "piperd", resid[p])

\* The loop, with PIPE_LOCK and `left' bytes still to read.
ReadLoop(p, k, f, left) ==
    LET empty == left > 0 /\ k.pp[f].cnt = 0 /\ ~Eof(k, f) IN
    \/ /\ left > 0 /\ k.pp[f].cnt > 0
       /\ Stay(p, k, "move", left)
    \/ /\ left = 0 \/ (k.pp[f].cnt = 0 /\ Eof(k, f))
       /\ ReadDone(p, pipeunlock(k, f), f)
    \/ /\ empty /\ left < op[p].n
       /\ ReadDone(p, pipeunlock(WakeIf(k, f, "WANTW"), f), f)
    \/ /\ empty /\ left = op[p].n
       /\ ReadEmpty(p, k, f)

Historyless == UNCHANGED <<stream, last>>

\* pipelock() has got PIPE_LOCK
Lock(k, f) == SetFlags(k, f, {"LOCK"})

\* pipe_read() to its first pipelock(), and that pipelock() after a sleep
pipe_read(p) ==
    LET f == op[p].file IN
    /\ At(p, "read") \/ At(p, "lock")
    /\ \/ /\ pc[p] = "lock" /\ TsleepError(p) # "0"
          /\ Return(p, Now)
       \/ /\ pc[p] = "lock" => TsleepError(p) = "0"
          /\ IF Locked(Now, f) THEN Stay(p, LockSleep(Now, p, f), "lock", resid[p])
             ELSE ReadLoop(p, [Lock(Now, f) EXCEPT !.pp[f].busy = @ + 1], f, resid[p])
    /\ Historyless /\ UNCHANGED <<closer, nbigpipe, ops>>

\* Back from waiting for data, and the pipelock() that follows
ReadRelock(p) ==
    LET f == op[p].file IN
    /\ At(p, "piperd") \/ At(p, "relock")
    /\ IF TsleepError(p) # "0" THEN ReadDone(p, Now, f)
       ELSE IF Locked(Now, f) THEN Stay(p, LockSleep(Now, p, f), "relock", resid[p])
       ELSE ReadLoop(p, Lock(Now, f), f, resid[p])
    /\ Historyless /\ UNCHANGED <<closer, nbigpipe, ops>>

\* The bytes that one uiomove() takes: up to the end of the buffer
Chunk(q, n) == Min({q.size - q.out, q.cnt, n})

\* Mutant: out does not go back to the beginning.
TakenMutant(q, n) ==
    [q EXCEPT !.cnt = @ - n, !.out = @ + n]

\* n bytes are taken out of pipe q.  The bytes that are no longer in the
\* buffer cannot be seen again; they are cleared.
Taken(q, n) ==
    LET out == IF q.out + n >= q.size THEN 0 ELSE q.out + n
        empty == q.cnt = n
    IN  [q EXCEPT !.cnt = @ - n,
                  !.out = IF empty THEN 0 ELSE out,
                  !.in = IF empty THEN 0 ELSE @,
                  !.buffer = [i \in 0 .. q.size - 1 |->
                                IF i \in q.out .. q.out + n - 1 THEN NoByte
                                ELSE q.buffer[i]]]

\* uiomove() is done.
ReadMove(p) ==
    LET f == op[p].file
        n == Chunk(pipe[f], resid[p])
    IN  /\ At(p, "move")
        /\ ReadLoop(p, [Now EXCEPT !.pp[f] = Taken(@, n)], f, resid[p] - n)
        /\ stream' = [stream EXCEPT ![f] = SubSeq(@, n + 1, Len(@))]
        /\ last' = [last EXCEPT ![f] = stream[f][n]]
        /\ UNCHANGED <<closer, nbigpipe, ops>>

\* EFAULT
ReadFault(p) ==
    LET f == op[p].file IN
    /\ At(p, "move") /\ p \in Faulty
    /\ ReadDone(p, pipeunlock(Now, f), f)
    /\ Historyless /\ UNCHANGED <<closer, nbigpipe, ops>>

-----------------------------------------------------------------------------
(***************************************************************************)
(* pipe_write(); f is the pipe it writes to, wpipe.                         *)
(***************************************************************************)

\* after the loop
WriteDone(p, k, f) ==
    LET left == [k EXCEPT !.pp[f].busy = @ - 1]
        woken == IF left.pp[f].busy = 0 /\ "WANT" \in left.pp[f].state
                 THEN Wake(ClearFlags(left, f, {"WANT", "WANTR"}), f)
                 ELSE IF left.pp[f].cnt > 0 THEN WakeIf(left, f, "WANTR") ELSE left
    IN  Return(p, IF woken.pp[f].cnt > 0 THEN pipeselwakeup(woken, f) ELSE woken)

\* No space: EAGAIN, or wait for some.
WriteFull(p, k, f, left) ==
    LET awake == WakeIf(k, f, "WANTR")
        wants == SetFlags(pipeselwakeup(awake, f), f, {"WANTW"})
    IN  \/ WriteDone(p, awake, f)
        \/ Stay(p, [wants EXCEPT !.w = SleepCatch(@, p, f)], "pipewr", left)

\* Mutant: a write of no more than PIPE_BUF bytes takes what space there is.
UsableMutant(p, k, f, left) == Space(k, f)

\* "Writes of size <= PIPE_BUF must be atomic."
Usable(p, k, f, left) ==
    IF Space(k, f) < left /\ op[p].n <= PIPE_BUF THEN 0 ELSE Space(k, f)

\* The loop, from retrywrite on, with `left' bytes still to write.
WriteLoop(p, k, f, left) ==
    LET usable == Usable(p, k, f, left) IN
    \/ /\ left = 0 \/ Eof(k, f)
       /\ WriteDone(p, k, f)
    \/ /\ left > 0 /\ ~Eof(k, f) /\ usable > 0
       /\ IF Locked(k, f) THEN StayWith(p, LockSleep(k, p, f), "wlock", left, usable)
          ELSE StayWith(p, Lock(k, f), "wmove", left, usable)
    \/ /\ left > 0 /\ ~Eof(k, f) /\ usable = 0
       /\ WriteFull(p, k, f, left)

\* "If it is advantageous to resize the pipe buffer"
Resizes(p, f) ==
    /\ op[p].n > PIPE_SIZE /\ nbigpipe < LIMITBIGPIPES
    /\ pipe[f].size <= PIPE_SIZE /\ pipe[f].cnt = 0

\* pipelock() of the resize
ResizeLock(p, k, f) ==
    IF Locked(k, f) THEN Stay(p, LockSleep(k, p, f), "wbig", resid[p])
    ELSE Stay(p, Lock(k, f), "alloc", resid[p])

pipe_write(p) ==
    LET f == Peer(op[p].file)
        busy == [Now EXCEPT !.pp[f].busy = @ + 1]
        lost == ~pipe[op[p].file].peer \/ Eof(Now, f)
    IN  /\ At(p, "write")
        /\ \/ lost /\ Return(p, Now)
           \/ ~lost /\ Resizes(p, f) /\ ResizeLock(p, busy, f)
           \/ ~lost /\ ~Resizes(p, f) /\ WriteLoop(p, busy, f, resid[p])
        /\ Historyless /\ UNCHANGED <<closer, nbigpipe, ops>>

\* The resize's pipelock() after a sleep.  On an error pipe_write() returns.
WriteResize(p) ==
    LET f == Peer(op[p].file)
        left == [Now EXCEPT !.pp[f].busy = @ - 1]
    IN  /\ At(p, "wbig")
        /\ \/ TsleepError(p) = "0" /\ ResizeLock(p, Now, f)
           \/ /\ TsleepError(p) # "0"
              /\ Return(p, IF left.pp[f].busy = 0 /\ "WANT" \in left.pp[f].state
                           THEN Wake(ClearFlags(left, f, {"WANT", "WANTR"}), f)
                           ELSE left)
        /\ Historyless /\ UNCHANGED <<closer, nbigpipe, ops>>

\* nbigpipe after pipe_free_kmem()
Freed(f) == IF pipe[f].size > PIPE_SIZE THEN nbigpipe - 1 ELSE nbigpipe

\* pipespace(): km_alloc() is done, and the old buffer is replaced; or it has
\* failed, and nothing is.
pipespace(p) ==
    LET f == Peer(op[p].file)
        empty == [i \in 0 .. BIG_PIPE_SIZE - 1 |-> NoByte]
        big == [Now EXCEPT !.pp[f] = [@ EXCEPT !.size = BIG_PIPE_SIZE, !.cnt = 0,
                                               !.in = 0, !.out = 0, !.buffer = empty]]
    IN  /\ At(p, "alloc")
        /\ \/ /\ nbigpipe' = Freed(f) + 1
              /\ stream' = [stream EXCEPT ![f] = << >>]
              /\ WriteLoop(p, pipeunlock(big, f), f, resid[p])
           \/ /\ p \in Faulty /\ UNCHANGED <<nbigpipe, stream>>
              /\ WriteLoop(p, pipeunlock(Now, f), f, resid[p])
        /\ UNCHANGED <<last, closer, ops>>

\* pipelock() of a write after a sleep.  "Our value for space might be bad."
WriteLock(p) ==
    LET f == Peer(op[p].file) IN
    /\ At(p, "wlock")
    /\ \/ /\ TsleepError(p) # "0"
          /\ WriteDone(p, Now, f)
       \/ /\ TsleepError(p) = "0" /\ Locked(Now, f)
          /\ StayWith(p, LockSleep(Now, p, f), "wlock", resid[p], space[p])
       \/ /\ TsleepError(p) = "0" /\ ~Locked(Now, f)
          /\ IF space[p] > Space(Now, f)
             THEN WriteLoop(p, pipeunlock(Lock(Now, f), f), f, resid[p])
             ELSE StayWith(p, Lock(Now, f), "wmove", resid[p], space[p])
    /\ Historyless /\ UNCHANGED <<closer, nbigpipe, ops>>

\* The bytes go into pipe q in one or two segments.
Put(q, bytes) ==
    LET size == Len(bytes)
        segsize == Min({q.size - q.in, size})
    IN  [q EXCEPT
           !.cnt = @ + size,
           !.in = IF q.in + size >= q.size THEN size - segsize ELSE q.in + size,
           !.buffer = [i \in 0 .. q.size - 1 |->
               IF i \in q.in .. q.in + segsize - 1 THEN bytes[i - q.in + 1]
               ELSE IF i < size - segsize THEN bytes[segsize + i + 1]
               ELSE q.buffer[i]]]

\* uiomove() is done.
WriteMove(p) ==
    LET f == Peer(op[p].file)
        n == Min({space[p], resid[p]})
        bytes == [i \in 1 .. n |-> <<p, op[p].n - resid[p] + i>>]
        k == pipeunlock([Now EXCEPT !.pp[f] = Put(@, bytes)], f)
    IN  /\ At(p, "wmove")
        /\ WriteLoop(p, k, f, resid[p] - n)
        /\ stream' = [stream EXCEPT ![f] = @ \o bytes]
        /\ UNCHANGED <<last, closer, nbigpipe, ops>>

\* EFAULT
WriteFault(p) ==
    LET f == Peer(op[p].file) IN
    /\ At(p, "wmove") /\ p \in Faulty
    /\ WriteDone(p, pipeunlock(Now, f), f)
    /\ Historyless /\ UNCHANGED <<closer, nbigpipe, ops>>

\* Back from waiting for space
WriteAgain(p) ==
    LET f == Peer(op[p].file) IN
    /\ At(p, "pipewr")
    /\ IF TsleepError(p) # "0" THEN WriteDone(p, Now, f)
       ELSE WriteLoop(p, Now, f, resid[p])
    /\ Historyless /\ UNCHANGED <<closer, nbigpipe, ops>>

-----------------------------------------------------------------------------
(***************************************************************************)
(* poll() and select(), pipe_close(), signals and the end of sleeps.         *)
(***************************************************************************)

\* One scan.  A descriptor that was closed meanwhile ends it, too.
Poll(p) ==
    LET f == op[p].file
        record == PollRecord(Now, p, f, op[p].ev)
    IN  /\ At(p, "scan") \/ At(p, "select")
        /\ \/ /\ \/ pc[p] = "select" /\ TsleepError(p) # "0"
                 \/ closer[f] # "open"
                 \/ Revents(Now, f, op[p].ev)
              /\ Return(p, Now)
           \/ /\ pc[p] = "select" => TsleepError(p) = "0"
              /\ closer[f] = "open" /\ ~Revents(Now, f, op[p].ev)
              /\ Stay(p, [record EXCEPT !.w = SleepCatch(@, p, "selwait")],
                      "select", resid[p])
        /\ Historyless /\ UNCHANGED <<closer, nbigpipe, ops>>

\* Somebody is in a system call on the descriptor.  poll() does not keep it.
Referenced(f) ==
    \E p \in Proc : pc[p] \notin {"idle", "select"} /\ op[p].file = f

\* Mutant: frees the pipe without waiting for the writers.
CloseLoopMutant(f, k) ==
    LET g == Peer(f)
        eof == Wake(SetFlags(pipeselwakeup(k, g), g, {"EOF"}), g)
        apart == [eof EXCEPT !.pp[g].peer = FALSE]
        rest == IF k.pp[f].peer THEN apart ELSE k
    IN  /\ Commit([rest EXCEPT !.pp[f] = [NewPipe EXCEPT !.live = FALSE]])
        /\ closer' = [closer EXCEPT ![f] = "closed"]
        /\ nbigpipe' = Freed(f)

\* A round of pipeclose()'s loop while the pipe is busy, or what comes after:
\* disconnect from the peer, free.
CloseLoop(f, k) ==
    LET g == Peer(f)
        wanted == SetFlags(Wake(k, f), f, {"WANT"})
        eof == Wake(SetFlags(pipeselwakeup(k, g), g, {"EOF"}), g)
        apart == [eof EXCEPT !.pp[g].peer = FALSE]
        rest == IF k.pp[f].peer THEN apart ELSE k
    IN  IF k.pp[f].busy > 0
        THEN /\ Commit([wanted EXCEPT !.w = Sleep(@, f, f)])
             /\ closer' = [closer EXCEPT ![f] = "pipecl"]
             /\ UNCHANGED nbigpipe
        ELSE /\ Commit([rest EXCEPT !.pp[f] = [NewPipe EXCEPT !.live = FALSE]])
             /\ closer' = [closer EXCEPT ![f] = "closed"]
             /\ nbigpipe' = Freed(f)

\* The last reference to the descriptor goes away: pipe_close(), pipeclose().
pipe_close(f) ==
    /\ closer[f] = "open" /\ ~Referenced(f)
    /\ CloseLoop(f, SetFlags(pipeselwakeup(Now, f), f, {"EOF"}))
    /\ stream' = [stream EXCEPT ![f] = IF closer'[f] = "closed" THEN << >> ELSE @]
    /\ UNCHANGED <<last, localVars, pc, sleepVars>>

pipeclose(f) ==
    /\ closer[f] = "pipecl" /\ Awake(f)
    /\ CloseLoop(f, Now)
    /\ stream' = [stream EXCEPT ![f] = IF closer'[f] = "closed" THEN << >> ELSE @]
    /\ UNCHANGED <<last, localVars, pc, sleepVars>>

\* Both are closed, and a new pipe gets their descriptors.
dopipe ==
    /\ \A f \in End : closer[f] = "closed"
    /\ pipe' = [f \in End |-> NewPipe]
    /\ closer' = [f \in End |-> "open"]
    /\ last' = [f \in End |-> NoByte]
    /\ UNCHANGED <<nbigpipe, localVars, pc, stream, p_wchan, sleepVars>>

ptsignal(p) ==
    /\ p \in Signalled /\ pc[p] # "idle"
    /\ PostSignal(p)
    /\ UNCHANGED <<pipe, closer, nbigpipe, localVars, pc, stream, last>>

\* Only poll() and select() sleep with a timeout.
endtsleep(p) ==
    /\ pc[p] = "select"
    /\ EndTsleep(p)
    /\ UNCHANGED <<pipe, closer, nbigpipe, localVars, pc, stream, last>>

Read(p) == pipe_read(p) \/ ReadRelock(p) \/ ReadMove(p) \/ ReadFault(p)

Write(p) ==
    \/ pipe_write(p) \/ WriteResize(p) \/ pipespace(p) \/ WriteLock(p)
    \/ WriteMove(p) \/ WriteFault(p) \/ WriteAgain(p)

Next ==
    \/ \E p \in Proc : Read(p) \/ Write(p) \/ Poll(p) \/ ptsignal(p) \/ endtsleep(p)
    \/ \E p \in Proc, o \in ops : Call(p, o)
    \/ \E f \in End : pipe_close(f) \/ pipeclose(f)
    \/ dopipe

Spec == Init /\ [][Next]_vars

-----------------------------------------------------------------------------
Contents(q) == [i \in 1 .. q.cnt |-> q.buffer[(q.out + i - 1) % q.size]]

TypeOK ==
    /\ DOMAIN pipe = End
    /\ \A f \in End :
        /\ pipe[f].state \subseteq {"LOCK", "LWANT", "WANTR", "WANTW", "WANT", "SEL",
                                    "EOF"}
        /\ pipe[f].size \in {PIPE_SIZE, BIG_PIPE_SIZE}
        /\ pipe[f].cnt \in 0 .. pipe[f].size
        /\ {pipe[f].in, pipe[f].out} \subseteq 0 .. pipe[f].size - 1
        /\ pipe[f].buffer \in [0 .. pipe[f].size - 1 -> Byte \cup {NoByte}]
        /\ pipe[f].busy \in Nat
        /\ {pipe[f].peer, pipe[f].coll, pipe[f].live} \subseteq BOOLEAN
        /\ pipe[f].selpid \in Proc \cup {NoProc}
    /\ closer \in [End -> {"open", "pipecl", "closed"}]
    /\ nbigpipe \in Nat
    /\ ops \subseteq Op
    /\ pc \in [Proc -> Place]
    /\ \A p \in Proc : (pc[p] = "idle") = (op[p] = NoOp)
    /\ resid \in [Proc -> Nat] /\ space \in [Proc -> Nat]
    /\ p_wchan \in [Actor -> End \cup {"selwait", NoChan}]
    /\ p_sig \in [Actor -> BOOLEAN] /\ p_timeout \in [Actor -> BOOLEAN]

-----------------------------------------------------------------------------
(***************************************************************************)
(* Properties.                                                              *)
(***************************************************************************)

\* The circular buffer is a queue: whatever the lengths of the reads and
\* writes and wherever they wrap around, what a reader will find is what the
\* writers wrote and nobody has read, in the order in which they had
\* PIPE_LOCK, and `in' is where the next byte belongs.  (What a resize drops is
\* the subject of ResizeKeepsData.)
StreamInOrder ==
    \A f \in End :
        /\ Contents(pipe[f]) = stream[f]
        /\ pipe[f].in = (pipe[f].out + pipe[f].cnt) % pipe[f].size

\* "Writes of size <= PIPE_BUF must be atomic": no byte of such a write, other
\* than its first, comes after the byte of another write, although the thread
\* may have slept for the lock and for space and others wrote meanwhile.
AtomicWrites ==
    \A f \in End :
        LET bytes == <<last[f]>> \o stream[f]
            small(b) == \A o \in ops : o.p = b[1] /\ o.op = "write" => o.n <= PIPE_BUF
        IN  \A i \in 2 .. Len(bytes) :
                bytes[i][2] > 1 /\ small(bytes[i])
                    => bytes[i - 1] = <<bytes[i][1], bytes[i][2] - 1>>

\* The bytes of a pipe arrive in the order and, if they are few, together as
\* they were written.
DataIntact == StreamInOrder /\ AtomicWrites

\* In the middle of pipe_read() or pipe_write() on this pipe
Uses(p, f) ==
    \/ op[p].op = "read" /\ op[p].file = f /\ pc[p] # "read"
    \/ op[p].op = "write" /\ Peer(op[p].file) = f /\ pc[p] # "write"

\* pipeclose() frees a pipe only when nobody will look at it again: no read
\* and no write is in progress on it, asleep or in a page fault, nobody is on
\* its sleep queue, and its peer no longer points to it.
NoUseAfterFree ==
    \A f \in End : ~pipe[f].live =>
        /\ \A p \in Proc : ~Uses(p, f)
        /\ \A a \in Actor : p_wchan[a] # f
        /\ pipe[Peer(f)].live => ~pipe[Peer(f)].peer

\* The count that limits big pipes goes with the buffers, through a resize, one
\* that fails, a second one by a writer that waited for the first, and the
\* close.
BigPipesCounted ==
    nbigpipe = Cardinality({f \in End : pipe[f].live /\ pipe[f].size > PIPE_SIZE})

\* Pipes and their buffers are freed when nobody uses them, and accounted for.
ResourcesSafe == NoUseAfterFree /\ BigPipesCounted

\* The pipe that a read or a write of p is about
Target(p) == IF op[p].op = "write" THEN Peer(op[p].file) ELSE op[p].file

\* p, on pipe f, is at one of the places
Is(p, f, places) == pc[p] \in places /\ Target(p) = f

\* PIPE_LOCK belongs to exactly one thread, which is in uiomove() or
\* km_alloc(), and whoever sleeps for it has said so: the next pipeunlock()
\* wakes it, whichever wakeup of the shared channel came between.
LockNotForgotten ==
    \A f \in End :
        /\ Cardinality({p \in Proc : Is(p, f, {"move", "wmove", "alloc"})}) =
              IF Locked(Now, f) THEN 1 ELSE 0
        /\ \A p \in Proc : Is(p, f, {"lock", "relock", "wlock", "wbig"}) /\ ~Awake(p)
              => {"LOCK", "LWANT"} \subseteq pipe[f].state

\* A reader sleeps only while the pipe is empty and has a writer, or a writer
\* that put something there has yet to finish, which then finds PIPE_WANTR.
ReaderNotForgotten ==
    \A f \in End, p \in Proc : Is(p, f, {"piperd"}) /\ ~Awake(p) =>
        /\ ~Eof(Now, f) /\ "WANTR" \in pipe[f].state
        /\ pipe[f].cnt > 0 => \E q \in Proc : Is(q, f, {"wlock", "wmove"})

\* Whoever may have made space: a reader that has yet to finish, or a writer that
\* has emptied the pipe by resizing it and is about to fill it.
Emptied(q, f) == Is(q, f, {"move"}) \/ (Is(q, f, {"wmove"}) /\ op[q].n > PIPE_SIZE)

\* A writer sleeps only while the pipe has a reader and holds at least
\* MINPIPESIZE bytes, or a reader that took some has yet to finish, which then
\* finds PIPE_WANTW, or a writer that has emptied the pipe by resizing it is
\* about to fill it.
WriterNotForgotten ==
    \A f \in End, p \in Proc : Is(p, f, {"pipewr"}) /\ ~Awake(p) =>
        /\ ~Eof(Now, f) /\ "WANTW" \in pipe[f].state
        /\ pipe[f].cnt < MINPIPESIZE
              => \E q \in Proc : Emptied(q, f)

\* poll() and select() do not sleep on an event that is there, whoever else
\* polls the same pipe and collides in its one si_selpid, unless the read, the
\* write or the close that made the event has yet to finish, or the writer that
\* made space by resizing the pipe is about to fill it.
PollerNotForgotten ==
    \A p \in Proc : pc[p] = "select" /\ ~Awake(p) =>
        LET f == op[p].file IN
        \/ \E g \in End : closer[g] = "pipecl"
        \/ /\ closer[f] = "open" /\ pipe[f].peer /\ ~Eof(Now, f)
           /\ "IN" \in op[p].ev /\ pipe[f].cnt > 0
                => \E q \in Proc : Is(q, f, {"wlock", "wmove"})
           /\ "OUT" \in op[p].ev /\ Space(Now, Peer(f)) >= PIPE_BUF
                => \E q \in Proc : Emptied(q, Peer(f))

\* A close that waits for a busy pipe is not forgotten: PIPE_WANT is set for
\* the last one that leaves, nobody on that pipe waits for data or space, and
\* pipe_busy counts exactly those who will leave.
CloserNotForgotten ==
    \A f \in End : closer[f] = "pipecl" /\ ~Awake(f) =>
        /\ {"WANT", "EOF"} \subseteq pipe[f].state
        /\ pipe[f].busy = Cardinality({p \in Proc : Uses(p, f)})
        /\ pipe[f].busy > 0
        /\ \A p \in Proc : ~(Is(p, f, {"piperd", "pipewr"}) /\ ~Awake(p))

\* Nobody sleeps on a pipe for what is there already: not for PIPE_LOCK, data,
\* space, an event of poll() or the last user, although most of them share one
\* channel and signals, faults and closes come at any sleep.
NobodyForgotten ==
    /\ LockNotForgotten /\ ReaderNotForgotten /\ WriterNotForgotten
    /\ PollerNotForgotten /\ CloserNotForgotten

\* The programs of which that is true.  poll() without events is not on record
\* anywhere and sleeps through a close; and a resize that drops the data of other
\* writers, followed by a fault, leaves an empty pipe and nobody who says so.
Sturdy(w) ==
    /\ \A o \in w : o.op = "poll" => o.ev # {}
    /\ \A o, s \in w : /\ o.op = "write" /\ o.n > PIPE_SIZE /\ o.p \in Faulty
                       /\ s.op = "write" /\ s.file = o.file
                       => s.p = o.p

\* What the comment above pipespace() says: it "will 'realloc' the size of a
\* pipe safely".  A pipe that gets a bigger buffer keeps its data.
ResizeKeepsData ==
    [][\A f \in End : pipe[f].live /\ pipe'[f].live /\ pipe'[f].size > pipe[f].size
            => Contents(pipe'[f]) = Contents(pipe[f])]_vars

-----------------------------------------------------------------------------
(***************************************************************************)
(* The parts of the inductive invariant behind DataIntact and               *)
(* ResourcesSafe.                                                           *)
(***************************************************************************)

Flags == {"LOCK", "LWANT", "WANTR", "WANTW", "WANT", "SEL", "EOF"}
Buffer(size) == [0 .. size - 1 -> Byte \cup {NoByte}]

PipeRecord ==
    [state : SUBSET Flags, cnt : Nat, in : Nat, out : Nat,
     size : {PIPE_SIZE, BIG_PIPE_SIZE},
     buffer : Buffer(PIPE_SIZE) \cup Buffer(BIG_PIPE_SIZE), busy : Nat,
     peer : BOOLEAN, selpid : Proc \cup {NoProc}, coll : BOOLEAN, live : BOOLEAN]

Types ==
    /\ TypeOK
    /\ pipe \in [End -> PipeRecord]
    /\ op \in [Proc -> Op \cup {NoOp}]
    /\ stream \in [End -> Seq(Byte)]
    /\ last \in [End -> Byte \cup {NoByte}]

Reading == {"read", "lock", "relock", "piperd", "move"}
Writing == {"write", "wbig", "alloc", "wlock", "wmove", "pipewr"}

\* A thread is where its system call is, with an operation of the workload.
CallsFit ==
    \A p \in Proc :
        /\ pc[p] \in Reading => op[p].op = "read"
        /\ pc[p] \in Writing => op[p].op = "write"
        /\ pc[p] \in {"scan", "select"} => op[p].op = "poll"
        /\ pc[p] # "idle" => op[p] \in ops /\ op[p].p = p

\* A descriptor in use is not closed.
References ==
    \A p \in Proc : pc[p] \notin {"idle", "select"} => closer[op[p].file] = "open"

\* pipe_busy counts who is between its two changes.
Busy == {"relock", "piperd", "move"} \cup (Writing \ {"write"})
Users(f) == {p \in Proc : Is(p, f, Busy)}
BusyCounts == \A f \in End : pipe[f].busy = Cardinality(Users(f))

\* PIPE_LOCK is held over uiomove() and km_alloc(), by one thread.
Holding == {"move", "wmove", "alloc"}
LockExclusive ==
    \A f \in End :
        /\ \A p \in Proc : Is(p, f, Holding) => Locked(Now, f)
        /\ \A p, q \in Proc : Is(p, f, Holding) /\ Is(q, f, Holding) => p = q

\* Who sleeps, and on what
Waiting == {"lock", "relock", "piperd", "wlock", "wbig", "pipewr"}
Channels ==
    /\ \A p \in Proc : ~Awake(p) =>
        \/ pc[p] = "select" /\ p_wchan[p] = "selwait"
        \/ pc[p] \in Waiting /\ p_wchan[p] = Target(p)
    /\ \A f \in End : ~Awake(f) => closer[f] = "pipecl" /\ p_wchan[f] = f

\* A pipe points to its peer as long as that is not freed.  A freed one has
\* neither users nor data.
Connected ==
    \A f \in End :
        /\ pipe[f].live <=> closer[f] # "closed"
        /\ pipe[f].busy # 0 \/ pipe[f].cnt # 0 => pipe[f].live
        /\ pipe[f].live => (pipe[f].peer <=> pipe[Peer(f)].live)

\* What is still to be transferred: there is something to take, what is
\* written fits, and a small write has not begun.
Transfers ==
    \A p \in Proc :
        /\ pc[p] = "move" => resid[p] > 0 /\ pipe[Target(p)].cnt > 0
        /\ pc[p] \in Writing =>
              /\ resid[p] <= op[p].n
              /\ op[p].n <= PIPE_BUF => resid[p] = op[p].n
        /\ pc[p] \in {"wlock", "wmove"} =>
              /\ space[p] > 0 /\ resid[p] > 0
              /\ op[p].n <= PIPE_BUF => resid[p] <= space[p]
        /\ pc[p] = "wmove" => space[p] <= Space(Now, Target(p))

PipeInv ==
    /\ Types /\ CallsFit /\ References /\ BusyCounts /\ LockExclusive
    /\ Channels /\ Connected /\ Transfers
    /\ BigPipesCounted /\ StreamInOrder /\ AtomicWrites
=============================================================================
