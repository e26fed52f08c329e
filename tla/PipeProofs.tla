----------------------------- MODULE PipeProofs -----------------------------
(***************************************************************************)
(* Proofs about Pipe: PipeInv is an invariant for any threads and workloads *)
(* and any sizes of the buffers, and implies TypeOK, DataIntact and         *)
(* ResourcesSafe.  With WatchInv it implies NobodyForgotten, for the        *)
(* workloads that Sturdy describes.                                         *)
(*                                                                         *)
(* The operators that take and return a state k are dealt with first: most  *)
(* of them are Calm, pipeunlock() and "--pipe_busy" change one thing.  The  *)
(* loops of pipe_read() and pipe_write() end in a few ways, all of which    *)
(* are a Step: one thread p, on one pipe f, whose data may become those of  *)
(* q.  What a Step keeps is shown once, part by part, so that an action     *)
(* need only be shown to be a Step.  uiomove() and pipespace(), which       *)
(* change the data, are left to lemmas about circular buffers (Ring) and    *)
(* about the bytes of small writes (Atomic).  The steps of a close and of   *)
(* dopipe() have no thread; they are an Ending.                             *)
(*                                                                         *)
(* The second half follows the wakeups in the same way.  The operators are  *)
(* Mild: a flag that asks for a wakeup goes away only with the wakeup.  A   *)
(* step of a thread in pipe_read() or pipe_write() is a Turn, which also    *)
(* says whom the thread has woken when it leaves the data otherwise than it *)
(* found them; calls, polls, signals and timeouts are an Aside, and closes  *)
(* and dopipe() are Elsewhere.  Each of the three keeps WatchInv.           *)
(***************************************************************************)
EXTENDS Pipe, FiniteSetTheorems, SequenceTheorems, TLAPS

-----------------------------------------------------------------------------
Channel == End \cup {"selwait", NoChan}
KState == [w : [Actor -> Channel], pp : [End -> PipeRecord]]

\* The fields that only a transfer or a resize changes
SameData(q, r) ==
    /\ q.cnt = r.cnt /\ q.in = r.in /\ q.out = r.out
    /\ q.size = r.size /\ q.buffer = r.buffer

SameLink(q, r) == q.peer = r.peer /\ q.live = r.live

OnlyWakes(k, m) == \A a \in Actor : m.w[a] \in {k.w[a], NoChan}

SameLocks(k, m) == \A g \in End : "LOCK" \in m.pp[g].state <=> "LOCK" \in k.pp[g].state

\* From k to m some threads are woken and some flags other than PIPE_LOCK
\* change.
Calm(k, m) ==
    /\ m \in KState
    /\ OnlyWakes(k, m) /\ SameLocks(k, m)
    /\ \A g \in End : /\ SameData(m.pp[g], k.pp[g]) /\ SameLink(m.pp[g], k.pp[g])
                      /\ m.pp[g].busy = k.pp[g].busy

\* Calm allows that nothing changes ...
LEMMA CalmSame ==
    ASSUME NEW k \in KState
    PROVE  Calm(k, k)
BY DEF Calm, OnlyWakes, SameLocks, SameData, SameLink

\* ... and calm changes compose.
LEMMA CalmTrans ==
    ASSUME NEW k, NEW m, NEW n, Calm(k, m), Calm(m, n)
    PROVE  Calm(k, n)
<1>1. OnlyWakes(k, n)
  BY DEF Calm, OnlyWakes
<1>2. SameLocks(k, n)
  BY DEF Calm, SameLocks
<1>3. \A g \in End : /\ SameData(n.pp[g], k.pp[g]) /\ SameLink(n.pp[g], k.pp[g])
                     /\ n.pp[g].busy = k.pp[g].busy
  BY DEF Calm, SameData, SameLink
<1> QED
  BY <1>1, <1>2, <1>3 DEF Calm

\* A state that differs from k in the flags of one pipe
LEMMA NewFlags ==
    ASSUME NEW k \in KState, NEW f \in End, NEW s \in SUBSET Flags,
           NEW m, m = [k EXCEPT !.pp[f].state = s],
           "LOCK" \in s <=> "LOCK" \in k.pp[f].state
    PROVE  Calm(k, m)
<1> DEFINE q == [k.pp[f] EXCEPT !.state = s]
<1>0. /\ m = [k EXCEPT !.pp = [k.pp EXCEPT ![f] = q]]
      /\ q \in PipeRecord /\ q.state = s
  BY DEF KState, PipeRecord
<1>1. /\ m.w = k.w /\ m \in KState
      /\ \A g \in End : g # f => m.pp[g] = k.pp[g]
      /\ m.pp[f] = q /\ m.pp[f].state = s
  BY <1>0 DEF KState
<1>2. OnlyWakes(k, m)
  BY <1>1 DEF OnlyWakes
<1>3. SameLocks(k, m)
  BY <1>1 DEF SameLocks
<1>4. \A g \in End : /\ SameData(m.pp[g], k.pp[g]) /\ SameLink(m.pp[g], k.pp[g])
                     /\ m.pp[g].busy = k.pp[g].busy
  BY <1>1 DEF KState, PipeRecord, SameData, SameLink
<1> QED
  BY <1>1, <1>2, <1>3, <1>4 DEF Calm

\* Setting flags of a pipe, other than PIPE_LOCK, is calm ...
LEMMA SetFlagsCalm ==
    ASSUME NEW k \in KState, NEW f \in End, NEW F \in SUBSET Flags, "LOCK" \notin F
    PROVE  Calm(k, SetFlags(k, f, F))
<1>1. k.pp[f].state \in SUBSET Flags
  BY DEF KState, PipeRecord
<1>2. SetFlags(k, f, F) = [k EXCEPT !.pp[f].state = k.pp[f].state \cup F]
  BY DEF SetFlags, KState, PipeRecord
<1> QED
  BY <1>1, <1>2, NewFlags

\* ... and so is clearing them ...
LEMMA ClearFlagsCalm ==
    ASSUME NEW k \in KState, NEW f \in End, NEW F \in SUBSET Flags, "LOCK" \notin F
    PROVE  Calm(k, ClearFlags(k, f, F))
<1>1. k.pp[f].state \in SUBSET Flags
  BY DEF KState, PipeRecord
<1>2. ClearFlags(k, f, F) = [k EXCEPT !.pp[f].state = k.pp[f].state \ F]
  BY DEF ClearFlags, KState, PipeRecord
<1> QED
  BY <1>1, <1>2, NewFlags

\* ... wakeup() ...
LEMMA WakeCalm ==
    ASSUME NEW k \in KState, NEW ident
    PROVE  Calm(k, Wake(k, ident))
<1>1. /\ Wake(k, ident).pp = k.pp
      /\ Wake(k, ident).w = [a \in Actor |-> IF k.w[a] = ident THEN NoChan ELSE k.w[a]]
  BY DEF Wake, Wakeup, KState
<1>2. Wake(k, ident) \in KState
  BY DEF Wake, Wakeup, KState, Channel
<1> QED
  BY <1>1, <1>2 DEF Calm, OnlyWakes, SameLocks, SameData, SameLink

\* ... and clearing a flag with a wakeup().
LEMMA WakeIfCalm ==
    ASSUME NEW k \in KState, NEW f \in End, NEW flag \in Flags \ {"LOCK"}
    PROVE  Calm(k, WakeIf(k, f, flag))
<1>1. Calm(k, ClearFlags(k, f, {flag}))
  BY ClearFlagsCalm
<1>2. Calm(ClearFlags(k, f, {flag}), Wake(ClearFlags(k, f, {flag}), f))
  BY <1>1, WakeCalm DEF Calm
<1> QED
  BY <1>1, <1>2, CalmTrans, CalmSame DEF WakeIf

\* A state that differs from k in the poller on record
LEMMA NewPoller ==
    ASSUME NEW k \in KState, NEW f \in End, NEW x \in Proc \cup {NoProc}, NEW c \in BOOLEAN
    PROVE  Calm(k, [k EXCEPT !.pp[f].selpid = x, !.pp[f].coll = c])
<1> DEFINE m == [k EXCEPT !.pp[f].selpid = x, !.pp[f].coll = c]
           q == [k.pp[f] EXCEPT !.selpid = x, !.coll = c]
<1>0. /\ m = [k EXCEPT !.pp = [k.pp EXCEPT ![f] = q]]
      /\ q \in PipeRecord
  BY DEF KState, PipeRecord
<1>1. /\ SameData(q, k.pp[f]) /\ SameLink(q, k.pp[f])
      /\ q.busy = k.pp[f].busy /\ q.state = k.pp[f].state
  BY DEF KState, PipeRecord, SameData, SameLink
<1> HIDE DEF q, m
<1>2. /\ m.w = k.w /\ m \in KState
      /\ \A g \in End : g # f => m.pp[g] = k.pp[g]
      /\ m.pp[f] = q
  BY <1>0 DEF KState
<1>3. OnlyWakes(k, m)
  BY <1>2 DEF OnlyWakes
<1>4. SameLocks(k, m)
  BY <1>1, <1>2 DEF SameLocks
<1>5. \A g \in End : /\ SameData(m.pp[g], k.pp[g]) /\ SameLink(m.pp[g], k.pp[g])
                     /\ m.pp[g].busy = k.pp[g].busy
  BY <1>1, <1>2 DEF SameData, SameLink
<1>6. Calm(k, m)
  BY <1>2, <1>3, <1>4, <1>5 DEF Calm
<1> QED
  BY <1>6 DEF m

\* selrecord() changes nothing but the poller on record ...
LEMMA SelRecordCalm ==
    ASSUME NEW k \in KState, NEW f \in End, NEW p \in Proc
    PROVE  Calm(k, selrecord(k, p, f))
<1>1. k.pp[f].selpid \in Proc \cup {NoProc} /\ k.pp[f].coll \in BOOLEAN
  BY DEF KState, PipeRecord
<1>2. [k EXCEPT !.pp[f].coll = TRUE] =
          [k EXCEPT !.pp[f].selpid = k.pp[f].selpid, !.pp[f].coll = TRUE]
  BY DEF KState, PipeRecord
<1>3. [k EXCEPT !.pp[f].selpid = p] =
          [k EXCEPT !.pp[f].selpid = p, !.pp[f].coll = k.pp[f].coll]
  BY DEF KState, PipeRecord
<1>4. Calm(k, [k EXCEPT !.pp[f].coll = TRUE])
  BY <1>1, <1>2, NewPoller
<1>5. Calm(k, [k EXCEPT !.pp[f].selpid = p])
  <2>1. Calm(k, [k EXCEPT !.pp[f].selpid = p, !.pp[f].coll = k.pp[f].coll])
    BY <1>1, NewPoller
  <2> QED
    BY <1>3, <2>1, Zenon
<1> QED
  BY <1>4, <1>5, CalmSame DEF selrecord

\* ... selwakeup() wakes pollers and forgets them ...
LEMMA SelWakeupCalm ==
    ASSUME NEW k \in KState, NEW f \in End
    PROVE  Calm(k, selwakeup(k, f))
<1> DEFINE first == k.pp[f].selpid
           all == IF k.pp[f].coll THEN Wake(k, "selwait") ELSE k
           m == [all EXCEPT !.pp[f].selpid = NoProc, !.pp[f].coll = FALSE]
           v == [m.w EXCEPT ![first] = IF @ = "selwait" THEN NoChan ELSE @]
           n == [m EXCEPT !.w = v]
<1>1. Calm(k, all)
  BY WakeCalm, CalmSame
<1>2. first \in Proc \cup {NoProc}
  BY DEF KState, PipeRecord
<1>3. all \in KState
  BY <1>1 DEF Calm
<1> HIDE DEF all, first
<1>4. Calm(all, m)
  BY <1>3, NewPoller
<1>5. CASE first = NoProc
  BY <1>5, CalmSame DEF selwakeup, first
<1>6. CASE first # NoProc
  <2>1. first \in Actor
    BY <1>2, <1>6 DEF Actor
  <2>2. m \in KState
    BY <1>4 DEF Calm
  <2> HIDE DEF m
  <2>3. v \in [Actor -> Channel] /\ \A a \in Actor : v[a] \in {m.w[a], NoChan}
    BY <2>1, <2>2 DEF KState, Channel
  <2> HIDE DEF v
  <2>4. n \in KState /\ n.w = v /\ n.pp = m.pp
    BY <2>2, <2>3 DEF KState
  <2> HIDE DEF n
  <2>5. Calm(m, n)
    BY <2>3, <2>4 DEF Calm, OnlyWakes, SameLocks, SameData, SameLink
  <2>6. Calm(k, n)
    BY <1>1, <1>4, <2>5, CalmTrans
  <2>7. selwakeup(k, f) = [all EXCEPT !.pp[f].selpid = NoProc, !.pp[f].coll = FALSE,
                              !.w[first] = IF @ = "selwait" THEN NoChan ELSE @]
    BY <1>6 DEF selwakeup, first, all
  <2>8. selwakeup(k, f) = n
    BY <1>3, <2>1, <2>7 DEF n, m, v, KState, PipeRecord
  <2> QED
    BY <2>6, <2>8
<1> QED
  BY <1>5, <1>6

\* ... so that pipeselwakeup() is calm ...
LEMMA PipeSelWakeupCalm ==
    ASSUME NEW k \in KState, NEW f \in End
    PROVE  Calm(k, pipeselwakeup(k, f))
<1>1. Calm(k, ClearFlags(k, f, {"SEL"}))
  BY ClearFlagsCalm DEF Flags
<1>2. Calm(ClearFlags(k, f, {"SEL"}), selwakeup(ClearFlags(k, f, {"SEL"}), f))
  BY <1>1, SelWakeupCalm DEF Calm
<1> QED
  BY <1>1, <1>2, CalmTrans, CalmSame DEF pipeselwakeup

\* ... and so is what pipe_poll() leaves when there is no event.
LEMMA PollRecordCalm ==
    ASSUME NEW k \in KState, NEW f \in End, NEW p \in Proc, NEW ev
    PROVE  Calm(k, PollRecord(k, p, f, ev))
<1>1. ASSUME NEW j \in KState, NEW g \in End
      PROVE  Calm(j, SetFlags(selrecord(j, p, g), g, {"SEL"}))
  <2>1. Calm(j, selrecord(j, p, g))
    BY SelRecordCalm
  <2>2. Calm(selrecord(j, p, g), SetFlags(selrecord(j, p, g), g, {"SEL"}))
    BY <2>1, SetFlagsCalm DEF Calm, Flags
  <2> QED
    BY <2>1, <2>2, CalmTrans
<1> DEFINE in == IF "IN" \in ev THEN SetFlags(selrecord(k, p, f), f, {"SEL"}) ELSE k
<1>2. Calm(k, in) /\ in \in KState
  BY <1>1, CalmSame DEF Calm
<1>3. Peer(f) \in End
  BY DEF Peer, End
<1> HIDE DEF in
<1>4. Calm(in, SetFlags(selrecord(in, p, Peer(f)), Peer(f), {"SEL"}))
  BY <1>1, <1>2, <1>3
<1>5. PollRecord(k, p, f, ev) =
          IF "OUT" \in ev THEN SetFlags(selrecord(in, p, Peer(f)), Peer(f), {"SEL"}) ELSE in
  BY DEF PollRecord, in
<1> QED
  BY <1>2, <1>4, <1>5, CalmTrans

-----------------------------------------------------------------------------
\* Like Calm, and PIPE_LOCK of f is released.
Released(k, m, f) ==
    /\ m \in KState /\ OnlyWakes(k, m)
    /\ \A g \in End : /\ SameData(m.pp[g], k.pp[g]) /\ SameLink(m.pp[g], k.pp[g])
                      /\ m.pp[g].busy = k.pp[g].busy
                      /\ "LOCK" \in m.pp[g].state <=> g # f /\ "LOCK" \in k.pp[g].state

\* What is calm may follow pipeunlock() ...
LEMMA ReleasedCalm ==
    ASSUME NEW k, NEW m, NEW n, NEW f \in End, Released(k, m, f), Calm(m, n)
    PROVE  Released(k, n, f)
<1>1. OnlyWakes(k, n)
  BY DEF Calm, Released, OnlyWakes
<1>2. \A g \in End : "LOCK" \in n.pp[g].state <=> g # f /\ "LOCK" \in k.pp[g].state
  BY DEF Calm, Released, SameLocks
<1>3. \A g \in End : /\ SameData(n.pp[g], k.pp[g]) /\ SameLink(n.pp[g], k.pp[g])
                     /\ n.pp[g].busy = k.pp[g].busy
  BY DEF Calm, Released, SameData, SameLink
<1> QED
  BY <1>1, <1>2, <1>3 DEF Calm, Released

\* ... or come before it.
LEMMA CalmReleased ==
    ASSUME NEW k, NEW m, NEW n, NEW f \in End, Calm(k, m), Released(m, n, f)
    PROVE  Released(k, n, f)
<1>1. OnlyWakes(k, n)
  BY DEF Calm, Released, OnlyWakes
<1>2. \A g \in End : "LOCK" \in n.pp[g].state <=> g # f /\ "LOCK" \in k.pp[g].state
  BY DEF Calm, Released, SameLocks
<1>3. \A g \in End : /\ SameData(n.pp[g], k.pp[g]) /\ SameLink(n.pp[g], k.pp[g])
                     /\ n.pp[g].busy = k.pp[g].busy
  BY DEF Calm, Released, SameData, SameLink
<1> QED
  BY <1>1, <1>2, <1>3 DEF Calm, Released

\* pipelock() sets PIPE_LOCK of one pipe ...
LEMMA LockTakes ==
    ASSUME NEW k \in KState, NEW f \in End
    PROVE  /\ Lock(k, f) \in KState /\ Lock(k, f).w = k.w
           /\ \A g \in End : g # f => Lock(k, f).pp[g] = k.pp[g]
           /\ SameData(Lock(k, f).pp[f], k.pp[f]) /\ SameLink(Lock(k, f).pp[f], k.pp[f])
           /\ Lock(k, f).pp[f].busy = k.pp[f].busy
           /\ "LOCK" \in Lock(k, f).pp[f].state
<1> DEFINE q == [k.pp[f] EXCEPT !.state = k.pp[f].state \cup {"LOCK"}]
<1>1. /\ Lock(k, f) = [k EXCEPT !.pp = [k.pp EXCEPT ![f] = q]]
      /\ q \in PipeRecord
  BY DEF Lock, SetFlags, KState, PipeRecord, Flags
<1>2. /\ SameData(q, k.pp[f]) /\ SameLink(q, k.pp[f])
      /\ q.busy = k.pp[f].busy /\ "LOCK" \in q.state
  BY DEF KState, PipeRecord, SameData, SameLink
<1> HIDE DEF q
<1> QED
  BY <1>1, <1>2 DEF KState

\* ... and pipeunlock() clears it.
LEMMA UnlockReleases ==
    ASSUME NEW k \in KState, NEW f \in End
    PROVE  Released(k, pipeunlock(k, f), f)
<1> DEFINE q == [k.pp[f] EXCEPT !.state = k.pp[f].state \ {"LOCK"}]
           m == ClearFlags(k, f, {"LOCK"})
<1>1. /\ m = [k EXCEPT !.pp = [k.pp EXCEPT ![f] = q]]
      /\ q \in PipeRecord
  BY DEF ClearFlags, KState, PipeRecord, Flags
<1>2. /\ SameData(q, k.pp[f]) /\ SameLink(q, k.pp[f])
      /\ q.busy = k.pp[f].busy /\ "LOCK" \notin q.state
  BY DEF KState, PipeRecord, SameData, SameLink
<1> HIDE DEF q, m
<1>3. /\ m.w = k.w /\ m \in KState
      /\ \A g \in End : g # f => m.pp[g] = k.pp[g]
      /\ m.pp[f] = q
  BY <1>1, <1>2 DEF KState
<1>4. Released(k, m, f)
  BY <1>2, <1>3 DEF Released, OnlyWakes, SameData, SameLink
<1>5. Calm(m, WakeIf(m, f, "LWANT"))
  BY <1>3, WakeIfCalm DEF Flags
<1>6. pipeunlock(k, f) = WakeIf(m, f, "LWANT")
  BY DEF pipeunlock, m
<1> QED
  BY <1>4, <1>5, <1>6, ReleasedCalm

\* Like Calm, and one leaves pipe f.
Left(k, m, f) ==
    /\ m \in KState
    /\ OnlyWakes(k, m) /\ SameLocks(k, m)
    /\ \A g \in End : /\ SameData(m.pp[g], k.pp[g]) /\ SameLink(m.pp[g], k.pp[g])
                      /\ m.pp[g].busy = IF g = f THEN k.pp[g].busy - 1 ELSE k.pp[g].busy

\* What is calm may follow the decrement of pipe_busy.
LEMMA LeftCalm ==
    ASSUME NEW k, NEW m, NEW n, NEW f \in End, Left(k, m, f), Calm(m, n)
    PROVE  Left(k, n, f)
<1>1. OnlyWakes(k, n)
  BY DEF Calm, Left, OnlyWakes
<1>2. SameLocks(k, n)
  BY DEF Calm, Left, SameLocks
<1>3. \A g \in End : /\ SameData(n.pp[g], k.pp[g]) /\ SameLink(n.pp[g], k.pp[g])
                     /\ n.pp[g].busy = IF g = f THEN k.pp[g].busy - 1 ELSE k.pp[g].busy
  BY DEF Calm, Left, SameData, SameLink
<1> QED
  BY <1>1, <1>2, <1>3 DEF Calm, Left

\* "--pipe_busy"
LEMMA Decrement ==
    ASSUME NEW k \in KState, NEW f \in End, k.pp[f].busy > 0
    PROVE  Left(k, [k EXCEPT !.pp[f].busy = @ - 1], f)
<1> DEFINE q == [k.pp[f] EXCEPT !.busy = @ - 1]
           m == [k EXCEPT !.pp[f].busy = @ - 1]
<1>1. k.pp[f].busy \in Nat
  BY DEF KState, PipeRecord
<1>2. m = [k EXCEPT !.pp = [k.pp EXCEPT ![f] = q]]
  BY DEF KState, PipeRecord
<1>3. q \in PipeRecord
  BY <1>1 DEF KState, PipeRecord
<1>4. /\ SameData(q, k.pp[f]) /\ SameLink(q, k.pp[f])
      /\ q.busy = k.pp[f].busy - 1 /\ q.state = k.pp[f].state
  BY DEF KState, PipeRecord, SameData, SameLink
<1> HIDE DEF q, m
<1>5. /\ m.w = k.w /\ m \in KState
      /\ \A g \in End : g # f => m.pp[g] = k.pp[g]
      /\ m.pp[f] = q
  BY <1>2, <1>3 DEF KState
<1>6. Left(k, m, f)
  BY <1>4, <1>5 DEF Left, OnlyWakes, SameLocks, SameData, SameLink
<1> QED
  BY <1>6 DEF m

\* "++pipe_busy"
LEMMA Increment ==
    ASSUME NEW k \in KState, NEW f \in End
    PROVE  LET m == [k EXCEPT !.pp[f].busy = @ + 1] IN
           /\ m \in KState /\ m.w = k.w
           /\ \A g \in End : g # f => m.pp[g] = k.pp[g]
           /\ SameData(m.pp[f], k.pp[f]) /\ SameLink(m.pp[f], k.pp[f])
           /\ m.pp[f].busy = k.pp[f].busy + 1 /\ m.pp[f].state = k.pp[f].state
<1> DEFINE q == [k.pp[f] EXCEPT !.busy = @ + 1]
           m == [k EXCEPT !.pp[f].busy = @ + 1]
<1>1. k.pp[f].busy \in Nat
  BY DEF KState, PipeRecord
<1>2. m = [k EXCEPT !.pp = [k.pp EXCEPT ![f] = q]]
  BY DEF KState, PipeRecord
<1>3. q \in PipeRecord
  BY <1>1 DEF KState, PipeRecord
<1>4. /\ SameData(q, k.pp[f]) /\ SameLink(q, k.pp[f])
      /\ q.busy = k.pp[f].busy + 1 /\ q.state = k.pp[f].state
  BY DEF KState, PipeRecord, SameData, SameLink
<1> HIDE DEF q, m
<1>5. /\ m.w = k.w /\ m \in KState
      /\ \A g \in End : g # f => m.pp[g] = k.pp[g]
      /\ m.pp[f] = q
  BY <1>2, <1>3 DEF KState
<1>6. /\ m \in KState /\ m.w = k.w
      /\ \A g \in End : g # f => m.pp[g] = k.pp[g]
      /\ SameData(m.pp[f], k.pp[f]) /\ SameLink(m.pp[f], k.pp[f])
      /\ m.pp[f].busy = k.pp[f].busy + 1 /\ m.pp[f].state = k.pp[f].state
  BY <1>4, <1>5
<1> QED
  BY <1>6 DEF m

\* tsleep() with PCATCH of p
LEMMA Sleeps ==
    ASSUME NEW k \in KState, NEW p \in Proc, NEW c \in Channel
    PROVE  LET m == [k EXCEPT !.w = SleepCatch(@, p, c)] IN
           /\ m \in KState /\ m.pp = k.pp
           /\ \A a \in Actor : a # p => m.w[a] = k.w[a]
           /\ m.w[p] \in {c, NoChan}
<1>1. p \in Actor
  BY DEF Actor
<1>2. SleepCatch(k.w, p, c) \in [Actor -> Channel]
  BY <1>1 DEF SleepCatch, KState, Channel
<1>3. /\ SleepCatch(k.w, p, c)[p] \in {c, NoChan}
      /\ \A a \in Actor : a # p => SleepCatch(k.w, p, c)[a] = k.w[a]
  BY <1>1 DEF SleepCatch, KState
<1> QED
  BY <1>2, <1>3 DEF KState

-----------------------------------------------------------------------------
\* Where a step of p ends: out of the system call, or at where.
After(p, m, where, left, sp) ==
    IF where = "idle" THEN Return(p, m) ELSE StayWith(p, m, where, left, sp)

\* What p may sleep on there
Ident(where, f) ==
    IF where = "select" THEN {"selwait", NoChan}
    ELSE IF where \in Waiting THEN {f, NoChan} ELSE {NoChan}

\* From k, in which p runs, to m, in which it is at where, with pipe f.
Ends(p, f, k, m, where) ==
    /\ m \in KState
    /\ \A a \in Actor : a # p => m.w[a] \in {k.w[a], NoChan}
    /\ m.w[p] \in Ident(where, f)
    /\ \A g \in End : /\ SameData(m.pp[g], k.pp[g]) /\ SameLink(m.pp[g], k.pp[g])
                      /\ m.pp[g].busy = IF g = f /\ where = "idle"
                                        THEN k.pp[g].busy - 1 ELSE k.pp[g].busy
                      /\ g # f => ("LOCK" \in m.pp[g].state <=> "LOCK" \in k.pp[g].state)

\* A thread that has left its pipe returns.
LEMMA LeftEnds ==
    ASSUME NEW p \in Proc, NEW f \in End, NEW k, NEW m, Left(k, m, f), k.w[p] = NoChan
    PROVE  Ends(p, f, k, m, "idle")
<1>1. p \in Actor
  BY DEF Actor
<1> QED
  BY <1>1 DEF Left, Ends, OnlyWakes, SameLocks, Ident, Waiting

\* unlocked_error of pipe_read()
LEMMA ReadDoneLeft ==
    ASSUME NEW p \in Proc, NEW f \in End, NEW k \in KState, k.pp[f].busy > 0,
           ReadDone(p, k, f)
    PROVE  \E m : Left(k, m, f) /\ Return(p, m)
<1> DEFINE left == [k EXCEPT !.pp[f].busy = @ - 1]
           woken == IF left.pp[f].busy = 0 /\ "WANT" \in left.pp[f].state
                    THEN Wake(ClearFlags(left, f, {"WANT", "WANTW"}), f)
                    ELSE IF left.pp[f].cnt < MINPIPESIZE
                    THEN WakeIf(left, f, "WANTW") ELSE left
           out == IF Space(woken, f) >= PIPE_BUF THEN pipeselwakeup(woken, f) ELSE woken
<1>1. Return(p, out)
  BY DEF ReadDone
<1>2. Left(k, left, f)
  BY Decrement
<1> HIDE DEF left
<1>3. left \in KState
  BY <1>2 DEF Left
<1>4. Calm(left, woken)
  <2>1. Calm(left, ClearFlags(left, f, {"WANT", "WANTW"}))
    BY <1>3, ClearFlagsCalm DEF Flags
  <2>2. Calm(ClearFlags(left, f, {"WANT", "WANTW"}), Wake(ClearFlags(left, f, {"WANT", "WANTW"}), f))
    BY <2>1, WakeCalm DEF Calm
  <2>3. Calm(left, WakeIf(left, f, "WANTW"))
    BY <1>3, WakeIfCalm DEF Flags
  <2> QED
    BY <1>3, <2>1, <2>2, <2>3, CalmTrans, CalmSame
<1> HIDE DEF woken
<1>5. Calm(woken, out)
  BY <1>4, PipeSelWakeupCalm, CalmSame DEF Calm
<1> HIDE DEF out
<1> QED
  BY <1>1, <1>2, <1>4, <1>5, LeftCalm

\* pipe_write() after its loop
LEMMA WriteDoneLeft ==
    ASSUME NEW p \in Proc, NEW f \in End, NEW k \in KState, k.pp[f].busy > 0,
           WriteDone(p, k, f)
    PROVE  \E m : Left(k, m, f) /\ Return(p, m)
<1> DEFINE left == [k EXCEPT !.pp[f].busy = @ - 1]
           woken == IF left.pp[f].busy = 0 /\ "WANT" \in left.pp[f].state
                    THEN Wake(ClearFlags(left, f, {"WANT", "WANTR"}), f)
                    ELSE IF left.pp[f].cnt > 0 THEN WakeIf(left, f, "WANTR") ELSE left
           out == IF woken.pp[f].cnt > 0 THEN pipeselwakeup(woken, f) ELSE woken
<1>1. Return(p, out)
  BY DEF WriteDone
<1>2. Left(k, left, f)
  BY Decrement
<1> HIDE DEF left
<1>3. left \in KState
  BY <1>2 DEF Left
<1>4. Calm(left, woken)
  <2>1. Calm(left, ClearFlags(left, f, {"WANT", "WANTR"}))
    BY <1>3, ClearFlagsCalm DEF Flags
  <2>2. Calm(ClearFlags(left, f, {"WANT", "WANTR"}), Wake(ClearFlags(left, f, {"WANT", "WANTR"}), f))
    BY <2>1, WakeCalm DEF Calm
  <2>3. Calm(left, WakeIf(left, f, "WANTR"))
    BY <1>3, WakeIfCalm DEF Flags
  <2> QED
    BY <1>3, <2>1, <2>2, <2>3, CalmTrans, CalmSame
<1> HIDE DEF woken
<1>5. Calm(woken, out)
  BY <1>4, PipeSelWakeupCalm, CalmSame DEF Calm
<1> HIDE DEF out
<1> QED
  BY <1>1, <1>2, <1>4, <1>5, LeftCalm

\* A thread that gives up PIPE_LOCK and leaves returns without it ...
LEMMA ReleasedLeft ==
    ASSUME NEW p \in Proc, NEW f \in End, NEW k, NEW u, NEW m, k.w[p] = NoChan,
           Released(k, u, f), Left(u, m, f)
    PROVE  Ends(p, f, k, m, "idle") /\ "LOCK" \notin m.pp[f].state
<1>1. p \in Actor
  BY DEF Actor
<1>2. \A a \in Actor : m.w[a] \in {k.w[a], NoChan}
  BY DEF Released, Left, OnlyWakes
<1>3. \A g \in End : "LOCK" \in m.pp[g].state <=> g # f /\ "LOCK" \in k.pp[g].state
  BY DEF Released, Left, SameLocks
<1>4. \A g \in End : /\ SameData(m.pp[g], k.pp[g]) /\ SameLink(m.pp[g], k.pp[g])
                     /\ m.pp[g].busy = IF g = f THEN k.pp[g].busy - 1 ELSE k.pp[g].busy
  BY DEF Released, Left, SameData, SameLink
<1>5. m \in KState
  BY DEF Left
<1> QED
  BY <1>1, <1>2, <1>3, <1>4, <1>5 DEF Ends, Ident, Waiting

\* ... and one that gives it up and sleeps has given it up.
LEMMA ReleasedSleeps ==
    ASSUME NEW p \in Proc, NEW f \in End, NEW k, NEW u, NEW where \in Waiting,
           Released(k, u, f)
    PROVE  LET m == [u EXCEPT !.w = SleepCatch(@, p, f)] IN
           Ends(p, f, k, m, where) /\ "LOCK" \notin m.pp[f].state
<1> DEFINE m == [u EXCEPT !.w = SleepCatch(@, p, f)]
<1>1. u \in KState /\ f \in Channel
  BY DEF Released, Channel
<1>2. /\ m \in KState /\ m.pp = u.pp
      /\ \A a \in Actor : a # p => m.w[a] = u.w[a]
      /\ m.w[p] \in {f, NoChan}
  BY <1>1, Sleeps
<1> HIDE DEF m
<1>3. \A a \in Actor : a # p => m.w[a] \in {k.w[a], NoChan}
  BY <1>2 DEF Released, OnlyWakes
<1>4. where # "idle" /\ where # "select"
  BY DEF Waiting
<1>5. m.w[p] \in Ident(where, f)
  BY <1>2, <1>4 DEF Ident
<1>6. Ends(p, f, k, m, where) /\ "LOCK" \notin m.pp[f].state
  BY <1>2, <1>3, <1>4, <1>5 DEF Ends, Released
<1> QED
  BY <1>6 DEF m

\* The loop of pipe_read(), begun in state k with PIPE_LOCK and `left' bytes to
\* go: whether it moves some, leaves or waits for data.
ReadEnd(p, f, k, left, m, where, r) ==
    /\ Ends(p, f, k, m, where)
    /\ "LOCK" \in m.pp[f].state <=> where = "move"
    /\ where = "move" => r = left /\ left > 0 /\ k.pp[f].cnt > 0

\* However pipe_read()'s loop goes on, it ends in uiomove() with PIPE_LOCK and
\* something to take, or gives the lock up and returns or waits for data.
LEMMA ReadLoopEnds ==
    ASSUME NEW p \in Proc, NEW f \in End, NEW k \in KState, k.pp[f].busy > 0,
           k.w[p] = NoChan, "LOCK" \in k.pp[f].state, NEW left \in Nat,
           resid[p] \in Nat, ReadLoop(p, k, f, left)
    PROVE  \E m \in KState, where \in {"idle", "move", "piperd"}, r \in Nat :
              After(p, m, where, r, 0) /\ ReadEnd(p, f, k, left, m, where, r)
<1> DEFINE Goal == \E m \in KState, where \in {"idle", "move", "piperd"}, r \in Nat :
              After(p, m, where, r, 0) /\ ReadEnd(p, f, k, left, m, where, r)
<1>0. SUFFICES Goal
  OBVIOUS
<1>1. ASSUME NEW u, Released(k, u, f), ReadDone(p, u, f)
      PROVE  Goal
  <2>1. u \in KState /\ u.pp[f].busy > 0
    BY <1>1 DEF Released
  <2>2. PICK m : Left(u, m, f) /\ Return(p, m)
    BY <1>1, <2>1, ReadDoneLeft
  <2>3. Ends(p, f, k, m, "idle") /\ "LOCK" \notin m.pp[f].state
    BY <1>1, <2>2, ReleasedLeft
  <2>4. After(p, m, "idle", 0, 0) /\ 0 \in Nat
    BY <2>2 DEF After
  <2>5. ReadEnd(p, f, k, left, m, "idle", 0)
    BY <2>3 DEF ReadEnd
  <2>6. m \in KState
    BY <2>2 DEF Left
  <2> WITNESS m \in KState, "idle" \in {"idle", "move", "piperd"}, 0 \in Nat
  <2> QED
    BY <2>4, <2>5
<1> DEFINE w == WakeIf(k, f, "WANTW")
           awake == pipeunlock(w, f)
           wants == SetFlags(awake, f, {"WANTR"})
<1>2. Released(k, pipeunlock(k, f), f)
  BY UnlockReleases
<1>3. Released(k, awake, f)
  <2>1. Calm(k, w)
    BY WakeIfCalm DEF Flags
  <2>2. Released(w, awake, f)
    BY <2>1, UnlockReleases DEF Calm
  <2> QED
    BY <2>1, <2>2, CalmReleased
<1>4. Released(k, wants, f)
  <2>1. Calm(awake, wants)
    BY <1>3, SetFlagsCalm DEF Released, Flags
  <2> QED
    BY <1>3, <2>1, ReleasedCalm
<1>5. CASE left > 0 /\ k.pp[f].cnt > 0 /\ Stay(p, k, "move", left)
  <2>1. After(p, k, "move", left, 0)
    BY <1>5 DEF After, Stay
  <2>2. Ends(p, f, k, k, "move")
    BY DEF Ends, Ident, Waiting, SameData, SameLink
  <2>3. ReadEnd(p, f, k, left, k, "move", left)
    BY <1>5, <2>2 DEF ReadEnd
  <2> WITNESS k \in KState, "move" \in {"idle", "move", "piperd"}, left \in Nat
  <2> QED
    BY <2>1, <2>3
<1>6. CASE ReadDone(p, pipeunlock(k, f), f)
  BY <1>1, <1>2, <1>6
<1>7. CASE ReadDone(p, awake, f)
  BY <1>1, <1>3, <1>7
<1>8. CASE Stay(p, [wants EXCEPT !.w = SleepCatch(@, p, f)], "piperd", resid[p])
  <2> DEFINE m == [wants EXCEPT !.w = SleepCatch(@, p, f)]
  <2>1. After(p, m, "piperd", resid[p], 0)
    BY <1>8 DEF After, Stay
  <2>2. Ends(p, f, k, m, "piperd") /\ "LOCK" \notin m.pp[f].state
    BY <1>4, ReleasedSleeps DEF Waiting
  <2> HIDE DEF m
  <2>3. ReadEnd(p, f, k, left, m, "piperd", resid[p])
    BY <2>2 DEF ReadEnd
  <2>4. m \in KState
    BY <2>2 DEF Ends
  <2> WITNESS m \in KState, "piperd" \in {"idle", "move", "piperd"}, resid[p] \in Nat
  <2> QED
    BY <2>1, <2>3
<1> QED
  BY <1>5, <1>6, <1>7, <1>8 DEF ReadLoop, ReadEmpty

\* A round of pipelock() that finds PIPE_LOCK set
LEMMA LockSleepEnds ==
    ASSUME NEW p \in Proc, NEW f \in End, NEW k \in KState, NEW where \in Waiting
    PROVE  /\ Ends(p, f, k, LockSleep(k, p, f), where)
           /\ "LOCK" \in LockSleep(k, p, f).pp[f].state <=> "LOCK" \in k.pp[f].state
<1> DEFINE u == SetFlags(k, f, {"LWANT"})
           m == [u EXCEPT !.w = SleepCatch(@, p, f)]
<1>1. Calm(k, u)
  BY SetFlagsCalm DEF Flags
<1>2. f \in Channel /\ u \in KState
  BY <1>1 DEF Channel, Calm
<1> HIDE DEF u
<1>3. /\ m \in KState /\ m.pp = u.pp
      /\ \A a \in Actor : a # p => m.w[a] = u.w[a]
      /\ m.w[p] \in {f, NoChan}
  BY <1>2, Sleeps
<1> HIDE DEF m
<1>4. \A a \in Actor : a # p => m.w[a] \in {k.w[a], NoChan}
  BY <1>1, <1>3 DEF Calm, OnlyWakes
<1>5. where # "idle" /\ where # "select"
  BY DEF Waiting
<1>6. m.w[p] \in Ident(where, f)
  BY <1>3, <1>5 DEF Ident
<1>7. /\ Ends(p, f, k, m, where)
      /\ "LOCK" \in m.pp[f].state <=> "LOCK" \in k.pp[f].state
  BY <1>1, <1>3, <1>4, <1>5, <1>6 DEF Ends, Calm, SameLocks
<1>8. LockSleep(k, p, f) = m
  BY DEF LockSleep, m, u
<1> QED
  BY <1>7, <1>8

\* A thread that sleeps after calm changes leaves PIPE_LOCK as it was ...
LEMMA CalmSleeps ==
    ASSUME NEW p \in Proc, NEW f \in End, NEW k, NEW u, NEW where \in Waiting,
           Calm(k, u)
    PROVE  LET m == [u EXCEPT !.w = SleepCatch(@, p, f)] IN
           /\ Ends(p, f, k, m, where)
           /\ "LOCK" \in m.pp[f].state <=> "LOCK" \in k.pp[f].state
<1> DEFINE m == [u EXCEPT !.w = SleepCatch(@, p, f)]
<1>1. u \in KState /\ f \in Channel
  BY DEF Calm, Channel
<1>2. /\ m \in KState /\ m.pp = u.pp
      /\ \A a \in Actor : a # p => m.w[a] = u.w[a]
      /\ m.w[p] \in {f, NoChan}
  BY <1>1, Sleeps
<1> HIDE DEF m
<1>3. \A a \in Actor : a # p => m.w[a] \in {k.w[a], NoChan}
  BY <1>2 DEF Calm, OnlyWakes
<1>4. where # "idle" /\ where # "select"
  BY DEF Waiting
<1>5. m.w[p] \in Ident(where, f)
  BY <1>2, <1>4 DEF Ident
<1>6. Ends(p, f, k, m, where) /\ ("LOCK" \in m.pp[f].state <=> "LOCK" \in k.pp[f].state)
  BY <1>2, <1>3, <1>4, <1>5 DEF Ends, Calm, SameLocks
<1> QED
  BY <1>6 DEF m

\* ... and so does one that leaves the pipe and returns.
LEMMA CalmLeft ==
    ASSUME NEW p \in Proc, NEW f \in End, NEW k, NEW u, NEW m, k.w[p] = NoChan,
           Calm(k, u), Left(u, m, f)
    PROVE  /\ Ends(p, f, k, m, "idle")
           /\ "LOCK" \in m.pp[f].state <=> "LOCK" \in k.pp[f].state
<1>1. p \in Actor
  BY DEF Actor
<1>2. \A a \in Actor : m.w[a] \in {k.w[a], NoChan}
  BY DEF Calm, Left, OnlyWakes
<1>3. \A g \in End : "LOCK" \in m.pp[g].state <=> "LOCK" \in k.pp[g].state
  BY DEF Calm, Left, SameLocks
<1>4. \A g \in End : /\ SameData(m.pp[g], k.pp[g]) /\ SameLink(m.pp[g], k.pp[g])
                     /\ m.pp[g].busy = IF g = f THEN k.pp[g].busy - 1 ELSE k.pp[g].busy
  BY DEF Calm, Left, SameData, SameLink
<1>5. m \in KState
  BY DEF Left
<1> QED
  BY <1>1, <1>2, <1>3, <1>4, <1>5 DEF Ends, Ident, Waiting

\* The loop of pipe_write(), begun in state k with `left' bytes to go: whether
\* it moves some, waits for PIPE_LOCK or for space, or leaves.
WriteEnd(p, f, k, left, m, where, sp) ==
    /\ Ends(p, f, k, m, where)
    /\ where = "wmove" => "LOCK" \notin k.pp[f].state /\ "LOCK" \in m.pp[f].state
    /\ where # "wmove" => ("LOCK" \in m.pp[f].state <=> "LOCK" \in k.pp[f].state)
    /\ where # "idle" => left > 0
    /\ where \in {"wlock", "wmove"} =>
          /\ left > 0 /\ sp > 0 /\ sp <= k.pp[f].size - k.pp[f].cnt
          /\ op[p].n <= PIPE_BUF => left <= sp

\* However pipe_write()'s loop goes on, it ends in uiomove() with PIPE_LOCK and
\* space for what a small write has left, in pipelock() on the way there, waiting
\* for space, or in the return.
LEMMA WriteLoopEnds ==
    ASSUME NEW p \in Proc, NEW f \in End, NEW k \in KState, k.pp[f].busy > 0,
           k.w[p] = NoChan, k.pp[f].cnt <= k.pp[f].size, NEW left \in Nat,
           op[p].n \in Nat, WriteLoop(p, k, f, left)
    PROVE  \E m \in KState, where \in {"idle", "wlock", "wmove", "pipewr"}, sp \in Nat :
              After(p, m, where, left, sp) /\ WriteEnd(p, f, k, left, m, where, sp)
<1> DEFINE Goal == \E m \in KState, where \in {"idle", "wlock", "wmove", "pipewr"}, sp \in Nat :
              After(p, m, where, left, sp) /\ WriteEnd(p, f, k, left, m, where, sp)
           usable == Usable(p, k, f, left)
<1>0. SUFFICES Goal
  OBVIOUS
<1>1. ASSUME NEW u, Calm(k, u), WriteDone(p, u, f)
      PROVE  Goal
  <2>1. u \in KState /\ u.pp[f].busy > 0
    BY <1>1 DEF Calm
  <2>2. PICK m : Left(u, m, f) /\ Return(p, m)
    BY <1>1, <2>1, WriteDoneLeft
  <2>3. /\ Ends(p, f, k, m, "idle")
        /\ "LOCK" \in m.pp[f].state <=> "LOCK" \in k.pp[f].state
    BY <1>1, <2>2, CalmLeft
  <2>4. After(p, m, "idle", left, 0)
    BY <2>2 DEF After
  <2>5. WriteEnd(p, f, k, left, m, "idle", 0)
    BY <2>3 DEF WriteEnd
  <2>6. m \in KState
    BY <2>2 DEF Left
  <2> WITNESS m \in KState, "idle" \in {"idle", "wlock", "wmove", "pipewr"}, 0 \in Nat
  <2> QED
    BY <2>4, <2>5
<1>2. CASE left > 0 /\ usable > 0
           /\ IF Locked(k, f) THEN StayWith(p, LockSleep(k, p, f), "wlock", left, usable)
              ELSE StayWith(p, Lock(k, f), "wmove", left, usable)
  <2>1. /\ k.pp[f].size - k.pp[f].cnt \in Nat
        /\ Space(k, f) = k.pp[f].size - k.pp[f].cnt
    <3>1. k.pp[f].size \in Nat /\ k.pp[f].cnt \in Nat
      BY PipeAssumption DEF KState, PipeRecord
    <3> QED
      BY <3>1 DEF Space
  <2>2. /\ usable \in Nat /\ usable <= k.pp[f].size - k.pp[f].cnt
        /\ op[p].n <= PIPE_BUF => left <= usable
    BY <1>2, <2>1, PipeAssumption DEF Usable
  <2> HIDE DEF usable
  <2>3. CASE Locked(k, f)
    <3> DEFINE m == LockSleep(k, p, f)
    <3>1. After(p, m, "wlock", left, usable)
      BY <1>2, <2>3 DEF After
    <3>2. Ends(p, f, k, m, "wlock") /\ ("LOCK" \in m.pp[f].state <=> "LOCK" \in k.pp[f].state)
      BY LockSleepEnds DEF Waiting
    <3> HIDE DEF m
    <3>3. WriteEnd(p, f, k, left, m, "wlock", usable)
      BY <1>2, <2>2, <3>2 DEF WriteEnd
    <3>4. m \in KState
      BY <3>2 DEF Ends
    <3> usable \in Nat /\ m \in KState
      BY <2>2, <3>4
    <3> WITNESS m \in KState, "wlock" \in {"idle", "wlock", "wmove", "pipewr"}, usable \in Nat
    <3> QED
      BY <3>1, <3>3
  <2>4. CASE ~Locked(k, f)
    <3> DEFINE m == Lock(k, f)
    <3>1. After(p, m, "wmove", left, usable)
      BY <1>2, <2>4 DEF After
    <3>2. /\ m \in KState /\ m.w = k.w
          /\ \A g \in End : g # f => m.pp[g] = k.pp[g]
          /\ SameData(m.pp[f], k.pp[f]) /\ SameLink(m.pp[f], k.pp[f])
          /\ m.pp[f].busy = k.pp[f].busy
          /\ "LOCK" \in m.pp[f].state
      BY LockTakes
    <3> HIDE DEF m
    <3>3. Ends(p, f, k, m, "wmove")
      BY <3>2 DEF Ends, Ident, Waiting, SameData, SameLink
    <3>4. WriteEnd(p, f, k, left, m, "wmove", usable)
      BY <1>2, <2>2, <2>4, <3>2, <3>3 DEF WriteEnd, Locked
    <3> usable \in Nat /\ m \in KState
      BY <2>2, <3>2
    <3> WITNESS m \in KState, "wmove" \in {"idle", "wlock", "wmove", "pipewr"}, usable \in Nat
    <3> QED
      BY <3>1, <3>2, <3>4
  <2> QED
    BY <2>3, <2>4
<1> DEFINE awake == WakeIf(k, f, "WANTR")
           sel == pipeselwakeup(awake, f)
           wants == SetFlags(sel, f, {"WANTW"})
<1>3. Calm(k, awake)
  BY WakeIfCalm DEF Flags
<1>4. Calm(k, wants)
  <2>1. Calm(awake, sel)
    BY <1>3, PipeSelWakeupCalm DEF Calm
  <2>2. Calm(sel, wants)
    BY <2>1, SetFlagsCalm DEF Calm, Flags
  <2> QED
    BY <1>3, <2>1, <2>2, CalmTrans
<1>5. CASE left > 0 /\ Stay(p, [wants EXCEPT !.w = SleepCatch(@, p, f)], "pipewr", left)
  <2> DEFINE m == [wants EXCEPT !.w = SleepCatch(@, p, f)]
  <2>1. After(p, m, "pipewr", left, 0)
    BY <1>5 DEF After, Stay
  <2>2. Ends(p, f, k, m, "pipewr") /\ ("LOCK" \in m.pp[f].state <=> "LOCK" \in k.pp[f].state)
    BY <1>4, CalmSleeps DEF Waiting
  <2> HIDE DEF m
  <2>3. WriteEnd(p, f, k, left, m, "pipewr", 0)
    BY <1>5, <2>2 DEF WriteEnd
  <2>4. m \in KState
    BY <2>2 DEF Ends
  <2> WITNESS m \in KState, "pipewr" \in {"idle", "wlock", "wmove", "pipewr"}, 0 \in Nat
  <2> QED
    BY <2>1, <2>3
<1>6. CASE WriteDone(p, k, f)
  BY <1>1, <1>6, CalmSame
<1>7. CASE WriteDone(p, awake, f)
  BY <1>1, <1>3, <1>7
<1> QED
  BY <1>2, <1>5, <1>6, <1>7 DEF WriteLoop, WriteFull

-----------------------------------------------------------------------------
\* The data of a pipe are what they should be.
Sane(q) ==
    /\ q.cnt \in Nat /\ q.in \in Nat /\ q.out \in Nat
    /\ q.size \in {PIPE_SIZE, BIG_PIPE_SIZE}
    /\ q.cnt <= q.size /\ q.in < q.size /\ q.out < q.size
    /\ q.buffer \in Buffer(q.size)

One(b) == IF b THEN 1 ELSE 0

\* A step of p with pipe f that goes on to where, and leaves state m, with the
\* data of f those of q
Moves(p, f, m, q, where) ==
    /\ m \in KState
    /\ \A a \in Actor : a # p => m.w[a] \in {p_wchan[a], NoChan}
    /\ m.w[p] \in Ident(where, f)
    /\ \A g \in End : SameLink(m.pp[g], pipe[g])
    /\ \A g \in End : g # f => /\ SameData(m.pp[g], pipe[g])
                               /\ m.pp[g].busy = pipe[g].busy
                               /\ "LOCK" \in m.pp[g].state <=> "LOCK" \in pipe[g].state
    /\ SameData(m.pp[f], q)
    /\ m.pp[f].busy = pipe[f].busy + One(where \in Busy) - One(pc[p] \in Busy)
    /\ where \in Holding => /\ "LOCK" \in m.pp[f].state
                            /\ pc[p] \in Holding \/ "LOCK" \notin pipe[f].state
    /\ pc[p] \notin Holding /\ "LOCK" \in pipe[f].state => "LOCK" \in m.pp[f].state

\* p may be at where, with `left' bytes to go and room for sp.
Fits(p, q, where, left, sp) ==
    /\ where \in Place /\ left \in Nat /\ sp \in Nat
    /\ pc[p] # "idle"
    /\ where \notin {"idle", "select"} => pc[p] # "select"
    /\ where \in Busy /\ pc[p] \notin Busy => pipe[Target(p)].live
    /\ where \in Reading => op[p].op = "read"
    /\ where \in Writing => op[p].op = "write"
    /\ where \in {"scan", "select"} => op[p].op = "poll"
    /\ where = "move" => left > 0 /\ q.cnt > 0
    /\ where \in Writing =>
          /\ left <= op[p].n
          /\ op[p].n <= PIPE_BUF => left = op[p].n
    /\ where \in {"wlock", "wmove"} =>
          /\ sp > 0 /\ left > 0
          /\ op[p].n <= PIPE_BUF => left <= sp
    /\ where = "wmove" => sp <= q.size - q.cnt

Step(p, f, m, q, where, left, sp) ==
    /\ f = Target(p) /\ Sane(q)
    /\ After(p, m, where, left, sp)
    /\ Moves(p, f, m, q, where)
    /\ Fits(p, q, where, left, sp)
    /\ SameData(q, pipe[f]) \/ pc[p] \in Holding
    /\ closer' = closer /\ ops' = ops

\* The state as the operators on k see it
LEMMA NowTypes ==
    ASSUME Types
    PROVE  /\ Now \in KState /\ Now.w = p_wchan /\ Now.pp = pipe
           /\ \A f \in End : Sane(pipe[f])
           /\ \A p \in Proc : Target(p) \in End
<1>1. Now \in KState /\ Now.w = p_wchan /\ Now.pp = pipe
  BY DEF Types, TypeOK, Now, KState, Channel
<1>2. \A f \in End : Sane(pipe[f])
  <2> TAKE f \in End
  <2>1. pipe[f].size \in Nat
    BY PipeAssumption DEF Types, TypeOK
  <2> QED
    BY <2>1 DEF Types, TypeOK, Sane, Buffer
<1>3. \A p \in Proc : Target(p) \in End
  BY DEF Types, TypeOK, Target, Peer, End, Op, NoOp
<1> QED
  BY <1>1, <1>2, <1>3

\* What a step of p does to the variables of the threads
LEMMA StepVars ==
    ASSUME Types, NEW p \in Proc, NEW f, NEW m, NEW q, NEW where, NEW left, NEW sp,
           Step(p, f, m, q, where, left, sp)
    PROVE  /\ f \in End /\ m \in KState /\ p_wchan' = m.w /\ pipe' = m.pp
           /\ pc' = [pc EXCEPT ![p] = where]
           /\ op' = [op EXCEPT ![p] = IF where = "idle" THEN NoOp ELSE op[p]]
           /\ resid' = [resid EXCEPT ![p] = IF where = "idle" THEN 0 ELSE left]
           /\ space' = [space EXCEPT ![p] = IF where = "idle" THEN 0 ELSE sp]
<1>1. f \in End /\ m \in KState
  BY NowTypes DEF Step, Moves
<1>2. op = [op EXCEPT ![p] = op[p]]
  BY DEF Types
<1> QED
  BY <1>1, <1>2 DEF Step, After, Return, StayWith, Commit

\* The thread of a step is where the step ends, and no other one moves.
LEMMA StepThreads ==
    ASSUME Types, NEW p \in Proc, NEW f, NEW m, NEW q, NEW where, NEW left, NEW sp,
           Step(p, f, m, q, where, left, sp)
    PROVE  /\ pc'[p] = where
           /\ where # "idle" => /\ op'[p] = op[p] /\ Target(p)' = f
                                /\ resid'[p] = left /\ space'[p] = sp
           /\ where = "idle" => op'[p] = NoOp
           /\ \A a \in Proc : a # p => /\ pc'[a] = pc[a] /\ op'[a] = op[a]
                                       /\ Target(a)' = Target(a)
                                       /\ resid'[a] = resid[a] /\ space'[a] = space[a]
<1>0. /\ pc' = [pc EXCEPT ![p] = where]
      /\ op' = [op EXCEPT ![p] = IF where = "idle" THEN NoOp ELSE op[p]]
      /\ resid' = [resid EXCEPT ![p] = IF where = "idle" THEN 0 ELSE left]
      /\ space' = [space EXCEPT ![p] = IF where = "idle" THEN 0 ELSE sp]
  BY StepVars
<1>1. f = Target(p)
  BY DEF Step
<1>2. p \in DOMAIN pc /\ p \in DOMAIN op /\ p \in DOMAIN resid /\ p \in DOMAIN space
  BY DEF Types, TypeOK
<1>3. /\ pc'[p] = where
      /\ where # "idle" => op'[p] = op[p] /\ resid'[p] = left /\ space'[p] = sp
      /\ where = "idle" => op'[p] = NoOp
  BY <1>0, <1>2
<1>4. \A a \in Proc : a # p => /\ pc'[a] = pc[a] /\ op'[a] = op[a]
                               /\ resid'[a] = resid[a] /\ space'[a] = space[a]
  BY <1>0, <1>2 DEF Types, TypeOK
<1>5. where # "idle" => Target(p)' = f
  BY <1>1, <1>3 DEF Target
<1>6. \A a \in Proc : a # p => Target(a)' = Target(a)
  BY <1>4 DEF Target
<1> QED
  BY <1>3, <1>4, <1>5, <1>6

\* The data of a pipe after a step, typed
LEMMA StepSane ==
    ASSUME Types, NEW p \in Proc, NEW f, NEW m, NEW q, NEW where, NEW left, NEW sp,
           Step(p, f, m, q, where, left, sp)
    PROVE  \A g \in End : Sane(pipe'[g])
<1> TAKE g \in End
<1>1. pipe' = m.pp
  BY StepVars
<1>2. Sane(pipe[g]) /\ Sane(q)
  BY NowTypes DEF Step
<1>3. SameData(pipe'[g], q) \/ SameData(pipe'[g], pipe[g])
  BY <1>1 DEF Step, Moves
<1> QED
  BY <1>2, <1>3 DEF Sane, SameData

\* A step keeps the types ...
LEMMA StepTypes ==
    ASSUME Types, NEW p \in Proc, NEW f, NEW m, NEW q, NEW where, NEW left, NEW sp,
           Step(p, f, m, q, where, left, sp), nbigpipe' \in Nat,
           stream' \in [End -> Seq(Byte)], last' \in [End -> Byte \cup {NoByte}]
    PROVE  Types'
<1>0. /\ pc' = [pc EXCEPT ![p] = where]
      /\ op' = [op EXCEPT ![p] = IF where = "idle" THEN NoOp ELSE op[p]]
      /\ resid' = [resid EXCEPT ![p] = IF where = "idle" THEN 0 ELSE left]
      /\ space' = [space EXCEPT ![p] = IF where = "idle" THEN 0 ELSE sp]
      /\ m \in KState /\ p_wchan' = m.w /\ pipe' = m.pp
  BY StepVars
<1>1. pipe' \in [End -> PipeRecord] /\ p_wchan' \in [Actor -> Channel]
  BY <1>0 DEF KState
<1>2. where \in Place /\ left \in Nat /\ sp \in Nat /\ pc[p] # "idle"
  BY DEF Step, Fits
<1>3. /\ pc' \in [Proc -> Place] /\ op' \in [Proc -> Op \cup {NoOp}]
      /\ resid' \in [Proc -> Nat] /\ space' \in [Proc -> Nat]
  BY <1>0, <1>2 DEF Types, TypeOK
<1>4. \A a \in Proc : (pc'[a] = "idle") = (op'[a] = NoOp)
  BY <1>0, <1>2 DEF Types, TypeOK
<1>5. closer' = closer /\ ops' = ops
  BY DEF Step
<1>6. p_sig' \in [Actor -> BOOLEAN] /\ p_timeout' \in [Actor -> BOOLEAN]
  <2>1. p_sig \in [Actor -> BOOLEAN] /\ p_timeout \in [Actor -> BOOLEAN]
    BY DEF Types, TypeOK
  <2>2. \/ p_sig' = p_sig /\ p_timeout' = p_timeout
        \/ p_sig' = [p_sig EXCEPT ![p] = FALSE] /\ p_timeout' = [p_timeout EXCEPT ![p] = FALSE]
    BY DEF Step, After, Return, StayWith, sleepVars
  <2> QED
    BY <2>1, <2>2
<1>7. \A g \in End : Sane(pipe'[g])
  BY StepSane
<1>8. \A g \in End :
        /\ pipe'[g].state \subseteq Flags
        /\ pipe'[g].busy \in Nat
        /\ {pipe'[g].peer, pipe'[g].coll, pipe'[g].live} \subseteq BOOLEAN
        /\ pipe'[g].selpid \in Proc \cup {NoProc}
  BY <1>1 DEF PipeRecord
<1>9. \A g \in End :
        /\ pipe'[g].size \in {PIPE_SIZE, BIG_PIPE_SIZE}
        /\ pipe'[g].cnt \in 0 .. pipe'[g].size
        /\ {pipe'[g].in, pipe'[g].out} \subseteq 0 .. pipe'[g].size - 1
        /\ pipe'[g].buffer \in [0 .. pipe'[g].size - 1 -> Byte \cup {NoByte}]
  <2> TAKE g \in End
  <2>1. pipe'[g].size \in Nat
    BY <1>7, PipeAssumption DEF Sane
  <2> QED
    BY <1>7, <2>1 DEF Sane, Buffer
<1>10. DOMAIN pipe' = End
  BY <1>1
<1>11. closer \in [End -> {"open", "pipecl", "closed"}] /\ ops \subseteq Op
  BY DEF Types, TypeOK
<1>12. TypeOK'
  BY <1>1, <1>3, <1>4, <1>5, <1>6, <1>8, <1>9, <1>10, <1>11 DEF TypeOK, Flags, Channel
<1> QED
  BY <1>1, <1>3, <1>12 DEF Types

\* ... the calls that the threads are in, and the descriptors they hold ...
LEMMA StepCalls ==
    ASSUME Types, CallsFit, References, NEW p \in Proc, NEW f, NEW m, NEW q, NEW where,
           NEW left, NEW sp, Step(p, f, m, q, where, left, sp)
    PROVE  CallsFit' /\ References'
<1>0. /\ pc'[p] = where
      /\ where # "idle" => op'[p] = op[p]
      /\ \A a \in Proc : a # p => pc'[a] = pc[a] /\ op'[a] = op[a]
  BY StepThreads
<1>1. closer' = closer /\ ops' = ops
  BY DEF Step
<1>2. /\ pc[p] # "idle"
      /\ where \notin {"idle", "select"} => pc[p] # "select"
      /\ where \in Reading => op[p].op = "read"
      /\ where \in Writing => op[p].op = "write"
      /\ where \in {"scan", "select"} => op[p].op = "poll"
  BY DEF Step, Fits
<1>3. "idle" \notin Reading \cup Writing
  BY DEF Reading, Writing
<1>4. CallsFit'
  <2>1. ASSUME NEW a \in Proc
        PROVE  /\ pc'[a] \in Reading => op'[a].op = "read"
               /\ pc'[a] \in Writing => op'[a].op = "write"
               /\ pc'[a] \in {"scan", "select"} => op'[a].op = "poll"
               /\ pc'[a] # "idle" => op'[a] \in ops /\ op'[a].p = a
    <3>1. CASE a = p
      BY <1>0, <1>2, <1>3, <3>1 DEF CallsFit
    <3>2. CASE a # p
      BY <1>0, <3>2 DEF CallsFit
    <3> QED
      BY <3>1, <3>2
  <2> QED
    BY <1>1, <2>1 DEF CallsFit
<1>5. References'
  <2>1. ASSUME NEW a \in Proc, pc'[a] \notin {"idle", "select"}
        PROVE  closer[op'[a].file] = "open"
    <3>1. CASE a = p
      BY <1>0, <1>2, <2>1, <3>1 DEF References
    <3>2. CASE a # p
      BY <1>0, <2>1, <3>2 DEF References
    <3> QED
      BY <3>1, <3>2
  <2> QED
    BY <1>1, <2>1 DEF References
<1> QED
  BY <1>4, <1>5

\* pipe_busy goes up and down with the users.
LEMMA StepBusy ==
    ASSUME Types, BusyCounts, NEW p \in Proc, NEW f, NEW m, NEW q, NEW where,
           NEW left, NEW sp, Step(p, f, m, q, where, left, sp)
    PROVE  BusyCounts'
<1>0. /\ pc'[p] = where
      /\ where # "idle" => Target(p)' = f
      /\ \A a \in Proc : a # p => pc'[a] = pc[a] /\ Target(a)' = Target(a)
      /\ pipe' = m.pp /\ f \in End /\ f = Target(p)
  BY StepThreads, StepVars DEF Step
<1>1. "idle" \notin Busy
  BY DEF Busy, Writing
<1>2. /\ \A g \in End : g # f => m.pp[g].busy = pipe[g].busy
      /\ m.pp[f].busy = pipe[f].busy + One(where \in Busy) - One(pc[p] \in Busy)
  BY DEF Step, Moves
<1>3. \A g \in End : g # f => Users(g)' = Users(g)
  BY <1>0, <1>1 DEF Users, Is
<1>4. Users(f)' = (Users(f) \ {p}) \cup (IF where \in Busy THEN {p} ELSE {})
  BY <1>0, <1>1 DEF Users, Is
<1>5. p \in Users(f) <=> pc[p] \in Busy
  BY <1>0 DEF Users, Is
<1>6. IsFiniteSet(Users(f)) /\ Cardinality(Users(f)) \in Nat
  BY PipeAssumption, FS_Subset, FS_CardinalityType DEF Users
<1>7. Cardinality(Users(f)') = Cardinality(Users(f)) + One(where \in Busy) - One(pc[p] \in Busy)
  <2>1. CASE pc[p] \in Busy /\ where \in Busy
    <3>1. Users(f)' = Users(f)
      BY <1>4, <1>5, <2>1
    <3> QED
      BY <1>6, <2>1, <3>1 DEF One
  <2>2. CASE pc[p] \in Busy /\ where \notin Busy
    <3>1. Users(f)' = Users(f) \ {p}
      BY <1>4, <2>2
    <3>2. Cardinality(Users(f) \ {p}) = Cardinality(Users(f)) - 1
      BY <1>5, <1>6, <2>2, FS_RemoveElement
    <3> QED
      BY <1>6, <2>2, <3>1, <3>2 DEF One
  <2>3. CASE pc[p] \notin Busy /\ where \in Busy
    <3>1. Users(f)' = Users(f) \cup {p} /\ p \notin Users(f)
      BY <1>4, <1>5, <2>3
    <3>2. Cardinality(Users(f) \cup {p}) = Cardinality(Users(f)) + 1
      BY <1>6, <3>1, FS_AddElement
    <3> QED
      BY <1>6, <2>3, <3>1, <3>2 DEF One
  <2>4. CASE pc[p] \notin Busy /\ where \notin Busy
    <3>1. Users(f)' = Users(f)
      BY <1>4, <1>5, <2>4
    <3> QED
      BY <1>6, <2>4, <3>1 DEF One
  <2> QED
    BY <2>1, <2>2, <2>3, <2>4
<1>8. pipe'[f].busy = Cardinality(Users(f)')
  BY <1>0, <1>2, <1>7 DEF BusyCounts
<1>9. \A g \in End : g # f => pipe'[g].busy = Cardinality(Users(g)')
  BY <1>0, <1>2, <1>3 DEF BusyCounts
<1> QED
  BY <1>8, <1>9 DEF BusyCounts

\* ... PIPE_LOCK to one thread ...
LEMMA StepLock ==
    ASSUME Types, LockExclusive, NEW p \in Proc, NEW f, NEW m, NEW q, NEW where,
           NEW left, NEW sp, Step(p, f, m, q, where, left, sp)
    PROVE  LockExclusive'
<1>0. /\ pc'[p] = where
      /\ where # "idle" => Target(p)' = f
      /\ \A a \in Proc : a # p => pc'[a] = pc[a] /\ Target(a)' = Target(a)
      /\ pipe' = m.pp /\ f \in End /\ f = Target(p)
  BY StepThreads, StepVars DEF Step
<1>1. "idle" \notin Holding
  BY DEF Holding
<1>2. /\ \A g \in End : g # f => ("LOCK" \in m.pp[g].state <=> "LOCK" \in pipe[g].state)
      /\ where \in Holding => /\ "LOCK" \in m.pp[f].state
                              /\ pc[p] \in Holding \/ "LOCK" \notin pipe[f].state
      /\ pc[p] \notin Holding /\ "LOCK" \in pipe[f].state => "LOCK" \in m.pp[f].state
  BY DEF Step, Moves
<1>3. \A g \in End : /\ Locked(Now, g) <=> "LOCK" \in pipe[g].state
                     /\ Locked(Now, g)' <=> "LOCK" \in m.pp[g].state
  BY <1>0 DEF Locked, Now
<1>4. \A g \in End, a \in Proc : a # p => (Is(a, g, Holding)' <=> Is(a, g, Holding))
  BY <1>0 DEF Is
<1>5. \A g \in End : Is(p, g, Holding)' <=> g = f /\ where \in Holding
  BY <1>0, <1>1 DEF Is
<1>6. \A g \in End : Is(p, g, Holding) <=> g = f /\ pc[p] \in Holding
  BY <1>0 DEF Is
<1>7. ASSUME NEW g \in End, NEW a \in Proc, Is(a, g, Holding)'
      PROVE  Locked(Now, g)'
  BY <1>2, <1>3, <1>4, <1>5, <1>6, <1>7 DEF LockExclusive
<1>8. ASSUME NEW g \in End, NEW a \in Proc, NEW b \in Proc, Is(a, g, Holding)', Is(b, g, Holding)'
      PROVE  a = b
  BY <1>2, <1>3, <1>4, <1>5, <1>6, <1>8 DEF LockExclusive
<1> QED
  BY <1>7, <1>8 DEF LockExclusive

\* ... what the sleepers sleep on ...
LEMMA StepChannels ==
    ASSUME Types, Channels, NEW p \in Proc, NEW f, NEW m, NEW q, NEW where,
           NEW left, NEW sp, Step(p, f, m, q, where, left, sp)
    PROVE  Channels'
<1>0. /\ pc'[p] = where
      /\ where # "idle" => Target(p)' = f
      /\ \A a \in Proc : a # p => pc'[a] = pc[a] /\ Target(a)' = Target(a)
      /\ p_wchan' = m.w /\ f \in End /\ f = Target(p) /\ closer' = closer
  BY StepThreads, StepVars DEF Step
<1>1. "idle" \notin Waiting /\ "select" \notin Waiting
  BY DEF Waiting
<1>2. /\ \A a \in Actor : a # p => m.w[a] \in {p_wchan[a], NoChan}
      /\ m.w[p] \in Ident(where, f)
  BY DEF Step, Moves
<1>3. Proc \subseteq Actor /\ End \subseteq Actor /\ p \notin End
  BY PipeAssumption DEF Actor
<1>4. ASSUME NEW a \in Proc, a # p, ~Awake(a)'
      PROVE  \/ pc'[a] = "select" /\ p_wchan'[a] = "selwait"
             \/ pc'[a] \in Waiting /\ p_wchan'[a] = Target(a)'
  BY <1>0, <1>2, <1>3, <1>4 DEF Channels, Awake
<1>5. ASSUME ~Awake(p)'
      PROVE  \/ pc'[p] = "select" /\ p_wchan'[p] = "selwait"
             \/ pc'[p] \in Waiting /\ p_wchan'[p] = Target(p)'
  BY <1>0, <1>1, <1>2, <1>5 DEF Ident, Awake
<1>6. ASSUME NEW g \in End, ~Awake(g)'
      PROVE  closer'[g] = "pipecl" /\ p_wchan'[g] = g
  BY <1>0, <1>2, <1>3, <1>6 DEF Channels, Awake
<1> QED
  BY <1>4, <1>5, <1>6 DEF Channels

\* Who is on a pipe is counted there.
LEMMA BusyPositive ==
    ASSUME BusyCounts, NEW p \in Proc, NEW f \in End, f = Target(p), pc[p] \in Busy
    PROVE  pipe[f].busy > 0
<1>1. p \in Users(f)
  BY DEF Users, Is
<1>2. IsFiniteSet(Users(f)) /\ Cardinality(Users(f)) \in Nat
  BY PipeAssumption, FS_Subset, FS_CardinalityType DEF Users
<1>3. Cardinality(Users(f)) # 0
  BY <1>1, <1>2, FS_EmptySet
<1> QED
  BY <1>2, <1>3 DEF BusyCounts

\* ... and the links between the two pipes.
LEMMA StepConnected ==
    ASSUME Types, Connected, BusyCounts, NEW p \in Proc, NEW f, NEW m, NEW q, NEW where,
           NEW left, NEW sp, Step(p, f, m, q, where, left, sp)
    PROVE  Connected'
<1>1. pipe' = m.pp /\ closer' = closer
  BY StepVars DEF Step
<1>2. \A g \in End : pipe'[g].peer = pipe[g].peer /\ pipe'[g].live = pipe[g].live
  BY <1>1 DEF Step, Moves, SameLink
<1>3. \A g \in End : Peer(g) \in End
  BY DEF Peer, End
<1>4. ASSUME NEW g \in End, pipe'[g].busy # 0 \/ pipe'[g].cnt # 0
      PROVE  pipe[g].live
  <2>1. CASE g # f
    BY <1>1, <1>4, <2>1 DEF Step, Moves, SameData, Connected
  <2>2. CASE g = f
    <3>1. /\ pipe[f].busy \in Nat
          /\ pipe'[f].busy = pipe[f].busy + One(where \in Busy) - One(pc[p] \in Busy)
          /\ where \in Busy /\ pc[p] \notin Busy => pipe[f].live
      BY <1>1, <2>2 DEF Step, Moves, Fits, Types, TypeOK
    <3>2. CASE pc[p] \in Busy
      <4>1. pipe[f].busy # 0
        BY <2>2, <3>2, BusyPositive DEF Step
      <4> QED
        BY <2>2, <4>1 DEF Connected
    <3>3. CASE pc[p] \notin Busy /\ where \notin Busy
      <4>1. pipe'[f].busy = pipe[f].busy
        BY <3>1, <3>3 DEF One
      <4>2. pipe'[f].cnt = pipe[f].cnt
        <5>1. pc[p] \notin Holding
          BY <3>3 DEF Holding, Busy, Writing
        <5> QED
          BY <1>1, <5>1 DEF Step, Moves, SameData
      <4> QED
        BY <1>4, <2>2, <4>1, <4>2 DEF Connected
    <3> QED
      BY <2>2, <3>1, <3>2, <3>3
  <2> QED
    BY <2>1, <2>2
<1> QED
  BY <1>1, <1>2, <1>3, <1>4 DEF Connected

\* Only the thread with PIPE_LOCK changes the data, so what another one has
\* found out before uiomove() stays true.
LEMMA StepTransfers ==
    ASSUME Types, Transfers, LockExclusive, NEW p \in Proc, NEW f, NEW m, NEW q, NEW where,
           NEW left, NEW sp, Step(p, f, m, q, where, left, sp)
    PROVE  Transfers'
<1>0. /\ pc'[p] = where
      /\ where # "idle" => op'[p] = op[p] /\ Target(p)' = f /\ resid'[p] = left /\ space'[p] = sp
      /\ \A a \in Proc : a # p => /\ pc'[a] = pc[a] /\ op'[a] = op[a] /\ Target(a)' = Target(a)
                                  /\ resid'[a] = resid[a] /\ space'[a] = space[a]
      /\ pipe' = m.pp /\ f \in End /\ f = Target(p)
  BY StepThreads, StepVars DEF Step
<1>1. /\ \A g \in End : g # f => SameData(m.pp[g], pipe[g])
      /\ SameData(m.pp[f], q)
      /\ SameData(q, pipe[f]) \/ pc[p] \in Holding
  BY DEF Step, Moves
<1>2. \A k, g : Space(k, g) = k.pp[g].size - k.pp[g].cnt
  BY DEF Space
<1>3. "idle" \notin Writing
  BY DEF Writing
<1>4. ASSUME NEW a \in Proc, a # p, pc[a] \in {"move", "wmove"}
      PROVE  SameData(pipe'[Target(a)], pipe[Target(a)])
  <2>1. Target(a) \in End
    BY NowTypes
  <2>2. CASE Target(a) # f
    BY <1>0, <1>1, <2>1, <2>2
  <2>3. CASE Target(a) = f
    <3>1. pc[p] \notin Holding
      BY <1>0, <1>4, <2>3 DEF LockExclusive, Is, Holding
    <3> QED
      BY <1>0, <1>1, <2>3, <3>1 DEF SameData
  <2> QED
    BY <2>2, <2>3
<1>5. ASSUME NEW a \in Proc, a # p
      PROVE  /\ pc'[a] = "move" => resid'[a] > 0 /\ pipe'[Target(a)'].cnt > 0
             /\ pc'[a] \in Writing =>
                   /\ resid'[a] <= op'[a].n
                   /\ op'[a].n <= PIPE_BUF => resid'[a] = op'[a].n
             /\ pc'[a] \in {"wlock", "wmove"} =>
                   /\ space'[a] > 0 /\ resid'[a] > 0
                   /\ op'[a].n <= PIPE_BUF => resid'[a] <= space'[a]
             /\ pc'[a] = "wmove" => space'[a] <= Space(Now, Target(a))'
  <2>1. pc[a] = "move" => pipe'[Target(a)].cnt > 0
    BY <1>4, <1>5 DEF Transfers, SameData
  <2>2. pc[a] = "wmove" => space[a] <= pipe'[Target(a)].size - pipe'[Target(a)].cnt
    BY <1>2, <1>4, <1>5 DEF Transfers, SameData, Now
  <2>3. Space(Now, Target(a))' = pipe'[Target(a)].size - pipe'[Target(a)].cnt
    BY <1>0, <1>5 DEF Space, Now
  <2> QED
    BY <1>0, <1>5, <2>1, <2>2, <2>3 DEF Transfers
<1>6. /\ pc'[p] = "move" => resid'[p] > 0 /\ pipe'[Target(p)'].cnt > 0
      /\ pc'[p] \in Writing =>
            /\ resid'[p] <= op'[p].n
            /\ op'[p].n <= PIPE_BUF => resid'[p] = op'[p].n
      /\ pc'[p] \in {"wlock", "wmove"} =>
            /\ space'[p] > 0 /\ resid'[p] > 0
            /\ op'[p].n <= PIPE_BUF => resid'[p] <= space'[p]
      /\ pc'[p] = "wmove" => space'[p] <= Space(Now, Target(p))'
  <2>1. where # "idle" => Space(Now, Target(p))' = pipe'[f].size - pipe'[f].cnt
    BY <1>0 DEF Space, Now
  <2>2. pipe'[f].cnt = q.cnt /\ pipe'[f].size = q.size
    BY <1>0, <1>1 DEF SameData
  <2> QED
    BY <1>0, <1>3, <2>1, <2>2 DEF Step, Fits
<1> QED
  BY <1>5, <1>6 DEF Transfers

\* What a step keeps whatever it does to the data
LEMMA StepKeeps ==
    ASSUME PipeInv, NEW p \in Proc, NEW f, NEW m, NEW q, NEW where, NEW left, NEW sp,
           Step(p, f, m, q, where, left, sp), nbigpipe' \in Nat,
           stream' \in [End -> Seq(Byte)], last' \in [End -> Byte \cup {NoByte}],
           BigPipesCounted', StreamInOrder', AtomicWrites'
    PROVE  PipeInv'
<1>0. /\ Types /\ CallsFit /\ References /\ BusyCounts /\ LockExclusive
      /\ Channels /\ Connected /\ Transfers
  BY DEF PipeInv
<1>1. Types'
  BY <1>0, StepTypes
<1>2. CallsFit' /\ References'
  BY <1>0, StepCalls
<1>3. BusyCounts' /\ LockExclusive'
  BY <1>0, StepBusy, StepLock
<1>4. Channels' /\ Connected' /\ Transfers'
  BY <1>0, StepChannels, StepConnected, StepTransfers
<1> QED
  BY <1>1, <1>2, <1>3, <1>4 DEF PipeInv

\* The contents depend on nothing but the data fields.
LEMMA SameContents ==
    ASSUME NEW q, NEW r, SameData(q, r)
    PROVE  Contents(q) = Contents(r)
BY DEF SameData, Contents

\* A step that leaves the data alone
LEMMA QuietStep ==
    ASSUME PipeInv, NEW p \in Proc, NEW f, NEW m, NEW q, NEW where, NEW left, NEW sp,
           Step(p, f, m, q, where, left, sp), SameData(q, pipe[f]),
           UNCHANGED <<closer, nbigpipe, ops>>, Historyless
    PROVE  PipeInv'
<1>0. Types
  BY DEF PipeInv
<1>1. f \in End /\ pipe' = m.pp
  BY <1>0, StepVars
<1>2. \A g \in End : SameData(pipe'[g], pipe[g]) /\ SameLink(pipe'[g], pipe[g])
  BY <1>1 DEF Step, Moves, SameData
<1>3. stream' = stream /\ last' = last /\ nbigpipe' = nbigpipe /\ ops' = ops
  BY DEF Historyless
<1>4. BigPipesCounted'
  <2>1. \A g \in End : pipe'[g].live = pipe[g].live /\ pipe'[g].size = pipe[g].size
    BY <1>2 DEF SameData, SameLink
  <2>2. {g \in End : pipe'[g].live /\ pipe'[g].size > PIPE_SIZE} =
        {g \in End : pipe[g].live /\ pipe[g].size > PIPE_SIZE}
    BY <2>1
  <2>3. BigPipesCounted
    BY DEF PipeInv
  <2> QED
    BY <1>3, <2>2, <2>3 DEF BigPipesCounted
<1>5. StreamInOrder'
  <2>1. StreamInOrder
    BY DEF PipeInv
  <2>2. \A g \in End : Contents(pipe'[g]) = Contents(pipe[g])
    BY <1>2, SameContents
  <2> QED
    BY <1>2, <1>3, <2>1, <2>2 DEF StreamInOrder, SameData
<1>6. AtomicWrites'
  <2>1. AtomicWrites
    BY DEF PipeInv
  <2> QED
    BY <1>3, <2>1 DEF AtomicWrites
<1>7. /\ nbigpipe' \in Nat
      /\ stream' \in [End -> Seq(Byte)] /\ last' \in [End -> Byte \cup {NoByte}]
  BY <1>0, <1>3 DEF Types, TypeOK
<1> QED
  BY <1>4, <1>5, <1>6, <1>7, StepKeeps

-----------------------------------------------------------------------------
\* In the middle of a step of p: some have been woken, pipe f has the data of
\* q, and pipe_busy has been changed by b.
Enters(p, k, f, q, b) ==
    /\ k \in KState
    /\ \A a \in Actor : k.w[a] \in {p_wchan[a], NoChan}
    /\ k.w[p] = NoChan
    /\ \A g \in End : SameLink(k.pp[g], pipe[g])
    /\ \A g \in End : g # f => /\ SameData(k.pp[g], pipe[g])
                               /\ k.pp[g].busy = pipe[g].busy
                               /\ "LOCK" \in k.pp[g].state <=> "LOCK" \in pipe[g].state
    /\ SameData(k.pp[f], q)
    /\ k.pp[f].busy = pipe[f].busy + b

\* A step enters with the state as it is ...
LEMMA NowEnters ==
    ASSUME Types, NEW p \in Proc, Awake(p), NEW f \in End
    PROVE  Enters(p, Now, f, pipe[f], 0)
<1>1. /\ Now \in KState /\ Now.w = p_wchan /\ Now.pp = pipe
      /\ pipe[f].busy \in Nat
  BY NowTypes DEF Types, TypeOK
<1> QED
  BY <1>1 DEF Enters, Awake, SameLink, SameData

\* ... may take PIPE_LOCK ...
LEMMA LockEnters ==
    ASSUME NEW p \in Proc, NEW k, NEW f \in End, NEW q, NEW b, Enters(p, k, f, q, b)
    PROVE  Enters(p, Lock(k, f), f, q, b) /\ "LOCK" \in Lock(k, f).pp[f].state
<1> DEFINE m == Lock(k, f)
<1>1. /\ m \in KState /\ m.w = k.w
      /\ \A g \in End : g # f => m.pp[g] = k.pp[g]
      /\ SameData(m.pp[f], k.pp[f]) /\ SameLink(m.pp[f], k.pp[f])
      /\ m.pp[f].busy = k.pp[f].busy
      /\ "LOCK" \in m.pp[f].state
  BY LockTakes DEF Enters
<1> HIDE DEF m
<1>2. Enters(p, m, f, q, b)
  BY <1>1 DEF Enters, SameData, SameLink
<1> QED
  BY <1>1, <1>2 DEF m

\* ... or give it up ...
LEMMA UnlockEnters ==
    ASSUME NEW p \in Proc, NEW k, NEW f \in End, NEW q, NEW b, Enters(p, k, f, q, b)
    PROVE  Enters(p, pipeunlock(k, f), f, q, b) /\ "LOCK" \notin pipeunlock(k, f).pp[f].state
<1> DEFINE m == pipeunlock(k, f)
<1>1. Released(k, m, f)
  BY UnlockReleases DEF Enters
<1>2. p \in Actor
  BY DEF Actor
<1> HIDE DEF m
<1>3. Enters(p, m, f, q, b)
  BY <1>1, <1>2 DEF Enters, Released, OnlyWakes, SameData, SameLink
<1>4. "LOCK" \notin m.pp[f].state
  BY <1>1 DEF Released
<1> QED
  BY <1>3, <1>4 DEF m

\* ... and may count itself in pipe_busy.
LEMMA BusyEnters ==
    ASSUME Types, NEW p \in Proc, NEW k, NEW f \in End, NEW q, Enters(p, k, f, q, 0),
           NEW m, m = [k EXCEPT !.pp[f].busy = @ + 1]
    PROVE  Enters(p, m, f, q, 1) /\ m.pp[f].state = k.pp[f].state
<1>1. /\ m \in KState /\ m.w = k.w
      /\ \A g \in End : g # f => m.pp[g] = k.pp[g]
      /\ SameData(m.pp[f], k.pp[f]) /\ SameLink(m.pp[f], k.pp[f])
      /\ m.pp[f].busy = k.pp[f].busy + 1 /\ m.pp[f].state = k.pp[f].state
  BY Increment DEF Enters
<1>2. pipe[f].busy \in Nat
  BY DEF Types, TypeOK
<1>3. Enters(p, m, f, q, 1)
  BY <1>1, <1>2 DEF Enters, SameData, SameLink
<1> QED
  BY <1>1, <1>3

\* The data of a pipe are replaced.
LEMMA DataEnters ==
    ASSUME Types, NEW p \in Proc, Awake(p), NEW f \in End, NEW q \in PipeRecord,
           SameLink(q, pipe[f]), q.busy = pipe[f].busy, q.state = pipe[f].state
    PROVE  /\ Enters(p, [Now EXCEPT !.pp[f] = q], f, q, 0)
           /\ [Now EXCEPT !.pp[f] = q].pp[f] = q
<1> DEFINE m == [Now EXCEPT !.pp[f] = q]
<1>1. /\ Now \in KState /\ Now.w = p_wchan /\ Now.pp = pipe
      /\ pipe[f].busy \in Nat
  BY NowTypes DEF Types, TypeOK
<1>2. /\ m \in KState /\ m.w = p_wchan /\ m.pp[f] = q
      /\ \A g \in End : g # f => m.pp[g] = pipe[g]
  BY <1>1 DEF KState
<1> HIDE DEF m
<1>3. Enters(p, m, f, q, 0)
  BY <1>1, <1>2 DEF Enters, Awake, SameLink, SameData
<1> QED
  BY <1>2, <1>3 DEF m

\* From the middle of a step to its end
LEMMA EntersEnds ==
    ASSUME Types, NEW p \in Proc, NEW k, NEW f \in End, NEW q, NEW m, NEW where, NEW b \in Int,
           Enters(p, k, f, q, b), Ends(p, f, k, m, where),
           b = One(where \in Busy) + One(where = "idle") - One(pc[p] \in Busy),
           where \in Holding => /\ "LOCK" \in m.pp[f].state
                                /\ pc[p] \in Holding \/ "LOCK" \notin pipe[f].state,
           pc[p] \notin Holding /\ "LOCK" \in pipe[f].state => "LOCK" \in m.pp[f].state
    PROVE  Moves(p, f, m, q, where)
<1>1. \A a \in Actor : a # p => m.w[a] \in {p_wchan[a], NoChan}
  BY DEF Enters, Ends
<1>2. \A g \in End : SameLink(m.pp[g], pipe[g])
  BY DEF Enters, Ends, SameLink
<1>3. \A g \in End : g # f => /\ SameData(m.pp[g], pipe[g])
                              /\ m.pp[g].busy = pipe[g].busy
                              /\ "LOCK" \in m.pp[g].state <=> "LOCK" \in pipe[g].state
  BY DEF Enters, Ends, SameData
<1>4. SameData(m.pp[f], q)
  BY DEF Enters, Ends, SameData
<1>5. m.pp[f].busy = pipe[f].busy + One(where \in Busy) - One(pc[p] \in Busy)
  <2>1. pipe[f].busy \in Nat /\ k.pp[f].busy = pipe[f].busy + b
    BY DEF Types, TypeOK, Enters
  <2>2. m.pp[f].busy = k.pp[f].busy - One(where = "idle")
    BY <2>1 DEF Ends, One
  <2> QED
    BY <2>1, <2>2 DEF One
<1> QED
  BY <1>1, <1>2, <1>3, <1>4, <1>5 DEF Moves, Ends

\* A thread that gets to pipe_read()'s loop with PIPE_LOCK makes a step ...
LEMMA ReadLoopStep ==
    ASSUME Types, BusyCounts, NEW p \in Proc, pc[p] \in Reading, op[p].op = "read",
           NEW f \in End, f = Target(p), NEW k, NEW q, Sane(q), NEW b,
           Enters(p, k, f, q, b), b = 1 - One(pc[p] \in Busy), "LOCK" \in k.pp[f].state,
           pc[p] \in Busy \/ pipe[f].live,
           SameData(q, pipe[f]) \/ pc[p] \in Holding,
           "LOCK" \notin pipe[f].state \/ pc[p] \in Holding,
           closer' = closer, ops' = ops,
           NEW left \in Nat, ReadLoop(p, k, f, left)
    PROVE  \E m, where, r, sp : Step(p, f, m, q, where, r, sp)
<1>1. k \in KState /\ k.w[p] = NoChan /\ k.pp[f].busy = pipe[f].busy + b
  BY DEF Enters
<1>2. k.pp[f].busy > 0
  <2>1. pipe[f].busy \in Nat
    BY DEF Types, TypeOK
  <2>2. pc[p] \in Busy => pipe[f].busy > 0
    BY BusyPositive
  <2> QED
    BY <1>1, <2>1, <2>2 DEF One
<1>3. resid[p] \in Nat
  BY DEF Types, TypeOK
<1>4. PICK m \in KState, where \in {"idle", "move", "piperd"}, r \in Nat :
         After(p, m, where, r, 0) /\ ReadEnd(p, f, k, left, m, where, r)
  BY <1>1, <1>2, <1>3, ReadLoopEnds
<1>5. /\ where \in Busy <=> where # "idle"
      /\ where \in Holding <=> where = "move"
      /\ where \in Place /\ where \notin Writing /\ where \notin {"scan", "select", "wlock", "wmove"}
  BY DEF Busy, Holding, Place, Writing
<1>6. Moves(p, f, m, q, where)
  <2>1. Ends(p, f, k, m, where) /\ ("LOCK" \in m.pp[f].state <=> where = "move")
    BY <1>4 DEF ReadEnd
  <2>2. b = One(where \in Busy) + One(where = "idle") - One(pc[p] \in Busy) /\ b \in Int
    BY <1>5 DEF One
  <2> QED
    BY <1>5, <2>1, <2>2, EntersEnds
<1>7. k.pp[f].cnt = q.cnt
  BY DEF Enters, SameData
<1>8. pc[p] # "idle" /\ pc[p] # "select"
  BY DEF Reading
<1>9. Fits(p, q, where, r, 0)
  BY <1>4, <1>5, <1>7, <1>8 DEF Fits, ReadEnd
<1>10. Step(p, f, m, q, where, r, 0)
  BY <1>4, <1>6, <1>9 DEF Step
<1> QED
  BY <1>10

\* ... and so does one that gets to pipe_write()'s loop.
LEMMA WriteLoopStep ==
    ASSUME Types, BusyCounts, NEW p \in Proc, pc[p] \in Writing, op[p].op = "write",
           NEW f \in End, f = Target(p), NEW k, NEW q, Sane(q), NEW b,
           Enters(p, k, f, q, b), b = 1 - One(pc[p] \in Busy),
           pc[p] \in Busy \/ pipe[f].live,
           SameData(q, pipe[f]) \/ pc[p] \in Holding,
           ("LOCK" \in k.pp[f].state <=> "LOCK" \in pipe[f].state) \/ pc[p] \in Holding,
           closer' = closer, ops' = ops,
           NEW left \in Nat, left <= op[p].n,
           left > 0 /\ op[p].n <= PIPE_BUF => left = op[p].n,
           WriteLoop(p, k, f, left)
    PROVE  \E m, where, r, sp : Step(p, f, m, q, where, r, sp)
<1>1. k \in KState /\ k.w[p] = NoChan /\ k.pp[f].busy = pipe[f].busy + b
  BY DEF Enters
<1>2. k.pp[f].busy > 0
  <2>1. pipe[f].busy \in Nat
    BY DEF Types, TypeOK
  <2>2. pc[p] \in Busy => pipe[f].busy > 0
    BY BusyPositive
  <2> QED
    BY <1>1, <2>1, <2>2 DEF One
<1>3. op[p].n \in Nat
  BY DEF Types, Op, NoOp
<1>4. k.pp[f].cnt = q.cnt /\ k.pp[f].size = q.size
  BY DEF Enters, SameData
<1>5. k.pp[f].cnt <= k.pp[f].size
  BY <1>4 DEF Sane
<1>6. PICK m \in KState, where \in {"idle", "wlock", "wmove", "pipewr"}, sp \in Nat :
         After(p, m, where, left, sp) /\ WriteEnd(p, f, k, left, m, where, sp)
  BY <1>1, <1>2, <1>3, <1>5, WriteLoopEnds
<1>7. /\ where \in Busy <=> where # "idle"
      /\ where \in Holding <=> where = "wmove"
      /\ where \in Place /\ where \notin Reading /\ where \notin {"scan", "select", "move"}
      /\ where \in Writing <=> where # "idle"
  BY DEF Busy, Holding, Place, Writing, Reading
<1>8. Moves(p, f, m, q, where)
  <2>1. /\ Ends(p, f, k, m, where)
        /\ where = "wmove" => "LOCK" \notin k.pp[f].state /\ "LOCK" \in m.pp[f].state
        /\ where # "wmove" => ("LOCK" \in m.pp[f].state <=> "LOCK" \in k.pp[f].state)
    BY <1>6 DEF WriteEnd
  <2>2. b = One(where \in Busy) + One(where = "idle") - One(pc[p] \in Busy) /\ b \in Int
    BY <1>7 DEF One
  <2> QED
    BY <1>7, <2>1, <2>2, EntersEnds
<1>9. pc[p] # "idle" /\ pc[p] # "select"
  BY DEF Writing
<1>10. Fits(p, q, where, left, sp)
  BY <1>4, <1>6, <1>7, <1>9 DEF Fits, WriteEnd
<1>11. Step(p, f, m, q, where, left, sp)
  BY <1>6, <1>8, <1>10 DEF Step
<1> QED
  BY <1>11

\* A round of pipelock(), at where
LEMMA LockSleepStep ==
    ASSUME Types, NEW p \in Proc, NEW f \in End, f = Target(p), NEW k, NEW b,
           Enters(p, k, f, pipe[f], b), k.pp[f].state = pipe[f].state,
           NEW where \in Waiting, b = One(where \in Busy) - One(pc[p] \in Busy),
           pc[p] \notin Holding, NEW sp, closer' = closer, ops' = ops,
           Fits(p, pipe[f], where, resid[p], sp),
           StayWith(p, LockSleep(k, p, f), where, resid[p], sp)
    PROVE  \E m, wh, r, s : Step(p, f, m, pipe[f], wh, r, s)
<1> DEFINE m == LockSleep(k, p, f)
<1>1. where # "idle" /\ where \notin Holding
  BY DEF Waiting, Holding
<1>2. After(p, m, where, resid[p], sp)
  BY <1>1 DEF After
<1>3. Ends(p, f, k, m, where) /\ ("LOCK" \in m.pp[f].state <=> "LOCK" \in k.pp[f].state)
  BY LockSleepEnds DEF Enters
<1> HIDE DEF m
<1>4. Moves(p, f, m, pipe[f], where)
  <2>1. b = One(where \in Busy) + One(where = "idle") - One(pc[p] \in Busy) /\ b \in Int
    BY <1>1 DEF One
  <2> QED
    BY <1>1, <1>3, <2>1, EntersEnds
<1>5. SameData(pipe[f], pipe[f]) /\ Sane(pipe[f])
  BY NowTypes DEF SameData
<1>6. Step(p, f, m, pipe[f], where, resid[p], sp)
  BY <1>2, <1>4, <1>5 DEF Step
<1> QED
  BY <1>6

\* The system call ends, from the middle of the step with k.
LEMMA ReturnStep ==
    ASSUME Types, NEW p \in Proc, pc[p] # "idle", NEW f \in End, f = Target(p), NEW m,
           Enters(p, m, f, pipe[f], - One(pc[p] \in Busy)),
           pc[p] \notin Holding /\ "LOCK" \in pipe[f].state => "LOCK" \in m.pp[f].state,
           closer' = closer, ops' = ops, Return(p, m)
    PROVE  Step(p, f, m, pipe[f], "idle", 0, 0)
<1>1. After(p, m, "idle", 0, 0)
  BY DEF After
<1>2. "idle" \notin Busy \cup Holding \cup Waiting \cup Reading \cup Writing /\ "idle" \in Place
  BY DEF Busy, Holding, Waiting, Reading, Writing, Place
<1>3. Moves(p, f, m, pipe[f], "idle")
  <2>1. pipe[f].busy \in Nat
    BY DEF Types, TypeOK
  <2>2. m.pp[f].busy = pipe[f].busy + One("idle" \in Busy) - One(pc[p] \in Busy)
    BY <1>2, <2>1 DEF Enters, One
  <2>3. m.w[p] \in Ident("idle", f)
    BY <1>2 DEF Enters, Ident
  <2> QED
    BY <1>2, <2>2, <2>3 DEF Enters, Moves
<1>4. Fits(p, pipe[f], "idle", 0, 0)
  BY <1>2 DEF Fits
<1>5. SameData(pipe[f], pipe[f]) /\ Sane(pipe[f])
  BY NowTypes DEF SameData
<1> QED
  BY <1>1, <1>3, <1>4, <1>5 DEF Step

\* pipe_read() and pipe_write() leave: "--pipe_busy" and what follows
LEMMA DoneStep ==
    ASSUME Types, BusyCounts, NEW p \in Proc, pc[p] \in Busy, NEW f \in End, f = Target(p), NEW k,
           Enters(p, k, f, pipe[f], 0),
           pc[p] \notin Holding /\ "LOCK" \in pipe[f].state => "LOCK" \in k.pp[f].state,
           closer' = closer, ops' = ops, ReadDone(p, k, f) \/ WriteDone(p, k, f)
    PROVE  \E m, wh, r, s : Step(p, f, m, pipe[f], wh, r, s)
<1>1. k \in KState /\ k.pp[f].busy = pipe[f].busy + 0 /\ pipe[f].busy \in Nat
  BY DEF Enters, Types, TypeOK
<1>2. k.pp[f].busy > 0
  BY <1>1, BusyPositive
<1>3. PICK m : Left(k, m, f) /\ Return(p, m)
  BY <1>1, <1>2, ReadDoneLeft, WriteDoneLeft
<1>4. p \in Actor
  BY DEF Actor
<1>5. Enters(p, m, f, pipe[f], - 1)
  BY <1>1, <1>3, <1>4 DEF Enters, Left, OnlyWakes, SameLocks, SameData, SameLink
<1>6. "LOCK" \in m.pp[f].state <=> "LOCK" \in k.pp[f].state
  BY <1>3 DEF Left, SameLocks
<1>7. One(pc[p] \in Busy) = 1 /\ pc[p] # "idle"
  BY DEF One, Busy, Writing
<1>8. Step(p, f, m, pipe[f], "idle", 0, 0)
  BY <1>3, <1>5, <1>6, <1>7, ReturnStep
<1> QED
  BY <1>8

\* p runs, in a call of the kind that is there, with the pipe of its call.
LEMMA AtReading ==
    ASSUME PipeInv, NEW p \in Proc, pc[p] \in Reading, Awake(p)
    PROVE  /\ Types /\ BusyCounts /\ op[p].op = "read" /\ op[p].file = Target(p) /\ Target(p) \in End
           /\ Enters(p, Now, Target(p), pipe[Target(p)], 0)
           /\ Sane(pipe[Target(p)]) /\ SameData(pipe[Target(p)], pipe[Target(p)])
           /\ resid[p] \in Nat /\ Now.pp = pipe
           /\ \A g \in End : Locked(Now, g) <=> "LOCK" \in pipe[g].state
           /\ pipe[Target(p)].live
<1>1. Types /\ BusyCounts /\ CallsFit /\ References /\ Connected
  BY DEF PipeInv
<1>2. op[p].op = "read" /\ op[p].file = Target(p)
  BY <1>1 DEF CallsFit, Target
<1>3. Target(p) \in End /\ Sane(pipe[Target(p)])
  BY <1>1, NowTypes
<1>4. Enters(p, Now, Target(p), pipe[Target(p)], 0)
  BY <1>1, <1>3, NowEnters
<1>5. resid[p] \in Nat
  BY <1>1 DEF Types, TypeOK
<1>6. Now.pp = pipe /\ \A g \in End : Locked(Now, g) <=> "LOCK" \in pipe[g].state
  BY <1>1, NowTypes DEF Locked
<1>7. pipe[Target(p)].live
  BY <1>1, <1>2, <1>3 DEF References, Connected, Reading
<1> QED
  BY <1>1, <1>2, <1>3, <1>4, <1>5, <1>6, <1>7 DEF SameData

\* What PipeInv says of a thread that runs in pipe_write()
LEMMA AtWriting ==
    ASSUME PipeInv, NEW p \in Proc, pc[p] \in Writing, Awake(p)
    PROVE  /\ Types /\ BusyCounts /\ op[p].op = "write" /\ Peer(op[p].file) = Target(p) /\ Target(p) \in End
           /\ Enters(p, Now, Target(p), pipe[Target(p)], 0)
           /\ Sane(pipe[Target(p)]) /\ SameData(pipe[Target(p)], pipe[Target(p)])
           /\ resid[p] \in Nat /\ space[p] \in Nat /\ op[p].n \in Nat /\ Now.pp = pipe
           /\ \A g \in End : Locked(Now, g) <=> "LOCK" \in pipe[g].state
           /\ resid[p] <= op[p].n
           /\ op[p].n <= PIPE_BUF => resid[p] = op[p].n
           /\ pc[p] \in {"wlock", "wmove"} =>
                 /\ space[p] > 0 /\ resid[p] > 0
                 /\ op[p].n <= PIPE_BUF => resid[p] <= space[p]
           /\ pc[p] = "wmove" => space[p] <= pipe[Target(p)].size - pipe[Target(p)].cnt
           /\ pc[p] = "write" /\ pipe[op[p].file].peer => pipe[Target(p)].live
           /\ pc[p] # "write" => pc[p] \in Busy
<1>1. Types /\ BusyCounts /\ CallsFit /\ Transfers /\ References /\ Connected
  BY DEF PipeInv
<1>2. op[p].op = "write" /\ Peer(op[p].file) = Target(p)
  BY <1>1 DEF CallsFit, Target
<1>3. Target(p) \in End /\ Sane(pipe[Target(p)])
  BY <1>1, NowTypes
<1>4. Enters(p, Now, Target(p), pipe[Target(p)], 0)
  BY <1>1, <1>3, NowEnters
<1>5. resid[p] \in Nat /\ space[p] \in Nat /\ op[p].n \in Nat
  BY <1>1 DEF Types, TypeOK, Op, NoOp
<1>6. Now.pp = pipe /\ \A g \in End : Locked(Now, g) <=> "LOCK" \in pipe[g].state
  BY <1>1, NowTypes DEF Locked
<1>7. /\ resid[p] <= op[p].n
      /\ op[p].n <= PIPE_BUF => resid[p] = op[p].n
      /\ pc[p] \in {"wlock", "wmove"} =>
            /\ space[p] > 0 /\ resid[p] > 0
            /\ op[p].n <= PIPE_BUF => resid[p] <= space[p]
      /\ pc[p] = "wmove" => space[p] <= pipe[Target(p)].size - pipe[Target(p)].cnt
  BY <1>1, <1>6 DEF Transfers, Space
<1>8. pc[p] = "write" /\ pipe[op[p].file].peer => pipe[Target(p)].live
  <2>1. pc[p] \notin {"idle", "select"} /\ op[p].file \in End
    BY <1>1 DEF Writing, Types, Op, NoOp, End
  <2> QED
    BY <1>1, <1>2, <2>1 DEF References, Connected
<1>9. pc[p] # "write" => pc[p] \in Busy
  BY DEF Busy
<1> QED
  BY <1>1, <1>2, <1>3, <1>4, <1>5, <1>6, <1>7, <1>8, <1>9 DEF SameData

\* A step that leaves the data alone keeps the invariant.
LEMMA QuietKeeps ==
    ASSUME PipeInv, NEW p \in Proc, NEW f \in End,
           \E m, wh, r, s : Step(p, f, m, pipe[f], wh, r, s),
           Historyless, UNCHANGED <<closer, nbigpipe, ops>>
    PROVE  PipeInv'
<1>1. PICK m, wh, r, s : Step(p, f, m, pipe[f], wh, r, s)
  OBVIOUS
<1>2. SameData(pipe[f], pipe[f])
  BY DEF SameData
<1> QED
  BY <1>1, <1>2, QuietStep

\* pipe_read() to its first sleep keeps the invariant ...
LEMMA PipeReadKeeps ==
    ASSUME PipeInv, NEW p \in Proc, pipe_read(p)
    PROVE  PipeInv'
<1> DEFINE f == Target(p)
<1>0. pc[p] \in {"read", "lock"} /\ pc[p] \in Reading /\ Awake(p)
  BY DEF pipe_read, At, Reading
<1>1. /\ Types /\ BusyCounts /\ op[p].op = "read" /\ op[p].file = f /\ f \in End
      /\ Enters(p, Now, f, pipe[f], 0)
      /\ Sane(pipe[f]) /\ SameData(pipe[f], pipe[f])
      /\ resid[p] \in Nat /\ Now.pp = pipe
      /\ \A g \in End : Locked(Now, g) <=> "LOCK" \in pipe[g].state
      /\ pipe[f].live
  BY <1>0, AtReading
<1>2. pc[p] \notin Busy /\ pc[p] \notin Holding /\ pc[p] # "idle"
  BY <1>0 DEF Busy, Holding, Writing
<1>3. Historyless /\ UNCHANGED <<closer, nbigpipe, ops>> /\ closer' = closer /\ ops' = ops
  BY DEF pipe_read
<1> HIDE DEF f
<1>4. CASE Return(p, Now)
  <2>1. - One(pc[p] \in Busy) = 0
    <3>1. One(pc[p] \in Busy) = 0
      BY <1>2 DEF One
    <3> QED
      BY <3>1
  <2>2. Step(p, f, Now, pipe[f], "idle", 0, 0)
    BY <1>1, <1>2, <1>3, <1>4, <2>1, ReturnStep DEF f
  <2> QED
    BY <1>1, <1>3, <2>2, QuietKeeps
<1>5. CASE Stay(p, LockSleep(Now, p, f), "lock", resid[p])
  <2>1. "lock" \in Waiting /\ "lock" \notin Busy
    BY DEF Waiting, Busy, Writing
  <2>2. Fits(p, pipe[f], "lock", resid[p], 0)
    BY <1>0, <1>1, <2>1 DEF Fits, Place, Writing
  <2>3. 0 = One("lock" \in Busy) - One(pc[p] \in Busy)
    BY <1>2, <2>1 DEF One
  <2>4. StayWith(p, LockSleep(Now, p, f), "lock", resid[p], 0)
    BY <1>5 DEF Stay
  <2>5. \E m, wh, r, s : Step(p, f, m, pipe[f], wh, r, s)
    BY <1>1, <1>2, <1>3, <2>1, <2>2, <2>3, <2>4, LockSleepStep DEF f
  <2> QED
    BY <1>1, <1>3, <2>5, QuietKeeps
<1>6. CASE ~Locked(Now, f) /\ ReadLoop(p, [Lock(Now, f) EXCEPT !.pp[f].busy = @ + 1], f, resid[p])
  <2> DEFINE l == Lock(Now, f)
             k == [l EXCEPT !.pp[f].busy = @ + 1]
  <2>1. Enters(p, l, f, pipe[f], 0) /\ "LOCK" \in l.pp[f].state
    BY <1>1, LockEnters
  <2>2. ReadLoop(p, k, f, resid[p])
    BY <1>6
  <2> HIDE DEF l
  <2>3. Enters(p, k, f, pipe[f], 1) /\ "LOCK" \in k.pp[f].state
    <3>1. k = [l EXCEPT !.pp[f].busy = @ + 1]
      OBVIOUS
    <3> HIDE DEF k
    <3>2. Enters(p, k, f, pipe[f], 1) /\ k.pp[f].state = l.pp[f].state
      BY <1>1, <2>1, <3>1, BusyEnters
    <3> QED
      BY <2>1, <3>2
  <2> HIDE DEF k
  <2>4. 1 = 1 - One(pc[p] \in Busy)
    BY <1>2 DEF One
  <2>5. \E m, wh, r, s : Step(p, f, m, pipe[f], wh, r, s)
    BY <1>0, <1>1, <1>3, <1>6, <2>2, <2>3, <2>4, ReadLoopStep DEF f
  <2> QED
    BY <1>1, <1>3, <2>5, QuietKeeps
<1> QED
  BY <1>1, <1>4, <1>5, <1>6 DEF pipe_read, f

\* ... and so do its return from a sleep ...
LEMMA ReadRelockKeeps ==
    ASSUME PipeInv, NEW p \in Proc, ReadRelock(p)
    PROVE  PipeInv'
<1> DEFINE f == Target(p)
<1>0. pc[p] \in {"piperd", "relock"} /\ pc[p] \in Reading /\ Awake(p)
  BY DEF ReadRelock, At, Reading
<1>1. /\ Types /\ BusyCounts /\ op[p].op = "read" /\ op[p].file = f /\ f \in End
      /\ Enters(p, Now, f, pipe[f], 0)
      /\ Sane(pipe[f]) /\ SameData(pipe[f], pipe[f])
      /\ resid[p] \in Nat /\ Now.pp = pipe
      /\ \A g \in End : Locked(Now, g) <=> "LOCK" \in pipe[g].state
  BY <1>0, AtReading
<1>2. pc[p] \in Busy /\ pc[p] \notin Holding /\ pc[p] # "idle"
  BY <1>0 DEF Busy, Holding
<1>3. Historyless /\ UNCHANGED <<closer, nbigpipe, ops>> /\ closer' = closer /\ ops' = ops
  BY DEF ReadRelock
<1> HIDE DEF f
<1>4. CASE ReadDone(p, Now, f)
  <2>1. \E m, wh, r, s : Step(p, f, m, pipe[f], wh, r, s)
    BY <1>1, <1>2, <1>3, <1>4, DoneStep DEF f
  <2> QED
    BY <1>1, <1>3, <2>1, QuietKeeps
<1>5. CASE Stay(p, LockSleep(Now, p, f), "relock", resid[p])
  <2>1. "relock" \in Waiting /\ "relock" \in Busy
    BY DEF Waiting, Busy
  <2>2. Fits(p, pipe[f], "relock", resid[p], 0)
    BY <1>0, <1>1, <1>2 DEF Fits, Place, Writing
  <2>3. 0 = One("relock" \in Busy) - One(pc[p] \in Busy)
    BY <1>2, <2>1 DEF One
  <2>4. StayWith(p, LockSleep(Now, p, f), "relock", resid[p], 0)
    BY <1>5 DEF Stay
  <2>5. \E m, wh, r, s : Step(p, f, m, pipe[f], wh, r, s)
    BY <1>1, <1>2, <1>3, <2>1, <2>2, <2>3, <2>4, LockSleepStep DEF f
  <2> QED
    BY <1>1, <1>3, <2>5, QuietKeeps
<1>6. CASE ~Locked(Now, f) /\ ReadLoop(p, Lock(Now, f), f, resid[p])
  <2> DEFINE k == Lock(Now, f)
  <2>1. Enters(p, k, f, pipe[f], 0) /\ "LOCK" \in k.pp[f].state
    BY <1>1, LockEnters
  <2>2. ReadLoop(p, k, f, resid[p])
    BY <1>6
  <2> HIDE DEF k
  <2>3. 0 = 1 - One(pc[p] \in Busy)
    BY <1>2 DEF One
  <2>4. \E m, wh, r, s : Step(p, f, m, pipe[f], wh, r, s)
    BY <1>0, <1>1, <1>2, <1>3, <1>6, <2>1, <2>2, <2>3, ReadLoopStep DEF f
  <2> QED
    BY <1>1, <1>3, <2>4, QuietKeeps
<1> QED
  BY <1>1, <1>4, <1>5, <1>6 DEF ReadRelock, f

\* ... and from a uiomove() that fails.
LEMMA ReadFaultKeeps ==
    ASSUME PipeInv, NEW p \in Proc, ReadFault(p)
    PROVE  PipeInv'
<1> DEFINE f == Target(p)
           k == pipeunlock(Now, f)
<1>0. pc[p] = "move" /\ pc[p] \in Reading /\ Awake(p)
  BY DEF ReadFault, At, Reading
<1>1. Types /\ BusyCounts /\ op[p].file = f /\ f \in End /\ Enters(p, Now, f, pipe[f], 0)
  BY <1>0, AtReading
<1>2. pc[p] \in Busy /\ pc[p] \in Holding
  BY <1>0 DEF Busy, Holding
<1>3. Historyless /\ UNCHANGED <<closer, nbigpipe, ops>> /\ closer' = closer /\ ops' = ops
  BY DEF ReadFault
<1>4. ReadDone(p, k, f)
  BY <1>1 DEF ReadFault
<1> HIDE DEF f
<1>5. Enters(p, k, f, pipe[f], 0)
  BY <1>1, UnlockEnters
<1> HIDE DEF k
<1>6. \E m, wh, r, s : Step(p, f, m, pipe[f], wh, r, s)
  BY <1>1, <1>2, <1>3, <1>4, <1>5, DoneStep DEF f
<1> QED
  BY <1>1, <1>3, <1>6, QuietKeeps

\* pipelock() finds PIPE_LOCK clear.
LEMMA LockStep ==
    ASSUME Types, NEW p \in Proc, NEW f \in End, f = Target(p), NEW k, NEW b,
           Enters(p, k, f, pipe[f], b), "LOCK" \notin pipe[f].state,
           NEW where \in {"alloc", "wmove"}, b = One(where \in Busy) - One(pc[p] \in Busy),
           NEW sp, closer' = closer, ops' = ops,
           Fits(p, pipe[f], where, resid[p], sp),
           StayWith(p, Lock(k, f), where, resid[p], sp)
    PROVE  \E m, wh, r, s : Step(p, f, m, pipe[f], wh, r, s)
<1> DEFINE m == Lock(k, f)
<1>1. where \notin {"idle", "select"} /\ where \notin Waiting
  BY DEF Waiting
<1>2. After(p, m, where, resid[p], sp)
  BY <1>1 DEF After
<1>3. Enters(p, m, f, pipe[f], b) /\ "LOCK" \in m.pp[f].state
  BY LockEnters
<1> HIDE DEF m
<1>4. Moves(p, f, m, pipe[f], where)
  <2>1. m.w[p] \in Ident(where, f)
    BY <1>1, <1>3 DEF Ident, Enters
  <2>2. m.pp[f].busy = pipe[f].busy + One(where \in Busy) - One(pc[p] \in Busy)
    <3>1. pipe[f].busy \in Nat
      BY DEF Types, TypeOK
    <3> QED
      BY <1>3, <3>1 DEF Enters, One
  <2> QED
    BY <1>3, <2>1, <2>2 DEF Enters, Moves
<1>5. SameData(pipe[f], pipe[f]) /\ Sane(pipe[f])
  BY NowTypes DEF SameData
<1>6. Step(p, f, m, pipe[f], where, resid[p], sp)
  BY <1>2, <1>4, <1>5 DEF Step
<1> QED
  BY <1>6

\* pipelock() of the resize is a step.
LEMMA ResizeLockStep ==
    ASSUME PipeInv, NEW p \in Proc, pc[p] \in {"write", "wbig"}, Awake(p), NEW k, NEW b,
           NEW f, f = Target(p), Enters(p, k, f, pipe[f], b), b = 1 - One(pc[p] \in Busy),
           k.pp[f].state = pipe[f].state, closer' = closer, ops' = ops,
           pc[p] \in Busy \/ pipe[f].live, ResizeLock(p, k, f)
    PROVE  \E m, wh, r, s : Step(p, f, m, pipe[f], wh, r, s)
<1>0. pc[p] \in Writing /\ pc[p] \notin Holding
  BY DEF Writing, Holding
<1>1. /\ Types /\ op[p].op = "write" /\ f \in End
      /\ resid[p] \in Nat /\ op[p].n \in Nat
      /\ resid[p] <= op[p].n
      /\ op[p].n <= PIPE_BUF => resid[p] = op[p].n
  BY <1>0, AtWriting
<1>2. /\ "wbig" \in Waiting /\ "wbig" \in Busy /\ "alloc" \in Busy
      /\ {"wbig", "alloc"} \subseteq Place \ Reading
  BY DEF Waiting, Busy, Writing, Place, Reading
<1>3. b = One("wbig" \in Busy) - One(pc[p] \in Busy) /\ b = One("alloc" \in Busy) - One(pc[p] \in Busy)
  BY <1>2 DEF One
<1>4. Fits(p, pipe[f], "wbig", resid[p], 0) /\ Fits(p, pipe[f], "alloc", resid[p], 0)
  BY <1>1, <1>2 DEF Fits
<1>5. CASE Locked(k, f)
  <2>1. StayWith(p, LockSleep(k, p, f), "wbig", resid[p], 0)
    BY <1>5 DEF ResizeLock, Stay
  <2> QED
    BY <1>0, <1>1, <1>2, <1>3, <1>4, <2>1, LockSleepStep
<1>6. CASE ~Locked(k, f)
  <2>1. StayWith(p, Lock(k, f), "alloc", resid[p], 0) /\ "LOCK" \notin pipe[f].state
    BY <1>6 DEF ResizeLock, Stay, Locked
  <2> QED
    BY <1>1, <1>3, <1>4, <2>1, LockStep
<1> QED
  BY <1>5, <1>6

\* pipe_write() to its first sleep keeps the invariant, and so do ...
LEMMA PipeWriteKeeps ==
    ASSUME PipeInv, NEW p \in Proc, pipe_write(p)
    PROVE  PipeInv'
<1> DEFINE f == Target(p)
           k == [Now EXCEPT !.pp[f].busy = @ + 1]
<1>0. pc[p] = "write" /\ pc[p] \in Writing /\ Awake(p)
  BY DEF pipe_write, At, Writing
<1>1. /\ Types /\ BusyCounts /\ op[p].op = "write" /\ Peer(op[p].file) = f /\ f \in End
      /\ Enters(p, Now, f, pipe[f], 0)
      /\ Sane(pipe[f]) /\ SameData(pipe[f], pipe[f])
      /\ resid[p] \in Nat /\ Now.pp = pipe
      /\ resid[p] <= op[p].n
      /\ op[p].n <= PIPE_BUF => resid[p] = op[p].n
      /\ pipe[op[p].file].peer => pipe[f].live
  BY <1>0, AtWriting
<1>2. pc[p] \notin Busy /\ pc[p] \notin Holding /\ pc[p] # "idle"
  BY <1>0 DEF Busy, Holding, Writing
<1>3. Historyless /\ UNCHANGED <<closer, nbigpipe, ops>> /\ closer' = closer /\ ops' = ops
  BY DEF pipe_write
<1>4. \/ Return(p, Now)
      \/ pipe[f].live /\ (ResizeLock(p, k, f) \/ WriteLoop(p, k, f, resid[p]))
  BY <1>0, <1>1 DEF pipe_write
<1>5. k = [Now EXCEPT !.pp[f].busy = @ + 1]
  OBVIOUS
<1> HIDE DEF f, k
<1>6. Enters(p, k, f, pipe[f], 1) /\ k.pp[f].state = pipe[f].state
  <2>1. Enters(p, k, f, pipe[f], 1) /\ k.pp[f].state = Now.pp[f].state
    BY <1>1, <1>5, BusyEnters
  <2> QED
    BY <1>1, <2>1
<1>7. 1 = 1 - One(pc[p] \in Busy)
  BY <1>2 DEF One
<1>8. CASE Return(p, Now)
  <2>1. - One(pc[p] \in Busy) = 0
    <3>1. One(pc[p] \in Busy) = 0
      BY <1>2 DEF One
    <3> QED
      BY <3>1
  <2>2. Step(p, f, Now, pipe[f], "idle", 0, 0)
    BY <1>1, <1>2, <1>3, <1>8, <2>1, ReturnStep DEF f
  <2> QED
    BY <1>1, <1>3, <2>2, QuietKeeps
<1>9. CASE pipe[f].live /\ ResizeLock(p, k, f)
  <2>1. \E m, wh, r, s : Step(p, f, m, pipe[f], wh, r, s)
    BY <1>0, <1>3, <1>6, <1>7, <1>9, ResizeLockStep DEF f
  <2> QED
    BY <1>1, <1>3, <2>1, QuietKeeps
<1>10. CASE pipe[f].live /\ WriteLoop(p, k, f, resid[p])
  <2>1. \E m, wh, r, s : Step(p, f, m, pipe[f], wh, r, s)
    BY <1>0, <1>1, <1>3, <1>6, <1>7, <1>10, WriteLoopStep DEF f
  <2> QED
    BY <1>1, <1>3, <2>1, QuietKeeps
<1> QED
  BY <1>4, <1>8, <1>9, <1>10

\* ... its wait for the lock of the resize ...
LEMMA WriteResizeKeeps ==
    ASSUME PipeInv, NEW p \in Proc, WriteResize(p)
    PROVE  PipeInv'
<1> DEFINE f == Target(p)
           left == [Now EXCEPT !.pp[f].busy = @ - 1]
           woken == IF left.pp[f].busy = 0 /\ "WANT" \in left.pp[f].state
                    THEN Wake(ClearFlags(left, f, {"WANT", "WANTR"}), f) ELSE left
<1>0. pc[p] = "wbig" /\ pc[p] \in Writing /\ Awake(p)
  BY DEF WriteResize, At, Writing
<1>1. /\ Types /\ BusyCounts /\ op[p].op = "write" /\ Peer(op[p].file) = f /\ f \in End
      /\ Enters(p, Now, f, pipe[f], 0) /\ Now.pp = pipe
  BY <1>0, AtWriting
<1>2. pc[p] \in Busy /\ pc[p] \notin Holding /\ pc[p] # "idle"
  BY <1>0 DEF Busy, Holding, Writing
<1>3. Historyless /\ UNCHANGED <<closer, nbigpipe, ops>> /\ closer' = closer /\ ops' = ops
  BY DEF WriteResize
<1>4. ResizeLock(p, Now, f) \/ Return(p, woken)
  BY <1>1 DEF WriteResize
<1>5. One(pc[p] \in Busy) = 1
  BY <1>2 DEF One
<1>6. CASE ResizeLock(p, Now, f)
  <2>1. 0 = 1 - One(pc[p] \in Busy)
    BY <1>5
  <2>2. \E m, wh, r, s : Step(p, f, m, pipe[f], wh, r, s)
    BY <1>0, <1>1, <1>2, <1>3, <1>6, <2>1, ResizeLockStep
  <2> QED
    BY <1>1, <1>3, <2>2, QuietKeeps
<1>7. CASE Return(p, woken)
  <2>1. pipe[f].busy > 0 /\ pipe[f].busy \in Nat
    BY <1>1, <1>2, BusyPositive DEF Types, TypeOK
  <2>2. Left(Now, left, f)
    <3>1. Now \in KState /\ Now.pp[f].busy > 0
      BY <1>1, <2>1 DEF Enters
    <3> QED
      BY <1>1, <3>1, Decrement
  <2> HIDE DEF left, f
  <2>3. Calm(left, woken)
    <3>0. left \in KState
      BY <2>2 DEF Left
    <3>1. Calm(left, ClearFlags(left, f, {"WANT", "WANTR"}))
      BY <1>1, <3>0, ClearFlagsCalm DEF Flags
    <3>2. Calm(ClearFlags(left, f, {"WANT", "WANTR"}), Wake(ClearFlags(left, f, {"WANT", "WANTR"}), f))
      BY <3>1, WakeCalm DEF Calm
    <3> QED
      BY <3>0, <3>1, <3>2, CalmTrans, CalmSame
  <2> HIDE DEF woken
  <2>4. Left(Now, woken, f)
    BY <1>1, <2>2, <2>3, LeftCalm
  <2>5. p \in Actor
    BY DEF Actor
  <2>6. Enters(p, woken, f, pipe[f], - 1)
    BY <1>1, <2>1, <2>4, <2>5 DEF Enters, Left, OnlyWakes, SameLocks, SameData, SameLink
  <2>7. "LOCK" \in woken.pp[f].state <=> "LOCK" \in pipe[f].state
    BY <1>1, <2>4 DEF Left, SameLocks
  <2>8. Step(p, f, woken, pipe[f], "idle", 0, 0)
    BY <1>1, <1>2, <1>3, <1>5, <1>7, <2>6, <2>7, ReturnStep DEF f
  <2> QED
    BY <1>1, <1>3, <2>8, QuietKeeps
<1> QED
  BY <1>4, <1>6, <1>7

\* ... its wait for the lock of a transfer, after which the space may be gone ...
LEMMA WriteLockKeeps ==
    ASSUME PipeInv, NEW p \in Proc, WriteLock(p)
    PROVE  PipeInv'
<1> DEFINE f == Target(p)
           k == pipeunlock(Lock(Now, f), f)
<1>0. pc[p] = "wlock" /\ pc[p] \in Writing /\ Awake(p)
  BY DEF WriteLock, At, Writing
<1>1. /\ Types /\ BusyCounts /\ op[p].op = "write" /\ Peer(op[p].file) = f /\ f \in End
      /\ Enters(p, Now, f, pipe[f], 0)
      /\ Sane(pipe[f]) /\ SameData(pipe[f], pipe[f])
      /\ resid[p] \in Nat /\ space[p] \in Nat /\ op[p].n \in Nat /\ Now.pp = pipe
      /\ \A g \in End : Locked(Now, g) <=> "LOCK" \in pipe[g].state
      /\ resid[p] <= op[p].n
      /\ op[p].n <= PIPE_BUF => resid[p] = op[p].n
      /\ space[p] > 0 /\ resid[p] > 0
      /\ op[p].n <= PIPE_BUF => resid[p] <= space[p]
  BY <1>0, AtWriting
<1>2. pc[p] \in Busy /\ pc[p] \notin Holding /\ pc[p] # "idle"
  BY <1>0 DEF Busy, Holding, Writing
<1>3. Historyless /\ UNCHANGED <<closer, nbigpipe, ops>> /\ closer' = closer /\ ops' = ops
  BY DEF WriteLock
<1>4. Space(Now, f) = pipe[f].size - pipe[f].cnt /\ pipe[f].size - pipe[f].cnt \in Nat
  <2>1. pipe[f].size \in Nat /\ pipe[f].cnt \in Nat /\ pipe[f].cnt <= pipe[f].size
    BY <1>1, PipeAssumption DEF Sane
  <2> QED
    BY <1>1, <2>1 DEF Space
<1>5. \/ WriteDone(p, Now, f)
      \/ StayWith(p, LockSleep(Now, p, f), "wlock", resid[p], space[p])
      \/ ~Locked(Now, f) /\ WriteLoop(p, k, f, resid[p])
      \/ ~Locked(Now, f) /\ ~(space[p] > Space(Now, f))
         /\ StayWith(p, Lock(Now, f), "wmove", resid[p], space[p])
  BY <1>1 DEF WriteLock
<1>6. 0 = 1 - One(pc[p] \in Busy)
  BY <1>2 DEF One
<1>7. /\ "wlock" \in Waiting /\ "wlock" \in Busy /\ "wmove" \in Busy
      /\ {"wlock", "wmove"} \subseteq Place \ Reading
  BY DEF Waiting, Busy, Writing, Place, Reading
<1>8. 0 = One("wlock" \in Busy) - One(pc[p] \in Busy) /\ 0 = One("wmove" \in Busy) - One(pc[p] \in Busy)
  BY <1>2, <1>7 DEF One
<1>9. \E m, wh, r, s : Step(p, f, m, pipe[f], wh, r, s)
  <2>1. CASE WriteDone(p, Now, f)
    BY <1>1, <1>2, <1>3, <2>1, DoneStep
  <2>2. CASE StayWith(p, LockSleep(Now, p, f), "wlock", resid[p], space[p])
    <3>1. Fits(p, pipe[f], "wlock", resid[p], space[p])
      BY <1>0, <1>1, <1>7 DEF Fits
    <3> QED
      BY <1>1, <1>2, <1>3, <1>7, <1>8, <2>2, <3>1, LockSleepStep
  <2>3. CASE ~Locked(Now, f) /\ WriteLoop(p, k, f, resid[p])
    <3>1. Enters(p, Lock(Now, f), f, pipe[f], 0)
      BY <1>1, LockEnters
    <3>2. Enters(p, k, f, pipe[f], 0) /\ "LOCK" \notin k.pp[f].state
      BY <1>1, <3>1, UnlockEnters
    <3> HIDE DEF k
    <3> QED
      BY <1>0, <1>1, <1>2, <1>3, <1>6, <2>3, <3>2, WriteLoopStep
  <2>4. CASE ~Locked(Now, f) /\ ~(space[p] > Space(Now, f))
             /\ StayWith(p, Lock(Now, f), "wmove", resid[p], space[p])
    <3>1. space[p] <= pipe[f].size - pipe[f].cnt
      BY <1>1, <1>4, <2>4
    <3>2. Fits(p, pipe[f], "wmove", resid[p], space[p])
      BY <1>0, <1>1, <1>7, <3>1 DEF Fits
    <3> QED
      BY <1>1, <1>3, <1>8, <2>4, <3>2, LockStep
  <2> QED
    BY <1>5, <2>1, <2>2, <2>3, <2>4
<1> QED
  BY <1>1, <1>3, <1>9, QuietKeeps

\* ... its return from a uiomove() that fails ...
LEMMA WriteFaultKeeps ==
    ASSUME PipeInv, NEW p \in Proc, WriteFault(p)
    PROVE  PipeInv'
<1> DEFINE f == Target(p)
           k == pipeunlock(Now, f)
<1>0. pc[p] = "wmove" /\ pc[p] \in Writing /\ Awake(p)
  BY DEF WriteFault, At, Writing
<1>1. Types /\ BusyCounts /\ Peer(op[p].file) = f /\ f \in End /\ Enters(p, Now, f, pipe[f], 0)
  BY <1>0, AtWriting
<1>2. pc[p] \in Busy /\ pc[p] \in Holding
  BY <1>0 DEF Busy, Holding, Writing
<1>3. Historyless /\ UNCHANGED <<closer, nbigpipe, ops>> /\ closer' = closer /\ ops' = ops
  BY DEF WriteFault
<1>4. WriteDone(p, k, f)
  BY <1>1 DEF WriteFault
<1> HIDE DEF f
<1>5. Enters(p, k, f, pipe[f], 0)
  BY <1>1, UnlockEnters
<1> HIDE DEF k
<1>6. \E m, wh, r, s : Step(p, f, m, pipe[f], wh, r, s)
  BY <1>1, <1>2, <1>3, <1>4, <1>5, DoneStep DEF f
<1> QED
  BY <1>1, <1>3, <1>6, QuietKeeps

\* ... and from waiting for space.
LEMMA WriteAgainKeeps ==
    ASSUME PipeInv, NEW p \in Proc, WriteAgain(p)
    PROVE  PipeInv'
<1> DEFINE f == Target(p)
<1>0. pc[p] = "pipewr" /\ pc[p] \in Writing /\ Awake(p)
  BY DEF WriteAgain, At, Writing
<1>1. /\ Types /\ BusyCounts /\ op[p].op = "write" /\ Peer(op[p].file) = f /\ f \in End
      /\ Enters(p, Now, f, pipe[f], 0)
      /\ Sane(pipe[f]) /\ SameData(pipe[f], pipe[f])
      /\ resid[p] \in Nat /\ Now.pp = pipe
      /\ resid[p] <= op[p].n
      /\ op[p].n <= PIPE_BUF => resid[p] = op[p].n
  BY <1>0, AtWriting
<1>2. pc[p] \in Busy /\ pc[p] \notin Holding
  BY <1>0 DEF Busy, Holding, Writing
<1>3. Historyless /\ UNCHANGED <<closer, nbigpipe, ops>> /\ closer' = closer /\ ops' = ops
  BY DEF WriteAgain
<1>4. WriteDone(p, Now, f) \/ WriteLoop(p, Now, f, resid[p])
  BY <1>1 DEF WriteAgain
<1>5. 0 = 1 - One(pc[p] \in Busy)
  BY <1>2 DEF One
<1>6. \E m, wh, r, s : Step(p, f, m, pipe[f], wh, r, s)
  <2>1. CASE WriteDone(p, Now, f)
    BY <1>1, <1>2, <1>3, <2>1, DoneStep
  <2>2. CASE WriteLoop(p, Now, f, resid[p])
    BY <1>0, <1>1, <1>2, <1>3, <1>5, <2>2, WriteLoopStep
  <2> QED
    BY <1>4, <2>1, <2>2
<1> QED
  BY <1>1, <1>3, <1>6, QuietKeeps

\* poll() and select() keep the invariant.
LEMMA PollKeeps ==
    ASSUME PipeInv, NEW p \in Proc, Poll(p)
    PROVE  PipeInv'
<1> DEFINE f == Target(p)
           k == PollRecord(Now, p, f, op[p].ev)
           m == [k EXCEPT !.w = SleepCatch(@, p, "selwait")]
<1>0. pc[p] \in {"scan", "select"} /\ Awake(p)
  BY DEF Poll, At
<1>1. Types /\ CallsFit
  BY DEF PipeInv
<1>2. op[p].op = "poll" /\ op[p].file = f /\ f \in End
  BY <1>0, <1>1, NowTypes DEF CallsFit, Target
<1>3. Historyless /\ UNCHANGED <<closer, nbigpipe, ops>> /\ closer' = closer /\ ops' = ops
  BY DEF Poll
<1>4. Return(p, Now) \/ Stay(p, m, "select", resid[p])
  BY <1>2 DEF Poll
<1>5. pc[p] \notin Busy /\ pc[p] \notin Holding /\ pc[p] # "idle"
  BY <1>0 DEF Busy, Holding, Writing
<1>6. One(pc[p] \in Busy) = 0
  BY <1>5 DEF One
<1>7. /\ Now \in KState /\ Now.w = p_wchan /\ Now.pp = pipe
      /\ Sane(pipe[f]) /\ resid[p] \in Nat /\ pipe[f].busy \in Nat
  BY <1>1, <1>2, NowTypes DEF Types, TypeOK
<1>8. CASE Return(p, Now)
  <2>1. - One(pc[p] \in Busy) = 0
    BY <1>6
  <2>2. Enters(p, Now, f, pipe[f], 0)
    BY <1>0, <1>1, <1>2, NowEnters
  <2>3. Step(p, f, Now, pipe[f], "idle", 0, 0)
    BY <1>1, <1>2, <1>3, <1>5, <1>7, <1>8, <2>1, <2>2, ReturnStep
  <2> QED
    BY <1>2, <1>3, <2>3, QuietKeeps
<1>9. CASE Stay(p, m, "select", resid[p])
  <2>1. Calm(Now, k)
    BY <1>2, <1>7, PollRecordCalm
  <2>2. "selwait" \in Channel /\ k \in KState
    BY <2>1 DEF Channel, Calm
  <2>3. After(p, m, "select", resid[p], 0)
    BY <1>9 DEF After, Stay
  <2> HIDE DEF k, f
  <2>4. /\ m \in KState /\ m.pp = k.pp
        /\ \A a \in Actor : a # p => m.w[a] = k.w[a]
        /\ m.w[p] \in {"selwait", NoChan}
    BY <2>2, Sleeps
  <2> HIDE DEF m
  <2>5. "select" \notin Busy \cup Holding \cup Reading \cup Writing /\ "select" \in Place
    BY DEF Busy, Holding, Reading, Writing, Place
  <2>6. m.pp[f].busy = pipe[f].busy + One("select" \in Busy) - One(pc[p] \in Busy)
    <3>1. One("select" \in Busy) = 0
      BY <2>5 DEF One
    <3>2. m.pp[f].busy = pipe[f].busy
      BY <1>2, <1>7, <2>1, <2>4 DEF Calm
    <3> QED
      BY <1>6, <1>7, <3>1, <3>2
  <2>7. m.w[p] \in Ident("select", f)
    BY <2>4 DEF Ident
  <2>8. \A a \in Actor : a # p => m.w[a] \in {p_wchan[a], NoChan}
    BY <1>7, <2>1, <2>4 DEF Calm, OnlyWakes
  <2>9. \A g \in End : /\ SameLink(m.pp[g], pipe[g]) /\ SameData(m.pp[g], pipe[g])
                       /\ m.pp[g].busy = pipe[g].busy
                       /\ "LOCK" \in m.pp[g].state <=> "LOCK" \in pipe[g].state
    BY <1>7, <2>1, <2>4 DEF Calm, SameLocks
  <2>10. Moves(p, f, m, pipe[f], "select")
    BY <1>2, <2>4, <2>5, <2>6, <2>7, <2>8, <2>9 DEF Moves
  <2>11. Fits(p, pipe[f], "select", resid[p], 0)
    BY <1>2, <1>5, <1>7, <2>5 DEF Fits
  <2>12. Step(p, f, m, pipe[f], "select", resid[p], 0)
    BY <1>3, <1>7, <2>3, <2>10, <2>11 DEF Step, SameData, f
  <2> QED
    BY <1>2, <1>3, <2>12, QuietKeeps
<1> QED
  BY <1>4, <1>8, <1>9

\* A step that changes neither the pipes nor where the threads are, and wakes
\* some of them
LEMMA SignalKeeps ==
    ASSUME PipeInv, p_wchan' \in [Actor -> Channel],
           \A a \in Actor : p_wchan'[a] \in {p_wchan[a], NoChan},
           p_sig' \in [Actor -> BOOLEAN], p_timeout' \in [Actor -> BOOLEAN],
           UNCHANGED <<pipe, closer, nbigpipe, localVars, pc, stream, last>>
    PROVE  PipeInv'
<1>0. /\ pipe' = pipe /\ closer' = closer /\ nbigpipe' = nbigpipe /\ ops' = ops /\ op' = op
      /\ resid' = resid /\ space' = space /\ pc' = pc /\ stream' = stream /\ last' = last
  BY DEF localVars
<1>1. Types'
  <2>1. TypeOK'
    BY <1>0 DEF PipeInv, Types, TypeOK, Channel
  <2> QED
    BY <1>0, <2>1 DEF PipeInv, Types
<1>2. CallsFit' /\ References'
  BY <1>0 DEF PipeInv, CallsFit, References
<1>3. \A p : Target(p)' = Target(p)
  BY <1>0 DEF Target
<1>4. \A f, p : /\ Is(p, f, Busy)' = Is(p, f, Busy)
                /\ Is(p, f, Holding)' = Is(p, f, Holding)
  BY <1>0, <1>3 DEF Is
<1>5. BusyCounts'
  <2>1. \A f : Users(f)' = Users(f)
    BY <1>4 DEF Users
  <2> QED
    BY <1>0, <2>1 DEF PipeInv, BusyCounts
<1>6. LockExclusive'
  <2>1. \A f : Locked(Now, f)' = Locked(Now, f)
    BY <1>0 DEF Locked, Now
  <2> QED
    BY <1>4, <2>1 DEF PipeInv, LockExclusive
<1>7. Channels'
  <2>1. Proc \subseteq Actor /\ End \subseteq Actor
    BY DEF Actor
  <2>2. \A a \in Actor : ~Awake(a)' => ~Awake(a) /\ p_wchan'[a] = p_wchan[a]
    BY DEF Awake
  <2> QED
    BY <1>0, <1>3, <2>1, <2>2 DEF PipeInv, Channels
<1>8. Connected'
  BY <1>0 DEF PipeInv, Connected
<1>9. Transfers'
  <2>1. \A f : Space(Now, f)' = Space(Now, f)
    BY <1>0 DEF Space, Now
  <2> QED
    BY <1>0, <1>3, <2>1 DEF PipeInv, Transfers
<1>10. BigPipesCounted' /\ StreamInOrder' /\ AtomicWrites'
  <2>1. BigPipesCounted /\ StreamInOrder /\ AtomicWrites
    BY DEF PipeInv
  <2>2. BigPipesCounted'
    BY <1>0, <2>1 DEF BigPipesCounted
  <2>3. StreamInOrder'
    BY <1>0, <2>1 DEF StreamInOrder
  <2>4. AtomicWrites'
    BY <1>0, <2>1 DEF AtomicWrites
  <2> QED
    BY <2>2, <2>3, <2>4
<1> QED
  BY <1>1, <1>2, <1>5, <1>6, <1>7, <1>8, <1>9, <1>10 DEF PipeInv

\* Signals and timeouts keep the invariant.
LEMMA PtsignalKeeps ==
    ASSUME PipeInv, NEW p \in Proc, ptsignal(p) \/ endtsleep(p)
    PROVE  PipeInv'
<1>1. p_wchan \in [Actor -> Channel] /\ p_sig \in [Actor -> BOOLEAN] /\ p_timeout \in [Actor -> BOOLEAN]
  BY DEF PipeInv, Types, TypeOK, Channel
<1>2. p_wchan' = [p_wchan EXCEPT ![p] = NoChan]
  BY DEF ptsignal, endtsleep, PostSignal, EndTsleep
<1>3. p_sig' \in [Actor -> BOOLEAN] /\ p_timeout' \in [Actor -> BOOLEAN]
  BY <1>1 DEF ptsignal, endtsleep, PostSignal, EndTsleep
<1>4. p_wchan' \in [Actor -> Channel] /\ \A a \in Actor : p_wchan'[a] \in {p_wchan[a], NoChan}
  BY <1>1, <1>2 DEF Channel
<1>5. UNCHANGED <<pipe, closer, nbigpipe, localVars, pc, stream, last>>
  BY DEF ptsignal, endtsleep
<1> QED
  BY <1>3, <1>4, <1>5, SignalKeeps

\* The beginning of a system call keeps the invariant.
LEMMA CallKeeps ==
    ASSUME PipeInv, NEW p \in Proc, NEW o \in ops, Call(p, o)
    PROVE  PipeInv'
<1> DEFINE where == IF o.op = "poll" THEN "scan" ELSE o.op
<1>0. /\ pipe' = pipe /\ closer' = closer /\ nbigpipe' = nbigpipe /\ ops' = ops
      /\ space' = space /\ stream' = stream /\ last' = last /\ p_wchan' = p_wchan
      /\ p_sig' = p_sig /\ p_timeout' = p_timeout
      /\ pc[p] = "idle" /\ o.p = p /\ closer[o.file] = "open"
      /\ op' = [op EXCEPT ![p] = o] /\ resid' = [resid EXCEPT ![p] = o.n]
      /\ pc' = [pc EXCEPT ![p] = where]
  BY DEF Call, sleepVars
<1>1. Types /\ CallsFit /\ References
  BY DEF PipeInv
<1>2. o \in Op /\ o.op \in {"read", "write", "poll"} /\ o.n \in Nat /\ o # NoOp
  <2>1. o \in Op
    BY <1>1 DEF Types, TypeOK
  <2> QED
    BY <2>1, PipeAssumption DEF Op, NoOp
<1>3. /\ where \in {"read", "write", "scan"} /\ where \in Place /\ where # "idle"
      /\ where \notin Busy \cup Holding \cup Waiting /\ where # "select"
      /\ where \in Reading => o.op = "read"
      /\ where \in Writing => where = "write" /\ o.op = "write"
      /\ where = "scan" => o.op = "poll"
  BY <1>2 DEF Place, Busy, Holding, Waiting, Reading, Writing
<1> HIDE DEF where
<1>4. /\ pc'[p] = where /\ op'[p] = o /\ resid'[p] = o.n
      /\ \A a \in Proc : a # p => /\ pc'[a] = pc[a] /\ op'[a] = op[a] /\ resid'[a] = resid[a]
                                  /\ Target(a)' = Target(a)
  <2>1. p \in DOMAIN pc /\ p \in DOMAIN op /\ p \in DOMAIN resid
    BY <1>1 DEF Types, TypeOK
  <2>2. /\ pc'[p] = where /\ op'[p] = o /\ resid'[p] = o.n
        /\ \A a \in Proc : a # p => pc'[a] = pc[a] /\ op'[a] = op[a] /\ resid'[a] = resid[a]
    BY <1>0, <1>1, <2>1 DEF Types, TypeOK
  <2> QED
    BY <2>2 DEF Target
<1>5. Types'
  <2>1. /\ pc' \in [Proc -> Place] /\ op' \in [Proc -> Op \cup {NoOp}]
        /\ resid' \in [Proc -> Nat]
    BY <1>0, <1>1, <1>2, <1>3 DEF Types, TypeOK
  <2>2. \A a \in Proc : (pc'[a] = "idle") = (op'[a] = NoOp)
    BY <1>1, <1>2, <1>3, <1>4 DEF Types, TypeOK
  <2>3. TypeOK'
    BY <1>0, <1>1, <2>1, <2>2 DEF Types, TypeOK
  <2> QED
    BY <1>0, <1>1, <2>1, <2>3 DEF Types
<1>6. CallsFit'
  <2>1. ASSUME NEW a \in Proc
        PROVE  /\ pc'[a] \in Reading => op'[a].op = "read"
               /\ pc'[a] \in Writing => op'[a].op = "write"
               /\ pc'[a] \in {"scan", "select"} => op'[a].op = "poll"
               /\ pc'[a] # "idle" => op'[a] \in ops /\ op'[a].p = a
    <3>1. CASE a = p
      BY <1>0, <1>3, <1>4, <3>1
    <3>2. CASE a # p
      BY <1>1, <1>4, <3>2 DEF CallsFit
    <3> QED
      BY <3>1, <3>2
  <2> QED
    BY <1>0, <2>1 DEF CallsFit
<1>7. References'
  BY <1>0, <1>1, <1>4 DEF References
<1>8. \A f \in End, a \in Proc : /\ Is(a, f, Busy)' <=> Is(a, f, Busy)
                                 /\ Is(a, f, Holding)' <=> Is(a, f, Holding)
  <2>1. "idle" \notin Busy \cup Holding
    BY DEF Busy, Holding, Writing
  <2> QED
    BY <1>0, <1>3, <1>4, <2>1 DEF Is
<1>9. BusyCounts'
  <2>1. \A f \in End : Users(f)' = Users(f)
    BY <1>8 DEF Users
  <2> QED
    BY <1>0, <2>1 DEF PipeInv, BusyCounts
<1>10. LockExclusive'
  <2>1. \A f : Locked(Now, f)' = Locked(Now, f)
    BY <1>0 DEF Locked, Now
  <2> QED
    BY <1>8, <2>1 DEF PipeInv, LockExclusive
<1>11. Channels'
  <2>1. \A a : Awake(a)' = Awake(a)
    BY <1>0 DEF Awake
  <2>2. Channels /\ "idle" \notin Waiting
    BY DEF PipeInv, Waiting
  <2>3. Awake(p)
    BY <1>0, <2>2 DEF Channels
  <2> QED
    BY <1>0, <1>4, <2>1, <2>2, <2>3 DEF Channels
<1>12. Connected'
  BY <1>0 DEF PipeInv, Connected
<1>13. Transfers'
  <2>1. \A f : Space(Now, f)' = Space(Now, f)
    BY <1>0 DEF Space, Now
  <2>2. Transfers
    BY DEF PipeInv
  <2>3. ASSUME NEW a \in Proc
        PROVE  /\ pc'[a] = "move" => resid'[a] > 0 /\ pipe'[Target(a)'].cnt > 0
               /\ pc'[a] \in Writing =>
                     /\ resid'[a] <= op'[a].n
                     /\ op'[a].n <= PIPE_BUF => resid'[a] = op'[a].n
               /\ pc'[a] \in {"wlock", "wmove"} =>
                     /\ space'[a] > 0 /\ resid'[a] > 0
                     /\ op'[a].n <= PIPE_BUF => resid'[a] <= space'[a]
               /\ pc'[a] = "wmove" => space'[a] <= Space(Now, Target(a))'
    <3>1. CASE a = p
      BY <1>2, <1>3, <1>4, <3>1
    <3>2. CASE a # p
      <4>1. Space(Now, Target(a))' = Space(Now, Target(a))
        BY <1>0, <1>4, <3>2 DEF Space, Now
      <4> QED
        BY <1>0, <1>4, <2>2, <3>2, <4>1 DEF Transfers
    <3> QED
      BY <3>1, <3>2
  <2> QED
    BY <2>3 DEF Transfers
<1>14. BigPipesCounted' /\ StreamInOrder' /\ AtomicWrites'
  <2>1. BigPipesCounted /\ StreamInOrder /\ AtomicWrites
    BY DEF PipeInv
  <2>2. BigPipesCounted'
    BY <1>0, <2>1 DEF BigPipesCounted
  <2>3. StreamInOrder'
    BY <1>0, <2>1 DEF StreamInOrder
  <2>4. AtomicWrites'
    BY <1>0, <2>1 DEF AtomicWrites
  <2> QED
    BY <2>2, <2>3, <2>4
<1> QED
  BY <1>5, <1>6, <1>7, <1>9, <1>10, <1>11, <1>12, <1>13, <1>14 DEF PipeInv

-----------------------------------------------------------------------------
\* An index of a circular buffer of n bytes
Wrap(i, n) == IF i < n THEN i ELSE i - n

\* An index goes around the buffer at most once.
LEMMA WrapMod ==
    ASSUME NEW n \in Nat, n > 0, NEW i \in Nat, i < n + n
    PROVE  i % n = Wrap(i, n)
<1>1. ASSUME NEW d \in {0, 1}, NEW r \in 0 .. n - 1 PROVE (n * d + r) % n = r
  OBVIOUS
<1>2. CASE i < n
  <2>1. (n * 0 + i) % n = i
    BY <1>1, <1>2
  <2> QED
    BY <1>2, <2>1 DEF Wrap
<1>3. CASE ~(i < n)
  <2>1. (n * 1 + (i - n)) % n = i - n
    BY <1>1, <1>3
  <2>2. n * 1 + (i - n) = i
    OBVIOUS
  <2> QED
    BY <1>3, <2>1, <2>2 DEF Wrap
<1> QED
  BY <1>2, <1>3

\* The minimum of two numbers ...
LEMMA MinTwo ==
    ASSUME NEW a \in Nat, NEW b \in Nat
    PROVE  Min({a, b}) \in {a, b} /\ Min({a, b}) <= a /\ Min({a, b}) <= b
<1>1. \E x \in {a, b} : \A y \in {a, b} : x <= y
  OBVIOUS
<1> QED
  BY <1>1 DEF Min

\* ... and of three
LEMMA MinThree ==
    ASSUME NEW a \in Nat, NEW b \in Nat, NEW c \in Nat
    PROVE  /\ Min({a, b, c}) \in {a, b, c}
           /\ Min({a, b, c}) <= a /\ Min({a, b, c}) <= b /\ Min({a, b, c}) <= c
<1>1. \E x \in {a, b, c} : \A y \in {a, b, c} : x <= y
  OBVIOUS
<1> QED
  BY <1>1 DEF Min

\* Where the bytes that are left after a read of n bytes from `out' on are
LEMMA TakenIndex ==
    ASSUME NEW size \in Nat, NEW out \in Nat, NEW cnt \in Nat, NEW n \in Nat, NEW i \in Nat,
           out < size, cnt <= size, n > 0, n <= size - out, n <= cnt, i > 0, i <= cnt - n
    PROVE  /\ Wrap((IF out + n >= size THEN 0 ELSE out + n) + i - 1, size)
                = Wrap(out + (n + i) - 1, size)
           /\ Wrap(out + (n + i) - 1, size) \in 0 .. size - 1
           /\ Wrap(out + (n + i) - 1, size) \notin out .. out + n - 1
<1>1. CASE out + n >= size
  BY <1>1 DEF Wrap
<1>2. CASE ~(out + n >= size)
  BY <1>2 DEF Wrap
<1> QED
  BY <1>1, <1>2

\* Index j gets byte d of a write of n bytes that begins at `in', in segments
\* of seg and n - seg bytes.
Segment(j, d, n, in, seg) ==
    \/ j \in in .. in + seg - 1 /\ j - in + 1 = d
    \/ j \notin in .. in + seg - 1 /\ j < n - seg /\ seg + j + 1 = d

\* Its segments are the n bytes behind the cnt bytes from `out' on, and the
\* next write goes behind them.
Segments(size, out, cnt, n, in, seg) ==
    /\ (IF in + n >= size THEN n - seg ELSE in + n) = Wrap(out + (cnt + n), size)
    /\ Wrap(out + (cnt + n), size) \in 0 .. size - 1
    /\ \A i \in 1 .. cnt + n : Wrap(out + i - 1, size) \in 0 .. size - 1
    /\ \A i \in 1 .. cnt : /\ Wrap(out + i - 1, size) \notin in .. in + seg - 1
                          /\ ~(Wrap(out + i - 1, size) < n - seg)
    /\ \A i \in cnt + 1 .. cnt + n : Segment(Wrap(out + i - 1, size), i - cnt, n, in, seg)

\* The one or two segments that pipe_write() fills are behind the data, in order.
LEMMA PutIndex ==
    ASSUME NEW size \in Nat, NEW out \in Nat, NEW cnt \in Nat, NEW n \in Nat, NEW in \in Nat,
           NEW seg \in Nat, out < size, cnt + n <= size, n > 0, in = Wrap(out + cnt, size),
           seg = IF size - in <= n THEN size - in ELSE n
    PROVE  Segments(size, out, cnt, n, in, seg)
<1> USE DEF Segments, Segment
<1>1. CASE out + cnt < size
  <2>1. in = out + cnt
    BY <1>1 DEF Wrap
  <2>2. CASE size - in <= n
    <3>1. seg = size - in
      BY <2>2
    <3> QED
      BY <1>1, <2>1, <2>2, <3>1 DEF Wrap
  <2>3. CASE ~(size - in <= n)
    <3>1. seg = n
      BY <2>3
    <3> QED
      BY <1>1, <2>1, <2>3, <3>1 DEF Wrap
  <2> QED
    BY <2>2, <2>3
<1>2. CASE ~(out + cnt < size)
  <2>1. in = out + cnt - size
    BY <1>2 DEF Wrap
  <2>2. seg = n /\ in + n < size
    BY <1>2, <2>1
  <2> QED
    BY <1>2, <2>1, <2>2 DEF Wrap
<1> QED
  BY <1>1, <1>2

\* The circular buffer of q holds s.
Ring(q, s) ==
    /\ Len(s) = q.cnt
    /\ \A i \in 1 .. q.cnt : s[i] = q.buffer[Wrap(q.out + i - 1, q.size)]
    /\ q.in = Wrap(q.out + q.cnt, q.size)

\* The fields of a pipe as numbers
LEMMA SizeNat ==
    ASSUME NEW q, Sane(q)
    PROVE  /\ q.size \in Nat /\ q.size > 0 /\ q.cnt \in Nat /\ q.in \in Nat /\ q.out \in Nat
           /\ q.cnt <= q.size /\ q.in < q.size /\ q.out < q.size
BY PipeAssumption DEF Sane

\* Ring is what StreamInOrder says of a pipe.
LEMMA RingIs ==
    ASSUME NEW q, Sane(q), NEW s \in Seq(Byte)
    PROVE  Ring(q, s) <=> Contents(q) = s /\ q.in = (q.out + q.cnt) % q.size
<1>1. /\ q.size \in Nat /\ q.size > 0 /\ q.cnt \in Nat /\ q.in \in Nat /\ q.out \in Nat
      /\ q.cnt <= q.size /\ q.in < q.size /\ q.out < q.size
  BY SizeNat
<1>2. \A i \in 1 .. q.cnt : (q.out + i - 1) % q.size = Wrap(q.out + i - 1, q.size)
  <2> TAKE i \in 1 .. q.cnt
  <2>1. q.out + i - 1 \in Nat /\ q.out + i - 1 < q.size + q.size
    BY <1>1
  <2> QED
    BY <1>1, <2>1, WrapMod
<1>3. (q.out + q.cnt) % q.size = Wrap(q.out + q.cnt, q.size)
  <2>1. q.out + q.cnt \in Nat /\ q.out + q.cnt < q.size + q.size
    BY <1>1
  <2> QED
    BY <1>1, <2>1, WrapMod
<1>4. Contents(q) = [i \in 1 .. q.cnt |-> q.buffer[Wrap(q.out + i - 1, q.size)]]
  BY <1>2 DEF Contents
<1>5. s = [i \in 1 .. Len(s) |-> s[i]] /\ Len(s) \in Nat /\ DOMAIN s = 1 .. Len(s)
  OBVIOUS
<1>6. ASSUME Ring(q, s) PROVE Contents(q) = s
  BY <1>1, <1>4, <1>5, <1>6 DEF Ring
<1>7. ASSUME Contents(q) = s
      PROVE  Len(s) = q.cnt /\ \A i \in 1 .. q.cnt : s[i] = q.buffer[Wrap(q.out + i - 1, q.size)]
  <2>1. DOMAIN s = 1 .. q.cnt
    BY <1>4, <1>7
  <2>2. Len(s) = q.cnt
    BY <1>1, <1>5, <2>1
  <2> QED
    BY <1>4, <1>7, <2>2
<1> QED
  BY <1>3, <1>6, <1>7 DEF Ring

\* The place for the next byte is the same, wherever the data begin.
LEMMA TakenIn ==
    ASSUME NEW size \in Nat, NEW out \in Nat, NEW cnt \in Nat, NEW n \in Nat, NEW in \in Nat,
           out < size, n <= size - out, n <= cnt, cnt <= size, in = Wrap(out + cnt, size)
    PROVE  in = Wrap((IF out + n >= size THEN 0 ELSE out + n) + (cnt - n), size)
<1>1. CASE out + n >= size
  <2>1. out + n = size /\ 0 + (cnt - n) < size /\ ~(out + cnt < size)
    BY <1>1
  <2>2. out + cnt - size = 0 + (cnt - n)
    BY <2>1
  <2> QED
    BY <1>1, <2>1, <2>2 DEF Wrap
<1>2. CASE ~(out + n >= size)
  <2>1. (out + n) + (cnt - n) = out + cnt
    OBVIOUS
  <2> QED
    BY <1>2, <2>1
<1> QED
  BY <1>1, <1>2

\* A read of n bytes takes the first n of them.
LEMMA TakenRing ==
    ASSUME NEW q \in PipeRecord, Sane(q), NEW s \in Seq(Byte), Ring(q, s),
           NEW n \in Nat, n > 0, n <= q.size - q.out, n <= q.cnt,
           NEW t, t = Taken(q, n)
    PROVE  /\ t \in PipeRecord /\ Sane(t) /\ Ring(t, SubSeq(s, n + 1, Len(s)))
           /\ SameLink(t, q) /\ t.busy = q.busy /\ t.state = q.state /\ t.size = q.size
<1> DEFINE out == IF q.out + n >= q.size THEN 0 ELSE q.out + n
           buf == [i \in 0 .. q.size - 1 |->
                      IF i \in q.out .. q.out + n - 1 THEN NoByte ELSE q.buffer[i]]
<1>1. /\ q.size \in Nat /\ q.size > 0 /\ q.cnt \in Nat /\ q.in \in Nat /\ q.out \in Nat
      /\ q.cnt <= q.size /\ q.in < q.size /\ q.out < q.size
  BY SizeNat
<1>2. /\ t.cnt = q.cnt - n /\ t.out = (IF q.cnt = n THEN 0 ELSE out)
      /\ t.in = (IF q.cnt = n THEN 0 ELSE q.in) /\ t.size = q.size /\ t.buffer = buf
      /\ SameLink(t, q) /\ t.busy = q.busy /\ t.state = q.state
      /\ t.selpid = q.selpid /\ t.coll = q.coll
  BY DEF Taken, PipeRecord, SameLink
<1>3. q.buffer \in Buffer(q.size) /\ q.size \in {PIPE_SIZE, BIG_PIPE_SIZE}
  BY DEF Sane
<1>4. buf \in Buffer(q.size)
  BY <1>3 DEF Buffer
<1>5. out \in Nat /\ out < q.size /\ q.cnt - n \in Nat /\ q.cnt - n <= q.size
  BY <1>1
<1>6. Sane(t)
  BY <1>1, <1>2, <1>3, <1>4, <1>5 DEF Sane
<1>7. t \in PipeRecord
  <2>1. t = [q EXCEPT !.cnt = t.cnt, !.out = t.out, !.in = t.in, !.buffer = t.buffer]
    BY <1>2 DEF Taken, PipeRecord
  <2>2. t.cnt \in Nat /\ t.out \in Nat /\ t.in \in Nat
    BY <1>6 DEF Sane
  <2>3. t.buffer \in Buffer(PIPE_SIZE) \cup Buffer(BIG_PIPE_SIZE)
    BY <1>2, <1>3, <1>4
  <2> QED
    BY <2>1, <2>2, <2>3 DEF PipeRecord
<1> DEFINE u == SubSeq(s, n + 1, Len(s))
<1>8. Len(s) = q.cnt /\ \A i \in 1 .. q.cnt : s[i] = q.buffer[Wrap(q.out + i - 1, q.size)]
  BY DEF Ring
<1>9. /\ Len(u) = q.cnt - n
      /\ \A i \in 1 .. q.cnt - n : u[i] = s[n + i]
  <2>1. n + 1 \in Int /\ Len(s) \in Int /\ \A i \in n + 1 .. Len(s) : s[i] \in Byte
    BY <1>1, <1>8
  <2>2. /\ Len(u) = IF n + 1 <= Len(s) THEN Len(s) - (n + 1) + 1 ELSE 0
        /\ \A i \in 1 .. Len(s) - (n + 1) + 1 : u[i] = s[(n + 1) + i - 1]
    BY <2>1, SubSeqProperties
  <2>3. Len(s) - (n + 1) + 1 = q.cnt - n /\ \A i \in Int : (n + 1) + i - 1 = n + i
    BY <1>1, <1>8
  <2> QED
    BY <1>1, <1>8, <2>2, <2>3
<1> HIDE DEF u
<1>10. ASSUME NEW i \in 1 .. q.cnt - n
       PROVE  u[i] = t.buffer[Wrap(t.out + i - 1, t.size)]
  <2> DEFINE j == Wrap(q.out + (n + i) - 1, q.size)
  <2>1. u[i] = q.buffer[j]
    <3>1. n + i \in 1 .. q.cnt
      BY <1>1, <1>10
    <3>2. s[n + i] = q.buffer[Wrap(q.out + (n + i) - 1, q.size)]
      BY <1>8, <3>1
    <3> QED
      BY <1>9, <1>10, <3>2
  <2>2. t.out = out /\ t.size = q.size
    BY <1>1, <1>2, <1>10
  <2>3. i \in Nat /\ i > 0 /\ i <= q.cnt - n
    BY <1>1, <1>10
  <2>4. /\ Wrap(out + i - 1, q.size) = j
        /\ j \in 0 .. q.size - 1 /\ j \notin q.out .. q.out + n - 1
    BY <1>1, <2>3, TakenIndex
  <2> HIDE DEF j, out
  <2>5. buf[j] = q.buffer[j]
    BY <2>4
  <2> QED
    BY <1>2, <2>1, <2>2, <2>4, <2>5
<1>11. t.in = Wrap(t.out + t.cnt, t.size)
  <2>1. q.in = Wrap(q.out + q.cnt, q.size)
    BY DEF Ring
  <2>2. q.cnt = n => 0 = Wrap(0 + 0, q.size)
    BY <1>1 DEF Wrap
  <2>3. q.in = Wrap(out + (q.cnt - n), q.size)
    BY <1>1, <2>1, TakenIn
  <2>4. CASE q.cnt = n
    <3>1. t.in = 0 /\ t.out = 0 /\ t.cnt = 0 /\ t.size = q.size
      BY <1>1, <1>2, <2>4
    <3> QED
      BY <2>2, <2>4, <3>1
  <2>5. CASE q.cnt # n
    <3>1. t.in = q.in /\ t.out = out /\ t.cnt = q.cnt - n /\ t.size = q.size
      BY <1>2, <2>5
    <3> HIDE DEF out
    <3> QED
      BY <2>3, <3>1
  <2> QED
    BY <2>4, <2>5
<1>12. Ring(t, u)
  BY <1>2, <1>9, <1>10, <1>11 DEF Ring
<1> QED
  BY <1>2, <1>6, <1>7, <1>12 DEF u

\* A write puts its bytes behind what is there.
LEMMA PutRing ==
    ASSUME NEW q \in PipeRecord, Sane(q), NEW s \in Seq(Byte), Ring(q, s),
           NEW bytes \in Seq(Byte), Len(bytes) > 0, Len(bytes) <= q.size - q.cnt,
           NEW t, t = Put(q, bytes)
    PROVE  /\ t \in PipeRecord /\ Sane(t) /\ Ring(t, s \o bytes)
           /\ SameLink(t, q) /\ t.busy = q.busy /\ t.state = q.state /\ t.size = q.size
<1> DEFINE n == Len(bytes)
           seg == Min({q.size - q.in, n})
           buf == [i \in 0 .. q.size - 1 |->
                     IF i \in q.in .. q.in + seg - 1 THEN bytes[i - q.in + 1]
                     ELSE IF i < n - seg THEN bytes[seg + i + 1]
                     ELSE q.buffer[i]]
           in == IF q.in + n >= q.size THEN n - seg ELSE q.in + n
<1>1. /\ q.size \in Nat /\ q.size > 0 /\ q.cnt \in Nat /\ q.in \in Nat /\ q.out \in Nat
      /\ q.cnt <= q.size /\ q.in < q.size /\ q.out < q.size /\ n \in Nat
  BY SizeNat
<1>2. /\ t.cnt = q.cnt + n /\ t.out = q.out /\ t.in = in
      /\ t.size = q.size /\ t.buffer = buf
      /\ SameLink(t, q) /\ t.busy = q.busy /\ t.state = q.state
      /\ t.selpid = q.selpid /\ t.coll = q.coll
      /\ t = [q EXCEPT !.cnt = t.cnt, !.in = t.in, !.buffer = t.buffer]
  BY DEF Put, PipeRecord, SameLink
<1>3. q.buffer \in Buffer(q.size) /\ q.size \in {PIPE_SIZE, BIG_PIPE_SIZE}
  BY DEF Sane
<1>4. seg \in Nat /\ seg = IF q.size - q.in <= n THEN q.size - q.in ELSE n
  <2>1. q.size - q.in \in Nat
    BY <1>1
  <2>2. seg \in {q.size - q.in, n} /\ seg <= q.size - q.in /\ seg <= n
    BY <1>1, <2>1, MinTwo
  <2> HIDE DEF n, seg
  <2> QED
    BY <1>1, <2>1, <2>2
<1> HIDE DEF seg
<1>4a. q.in = Wrap(q.out + q.cnt, q.size) /\ n <= q.size - q.cnt /\ n > 0 /\ q.cnt + n <= q.size
  <2>1. n <= q.size - q.cnt /\ n > 0
    OBVIOUS
  <2> HIDE DEF n
  <2> QED
    BY <1>1, <2>1 DEF Ring
<1>5. buf \in Buffer(q.size)
  <2>1. ASSUME NEW i \in 0 .. q.size - 1 PROVE buf[i] \in Byte \cup {NoByte}
    <3>1. CASE i \in q.in .. q.in + seg - 1
      <4>1. i - q.in + 1 \in 1 .. n
        <5>1. /\ i \in Int /\ q.in \in Nat /\ i >= q.in /\ i <= q.in + seg - 1
              /\ seg \in Nat /\ n \in Nat /\ seg <= n
          BY <1>1, <1>4, <3>1
        <5> HIDE DEF n
        <5> QED
          BY <5>1
      <4> QED
        BY <3>1, <4>1
    <3>2. CASE i \notin q.in .. q.in + seg - 1 /\ i < n - seg
      <4>1. seg + i + 1 \in 1 .. n
        <5>1. i \in Int /\ i >= 0 /\ i < n - seg /\ n \in Nat /\ seg \in Nat
          BY <1>1, <1>4, <3>2
        <5> HIDE DEF n
        <5> QED
          BY <5>1
      <4> QED
        BY <3>2, <4>1
    <3>3. CASE i \notin q.in .. q.in + seg - 1 /\ ~(i < n - seg)
      BY <1>3, <3>3 DEF Buffer
    <3> QED
      BY <3>1, <3>2, <3>3
  <2> HIDE DEF n
  <2> QED
    BY <2>1 DEF Buffer
<1> HIDE DEF n
<1>4b. Segments(q.size, q.out, q.cnt, n, q.in, seg)
  BY <1>1, <1>4, <1>4a, PutIndex
<1>4c. in = Wrap(q.out + (q.cnt + n), q.size) /\ in \in 0 .. q.size - 1
  BY <1>4b DEF Segments
<1> HIDE DEF in
<1>6. in \in Nat /\ in < q.size /\ q.cnt + n \in Nat /\ q.cnt + n <= q.size
  BY <1>1, <1>4a, <1>4c
<1> HIDE DEF buf
<1>7. Sane(t)
  BY <1>1, <1>2, <1>3, <1>5, <1>6 DEF Sane
<1>8. t \in PipeRecord
  <2>1. t.cnt \in Nat /\ t.in \in Nat
    BY <1>7 DEF Sane
  <2>2. t.buffer \in Buffer(PIPE_SIZE) \cup Buffer(BIG_PIPE_SIZE)
    BY <1>2, <1>3, <1>5
  <2> QED
    BY <1>2, <2>1, <2>2 DEF PipeRecord
<1> DEFINE u == s \o bytes
<1>9. Len(s) = q.cnt /\ \A i \in 1 .. q.cnt : s[i] = q.buffer[Wrap(q.out + i - 1, q.size)]
  BY DEF Ring
<1>10. /\ Len(u) = q.cnt + n
       /\ \A i \in 1 .. q.cnt + n : u[i] = IF i <= q.cnt THEN s[i] ELSE bytes[i - q.cnt]
  <2>1. /\ Len(u) = Len(s) + Len(bytes)
        /\ \A i \in 1 .. Len(s) + Len(bytes) :
              u[i] = IF i <= Len(s) THEN s[i] ELSE bytes[i - Len(s)]
    BY ConcatProperties
  <2> QED
    BY <1>9, <2>1 DEF n
<1> HIDE DEF u
<1>12. ASSUME NEW i \in 1 .. q.cnt + n
       PROVE  u[i] = t.buffer[Wrap(t.out + i - 1, t.size)]
  <2> DEFINE j == Wrap(q.out + i - 1, q.size)
  <2>0. j \in 0 .. q.size - 1
    BY <1>4b, <1>12 DEF Segments
  <2>1. CASE i <= q.cnt
    <3>1. j \notin q.in .. q.in + seg - 1 /\ ~(j < n - seg)
      <4>1. i \in 1 .. q.cnt
        BY <1>1, <1>12, <2>1
      <4> QED
        BY <1>4b, <4>1 DEF Segments, Segment
    <3> HIDE DEF j
    <3>2. buf[j] = q.buffer[j]
      BY <2>0, <3>1 DEF buf
    <3>3. u[i] = q.buffer[j]
      BY <1>1, <1>9, <1>10, <1>12, <2>1 DEF j
    <3> QED
      BY <1>2, <3>2, <3>3 DEF j
  <2>2. CASE ~(i <= q.cnt)
    <3>1. \/ j \in q.in .. q.in + seg - 1 /\ j - q.in + 1 = i - q.cnt
          \/ j \notin q.in .. q.in + seg - 1 /\ j < n - seg /\ seg + j + 1 = i - q.cnt
      <4>1. i \in q.cnt + 1 .. q.cnt + n
        BY <1>1, <1>12, <2>2
      <4> QED
        BY <1>4b, <4>1 DEF Segments, Segment
    <3> HIDE DEF j
    <3>2. buf[j] = bytes[i - q.cnt]
      BY <2>0, <3>1 DEF buf
    <3> QED
      BY <1>2, <1>10, <1>12, <2>2, <3>2 DEF j
  <2> QED
    BY <2>1, <2>2
<1>13. t.in = Wrap(t.out + t.cnt, t.size)
  BY <1>2, <1>4c
<1>14. Ring(t, u)
  BY <1>2, <1>10, <1>12, <1>13 DEF Ring
<1> QED
  BY <1>2, <1>7, <1>8, <1>14 DEF u

-----------------------------------------------------------------------------
\* The writes that the owner of b does are small.
Small(O, b) == \A o \in O : o.p = b[1] /\ o.op = "write" => o.n <= PIPE_BUF

\* What AtomicWrites says of the bytes s of a pipe, after byte l
Atomic(O, l, s) ==
    \A i \in 1 .. Len(s) : s[i][2] > 1 /\ Small(O, s[i])
        => (IF i = 1 THEN l ELSE s[i - 1]) = <<s[i][1], s[i][2] - 1>>

\* The same, as AtomicWrites puts it
AtomicBytes(O, l, s) ==
    LET bytes == <<l>> \o s
        small(b) == \A o \in O : o.p = b[1] /\ o.op = "write" => o.n <= PIPE_BUF
    IN  \A i \in 2 .. Len(bytes) :
            bytes[i][2] > 1 /\ small(bytes[i])
                => bytes[i - 1] = <<bytes[i][1], bytes[i][2] - 1>>

\* Atomic is the same as AtomicBytes.
LEMMA AtomicIs ==
    ASSUME NEW O, NEW l \in Byte \cup {NoByte}, NEW s \in Seq(Byte)
    PROVE  AtomicBytes(O, l, s) <=> Atomic(O, l, s)
<1> DEFINE bytes == <<l>> \o s
<1>1. Len(s) \in Nat /\ <<l>> \in Seq(Byte \cup {NoByte}) /\ s \in Seq(Byte \cup {NoByte}) /\ Len(<<l>>) = 1
  OBVIOUS
<1>2. /\ Len(bytes) = 1 + Len(s)
      /\ \A i \in 1 .. 1 + Len(s) : bytes[i] = IF i <= 1 THEN <<l>>[i] ELSE s[i - 1]
  BY <1>1, ConcatProperties
<1> HIDE DEF bytes
<1>3. bytes[1] = l /\ \A i \in 2 .. 1 + Len(s) : bytes[i] = s[i - 1]
  <2>1. 1 \in 1 .. 1 + Len(s) /\ \A i \in 2 .. 1 + Len(s) : i \in 1 .. 1 + Len(s) /\ ~(i <= 1)
    BY <1>1
  <2> QED
    BY <1>2, <2>1
<1>4. \A i \in 2 .. 1 + Len(s) : bytes[i - 1] = IF i - 1 = 1 THEN l ELSE s[(i - 1) - 1]
  <2> TAKE i \in 2 .. 1 + Len(s)
  <2>1. CASE i = 2
    BY <1>3, <2>1
  <2>2. CASE i # 2
    <3>1. i - 1 \in 2 .. 1 + Len(s) /\ i - 1 # 1
      BY <1>1, <2>2
    <3> QED
      BY <1>3, <3>1
  <2> QED
    BY <2>1, <2>2
<1> DEFINE P(i) == s[i][2] > 1 /\ Small(O, s[i])
                      => (IF i = 1 THEN l ELSE s[i - 1]) = <<s[i][1], s[i][2] - 1>>
<1>5. \A i \in 2 .. Len(bytes) :
         (bytes[i][2] > 1 /\ Small(O, bytes[i])
            => bytes[i - 1] = <<bytes[i][1], bytes[i][2] - 1>>) <=> P(i - 1)
  BY <1>2, <1>3, <1>4
<1>6. Atomic(O, l, s) <=> \A i \in 1 .. Len(s) : P(i)
  BY DEF Atomic
<1> HIDE DEF P
<1>7. (\A i \in 2 .. Len(bytes) : P(i - 1)) <=> \A i \in 1 .. Len(s) : P(i)
  <2>1. ASSUME \A i \in 1 .. Len(s) : P(i), NEW i \in 2 .. Len(bytes) PROVE P(i - 1)
    <3>1. i - 1 \in 1 .. Len(s)
      BY <1>1, <1>2
    <3> QED
      BY <2>1, <3>1
  <2>2. ASSUME \A i \in 2 .. Len(bytes) : P(i - 1), NEW i \in 1 .. Len(s) PROVE P(i)
    <3>1. i + 1 \in 2 .. Len(bytes) /\ (i + 1) - 1 = i
      BY <1>1, <1>2
    <3>2. P((i + 1) - 1)
      BY <2>2, <3>1
    <3> QED
      BY <3>1, <3>2
  <2> QED
    BY <2>1, <2>2
<1>8. (\A i \in 2 .. Len(bytes) : bytes[i][2] > 1 /\ Small(O, bytes[i])
               => bytes[i - 1] = <<bytes[i][1], bytes[i][2] - 1>>)
      <=> \A i \in 2 .. Len(bytes) : P(i - 1)
  BY <1>5
<1>9. AtomicBytes(O, l, s) <=>
        \A i \in 2 .. Len(bytes) : bytes[i][2] > 1 /\ Small(O, bytes[i])
            => bytes[i - 1] = <<bytes[i][1], bytes[i][2] - 1>>
  BY DEF AtomicBytes, Small, bytes
<1> QED
  BY <1>6, <1>7, <1>8, <1>9

\* A read goes on behind what it has taken.
LEMMA AtomicRead ==
    ASSUME NEW O, NEW l, NEW s \in Seq(Byte), Atomic(O, l, s),
           NEW n \in 1 .. Len(s)
    PROVE  Atomic(O, s[n], SubSeq(s, n + 1, Len(s)))
<1> DEFINE u == SubSeq(s, n + 1, Len(s))
<1>1. Len(s) \in Nat /\ n + 1 \in Int /\ \A i \in n + 1 .. Len(s) : s[i] \in Byte
  OBVIOUS
<1>2. /\ Len(u) = IF n + 1 <= Len(s) THEN Len(s) - (n + 1) + 1 ELSE 0
      /\ \A i \in 1 .. Len(s) - (n + 1) + 1 : u[i] = s[(n + 1) + i - 1]
  BY <1>1, SubSeqProperties
<1>3. Len(s) - (n + 1) + 1 = Len(s) - n /\ \A i \in Int : (n + 1) + i - 1 = n + i
  BY <1>1
<1> HIDE DEF u
<1>4. Len(u) = Len(s) - n /\ \A i \in 1 .. Len(s) - n : u[i] = s[n + i]
  <2>1. n \in Nat /\ n <= Len(s)
    BY <1>1
  <2>2. Len(u) = Len(s) - n
    BY <1>1, <1>2, <2>1
  <2>3. ASSUME NEW i \in 1 .. Len(s) - n PROVE u[i] = s[n + i]
    <3>1. i \in 1 .. Len(s) - (n + 1) + 1 /\ i \in Int
      BY <1>3
    <3>2. u[i] = s[(n + 1) + i - 1]
      BY <1>2, <3>1
    <3> QED
      BY <1>3, <3>1, <3>2
  <2> QED
    BY <2>2, <2>3
<1>5. ASSUME NEW i \in 1 .. Len(u), u[i][2] > 1, Small(O, u[i])
      PROVE  (IF i = 1 THEN s[n] ELSE u[i - 1]) = <<u[i][1], u[i][2] - 1>>
  <2>1. n + i \in 1 .. Len(s) /\ n + i # 1
    BY <1>1, <1>4
  <2>2. u[i] = s[n + i]
    BY <1>4
  <2>3. s[(n + i) - 1] = <<s[n + i][1], s[n + i][2] - 1>>
    BY <1>5, <2>1, <2>2 DEF Atomic
  <2>4. CASE i = 1
    <3>1. (n + i) - 1 = n
      BY <2>4
    <3> QED
      BY <2>2, <2>3, <2>4, <3>1
  <2>5. CASE i # 1
    <3>1. i - 1 \in 1 .. Len(s) - n /\ n + (i - 1) = (n + i) - 1
      BY <1>1, <1>4, <2>5
    <3>2. u[i - 1] = s[(n + i) - 1]
      BY <1>4, <3>1
    <3> QED
      BY <2>2, <2>3, <2>5, <3>2
  <2> QED
    BY <2>4, <2>5
<1> QED
  BY <1>5 DEF Atomic, u

\* The bytes of one uiomove() of a write that is not small, or that moves all
\* of it
LEMMA AtomicWrite ==
    ASSUME NEW O, NEW l, NEW s \in Seq(Byte), Atomic(O, l, s), NEW bytes \in Seq(Byte),
           NEW p, NEW first \in Nat, \A i \in 1 .. Len(bytes) : bytes[i] = <<p, first + i>>,
           first = 0 \/ \E o \in O : o.p = p /\ o.op = "write" /\ ~(o.n <= PIPE_BUF)
    PROVE  Atomic(O, l, s \o bytes)
<1> DEFINE u == s \o bytes
<1>1. /\ Len(u) = Len(s) + Len(bytes) /\ Len(s) \in Nat /\ Len(bytes) \in Nat
      /\ \A i \in 1 .. Len(s) + Len(bytes) :
            u[i] = IF i <= Len(s) THEN s[i] ELSE bytes[i - Len(s)]
  BY ConcatProperties
<1> HIDE DEF u
<1>2. ASSUME NEW i \in 1 .. Len(u), u[i][2] > 1, Small(O, u[i])
      PROVE  (IF i = 1 THEN l ELSE u[i - 1]) = <<u[i][1], u[i][2] - 1>>
  <2>1. CASE i <= Len(s)
    <3>1. i \in 1 .. Len(s) /\ u[i] = s[i]
      BY <1>1, <2>1
    <3>2. (IF i = 1 THEN l ELSE s[i - 1]) = <<s[i][1], s[i][2] - 1>>
      BY <1>2, <3>1 DEF Atomic
    <3>3. i # 1 => u[i - 1] = s[i - 1]
      BY <1>1, <2>1, <3>1
    <3> QED
      BY <3>1, <3>2, <3>3
  <2>2. CASE ~(i <= Len(s))
    <3> DEFINE d == i - Len(s)
    <3>1. d \in 1 .. Len(bytes) /\ u[i] = bytes[d]
      BY <1>1, <2>2
    <3>2. u[i] = <<p, first + d>> /\ d \in Nat
      BY <3>1
    <3>3. u[i][1] = p /\ u[i][2] = first + d
      BY <3>2
    <3>4. first = 0
      BY <1>2, <3>3 DEF Small
    <3>5. d > 1
      BY <1>2, <3>2, <3>3, <3>4
    <3>6. i - 1 \in 1 .. Len(s) + Len(bytes) /\ ~(i - 1 <= Len(s)) /\ i # 1
          /\ (i - 1) - Len(s) = d - 1 /\ d - 1 \in 1 .. Len(bytes)
      BY <1>1, <3>1, <3>5
    <3>7. u[i - 1] = bytes[d - 1]
      BY <1>1, <3>6
    <3>8. u[i - 1] = <<p, first + (d - 1)>>
      BY <3>6, <3>7
    <3>9. first + (d - 1) = (first + d) - 1
      BY <3>2
    <3> QED
      BY <3>3, <3>6, <3>8, <3>9
  <2> QED
    BY <2>1, <2>2
<1> QED
  BY <1>2 DEF Atomic, u

\* What AtomicWrites says of the two pipes, in this state and in the next one
LEMMA AtomicNow ==
    /\ Types => (AtomicWrites <=> \A f \in End : Atomic(ops, last[f], stream[f]))
    /\ Types' => (AtomicWrites' <=> \A f \in End : Atomic(ops', last'[f], stream'[f]))
<1>1. Types => \A f \in End : last[f] \in Byte \cup {NoByte} /\ stream[f] \in Seq(Byte)
  BY DEF Types
<1>2. Types' => \A f \in End : last'[f] \in Byte \cup {NoByte} /\ stream'[f] \in Seq(Byte)
  BY DEF Types
<1>3. AtomicWrites <=> \A f \in End : AtomicBytes(ops, last[f], stream[f])
  BY DEF AtomicWrites, AtomicBytes
<1>4. AtomicWrites' <=> \A f \in End : AtomicBytes(ops', last'[f], stream'[f])
  BY DEF AtomicWrites, AtomicBytes
<1> QED
  BY <1>1, <1>2, <1>3, <1>4, AtomicIs

\* The same for StreamInOrder
LEMMA StreamNow ==
    /\ Types => (StreamInOrder <=> \A f \in End : Ring(pipe[f], stream[f]))
    /\ Types' => (StreamInOrder' <=> \A f \in End : Ring(pipe'[f], stream'[f]))
<1>1. Types => \A f \in End : Sane(pipe[f]) /\ stream[f] \in Seq(Byte)
  BY NowTypes DEF Types
<1>2. Types' => \A f \in End : Sane(pipe'[f]) /\ stream'[f] \in Seq(Byte)
  <2> SUFFICES ASSUME Types', NEW f \in End PROVE Sane(pipe'[f]) /\ stream'[f] \in Seq(Byte)
    OBVIOUS
  <2>1. pipe'[f].size \in Nat
    BY PipeAssumption DEF Types, TypeOK
  <2> QED
    BY <2>1 DEF Types, TypeOK, Sane, Buffer
<1> QED
  BY <1>1, <1>2, RingIs DEF StreamInOrder

-----------------------------------------------------------------------------
\* Ring depends on nothing but the data fields.
LEMMA SameRing ==
    ASSUME NEW q, NEW t, SameData(q, t), NEW s
    PROVE  Ring(t, s) <=> Ring(q, s)
BY DEF SameData, Ring

\* A step that changes the data of f
LEMMA DataStep ==
    ASSUME PipeInv, NEW p \in Proc, NEW f \in End, NEW m, NEW t, NEW where, NEW left, NEW sp,
           Step(p, f, m, t, where, left, sp), nbigpipe' \in Nat, BigPipesCounted',
           NEW st \in Seq(Byte), NEW l \in Byte \cup {NoByte},
           stream' = [stream EXCEPT ![f] = st], last' = [last EXCEPT ![f] = l],
           Ring(t, st), Atomic(ops, l, st)
    PROVE  PipeInv'
<1>1. Types /\ StreamInOrder /\ AtomicWrites
  BY DEF PipeInv
<1>2. /\ stream' \in [End -> Seq(Byte)] /\ last' \in [End -> Byte \cup {NoByte}]
      /\ stream'[f] = st /\ last'[f] = l
      /\ \A g \in End : g # f => stream'[g] = stream[g] /\ last'[g] = last[g]
  BY <1>1 DEF Types
<1>3. Types'
  BY <1>1, <1>2, StepTypes
<1>4. pipe' = m.pp
  BY <1>1, StepVars
<1>5. /\ SameData(pipe'[f], t) /\ ops' = ops
      /\ \A g \in End : g # f => SameData(pipe'[g], pipe[g])
  BY <1>4 DEF Step, Moves
<1>6. StreamInOrder'
  <2>1. Ring(pipe'[f], stream'[f])
    BY <1>2, <1>5, SameRing
  <2>2. \A g \in End : g # f => Ring(pipe'[g], stream'[g])
    BY <1>1, <1>2, <1>5, SameRing, StreamNow
  <2> QED
    BY <1>3, <2>1, <2>2, StreamNow
<1>7. AtomicWrites'
  <2>1. Atomic(ops', last'[f], stream'[f])
    BY <1>2, <1>5
  <2>2. \A g \in End : g # f => Atomic(ops', last'[g], stream'[g])
    BY <1>1, <1>2, <1>5, AtomicNow
  <2> QED
    BY <1>3, <2>1, <2>2, AtomicNow
<1> QED
  BY <1>2, <1>6, <1>7, StepKeeps

\* Who is in uiomove() or km_alloc() has PIPE_LOCK.
LEMMA HasLock ==
    ASSUME PipeInv, NEW p \in Proc, pc[p] \in Holding
    PROVE  "LOCK" \in pipe[Target(p)].state
<1>1. LockExclusive /\ Types
  BY DEF PipeInv
<1>2. Target(p) \in End /\ Now.pp = pipe
  BY <1>1, NowTypes
<1>3. Is(p, Target(p), Holding)
  BY DEF Is
<1> QED
  BY <1>1, <1>2, <1>3 DEF LockExclusive, Locked

\* A step that does not resize keeps the count of big pipes.
LEMMA SameBig ==
    ASSUME PipeInv, NEW p \in Proc, NEW f \in End, NEW m, NEW t, NEW where, NEW left, NEW sp,
           Step(p, f, m, t, where, left, sp), t.size = pipe[f].size, nbigpipe' = nbigpipe
    PROVE  BigPipesCounted' /\ nbigpipe' \in Nat
<1>1. Types /\ BigPipesCounted
  BY DEF PipeInv
<1>2. pipe' = m.pp
  BY <1>1, StepVars
<1>3. \A g \in End : pipe'[g].live = pipe[g].live /\ pipe'[g].size = pipe[g].size
  BY <1>2 DEF Step, Moves, SameLink, SameData
<1>4. {g \in End : pipe'[g].live /\ pipe'[g].size > PIPE_SIZE} =
      {g \in End : pipe[g].live /\ pipe[g].size > PIPE_SIZE}
  BY <1>3
<1>5. BigPipesCounted'
  BY <1>1, <1>4 DEF BigPipesCounted
<1> QED
  BY <1>1, <1>5 DEF Types, TypeOK

\* The uiomove() of pipe_read() takes the first bytes of the stream.
LEMMA ReadMoveKeeps ==
    ASSUME PipeInv, NEW p \in Proc, ReadMove(p)
    PROVE  PipeInv'
<1> DEFINE f == Target(p)
           n == Chunk(pipe[f], resid[p])
           t == Taken(pipe[f], n)
           k == [Now EXCEPT !.pp[f] = t]
           st == SubSeq(stream[f], n + 1, Len(stream[f]))
<1>0. pc[p] = "move" /\ pc[p] \in Reading /\ Awake(p)
  BY DEF ReadMove, At, Reading
<1>1. /\ Types /\ BusyCounts /\ op[p].op = "read" /\ op[p].file = f /\ f \in End
      /\ Sane(pipe[f]) /\ resid[p] \in Nat /\ Now.pp = pipe
  BY <1>0, AtReading
<1>2. pc[p] \in Busy /\ pc[p] \in Holding
  BY <1>0 DEF Busy, Holding
<1>3. /\ closer' = closer /\ nbigpipe' = nbigpipe /\ ops' = ops
      /\ stream' = [stream EXCEPT ![f] = st]
      /\ last' = [last EXCEPT ![f] = stream[f][n]]
  BY <1>1 DEF ReadMove
<1>4. ReadLoop(p, k, f, resid[p] - n)
  <2>1. ReadLoop(p, [Now EXCEPT !.pp[f] = Taken(@, n)], f, resid[p] - n)
    BY <1>1 DEF ReadMove
  <2>2. [Now EXCEPT !.pp[f] = Taken(@, n)] = k
    BY <1>1
  <2> QED
    BY <2>1, <2>2
<1>5. resid[p] > 0 /\ pipe[f].cnt > 0
  BY <1>0 DEF PipeInv, Transfers
<1>6. /\ pipe[f].size \in Nat /\ pipe[f].cnt \in Nat /\ pipe[f].out \in Nat
      /\ pipe[f].out < pipe[f].size
  BY <1>1, SizeNat
<1>7. n \in Nat /\ n > 0 /\ n <= pipe[f].size - pipe[f].out /\ n <= pipe[f].cnt /\ resid[p] - n \in Nat
  <2>1. pipe[f].size - pipe[f].out \in Nat /\ pipe[f].size - pipe[f].out > 0
    BY <1>6
  <2>2. /\ n \in {pipe[f].size - pipe[f].out, pipe[f].cnt, resid[p]}
        /\ n <= pipe[f].size - pipe[f].out /\ n <= pipe[f].cnt /\ n <= resid[p]
    BY <1>1, <1>6, <2>1, MinThree DEF Chunk
  <2> HIDE DEF n, f
  <2> QED
    BY <1>1, <1>5, <1>6, <2>1, <2>2
<1> HIDE DEF n
<1>8. pipe[f] \in PipeRecord /\ stream[f] \in Seq(Byte) /\ Ring(pipe[f], stream[f])
  BY <1>1, StreamNow DEF Types, PipeInv
<1>9. t = Taken(pipe[f], n)
  OBVIOUS
<1> HIDE DEF t
<1>10. /\ t \in PipeRecord /\ Sane(t) /\ Ring(t, st)
       /\ SameLink(t, pipe[f]) /\ t.busy = pipe[f].busy /\ t.state = pipe[f].state
       /\ t.size = pipe[f].size
  BY <1>1, <1>7, <1>8, <1>9, TakenRing
<1>11. Enters(p, k, f, t, 0) /\ k.pp[f] = t
  BY <1>0, <1>1, <1>10, DataEnters
<1>12. "LOCK" \in k.pp[f].state
  BY <1>2, <1>10, <1>11, HasLock
<1> HIDE DEF k, f
<1>13. 0 = 1 - One(pc[p] \in Busy)
  BY <1>2 DEF One
<1>14. PICK m, wh, r, s : Step(p, f, m, t, wh, r, s)
  BY <1>0, <1>1, <1>2, <1>3, <1>4, <1>7, <1>10, <1>11, <1>12, <1>13, ReadLoopStep DEF f
<1>15. BigPipesCounted' /\ nbigpipe' \in Nat
  BY <1>1, <1>3, <1>10, <1>14, SameBig
<1>16. n \in 1 .. Len(stream[f]) /\ Len(stream[f]) \in Nat
  BY <1>6, <1>7, <1>8 DEF Ring
<1>17. stream[f][n] \in Byte /\ st \in Seq(Byte)
  <2>1. stream[f][n] \in Byte
    BY <1>8, <1>16
  <2>2. n + 1 \in Int /\ Len(stream[f]) \in Int /\ \A i \in n + 1 .. Len(stream[f]) : stream[f][i] \in Byte
    BY <1>7, <1>8
  <2> QED
    BY <2>1, <2>2, SubSeqProperties
<1>18. Atomic(ops, stream[f][n], st)
  <2>1. Atomic(ops, last[f], stream[f])
    BY <1>1, AtomicNow DEF PipeInv
  <2> QED
    BY <1>8, <1>16, <2>1, AtomicRead
<1> HIDE DEF st
<1> QED
  BY <1>1, <1>3, <1>10, <1>14, <1>15, <1>17, <1>18, DataStep

\* The uiomove() of pipe_write() adds its bytes to the end of the stream, and those
\* of a small write all at once.
LEMMA WriteMoveKeeps ==
    ASSUME PipeInv, NEW p \in Proc, WriteMove(p)
    PROVE  PipeInv'
<1> DEFINE f == Target(p)
           n == Min({space[p], resid[p]})
           bytes == [i \in 1 .. n |-> <<p, op[p].n - resid[p] + i>>]
           t == Put(pipe[f], bytes)
           j == [Now EXCEPT !.pp[f] = t]
           k == pipeunlock(j, f)
           st == stream[f] \o bytes
<1>0. pc[p] = "wmove" /\ pc[p] \in Writing /\ Awake(p)
  BY DEF WriteMove, At, Writing
<1>1. /\ Types /\ BusyCounts /\ op[p].op = "write" /\ Peer(op[p].file) = f /\ f \in End
      /\ Sane(pipe[f]) /\ resid[p] \in Nat /\ space[p] \in Nat /\ op[p].n \in Nat /\ Now.pp = pipe
      /\ resid[p] <= op[p].n
      /\ op[p].n <= PIPE_BUF => resid[p] = op[p].n
      /\ space[p] > 0 /\ resid[p] > 0
      /\ op[p].n <= PIPE_BUF => resid[p] <= space[p]
      /\ space[p] <= pipe[f].size - pipe[f].cnt
  BY <1>0, AtWriting
<1>2. pc[p] \in Busy /\ pc[p] \in Holding
  BY <1>0 DEF Busy, Holding, Writing
<1>3. /\ closer' = closer /\ nbigpipe' = nbigpipe /\ ops' = ops /\ last' = last
      /\ stream' = [stream EXCEPT ![f] = st]
  BY <1>1 DEF WriteMove
<1>4. WriteLoop(p, k, f, resid[p] - n)
  <2>1. WriteLoop(p, pipeunlock([Now EXCEPT !.pp[f] = Put(@, bytes)], f), f, resid[p] - n)
    BY <1>1 DEF WriteMove
  <2>2. [Now EXCEPT !.pp[f] = Put(@, bytes)] = j
    BY <1>1
  <2> QED
    BY <2>1, <2>2
<1>5. n \in {space[p], resid[p]} /\ n <= space[p] /\ n <= resid[p]
  BY <1>1, MinTwo
<1> HIDE DEF n
<1>6. /\ pipe[f].size \in Nat /\ pipe[f].cnt \in Nat
      /\ PIPE_BUF \in Nat
  BY <1>1, SizeNat, PipeAssumption
<1>7. /\ n \in Nat /\ n > 0 /\ n <= pipe[f].size - pipe[f].cnt /\ resid[p] - n \in Nat
      /\ resid[p] - n <= op[p].n
      /\ op[p].n <= PIPE_BUF => resid[p] - n = 0
  BY <1>1, <1>5, <1>6
<1>8. pipe[f] \in PipeRecord /\ stream[f] \in Seq(Byte) /\ Ring(pipe[f], stream[f])
  BY <1>1, StreamNow DEF Types, PipeInv
<1>9. bytes \in Seq(Byte) /\ Len(bytes) = n
  <2>1. \A i \in 1 .. n : op[p].n - resid[p] + i \in Nat \ {0}
    BY <1>1, <1>7
  <2>2. \A i \in 1 .. n : <<p, op[p].n - resid[p] + i>> \in Byte
    BY <2>1 DEF Byte
  <2> QED
    BY <1>7, <2>2
<1>10. \A i \in 1 .. Len(bytes) : bytes[i] = <<p, (op[p].n - resid[p]) + i>>
  BY <1>9
<1> HIDE DEF bytes
<1>11. t = Put(pipe[f], bytes)
  OBVIOUS
<1> HIDE DEF t
<1>12. /\ t \in PipeRecord /\ Sane(t) /\ Ring(t, st)
       /\ SameLink(t, pipe[f]) /\ t.busy = pipe[f].busy /\ t.state = pipe[f].state
       /\ t.size = pipe[f].size
  <2>1. Len(bytes) > 0 /\ Len(bytes) <= pipe[f].size - pipe[f].cnt
    BY <1>7, <1>9
  <2> QED
    BY <1>1, <1>8, <1>9, <1>11, <2>1, PutRing
<1>13. Enters(p, j, f, t, 0)
  BY <1>0, <1>1, <1>12, DataEnters
<1> HIDE DEF j
<1>14. Enters(p, k, f, t, 0)
  BY <1>1, <1>13, UnlockEnters
<1> HIDE DEF k, f
<1>15. 0 = 1 - One(pc[p] \in Busy)
  BY <1>2 DEF One
<1>16. resid[p] - n > 0 /\ op[p].n <= PIPE_BUF => resid[p] - n = op[p].n
  BY <1>7
<1>17. PICK m, wh, r, s : Step(p, f, m, t, wh, r, s)
  BY <1>0, <1>1, <1>2, <1>3, <1>4, <1>7, <1>12, <1>14, <1>15, <1>16, WriteLoopStep DEF f
<1>18. BigPipesCounted' /\ nbigpipe' \in Nat
  BY <1>1, <1>3, <1>12, <1>17, SameBig
<1>19. st \in Seq(Byte)
  BY <1>8, <1>9, ConcatProperties
<1>20. Atomic(ops, last[f], st)
  <2>1. Atomic(ops, last[f], stream[f])
    BY <1>1, AtomicNow DEF PipeInv
  <2>2. op[p].n - resid[p] \in Nat
    BY <1>1
  <2>3. \/ op[p].n - resid[p] = 0
        \/ \E o \in ops : o.p = p /\ o.op = "write" /\ ~(o.n <= PIPE_BUF)
    <3>1. op[p] \in ops /\ op[p].p = p
      BY <1>0 DEF PipeInv, CallsFit
    <3> QED
      BY <1>1, <3>1
  <2> QED
    BY <1>8, <1>9, <1>10, <2>1, <2>2, <2>3, AtomicWrite
<1>21. last' = [last EXCEPT ![f] = last[f]] /\ last[f] \in Byte \cup {NoByte}
  BY <1>1, <1>3 DEF Types
<1> HIDE DEF st
<1> QED
  BY <1>1, <1>3, <1>12, <1>17, <1>18, <1>19, <1>20, <1>21, DataStep

-----------------------------------------------------------------------------
\* There are finitely many descriptors.
LEMMA EndFinite == IsFiniteSet(End)
<1>1. IsFiniteSet({}) /\ {} \cup {"r"} = {"r"} /\ {"r"} \cup {"w"} = End
  BY FS_EmptySet DEF End
<1>2. IsFiniteSet({"r"})
  BY <1>1, FS_AddElement
<1> QED
  BY <1>1, <1>2, FS_AddElement

\* pipespace() gives a pipe an empty buffer and counts it, once.  A km_alloc() that
\* fails changes nothing.
LEMMA PipespaceKeeps ==
    ASSUME PipeInv, NEW p \in Proc, pipespace(p)
    PROVE  PipeInv'
<1> DEFINE f == Target(p)
           empty == [i \in 0 .. BIG_PIPE_SIZE - 1 |-> NoByte]
           t == [pipe[f] EXCEPT !.size = BIG_PIPE_SIZE, !.cnt = 0, !.in = 0, !.out = 0,
                                !.buffer = empty]
           j == [Now EXCEPT !.pp[f] = t]
           k == pipeunlock(j, f)
<1>0. pc[p] = "alloc" /\ pc[p] \in Writing /\ Awake(p)
  BY DEF pipespace, At, Writing
<1>1. /\ Types /\ BusyCounts /\ op[p].op = "write" /\ Peer(op[p].file) = f /\ f \in End
      /\ Enters(p, Now, f, pipe[f], 0)
      /\ Sane(pipe[f]) /\ SameData(pipe[f], pipe[f])
      /\ resid[p] \in Nat /\ Now.pp = pipe
      /\ resid[p] <= op[p].n
      /\ op[p].n <= PIPE_BUF => resid[p] = op[p].n
  BY <1>0, AtWriting
<1>2. pc[p] \in Busy /\ pc[p] \in Holding
  BY <1>0 DEF Busy, Holding, Writing
<1>3. closer' = closer /\ ops' = ops /\ last' = last
  BY DEF pipespace
<1>4. 0 = 1 - One(pc[p] \in Busy)
  BY <1>2 DEF One
<1>5. CASE UNCHANGED <<nbigpipe, stream>> /\ WriteLoop(p, pipeunlock(Now, f), f, resid[p])
  <2> DEFINE u == pipeunlock(Now, f)
  <2>1. Enters(p, u, f, pipe[f], 0)
    BY <1>1, UnlockEnters
  <2>2. WriteLoop(p, u, f, resid[p])
    BY <1>5
  <2> HIDE DEF u, f
  <2>3. \E m, wh, r, s : Step(p, f, m, pipe[f], wh, r, s)
    BY <1>0, <1>1, <1>2, <1>3, <1>4, <2>1, <2>2, WriteLoopStep DEF f
  <2>4. Historyless /\ UNCHANGED <<closer, nbigpipe, ops>>
    BY <1>3, <1>5 DEF Historyless
  <2> QED
    BY <1>1, <2>3, <2>4, QuietKeeps
<1>6. CASE /\ nbigpipe' = Freed(f) + 1 /\ stream' = [stream EXCEPT ![f] = << >>]
           /\ WriteLoop(p, k, f, resid[p])
  <2>1. pipe[f] \in PipeRecord /\ pipe[f].busy \in Nat
    BY <1>1 DEF Types, TypeOK
  <2>2. /\ t.size = BIG_PIPE_SIZE /\ t.cnt = 0 /\ t.in = 0 /\ t.out = 0 /\ t.buffer = empty
        /\ SameLink(t, pipe[f]) /\ t.busy = pipe[f].busy /\ t.state = pipe[f].state
    BY <2>1 DEF PipeRecord, SameLink
  <2>3. empty \in Buffer(BIG_PIPE_SIZE)
    BY DEF Buffer
  <2>4. t \in PipeRecord
    <3> HIDE DEF empty
    <3> QED
      BY <2>1, <2>3 DEF PipeRecord
  <2>5. BIG_PIPE_SIZE \in Nat /\ BIG_PIPE_SIZE > PIPE_SIZE /\ PIPE_SIZE \in Nat /\ BIG_PIPE_SIZE > 0
    BY PipeAssumption
  <2> HIDE DEF t, empty
  <2>6. Sane(t)
    BY <2>2, <2>3, <2>5 DEF Sane
  <2>7. Ring(t, << >>)
    BY <2>2, <2>5 DEF Ring, Wrap
  <2>8. Enters(p, j, f, t, 0)
    BY <1>0, <1>1, <2>2, <2>4, DataEnters
  <2> HIDE DEF j
  <2>9. Enters(p, k, f, t, 0)
    BY <1>1, <2>8, UnlockEnters
  <2> HIDE DEF k, f
  <2>10. PICK m, wh, r, s : Step(p, f, m, t, wh, r, s)
    BY <1>0, <1>1, <1>2, <1>3, <1>4, <1>6, <2>6, <2>9, WriteLoopStep DEF f
  <2>11. pipe[f].live
    BY <1>1, <1>2, BusyPositive DEF PipeInv, Connected, f
  <2> DEFINE B == {g \in End : pipe[g].live /\ pipe[g].size > PIPE_SIZE}
  <2>12. nbigpipe = Cardinality(B) /\ IsFiniteSet(B) /\ Cardinality(B) \in Nat
    BY EndFinite, FS_Subset, FS_CardinalityType DEF PipeInv, BigPipesCounted
  <2>13. {g \in End : pipe'[g].live /\ pipe'[g].size > PIPE_SIZE} = B \cup {f}
    <3>1. pipe' = m.pp
      BY <1>1, <2>10, StepVars
    <3>2. /\ \A g \in End : pipe'[g].live = pipe[g].live
          /\ \A g \in End : g # f => pipe'[g].size = pipe[g].size
          /\ pipe'[f].size = t.size
      BY <2>10, <3>1 DEF Step, Moves, SameLink, SameData
    <3> QED
      BY <1>1, <2>2, <2>5, <2>11, <3>2
  <2>14. Cardinality(B \cup {f}) = Freed(f) + 1 /\ Freed(f) + 1 \in Nat
    <3>1. f \in B <=> pipe[f].size > PIPE_SIZE
      BY <1>1, <2>11
    <3> HIDE DEF B
    <3>2. CASE f \in B
      <4>1. B \cup {f} = B
        BY <3>2
      <4>2. Freed(f) = nbigpipe - 1
        BY <3>1, <3>2 DEF Freed
      <4>3. Cardinality(B \cup {f}) = nbigpipe /\ nbigpipe \in Nat
        BY <2>12, <4>1, Zenon
      <4>4. \A x \in Nat : (x - 1) + 1 = x
        OBVIOUS
      <4> QED
        BY <4>2, <4>3, <4>4
    <3>3. CASE f \notin B
      <4>1. Cardinality(B \cup {f}) = Cardinality(B) + 1
        BY <2>12, <3>3, FS_AddElement
      <4> QED
        BY <2>12, <3>1, <3>3, <4>1 DEF Freed
    <3> QED
      BY <3>2, <3>3
  <2>15. BigPipesCounted' /\ nbigpipe' \in Nat
    BY <1>6, <2>13, <2>14 DEF BigPipesCounted
  <2>16. last' = [last EXCEPT ![f] = last[f]] /\ last[f] \in Byte \cup {NoByte} /\ << >> \in Seq(Byte)
    BY <1>1, <1>3 DEF Types
  <2>17. Atomic(ops, last[f], << >>)
    BY DEF Atomic
  <2> QED
    BY <1>1, <1>6, <2>7, <2>10, <2>15, <2>16, <2>17, DataStep
<1>7. \/ UNCHANGED <<nbigpipe, stream>> /\ WriteLoop(p, pipeunlock(Now, f), f, resid[p])
      \/ /\ nbigpipe' = Freed(f) + 1 /\ stream' = [stream EXCEPT ![f] = << >>]
         /\ WriteLoop(p, k, f, resid[p])
  <2>1. j = [Now EXCEPT !.pp[f] = [@ EXCEPT !.size = BIG_PIPE_SIZE, !.cnt = 0,
                                          !.in = 0, !.out = 0, !.buffer = empty]]
    BY <1>1
  <2> HIDE DEF j
  <2> QED
    BY <1>1, <2>1 DEF pipespace
<1> QED
  BY <1>5, <1>6, <1>7

-----------------------------------------------------------------------------
\* Pipe g stays as it is, but for flags, the poller on record and its peer ...
Kept(g) ==
    /\ SameData(pipe'[g], pipe[g]) /\ pipe'[g].busy = pipe[g].busy
    /\ "LOCK" \in pipe'[g].state <=> "LOCK" \in pipe[g].state
    /\ stream'[g] = stream[g] /\ last'[g] = last[g]

\* ... or is freed or made anew while nobody uses it.
Renewed(g) ==
    /\ pipe[g].busy = 0 /\ pipe'[g].busy = 0
    /\ SameData(pipe'[g], NewPipe) /\ stream'[g] = << >>

\* A step of a close or of dopipe(): no thread moves, and who wakes up or
\* falls asleep is as it must be.
Ending ==
    /\ UNCHANGED <<localVars, pc, sleepVars>>
    /\ pipe' \in [End -> PipeRecord] /\ p_wchan' \in [Actor -> Channel]
    /\ closer' \in [End -> {"open", "pipecl", "closed"}] /\ nbigpipe' \in Nat
    /\ stream' \in [End -> Seq(Byte)] /\ last' \in [End -> Byte \cup {NoByte}]
    /\ \A p \in Proc : p_wchan'[p] \in {p_wchan[p], NoChan}
    /\ \A f \in End : p_wchan'[f] # NoChan => closer'[f] = "pipecl" /\ p_wchan'[f] = f
    /\ \A g \in End : Kept(g) \/ Renewed(g)

\* What dopipe() makes is an empty pipe.
LEMMA NewSane ==
    /\ NewPipe.cnt = 0 /\ NewPipe.in = 0 /\ NewPipe.out = 0 /\ NewPipe.size = PIPE_SIZE
    /\ NewPipe.buffer \in Buffer(PIPE_SIZE) /\ NewPipe.busy = 0
    /\ NewPipe.live /\ NewPipe.peer
    /\ Sane(NewPipe) /\ Ring(NewPipe, << >>) /\ NewPipe \in PipeRecord
<1>1. /\ NewPipe.cnt = 0 /\ NewPipe.in = 0 /\ NewPipe.out = 0 /\ NewPipe.size = PIPE_SIZE
      /\ NewPipe.buffer \in Buffer(PIPE_SIZE) /\ NewPipe.busy = 0
      /\ NewPipe.live /\ NewPipe.peer
  BY DEF NewPipe, Buffer
<1>2. PIPE_SIZE \in Nat /\ PIPE_SIZE > 0
  BY PipeAssumption
<1>3. Sane(NewPipe)
  BY <1>1, <1>2 DEF Sane
<1>4. Ring(NewPipe, << >>)
  BY <1>1, <1>2 DEF Ring, Wrap
<1>5. NewPipe \in PipeRecord
  BY DEF NewPipe, PipeRecord, Buffer
<1> QED
  BY <1>1, <1>3, <1>4, <1>5

\* Nobody uses a pipe whose pipe_busy is zero.
LEMMA Unused ==
    ASSUME BusyCounts, NEW f \in End, pipe[f].busy = 0, NEW p \in Proc
    PROVE  ~Is(p, f, Busy) /\ ~Is(p, f, Holding)
<1>1. Holding \subseteq Busy
  BY DEF Holding, Busy, Writing
<1>2. ~Is(p, f, Busy)
  BY BusyPositive DEF Is
<1> QED
  BY <1>1, <1>2 DEF Is

\* Such a step keeps the invariant, if it keeps the references, the links and the
\* count of big pipes.
LEMMA EndingKeeps ==
    ASSUME PipeInv, Ending, References', Connected', BigPipesCounted'
    PROVE  PipeInv'
<1>0. /\ ops' = ops /\ op' = op /\ resid' = resid /\ space' = space /\ pc' = pc
      /\ p_sig' = p_sig /\ p_timeout' = p_timeout
  BY DEF Ending, localVars, sleepVars
<1>1. /\ Types /\ CallsFit /\ BusyCounts /\ LockExclusive /\ Channels /\ Transfers
      /\ StreamInOrder /\ AtomicWrites
  BY DEF PipeInv
<1>2. \A p : Target(p)' = Target(p)
  BY <1>0 DEF Target
<1>3. \A f, p : /\ Is(p, f, Busy)' = Is(p, f, Busy)
                /\ Is(p, f, Holding)' = Is(p, f, Holding)
  BY <1>0, <1>2 DEF Is
<1>4. \A g \in End : Sane(pipe'[g])
  <2> TAKE g \in End
  <2>1. CASE Kept(g)
    BY <1>1, <2>1, NowTypes DEF Kept, SameData, Sane
  <2>2. CASE Renewed(g)
    BY <2>2, NewSane DEF Renewed, SameData, Sane
  <2> QED
    BY <2>1, <2>2 DEF Ending
<1>5. Types'
  <2>1. \A g \in End :
        /\ pipe'[g].state \subseteq Flags
        /\ pipe'[g].busy \in Nat
        /\ {pipe'[g].peer, pipe'[g].coll, pipe'[g].live} \subseteq BOOLEAN
        /\ pipe'[g].selpid \in Proc \cup {NoProc}
    BY DEF Ending, PipeRecord
  <2>2. \A g \in End :
        /\ pipe'[g].size \in {PIPE_SIZE, BIG_PIPE_SIZE}
        /\ pipe'[g].cnt \in 0 .. pipe'[g].size
        /\ {pipe'[g].in, pipe'[g].out} \subseteq 0 .. pipe'[g].size - 1
        /\ pipe'[g].buffer \in [0 .. pipe'[g].size - 1 -> Byte \cup {NoByte}]
    <3> TAKE g \in End
    <3>1. pipe'[g].size \in Nat
      BY <1>4, PipeAssumption DEF Sane
    <3> QED
      BY <1>4, <3>1 DEF Sane, Buffer
  <2>3. DOMAIN pipe' = End
    BY DEF Ending
  <2>4. /\ ops' \subseteq Op /\ pc' \in [Proc -> Place]
        /\ \A p \in Proc : (pc'[p] = "idle") = (op'[p] = NoOp)
        /\ resid' \in [Proc -> Nat] /\ space' \in [Proc -> Nat]
        /\ p_sig' \in [Actor -> BOOLEAN] /\ p_timeout' \in [Actor -> BOOLEAN]
    BY <1>0, <1>1 DEF Types, TypeOK
  <2>5. TypeOK'
    BY <2>1, <2>2, <2>3, <2>4 DEF Ending, TypeOK, Flags, Channel
  <2> QED
    BY <1>0, <1>1, <2>5 DEF Types, Ending
<1>6. CallsFit'
  BY <1>0, <1>1 DEF CallsFit
<1>7. BusyCounts'
  <2>1. \A f : Users(f)' = Users(f)
    BY <1>3 DEF Users
  <2>2. \A f \in End : pipe'[f].busy = pipe[f].busy
    BY DEF Ending, Kept, Renewed
  <2> QED
    BY <1>1, <2>1, <2>2 DEF BusyCounts
<1>8. LockExclusive'
  <2>1. \A f \in End : \A p \in Proc : Is(p, f, Holding) => Locked(Now, f)'
    <3> TAKE f \in End
    <3> TAKE p \in Proc
    <3>1. CASE Kept(f)
      BY <1>1, <3>1 DEF LockExclusive, Locked, Now, Kept
    <3>2. CASE Renewed(f)
      BY <1>1, <3>2, Unused DEF Renewed
    <3> QED
      BY <3>1, <3>2 DEF Ending
  <2> QED
    BY <1>1, <1>3, <2>1 DEF LockExclusive
<1>9. Channels'
  <2>1. Proc \subseteq Actor /\ End \subseteq Actor
    BY DEF Actor
  <2>2. \A p \in Proc : ~Awake(p)' => ~Awake(p) /\ p_wchan'[p] = p_wchan[p]
    BY DEF Awake, Ending
  <2>3. \A f \in End : ~Awake(f)' => closer'[f] = "pipecl" /\ p_wchan'[f] = f
    BY DEF Awake, Ending
  <2> QED
    BY <1>0, <1>1, <1>2, <2>2, <2>3 DEF Channels
<1>10. Transfers'
  <2>1. ASSUME NEW p \in Proc, pc[p] \in Holding
        PROVE  Kept(Target(p)) /\ Target(p) \in End
    <3>1. Target(p) \in End /\ Is(p, Target(p), Holding)
      BY <1>1, <2>1, NowTypes DEF Is
    <3>2. ~Renewed(Target(p))
      BY <1>1, <3>1, Unused DEF Renewed
    <3> QED
      BY <3>1, <3>2 DEF Ending
  <2>2. ASSUME NEW p \in Proc
        PROVE  /\ pc[p] = "move" => resid[p] > 0 /\ pipe'[Target(p)].cnt > 0
               /\ pc[p] = "wmove" => space[p] <= Space(Now, Target(p))'
    <3>1. CASE pc[p] = "move"
      <4>1. Kept(Target(p))
        BY <2>1, <3>1 DEF Holding
      <4> QED
        BY <1>1, <3>1, <4>1 DEF Transfers, Kept, SameData
    <3>2. CASE pc[p] = "wmove"
      <4>1. Kept(Target(p))
        BY <2>1, <3>2 DEF Holding
      <4>2. Space(Now, Target(p))' = Space(Now, Target(p))
        BY <1>2, <4>1 DEF Kept, SameData, Space, Now
      <4> QED
        BY <1>1, <3>2, <4>2 DEF Transfers
    <3> QED
      BY <3>1, <3>2
  <2> QED
    BY <1>0, <1>1, <1>2, <2>2 DEF Transfers
<1>11. StreamInOrder'
  <2>1. \A g \in End : Ring(pipe'[g], stream'[g])
    <3> TAKE g \in End
    <3>1. CASE Kept(g)
      BY <1>1, <3>1, SameRing, StreamNow DEF Kept
    <3>2. CASE Renewed(g)
      BY <3>2, NewSane, SameRing DEF Renewed
    <3> QED
      BY <3>1, <3>2 DEF Ending
  <2> QED
    BY <1>5, <2>1, StreamNow
<1>12. AtomicWrites'
  <2>1. \A g \in End : Atomic(ops', last'[g], stream'[g])
    <3> TAKE g \in End
    <3>1. CASE Kept(g)
      BY <1>0, <1>1, <3>1, AtomicNow DEF Kept
    <3>2. CASE Renewed(g)
      BY <3>2 DEF Renewed, Atomic
    <3> QED
      BY <3>1, <3>2 DEF Ending
  <2> QED
    BY <1>5, <2>1, AtomicNow
<1> QED
  BY <1>5, <1>6, <1>7, <1>8, <1>9, <1>10, <1>11, <1>12 DEF PipeInv

-----------------------------------------------------------------------------
\* Descriptor f can be closed: it is not yet, its last reference is gone, and
\* whoever closes it is not asleep.
Closing(f) ==
    /\ closer[f] # "closed" /\ Awake(f)
    /\ \A p \in Proc : pc[p] \notin {"idle", "select"} => op[p].file # f

\* What pipeclose() makes of the state before it frees f
Unlinked(k, f, g) ==
    IF k.pp[f].peer
    THEN [Wake(SetFlags(pipeselwakeup(k, g), g, {"EOF"}), g) EXCEPT !.pp[g].peer = FALSE]
    ELSE k

\* From k to m pipe f is freed, and its peer g is as before, but without a
\* peer.
Disconnected(k, m, f, g, dead) ==
    /\ m \in KState /\ OnlyWakes(k, m) /\ m.pp[f] = dead
    /\ SameData(m.pp[g], k.pp[g]) /\ m.pp[g].busy = k.pp[g].busy
    /\ "LOCK" \in m.pp[g].state <=> "LOCK" \in k.pp[g].state
    /\ m.pp[g].live = k.pp[g].live
    /\ m.pp[g].peer = IF k.pp[f].peer THEN FALSE ELSE k.pp[g].peer

\* That is what pipeclose() does when the pipe is not busy.
LEMMA Disconnects ==
    ASSUME NEW k \in KState, NEW f \in End, NEW g \in End, g # f, NEW dead \in PipeRecord,
           NEW m, m = [Unlinked(k, f, g) EXCEPT !.pp[f] = dead]
    PROVE  Disconnected(k, m, f, g, dead)
<1> DEFINE e == Wake(SetFlags(pipeselwakeup(k, g), g, {"EOF"}), g)
           rest == Unlinked(k, f, g)
<1>1. Calm(k, e)
  <2>1. Calm(k, pipeselwakeup(k, g))
    BY PipeSelWakeupCalm
  <2>2. Calm(pipeselwakeup(k, g), SetFlags(pipeselwakeup(k, g), g, {"EOF"}))
    BY <2>1, SetFlagsCalm DEF Calm, Flags
  <2>3. Calm(SetFlags(pipeselwakeup(k, g), g, {"EOF"}), e)
    BY <2>2, WakeCalm DEF Calm
  <2> QED
    BY <2>1, <2>2, <2>3, CalmTrans
<1>2. /\ e \in KState
      /\ rest = IF k.pp[f].peer THEN [e EXCEPT !.pp[g].peer = FALSE] ELSE k
  BY <1>1 DEF Calm, Unlinked
<1> HIDE DEF e, rest
<1> DEFINE q == [e.pp[g] EXCEPT !.peer = FALSE]
           a == [e EXCEPT !.pp = [e.pp EXCEPT ![g] = q]]
<1>3. /\ [e EXCEPT !.pp[g].peer = FALSE] = a /\ q \in PipeRecord
      /\ SameData(q, e.pp[g]) /\ q.live = e.pp[g].live /\ q.peer = FALSE
      /\ q.busy = e.pp[g].busy /\ q.state = e.pp[g].state
  BY <1>2 DEF KState, PipeRecord, SameData
<1> HIDE DEF q
<1>4. a \in KState /\ a.w = e.w /\ a.pp[g] = q
  BY <1>2, <1>3 DEF KState
<1> HIDE DEF a
<1>5. /\ rest \in KState /\ OnlyWakes(k, rest)
      /\ SameData(rest.pp[g], k.pp[g]) /\ rest.pp[g].busy = k.pp[g].busy
      /\ "LOCK" \in rest.pp[g].state <=> "LOCK" \in k.pp[g].state
      /\ rest.pp[g].live = k.pp[g].live
      /\ rest.pp[g].peer = IF k.pp[f].peer THEN FALSE ELSE k.pp[g].peer
  <2>1. CASE k.pp[f].peer
    <3>1. rest = a
      BY <1>2, <1>3, <2>1
    <3>2. OnlyWakes(k, a)
      BY <1>1, <1>4 DEF Calm, OnlyWakes
    <3>3. SameData(q, k.pp[g])
      BY <1>1, <1>3 DEF Calm, SameData
    <3>4. q.busy = k.pp[g].busy /\ q.live = k.pp[g].live /\ ("LOCK" \in q.state <=> "LOCK" \in k.pp[g].state)
      BY <1>1, <1>3 DEF Calm, SameLocks, SameLink
    <3> QED
      BY <1>3, <1>4, <2>1, <3>1, <3>2, <3>3, <3>4
  <2>2. CASE ~k.pp[f].peer
    BY <1>2, <2>2 DEF OnlyWakes, SameData
  <2> QED
    BY <2>1, <2>2
<1>6. /\ m \in KState /\ m.w = rest.w /\ m.pp[f] = dead /\ m.pp[g] = rest.pp[g]
  BY <1>5 DEF KState, rest
<1>7. OnlyWakes(k, m)
  BY <1>5, <1>6 DEF OnlyWakes
<1> QED
  BY <1>5, <1>6, <1>7 DEF Disconnected

\* Nobody holds the descriptor that is closed.
LEMMA ClosingReferences ==
    ASSUME PipeInv, NEW f \in End, Closing(f), NEW c, closer' = [closer EXCEPT ![f] = c],
           UNCHANGED <<localVars, pc>>
    PROVE  References'
<1>1. References /\ pc' = pc /\ op' = op /\ closer \in [End -> {"open", "pipecl", "closed"}]
  BY DEF PipeInv, Types, TypeOK, localVars
<1>2. ASSUME NEW p \in Proc, pc[p] \notin {"idle", "select"}
      PROVE  closer'[op[p].file] = "open"
  <2>1. op[p].file # f
    BY <1>2 DEF Closing
  <2>2. closer[op[p].file] = "open"
    BY <1>1, <1>2 DEF References
  <2>3. op[p].file \in End
    <3>1. op[p] \in Op
      BY <1>2 DEF PipeInv, Types, TypeOK
    <3> QED
      BY <3>1 DEF Op
  <2> QED
    BY <1>1, <2>1, <2>2, <2>3
<1> QED
  BY <1>1, <1>2 DEF References

\* pipeclose() that waits for a busy pipe keeps the invariant ...
LEMMA CloseWaits ==
    ASSUME PipeInv, NEW f \in End, Closing(f), NEW k, Calm(Now, k), k.pp[f].busy > 0,
           NEW m, m = [SetFlags(Wake(k, f), f, {"WANT"}) EXCEPT !.w = Sleep(@, f, f)],
           Commit(m), closer' = [closer EXCEPT ![f] = "pipecl"], nbigpipe' = nbigpipe,
           stream' = stream, UNCHANGED <<last, localVars, pc, sleepVars>>
    PROVE  PipeInv'
<1> DEFINE n == SetFlags(Wake(k, f), f, {"WANT"})
<1>0. Types /\ Connected /\ BigPipesCounted /\ Channels
  BY DEF PipeInv
<1>1. Calm(Now, n)
  <2>1. k \in KState
    BY DEF Calm
  <2>2. Calm(k, Wake(k, f))
    BY <2>1, WakeCalm
  <2>3. Calm(Wake(k, f), n)
    BY <2>2, SetFlagsCalm DEF Calm, Flags
  <2> QED
    BY <2>2, <2>3, CalmTrans
<1> HIDE DEF n
<1>2. n \in KState /\ m = [n EXCEPT !.w = [n.w EXCEPT ![f] = f]] /\ f \in Actor /\ f \in Channel
  BY <1>1 DEF Calm, n, Sleep, Actor, Channel
<1>3. /\ m \in KState /\ m.pp = n.pp /\ m.w[f] = f /\ \A a \in Actor : a # f => m.w[a] = n.w[a]
  BY <1>2 DEF KState
<1>4. pipe' = m.pp /\ p_wchan' = m.w /\ last' = last /\ Now.pp = pipe /\ Now.w = p_wchan
  BY DEF Commit, Now
<1>5. \A g \in End : /\ SameData(pipe'[g], pipe[g]) /\ SameLink(pipe'[g], pipe[g])
                     /\ pipe'[g].busy = pipe[g].busy
                     /\ "LOCK" \in pipe'[g].state <=> "LOCK" \in pipe[g].state
  BY <1>1, <1>3, <1>4 DEF Calm, SameLocks
<1>6. \A g \in End : Kept(g)
  BY <1>4, <1>5 DEF Kept
<1>7. /\ closer \in [End -> {"open", "pipecl", "closed"}]
      /\ closer' \in [End -> {"open", "pipecl", "closed"}] /\ closer'[f] = "pipecl"
      /\ \A g \in End : g # f => closer'[g] = closer[g]
  BY <1>0 DEF Types, TypeOK
<1>8. \A a \in Actor : a # f => p_wchan'[a] \in {p_wchan[a], NoChan}
  BY <1>1, <1>3, <1>4 DEF Calm, OnlyWakes
<1>9. \A p \in Proc : p_wchan'[p] \in {p_wchan[p], NoChan}
  BY <1>8, PipeAssumption DEF Actor
<1>10. \A g \in End : p_wchan'[g] # NoChan => closer'[g] = "pipecl" /\ p_wchan'[g] = g
  <2> TAKE g \in End
  <2>1. CASE g = f
    BY <1>3, <1>4, <1>7, <2>1
  <2>2. CASE g # f
    BY <1>0, <1>7, <1>8, <2>2 DEF Channels, Awake, Actor
  <2> QED
    BY <2>1, <2>2
<1>11. Ending
  <2>1. /\ pipe' \in [End -> PipeRecord] /\ p_wchan' \in [Actor -> Channel]
    BY <1>3, <1>4 DEF KState
  <2>2. nbigpipe' \in Nat /\ stream' \in [End -> Seq(Byte)] /\ last' \in [End -> Byte \cup {NoByte}]
    BY <1>0, <1>4 DEF Types, TypeOK
  <2> QED
    BY <1>6, <1>7, <1>9, <1>10, <2>1, <2>2 DEF Ending
<1>12. References'
  BY ClosingReferences
<1>13. Connected'
  <2>1. \A g \in End : Peer(g) \in End /\ (closer'[g] # "closed" <=> closer[g] # "closed")
    BY <1>7 DEF Closing, Peer, End
  <2>2. \A g \in End : /\ pipe'[g].live = pipe[g].live /\ pipe'[g].peer = pipe[g].peer
                       /\ pipe'[g].busy = pipe[g].busy /\ pipe'[g].cnt = pipe[g].cnt
    BY <1>5 DEF SameData, SameLink
  <2> QED
    BY <1>0, <2>1, <2>2 DEF Connected
<1>14. BigPipesCounted'
  <2>1. \A g \in End : pipe'[g].live = pipe[g].live /\ pipe'[g].size = pipe[g].size
    BY <1>5 DEF SameData, SameLink
  <2>2. {g \in End : pipe'[g].live /\ pipe'[g].size > PIPE_SIZE} =
        {g \in End : pipe[g].live /\ pipe[g].size > PIPE_SIZE}
    BY <2>1
  <2> QED
    BY <1>0, <2>2 DEF BigPipesCounted
<1> QED
  BY <1>11, <1>12, <1>13, <1>14, EndingKeeps

\* ... and so does pipeclose() that frees the pipe: pipe_busy is zero, so that
\* nobody is in the middle of a transfer.
LEMMA CloseFrees ==
    ASSUME PipeInv, NEW f \in End, Closing(f), NEW k, Calm(Now, k), ~(k.pp[f].busy > 0),
           NEW g, g = Peer(f),
           NEW m, m = [Unlinked(k, f, g) EXCEPT !.pp[f] = [NewPipe EXCEPT !.live = FALSE]],
           Commit(m), closer' = [closer EXCEPT ![f] = "closed"], nbigpipe' = Freed(f),
           stream' = [stream EXCEPT ![f] = << >>], UNCHANGED <<last, localVars, pc, sleepVars>>
    PROVE  PipeInv'
<1> DEFINE dead == [NewPipe EXCEPT !.live = FALSE]
<1>0. Types /\ Connected /\ BigPipesCounted /\ Channels /\ BusyCounts
  BY DEF PipeInv
<1>1. /\ dead \in PipeRecord /\ SameData(dead, NewPipe) /\ dead.busy = 0 /\ ~dead.live
      /\ dead.cnt = 0
  BY NewSane DEF PipeRecord, SameData
<1> HIDE DEF dead
<1>2. /\ k \in KState /\ g \in End /\ g # f /\ Peer(g) = f
      /\ \A h \in End : h = f \/ h = g
  BY DEF Calm, Peer, End
<1>3. m = [Unlinked(k, f, g) EXCEPT !.pp[f] = dead]
  BY DEF dead
<1>4. /\ m \in KState /\ OnlyWakes(k, m) /\ m.pp[f] = dead
      /\ SameData(m.pp[g], k.pp[g]) /\ m.pp[g].busy = k.pp[g].busy
      /\ "LOCK" \in m.pp[g].state <=> "LOCK" \in k.pp[g].state
      /\ m.pp[g].live = k.pp[g].live
      /\ m.pp[g].peer = IF k.pp[f].peer THEN FALSE ELSE k.pp[g].peer
  <2>1. Disconnected(k, m, f, g, dead)
    BY <1>1, <1>2, <1>3, Disconnects
  <2> QED
    BY <2>1 DEF Disconnected
<1>5. pipe' = m.pp /\ p_wchan' = m.w /\ last' = last /\ Now.pp = pipe /\ Now.w = p_wchan
  BY DEF Commit, Now
<1>6. \A h \in End : /\ SameData(k.pp[h], pipe[h]) /\ SameLink(k.pp[h], pipe[h])
                     /\ k.pp[h].busy = pipe[h].busy
                     /\ "LOCK" \in k.pp[h].state <=> "LOCK" \in pipe[h].state
  BY <1>5 DEF Calm, SameLocks
<1>7. /\ SameData(pipe'[g], pipe[g]) /\ pipe'[g].busy = pipe[g].busy
      /\ "LOCK" \in pipe'[g].state <=> "LOCK" \in pipe[g].state
      /\ pipe'[g].live = pipe[g].live
      /\ pipe'[g].peer = IF pipe[f].peer THEN FALSE ELSE pipe[g].peer
  <2>1. SameData(pipe'[g], pipe[g])
    BY <1>2, <1>4, <1>5, <1>6 DEF SameData
  <2> QED
    BY <1>2, <1>4, <1>5, <1>6, <2>1 DEF SameLink
<1>8. stream' \in [End -> Seq(Byte)] /\ stream'[f] = << >> /\ stream'[g] = stream[g]
  BY <1>0, <1>2 DEF Types
<1>9. Kept(g)
  BY <1>5, <1>7, <1>8 DEF Kept
<1>10. Renewed(f)
  <2>1. pipe[f].busy \in Nat
    BY <1>0 DEF Types, TypeOK
  <2>2. pipe[f].busy = 0
    BY <1>6, <2>1
  <2> QED
    BY <1>1, <1>4, <1>5, <1>8, <2>2 DEF Renewed
<1>11. /\ closer \in [End -> {"open", "pipecl", "closed"}]
       /\ closer' \in [End -> {"open", "pipecl", "closed"}] /\ closer'[f] = "closed"
       /\ closer'[g] = closer[g]
  BY <1>0, <1>2 DEF Types, TypeOK
<1>12. \A a \in Actor : p_wchan'[a] \in {p_wchan[a], NoChan}
  BY <1>4, <1>5 DEF Calm, OnlyWakes
<1>13. \A h \in End : p_wchan'[h] # NoChan => closer'[h] = "pipecl" /\ p_wchan'[h] = h
  <2>1. p_wchan'[f] = NoChan
    BY <1>12 DEF Closing, Awake, Actor
  <2>2. p_wchan'[g] # NoChan => closer'[g] = "pipecl" /\ p_wchan'[g] = g
    BY <1>0, <1>2, <1>11, <1>12 DEF Channels, Awake, Actor
  <2> QED
    BY <1>2, <2>1, <2>2
<1>14. pipe[f].live
  BY <1>0 DEF Connected, Closing
<1> DEFINE B == {h \in End : pipe[h].live /\ pipe[h].size > PIPE_SIZE}
<1>15. nbigpipe = Cardinality(B) /\ IsFiniteSet(B) /\ Cardinality(B) \in Nat
  BY <1>0, EndFinite, FS_Subset, FS_CardinalityType DEF BigPipesCounted
<1>16. {h \in End : pipe'[h].live /\ pipe'[h].size > PIPE_SIZE} = B \ {f}
  <2>1. /\ ~pipe'[f].live /\ pipe'[g].live = pipe[g].live /\ pipe'[g].size = pipe[g].size
    BY <1>1, <1>4, <1>5, <1>7 DEF SameData
  <2> QED
    BY <1>2, <2>1
<1>17. Cardinality(B \ {f}) = Freed(f) /\ Freed(f) \in Nat
  <2>1. f \in B <=> pipe[f].size > PIPE_SIZE
    BY <1>14
  <2> HIDE DEF B
  <2>2. Cardinality(B \ {f}) = (IF f \in B THEN Cardinality(B) - 1 ELSE Cardinality(B))
    BY <1>15, FS_RemoveElement
  <2>3. Cardinality(B \ {f}) \in Nat
    BY <1>15, FS_RemoveElement, FS_CardinalityType
  <2>4. Freed(f) = IF f \in B THEN nbigpipe - 1 ELSE nbigpipe
    BY <2>1 DEF Freed
  <2> QED
    BY <1>15, <2>2, <2>3, <2>4
<1>18. BigPipesCounted' /\ nbigpipe' \in Nat
  BY <1>16, <1>17 DEF BigPipesCounted
<1>19. Ending
  <2>1. /\ pipe' \in [End -> PipeRecord] /\ p_wchan' \in [Actor -> Channel]
    BY <1>4, <1>5 DEF KState
  <2>2. last' \in [End -> Byte \cup {NoByte}]
    BY <1>0, <1>5 DEF Types
  <2>3. \A p \in Proc : p_wchan'[p] \in {p_wchan[p], NoChan}
    BY <1>12 DEF Actor
  <2> QED
    BY <1>2, <1>8, <1>9, <1>10, <1>11, <1>13, <1>18, <2>1, <2>2, <2>3 DEF Ending
<1>20. References'
  BY ClosingReferences
<1>21. Connected'
  <2>1. pipe'[f].busy = 0 /\ pipe'[f].cnt = 0 /\ ~pipe'[f].live
    BY <1>1, <1>4, <1>5
  <2>2. pipe'[g].live <=> closer'[g] # "closed"
    BY <1>0, <1>2, <1>7, <1>11 DEF Connected
  <2>3. pipe'[g].busy # 0 \/ pipe'[g].cnt # 0 => pipe'[g].live
    BY <1>0, <1>2, <1>7 DEF Connected, SameData
  <2>4. pipe'[g].live => ~pipe'[g].peer
    BY <1>0, <1>2, <1>7, <1>14 DEF Connected
  <2> QED
    BY <1>2, <1>11, <2>1, <2>2, <2>3, <2>4 DEF Connected
<1> QED
  BY <1>18, <1>19, <1>20, <1>21, EndingKeeps

\* Both are rounds of the same loop ...
LEMMA CloseLoopKeeps ==
    ASSUME PipeInv, NEW f \in End, Closing(f), NEW k, Calm(Now, k), CloseLoop(f, k),
           stream' = [stream EXCEPT ![f] = IF closer'[f] = "closed" THEN << >> ELSE @],
           UNCHANGED <<last, localVars, pc, sleepVars>>
    PROVE  PipeInv'
<1>0. closer \in [End -> {"open", "pipecl", "closed"}] /\ stream \in [End -> Seq(Byte)]
  BY DEF PipeInv, Types, TypeOK
<1>1. CASE k.pp[f].busy > 0
  <2> DEFINE m == [SetFlags(Wake(k, f), f, {"WANT"}) EXCEPT !.w = Sleep(@, f, f)]
  <2>1. Commit(m) /\ closer' = [closer EXCEPT ![f] = "pipecl"] /\ nbigpipe' = nbigpipe
    BY <1>1 DEF CloseLoop
  <2>2. stream' = stream
    BY <1>0, <2>1
  <2> HIDE DEF m
  <2> QED
    BY <1>1, <2>1, <2>2, CloseWaits DEF m
<1>2. CASE ~(k.pp[f].busy > 0)
  <2> DEFINE g == Peer(f)
             m == [Unlinked(k, f, g) EXCEPT !.pp[f] = [NewPipe EXCEPT !.live = FALSE]]
  <2>1. Commit(m) /\ closer' = [closer EXCEPT ![f] = "closed"] /\ nbigpipe' = Freed(f)
    BY <1>2 DEF CloseLoop, Unlinked
  <2>2. stream' = [stream EXCEPT ![f] = << >>]
    BY <1>0, <2>1
  <2> HIDE DEF m
  <2> QED
    BY <1>2, <2>1, <2>2, CloseFrees DEF m
<1> QED
  BY <1>1, <1>2

\* ... which begins in pipe_close() ...
LEMMA PipeCloseKeeps ==
    ASSUME PipeInv, NEW f \in End, pipe_close(f)
    PROVE  PipeInv'
<1> DEFINE k == SetFlags(pipeselwakeup(Now, f), f, {"EOF"})
<1>1. Closing(f)
  BY DEF pipe_close, Closing, Referenced, PipeInv, Channels
<1>2. Now \in KState
  BY NowTypes DEF PipeInv
<1>3. Calm(Now, pipeselwakeup(Now, f))
  BY <1>2, PipeSelWakeupCalm
<1>4. Calm(pipeselwakeup(Now, f), k)
  BY <1>3, SetFlagsCalm DEF Calm, Flags
<1>5. Calm(Now, k)
  BY <1>3, <1>4, CalmTrans
<1>6. CloseLoop(f, k)
  BY DEF pipe_close
<1> HIDE DEF k
<1> QED
  BY <1>1, <1>5, <1>6, CloseLoopKeeps DEF pipe_close

\* ... and goes on after each tsleep().
LEMMA PipecloseKeeps ==
    ASSUME PipeInv, NEW f \in End, pipeclose(f)
    PROVE  PipeInv'
<1>1. Closing(f)
  BY DEF pipeclose, Closing, PipeInv, References
<1>2. Now \in KState
  BY NowTypes DEF PipeInv
<1>3. Calm(Now, Now)
  BY <1>2, CalmSame
<1> QED
  BY <1>1, <1>3, CloseLoopKeeps DEF pipeclose

\* A new pipe replaces one that is closed, empty and unused.
LEMMA DopipeKeeps ==
    ASSUME PipeInv, dopipe
    PROVE  PipeInv'
<1>0. Types /\ Connected /\ BigPipesCounted /\ Channels /\ References /\ StreamInOrder
  BY DEF PipeInv
<1>1. /\ \A f \in End : pipe'[f] = NewPipe /\ closer'[f] = "open" /\ last'[f] = NoByte
      /\ pipe' = [f \in End |-> NewPipe] /\ closer' = [f \in End |-> "open"]
      /\ last' = [f \in End |-> NoByte]
      /\ nbigpipe' = nbigpipe /\ stream' = stream /\ p_wchan' = p_wchan /\ pc' = pc /\ op' = op
      /\ UNCHANGED <<localVars, pc, sleepVars>>
  BY DEF dopipe, localVars
<1>2. \A f \in End : closer[f] = "closed" /\ ~pipe[f].live /\ pipe[f].busy = 0 /\ pipe[f].cnt = 0
  BY <1>0 DEF dopipe, Connected
<1>3. \A f \in End : stream[f] = << >>
  <2> TAKE f \in End
  <2>1. Ring(pipe[f], stream[f]) /\ stream[f] \in Seq(Byte)
    BY <1>0, StreamNow DEF Types
  <2>2. Len(stream[f]) = 0
    BY <1>2, <2>1 DEF Ring
  <2> QED
    BY <2>1, <2>2
<1>4. \A f \in End : Renewed(f)
  BY <1>1, <1>2, <1>3, NewSane DEF Renewed, SameData
<1>5. References'
  <2>1. ASSUME NEW p \in Proc, pc[p] \notin {"idle", "select"} PROVE FALSE
    <3>1. op[p] \in Op
      BY <1>0, <2>1 DEF Types, TypeOK
    <3>2. op[p].file \in End
      BY <3>1 DEF Op
    <3> QED
      BY <1>0, <1>2, <2>1, <3>2 DEF References
  <2> QED
    BY <1>1, <2>1 DEF References
<1>6. Connected'
  <2>1. \A f \in End : Peer(f) \in End
    BY DEF Peer, End
  <2> QED
    BY <1>1, <2>1, NewSane DEF Connected
<1>7. BigPipesCounted'
  <2>1. {f \in End : pipe[f].live /\ pipe[f].size > PIPE_SIZE} = {}
    BY <1>2
  <2>2. {f \in End : pipe'[f].live /\ pipe'[f].size > PIPE_SIZE} = {}
    BY <1>1, NewSane, PipeAssumption
  <2> QED
    BY <1>0, <1>1, <2>1, <2>2 DEF BigPipesCounted
<1>8. Ending
  <2>1. pipe' \in [End -> PipeRecord] /\ closer' \in [End -> {"open", "pipecl", "closed"}]
    BY <1>1, NewSane
  <2>2. nbigpipe' \in Nat /\ p_wchan' \in [Actor -> Channel] /\ stream' \in [End -> Seq(Byte)]
    BY <1>0, <1>1 DEF Types, TypeOK, Channel
  <2>3. last' \in [End -> Byte \cup {NoByte}]
    BY <1>1
  <2>4. \A f \in End : p_wchan'[f] = NoChan
    BY <1>0, <1>1, <1>2 DEF Channels, Awake
  <2> QED
    BY <1>1, <1>4, <2>1, <2>2, <2>3, <2>4 DEF Ending
<1> QED
  BY <1>5, <1>6, <1>7, <1>8, EndingKeeps

-----------------------------------------------------------------------------
\* The initial states
LEMMA InitKeeps ==
    ASSUME Init
    PROVE  PipeInv
<1>0. /\ pipe = [f \in End |-> NewPipe] /\ closer = [f \in End |-> "open"] /\ nbigpipe = 0
      /\ ops \in Workloads /\ pc = [p \in Proc |-> "idle"] /\ op = [p \in Proc |-> NoOp]
      /\ resid = [p \in Proc |-> 0] /\ space = [p \in Proc |-> 0]
      /\ stream = [f \in End |-> << >>] /\ last = [f \in End |-> NoByte]
      /\ p_wchan = [a \in Actor |-> NoChan] /\ p_sig = [a \in Actor |-> FALSE]
      /\ p_timeout = [a \in Actor |-> FALSE]
  BY DEF Init, SleepInit
<1>1. /\ \A f \in End : pipe[f] = NewPipe /\ closer[f] = "open" /\ stream[f] = << >>
      /\ \A p \in Proc : pc[p] = "idle" /\ Awake(p)
      /\ \A f \in End : Awake(f) /\ Peer(f) \in End
  BY <1>0 DEF Awake, Actor, Peer, End
<1>2. \A places \in {Busy, Holding} : \A f, p : p \in Proc => ~Is(p, f, places)
  BY <1>1 DEF Is, Busy, Holding, Writing
<1>3. Types
  <2>1. pipe \in [End -> PipeRecord]
    BY <1>0, NewSane
  <2>2. \A f \in End :
        /\ pipe[f].state \subseteq Flags
        /\ pipe[f].busy \in Nat
        /\ {pipe[f].peer, pipe[f].coll, pipe[f].live} \subseteq BOOLEAN
        /\ pipe[f].selpid \in Proc \cup {NoProc}
    BY <2>1 DEF PipeRecord
  <2>3. \A f \in End :
        /\ pipe[f].size \in {PIPE_SIZE, BIG_PIPE_SIZE}
        /\ pipe[f].cnt \in 0 .. pipe[f].size
        /\ {pipe[f].in, pipe[f].out} \subseteq 0 .. pipe[f].size - 1
        /\ pipe[f].buffer \in [0 .. pipe[f].size - 1 -> Byte \cup {NoByte}]
    <3>1. PIPE_SIZE \in Nat /\ PIPE_SIZE > 0
      BY PipeAssumption
    <3> QED
      BY <1>1, <3>1, NewSane DEF Buffer
  <2>4. ops \subseteq Op
    BY <1>0, PipeAssumption
  <2>5. DOMAIN pipe = End /\ closer \in [End -> {"open", "pipecl", "closed"}]
    BY <1>0
  <2>6. pc \in [Proc -> Place] /\ resid \in [Proc -> Nat] /\ space \in [Proc -> Nat]
    BY <1>0 DEF Place
  <2>7. \A p \in Proc : (pc[p] = "idle") = (op[p] = NoOp)
    BY <1>0
  <2>8. /\ p_wchan \in [Actor -> End \cup {"selwait", NoChan}]
        /\ p_sig \in [Actor -> BOOLEAN] /\ p_timeout \in [Actor -> BOOLEAN]
    BY <1>0
  <2>9. TypeOK
    BY <1>0, <2>2, <2>3, <2>4, <2>5, <2>6, <2>7, <2>8 DEF TypeOK, Flags
  <2> QED
    BY <1>0, <2>1, <2>9 DEF Types
<1>4. CallsFit /\ References
  BY <1>1 DEF CallsFit, References, Reading, Writing
<1>5. BusyCounts
  <2>1. \A f \in End : Users(f) = {}
    BY <1>2 DEF Users
  <2> QED
    BY <1>1, <2>1, NewSane, FS_EmptySet DEF BusyCounts
<1>6. LockExclusive
  BY <1>2 DEF LockExclusive
<1>7. Channels
  BY <1>1 DEF Channels
<1>8. Connected
  BY <1>1, NewSane DEF Connected
<1>9. Transfers
  BY <1>1 DEF Transfers, Writing
<1>10. BigPipesCounted
  <2>1. {f \in End : pipe[f].live /\ pipe[f].size > PIPE_SIZE} = {}
    BY <1>1, NewSane, PipeAssumption
  <2> QED
    BY <1>0, <2>1, FS_EmptySet DEF BigPipesCounted
<1>11. StreamInOrder
  BY <1>1, <1>3, NewSane, StreamNow
<1>12. AtomicWrites
  <2>1. \A f \in End : Atomic(ops, last[f], stream[f])
    BY <1>1 DEF Atomic
  <2> QED
    BY <1>3, <2>1, AtomicNow
<1> QED
  BY <1>3, <1>4, <1>5, <1>6, <1>7, <1>8, <1>9, <1>10, <1>11, <1>12 DEF PipeInv

\* Nothing happens.
LEMMA StutterKeeps ==
    ASSUME PipeInv, UNCHANGED vars
    PROVE  PipeInv'
<1>1. UNCHANGED <<pipe, closer, nbigpipe, localVars, pc, stream, last>>
  BY DEF vars
<1>2. p_wchan' = p_wchan /\ p_sig' = p_sig /\ p_timeout' = p_timeout
  BY DEF vars, sleepVars
<1>3. /\ p_wchan \in [Actor -> Channel] /\ p_sig \in [Actor -> BOOLEAN]
      /\ p_timeout \in [Actor -> BOOLEAN]
  BY DEF PipeInv, Types, TypeOK, Channel
<1>4. /\ p_wchan' \in [Actor -> Channel] /\ p_sig' \in [Actor -> BOOLEAN]
      /\ p_timeout' \in [Actor -> BOOLEAN] /\ \A a \in Actor : p_wchan'[a] \in {p_wchan[a], NoChan}
  BY <1>2, <1>3
<1> QED
  BY <1>1, <1>4, SignalKeeps

\* Every step of the pipe keeps its invariant.
LEMMA NextKeeps ==
    ASSUME PipeInv, [Next]_vars
    PROVE  PipeInv'
<1>1. ASSUME NEW p \in Proc, Read(p)
      PROVE  PipeInv'
  BY <1>1, PipeReadKeeps, ReadRelockKeeps, ReadMoveKeeps, ReadFaultKeeps DEF Read
<1>2. ASSUME NEW p \in Proc, Write(p)
      PROVE  PipeInv'
  BY <1>2, PipeWriteKeeps, WriteResizeKeeps, PipespaceKeeps, WriteLockKeeps, WriteMoveKeeps,
     WriteFaultKeeps, WriteAgainKeeps DEF Write
<1>3. ASSUME NEW p \in Proc, Poll(p) \/ ptsignal(p) \/ endtsleep(p)
      PROVE  PipeInv'
  BY <1>3, PollKeeps, PtsignalKeeps
<1>4. ASSUME NEW p \in Proc, NEW o \in ops, Call(p, o)
      PROVE  PipeInv'
  BY <1>4, CallKeeps
<1>5. ASSUME NEW f \in End, pipe_close(f) \/ pipeclose(f)
      PROVE  PipeInv'
  BY <1>5, PipeCloseKeeps, PipecloseKeeps
<1>6. CASE dopipe
  BY <1>6, DopipeKeeps
<1>7. CASE UNCHANGED vars
  BY <1>7, StutterKeeps
<1> QED
  BY <1>1, <1>2, <1>3, <1>4, <1>5, <1>6, <1>7 DEF Next

\* A thread in read() or write(), past its beginning, is a user or has a
\* reference to the descriptor it reads.
LEMMA UsersHold ==
    ASSUME Types, CallsFit, NEW p \in Proc, NEW f \in End,
           Uses(p, f) \/ (pc[p] \in Waiting /\ Target(p) = f)
    PROVE  \/ pc[p] \notin {"idle", "select"} /\ op[p].file = f
           \/ pc[p] \in Busy /\ Target(p) = f
<1>1. pc[p] \in Place /\ (pc[p] = "idle" => op[p] = NoOp)
  BY DEF Types, TypeOK
<1>2. NoOp.op = "none"
  BY DEF NoOp
<1>3. /\ pc[p] \in Reading => op[p].op = "read"
      /\ pc[p] \in Writing => op[p].op = "write"
      /\ pc[p] \in {"scan", "select"} => op[p].op = "poll"
  BY DEF CallsFit
<1>4. Place = {"idle", "scan", "select"} \cup Reading \cup Writing
  BY DEF Place, Reading, Writing
<1>5. CASE op[p].op = "read" /\ op[p].file = f /\ pc[p] # "read"
  BY <1>1, <1>2, <1>3, <1>5
<1>6. CASE op[p].op = "write" /\ Peer(op[p].file) = f /\ pc[p] # "write"
  <2>1. pc[p] \in Writing
    BY <1>1, <1>2, <1>3, <1>4, <1>6
  <2> QED
    BY <1>6, <2>1 DEF Busy, Target
<1>7. CASE pc[p] \in Waiting /\ Target(p) = f
  <2>1. pc[p] \in Reading \/ pc[p] \in Writing \ {"write"}
    BY <1>7 DEF Waiting, Reading, Writing
  <2>2. CASE pc[p] \in Reading
    BY <1>3, <1>7, <2>2 DEF Target, Reading
  <2>3. CASE pc[p] \in Writing \ {"write"}
    BY <1>7, <2>3 DEF Busy
  <2> QED
    BY <2>1, <2>2, <2>3
<1> QED
  BY <1>5, <1>6, <1>7 DEF Uses

\* PipeInv implies that nobody uses a pipe that is freed: a reader holds the
\* descriptor, a writer is counted in pipe_busy, and a peer was disconnected.
LEMMA FreedUnused ==
    ASSUME PipeInv
    PROVE  NoUseAfterFree
<1>0. Types /\ CallsFit /\ References /\ BusyCounts /\ Channels /\ Connected
  BY DEF PipeInv
<1> SUFFICES ASSUME NEW f \in End, ~pipe[f].live
             PROVE  /\ \A p \in Proc : ~Uses(p, f)
                    /\ \A a \in Actor : p_wchan[a] # f
                    /\ pipe[Peer(f)].live => ~pipe[Peer(f)].peer
  BY DEF NoUseAfterFree
<1>1. closer[f] = "closed" /\ pipe[f].busy = 0
  BY <1>0 DEF Connected
<1>2. \A p \in Proc : ~(pc[p] \in Busy /\ Target(p) = f)
  BY <1>0, <1>1, Unused DEF Is
<1>3. \A p \in Proc : ~(pc[p] \notin {"idle", "select"} /\ op[p].file = f)
  BY <1>0, <1>1 DEF References
<1>4. \A p \in Proc : ~Uses(p, f)
  BY <1>0, <1>2, <1>3, UsersHold
<1>5. \A p \in Proc : ~(pc[p] \in Waiting /\ Target(p) = f)
  BY <1>0, <1>2, <1>3, UsersHold
<1>6. \A p \in Proc : p_wchan[p] # f
  <2> TAKE p \in Proc
  <2>1. f # NoChan /\ f # "selwait"
    BY PipeAssumption DEF End
  <2> QED
    BY <1>0, <1>5, <2>1 DEF Channels, Awake
<1>7. \A g \in End : p_wchan[g] # f
  <2> TAKE g \in End
  <2>1. f # NoChan
    BY PipeAssumption
  <2> QED
    BY <1>0, <1>1, <2>1 DEF Channels, Awake
<1>8. pipe[Peer(f)].live => ~pipe[Peer(f)].peer
  <2>1. Peer(f) \in End /\ Peer(Peer(f)) = f
    BY DEF Peer, End
  <2> QED
    BY <1>0, <2>1 DEF Connected
<1> QED
  BY <1>4, <1>6, <1>7, <1>8 DEF Actor

-----------------------------------------------------------------------------
\* PipeInv holds in every state, for any threads and workloads and any sizes that
\* satisfy PipeAssumption.
THEOREM PipeInvariance == Spec => []PipeInv
<1>1. Init => PipeInv
  BY InitKeeps
<1>2. PipeInv /\ [Next]_vars => PipeInv'
  BY NextKeeps
<1> QED
  BY <1>1, <1>2, PTL DEF Spec

\* The state of the pipe keeps its types: the indices of pipe_buffer stay within the
\* buffer, and pipe_busy and nbigpipe never become negative.
THEOREM PipeTypeCorrect == Spec => []TypeOK
<1>1. PipeInv => TypeOK
  BY DEF PipeInv, Types
<1> QED
  BY <1>1, PipeInvariance, PTL

\* What pipe_read() takes out is what pipe_write() put in, in order, wherever the
\* buffer wraps around, and writes of up to PIPE_BUF bytes stay together: for any
\* sizes of the buffers, any threads, any lengths and any signals, faults and closes.
THEOREM DataArrives == Spec => []DataIntact
<1>1. PipeInv => DataIntact
  BY DEF PipeInv, DataIntact
<1> QED
  BY <1>1, PipeInvariance, PTL

\* pipeclose() frees a pipe only when nobody will look at it again, and nbigpipe
\* counts the big buffers exactly, for any number of readers, writers and pollers.
THEOREM ResourcesAreSafe == Spec => []ResourcesSafe
<1>1. PipeInv => ResourcesSafe
  BY FreedUnused DEF PipeInv, ResourcesSafe
<1> QED
  BY <1>1, PipeInvariance, PTL

-----------------------------------------------------------------------------
(***************************************************************************)
(* The second half: nobody is forgotten.                                    *)
(***************************************************************************)

\* Nobody sleeps on pipe g.
Nobody(m, g) == \A a \in Actor : m.w[a] # g

\* The next pipeselwakeup() of g wakes p.
Recorded(k, p, g) ==
    /\ "SEL" \in k.pp[g].state /\ k.pp[g].selpid # NoProc
    /\ k.pp[g].selpid = p \/ k.pp[g].coll

\* From k to m all pollers of g were woken.
Unpolled(k, m, g) == \A p \in Proc : Recorded(k, p, g) => m.w[p] # "selwait"

Wants == {"LWANT", "WANTR", "WANTW", "WANT"}

\* From k to m a flag that asks for a wakeup goes away only with the wakeup,
\* PIPE_LOCK too if somebody wants it, and a poller stays on record unless it is
\* woken.
Mild(k, m) ==
    /\ m \in KState /\ OnlyWakes(k, m)
    /\ \A g \in End :
        /\ \A x \in Wants : x \in k.pp[g].state => x \in m.pp[g].state \/ Nobody(m, g)
        /\ {"LOCK", "LWANT"} \subseteq k.pp[g].state
              => "LOCK" \in m.pp[g].state \/ Nobody(m, g)
        /\ \A p \in Proc : Recorded(k, p, g) /\ m.w[p] = "selwait" => Recorded(m, p, g)

SameEof(k, m) == \A g \in End : "EOF" \in m.pp[g].state <=> "EOF" \in k.pp[g].state
SameCounts(k, m) == \A g \in End : m.pp[g].cnt = k.pp[g].cnt /\ m.pp[g].size = k.pp[g].size
Gentle(k, m) == Mild(k, m) /\ SameEof(k, m) /\ SameCounts(k, m)

\* No end of a pipe is NoChan or selwait.
LEMMA ChannelsDiffer == NoChan \notin End /\ NoChan # "selwait" /\ "selwait" \notin End
BY PipeAssumption DEF End

\* Whoever was woken stays awake ...
LEMMA NobodyStays ==
    ASSUME NEW m, NEW n, NEW g \in End, Nobody(m, g), OnlyWakes(m, n)
    PROVE  Nobody(n, g)
BY ChannelsDiffer DEF Nobody, OnlyWakes

\* ... pollers, too ...
LEMMA UnpolledStays ==
    ASSUME NEW k, NEW m, NEW n, NEW g \in End, Unpolled(k, m, g), OnlyWakes(m, n)
    PROVE  Unpolled(k, n, g)
BY ChannelsDiffer DEF Unpolled, OnlyWakes, Actor

\* ... and pollers that are on record before a mild change are there after it.
LEMMA MildUnpolled ==
    ASSUME NEW k, NEW m, NEW n, NEW g \in End, Mild(k, m), Unpolled(m, n, g), OnlyWakes(m, n)
    PROVE  Unpolled(k, n, g)
BY ChannelsDiffer DEF Mild, Unpolled, OnlyWakes, Actor

\* A flag that asks for a wakeup survives a mild change or has had its wakeup.
LEMMA MildFlag ==
    ASSUME NEW k, NEW m, NEW n, NEW g \in End, NEW x \in Wants, Mild(k, m),
           x \in k.pp[g].state, OnlyWakes(m, n),
           x \in m.pp[g].state => Nobody(n, g)
    PROVE  Nobody(n, g)
BY NobodyStays DEF Mild

\* Mild changes compose.
LEMMA MildTrans ==
    ASSUME NEW k, NEW m, NEW n, Mild(k, m), Mild(m, n)
    PROVE  Mild(k, n)
<1>1. OnlyWakes(k, n) /\ n \in KState /\ OnlyWakes(m, n)
  BY DEF Mild, OnlyWakes
<1>2. ASSUME NEW g \in End, NEW x \in Wants, x \in k.pp[g].state
      PROVE  x \in n.pp[g].state \/ Nobody(n, g)
  BY <1>1, <1>2, NobodyStays DEF Mild
<1>3. ASSUME NEW g \in End, {"LOCK", "LWANT"} \subseteq k.pp[g].state
      PROVE  "LOCK" \in n.pp[g].state \/ Nobody(n, g)
  <2>1. "LWANT" \in Wants
    BY DEF Wants
  <2>2. CASE Nobody(m, g)
    BY <1>1, <2>2, NobodyStays
  <2>3. CASE ~Nobody(m, g)
    <3>1. "LOCK" \in m.pp[g].state /\ "LWANT" \in m.pp[g].state
      BY <1>3, <2>1, <2>3 DEF Mild
    <3> QED
      BY <3>1 DEF Mild
  <2> QED
    BY <2>2, <2>3
<1>4. ASSUME NEW g \in End, NEW p \in Proc, Recorded(k, p, g), n.w[p] = "selwait"
      PROVE  Recorded(n, p, g)
  <2>1. m.w[p] = "selwait"
    BY <1>1, <1>4, ChannelsDiffer DEF OnlyWakes, Actor
  <2> QED
    BY <1>4, <2>1 DEF Mild
<1> QED
  BY <1>1, <1>2, <1>3, <1>4 DEF Mild

\* Gentle changes compose ...
LEMMA GentleTrans ==
    ASSUME NEW k, NEW m, NEW n, Gentle(k, m), Gentle(m, n)
    PROVE  Gentle(k, n)
<1>1. Mild(k, n)
  BY MildTrans DEF Gentle
<1>2. SameEof(k, n) /\ SameCounts(k, n)
  BY DEF Gentle, SameEof, SameCounts
<1> QED
  BY <1>1, <1>2 DEF Gentle

\* ... and a gentle change may be none.
LEMMA GentleSame ==
    ASSUME NEW k \in KState
    PROVE  Gentle(k, k)
BY DEF Gentle, Mild, SameEof, SameCounts, OnlyWakes

\* Only the flags of f change, from k to m, to s.
Reflags(k, m, f, s) ==
    /\ m \in KState /\ m.w = k.w
    /\ \A g \in End : g # f => m.pp[g] = k.pp[g]
    /\ m.pp[f].state = s
    /\ m.pp[f].cnt = k.pp[f].cnt /\ m.pp[f].size = k.pp[f].size
    /\ m.pp[f].selpid = k.pp[f].selpid /\ m.pp[f].coll = k.pp[f].coll
    /\ m.pp[f].busy = k.pp[f].busy

\* Flags are set ...
LEMMA SetShape ==
    ASSUME NEW k \in KState, NEW f \in End, NEW F \in SUBSET Flags
    PROVE  Reflags(k, SetFlags(k, f, F), f, k.pp[f].state \cup F)
<1> DEFINE q == [k.pp[f] EXCEPT !.state = k.pp[f].state \cup F]
<1>1. SetFlags(k, f, F) = [k EXCEPT !.pp = [k.pp EXCEPT ![f] = q]] /\ q \in PipeRecord
  BY DEF SetFlags, KState, PipeRecord
<1>2. /\ q.state = k.pp[f].state \cup F /\ q.cnt = k.pp[f].cnt /\ q.size = k.pp[f].size
      /\ q.selpid = k.pp[f].selpid /\ q.coll = k.pp[f].coll /\ q.busy = k.pp[f].busy
  BY DEF KState, PipeRecord
<1> HIDE DEF q
<1> QED
  BY <1>1, <1>2 DEF KState, Reflags

\* ... or cleared.
LEMMA ClearShape ==
    ASSUME NEW k \in KState, NEW f \in End, NEW F \in SUBSET Flags
    PROVE  Reflags(k, ClearFlags(k, f, F), f, k.pp[f].state \ F)
<1> DEFINE q == [k.pp[f] EXCEPT !.state = k.pp[f].state \ F]
<1>1. ClearFlags(k, f, F) = [k EXCEPT !.pp = [k.pp EXCEPT ![f] = q]] /\ q \in PipeRecord
  BY DEF ClearFlags, KState, PipeRecord
<1>2. /\ q.state = k.pp[f].state \ F /\ q.cnt = k.pp[f].cnt /\ q.size = k.pp[f].size
      /\ q.selpid = k.pp[f].selpid /\ q.coll = k.pp[f].coll /\ q.busy = k.pp[f].busy
  BY DEF KState, PipeRecord
<1> HIDE DEF q
<1> QED
  BY <1>1, <1>2 DEF KState, Reflags

\* wakeup(): nobody is left on the channel.
LEMMA WakeShape ==
    ASSUME NEW k \in KState, NEW c \in Channel \ {NoChan}
    PROVE  /\ Wake(k, c) \in KState /\ Wake(k, c).pp = k.pp /\ OnlyWakes(k, Wake(k, c))
           /\ \A a \in Actor : Wake(k, c).w[a] # c
<1>1. /\ Wake(k, c).pp = k.pp
      /\ Wake(k, c).w = [a \in Actor |-> IF k.w[a] = c THEN NoChan ELSE k.w[a]]
  BY DEF Wake, Wakeup, KState
<1>2. Wake(k, c) \in KState
  BY DEF Wake, Wakeup, KState, Channel
<1> QED
  BY <1>1, <1>2 DEF OnlyWakes

\* Flags change, and none goes away that matters.
LEMMA ReflagsMild ==
    ASSUME NEW k \in KState, NEW m, NEW f \in End, NEW s, Reflags(k, m, f, s),
           \A x \in Wants \cup {"SEL"} : x \in k.pp[f].state => x \in s,
           {"LOCK", "LWANT"} \subseteq k.pp[f].state => "LOCK" \in s
    PROVE  Mild(k, m) /\ SameCounts(k, m)
<1>1. OnlyWakes(k, m)
  BY DEF Reflags, OnlyWakes
<1>2. \A g \in End : \A x \in Wants : x \in k.pp[g].state => x \in m.pp[g].state
  BY DEF Reflags
<1>3. \A g \in End : {"LOCK", "LWANT"} \subseteq k.pp[g].state => "LOCK" \in m.pp[g].state
  BY DEF Reflags
<1>4. \A g \in End, p \in Proc : Recorded(k, p, g) => Recorded(m, p, g)
  BY DEF Reflags, Recorded
<1>5. SameCounts(k, m)
  BY DEF Reflags, SameCounts
<1> QED
  BY <1>1, <1>2, <1>3, <1>4, <1>5 DEF Mild, Reflags

\* Setting flags is mild ...
LEMMA SetMild ==
    ASSUME NEW k \in KState, NEW f \in End, NEW F \in SUBSET Flags
    PROVE  /\ Mild(k, SetFlags(k, f, F)) /\ SameCounts(k, SetFlags(k, f, F))
           /\ "EOF" \notin F => Gentle(k, SetFlags(k, f, F))
           /\ SetFlags(k, f, F).pp[f].state = k.pp[f].state \cup F
           /\ SetFlags(k, f, F).pp[f].busy = k.pp[f].busy
           /\ SetFlags(k, f, F).w = k.w
           /\ \A g \in End : g # f => SetFlags(k, f, F).pp[g] = k.pp[g]
<1> DEFINE m == SetFlags(k, f, F)
<1>1. Reflags(k, m, f, k.pp[f].state \cup F)
  BY SetShape
<1> HIDE DEF m
<1>2. Mild(k, m) /\ SameCounts(k, m)
  BY <1>1, ReflagsMild
<1>3. "EOF" \notin F => SameEof(k, m)
  BY <1>1 DEF Reflags, SameEof
<1>4. "EOF" \notin F => Gentle(k, m)
  BY <1>2, <1>3 DEF Gentle
<1>5. /\ m.pp[f].state = k.pp[f].state \cup F /\ m.pp[f].busy = k.pp[f].busy
      /\ m.w = k.w /\ \A g \in End : g # f => m.pp[g] = k.pp[g]
  BY <1>1 DEF Reflags
<1> QED
  BY <1>2, <1>4, <1>5 DEF m

\* ... and so is clearing them with a wakeup().
LEMMA ClearWakeGentle ==
    ASSUME NEW k \in KState, NEW f \in End, NEW F \in SUBSET (Flags \ {"SEL", "EOF"}),
           NEW m, m = Wake(ClearFlags(k, f, F), f)
    PROVE  /\ Gentle(k, m) /\ Nobody(m, f)
           /\ m.pp[f].state = k.pp[f].state \ F /\ m.pp[f].busy = k.pp[f].busy
           /\ \A g \in End : g # f => m.pp[g] = k.pp[g]
<1> DEFINE c == ClearFlags(k, f, F)
<1>1. Reflags(k, c, f, k.pp[f].state \ F)
  BY ClearShape
<1>2. m = Wake(c, f) /\ c \in KState /\ f \in Channel \ {NoChan}
  BY <1>1, ChannelsDiffer DEF Reflags, Channel
<1> HIDE DEF c
<1>3. m \in KState /\ m.pp = c.pp /\ OnlyWakes(c, m) /\ Nobody(m, f)
  BY <1>2, WakeShape DEF Nobody
<1>4. OnlyWakes(k, m)
  BY <1>1, <1>3 DEF Reflags, OnlyWakes
<1>5. SameEof(k, m) /\ SameCounts(k, m)
  BY <1>1, <1>3 DEF Reflags, SameEof, SameCounts
<1>6. \A g \in End, p \in Proc : Recorded(k, p, g) => Recorded(m, p, g)
  BY <1>1, <1>3 DEF Reflags, Recorded
<1>7. Mild(k, m)
  BY <1>1, <1>3, <1>4, <1>6 DEF Mild, Reflags
<1> QED
  BY <1>1, <1>3, <1>5, <1>7 DEF Gentle, Reflags

\* "if (state & flag) { state &= ~flag; wakeup(pipe); }"
LEMMA WakeIfGentle ==
    ASSUME NEW k \in KState, NEW f \in End, NEW flag \in Wants,
           NEW m, m = WakeIf(k, f, flag)
    PROVE  /\ Gentle(k, m)
           /\ flag \in k.pp[f].state => Nobody(m, f)
           /\ m.pp[f].state = k.pp[f].state \ {flag} /\ m.pp[f].busy = k.pp[f].busy
           /\ \A g \in End : g # f => m.pp[g] = k.pp[g]
<1>1. {flag} \in SUBSET (Flags \ {"SEL", "EOF"})
  BY DEF Wants, Flags
<1>2. CASE flag \in k.pp[f].state
  <2>1. m = Wake(ClearFlags(k, f, {flag}), f)
    BY <1>2 DEF WakeIf
  <2> QED
    BY <1>1, <2>1, ClearWakeGentle
<1>3. CASE flag \notin k.pp[f].state
  <2>1. m = k
    BY <1>3 DEF WakeIf
  <2> QED
    BY <1>3, <2>1, GentleSame
<1> QED
  BY <1>2, <1>3

\* pipeunlock() wakes whoever wants the lock.
LEMMA UnlockGentle ==
    ASSUME NEW k \in KState, NEW f \in End, NEW m, m = pipeunlock(k, f)
    PROVE  /\ Gentle(k, m)
           /\ m.pp[f].state = k.pp[f].state \ {"LOCK", "LWANT"}
           /\ m.pp[f].busy = k.pp[f].busy
           /\ \A g \in End : g # f => m.pp[g] = k.pp[g]
<1> DEFINE c == ClearFlags(k, f, {"LOCK"})
<1>1. Reflags(k, c, f, k.pp[f].state \ {"LOCK"})
  BY ClearShape DEF Flags
<1>2. c \in KState /\ m = WakeIf(c, f, "LWANT")
  BY <1>1 DEF Reflags, pipeunlock
<1>3. "LWANT" \in Wants
  BY DEF Wants
<1> HIDE DEF c
<1>4. CASE "LWANT" \in k.pp[f].state
  <2>1. m = Wake(ClearFlags(c, f, {"LWANT"}), f)
    BY <1>1, <1>2, <1>4 DEF WakeIf, Reflags
  <2>2. /\ Gentle(c, m) /\ Nobody(m, f) /\ m.pp[f].state = c.pp[f].state \ {"LWANT"}
        /\ m.pp[f].busy = c.pp[f].busy
        /\ \A g \in End : g # f => m.pp[g] = c.pp[g]
    BY <1>2, <2>1, ClearWakeGentle DEF Flags
  <2>3. m.pp[f].state = k.pp[f].state \ {"LOCK", "LWANT"}
    BY <1>1, <2>2 DEF Reflags
  <2>4. SameEof(k, m) /\ SameCounts(k, m)
    BY <1>1, <2>2 DEF Reflags, Gentle, SameEof, SameCounts
  <2>5. OnlyWakes(k, m) /\ m \in KState
    BY <1>1, <2>2 DEF Reflags, Gentle, Mild, OnlyWakes
  <2>6. \A g \in End, p \in Proc : Recorded(k, p, g) => Recorded(c, p, g)
    BY <1>1 DEF Reflags, Recorded
  <2>7. \A g \in End, p \in Proc : Recorded(k, p, g) /\ m.w[p] = "selwait" => Recorded(m, p, g)
    BY <2>2, <2>6 DEF Gentle, Mild
  <2>8. Mild(k, m)
    BY <1>1, <2>2, <2>5, <2>7 DEF Mild, Reflags
  <2> QED
    BY <1>1, <2>2, <2>3, <2>4, <2>8 DEF Gentle, Reflags
<1>5. CASE "LWANT" \notin k.pp[f].state
  <2>1. m = c
    BY <1>1, <1>2, <1>5 DEF WakeIf, Reflags
  <2>2. \A x \in Wants \cup {"SEL"} : x \in k.pp[f].state => x \in k.pp[f].state \ {"LOCK"}
    BY DEF Wants
  <2>3. Mild(k, c) /\ SameCounts(k, c)
    BY <1>1, <1>5, <2>2, ReflagsMild
  <2>4. SameEof(k, c)
    BY <1>1 DEF Reflags, SameEof
  <2> QED
    BY <1>1, <1>5, <2>1, <2>3, <2>4 DEF Gentle, Reflags
<1> QED
  BY <1>4, <1>5

\* From k to m the poller on record in f changes, to first and c.
Resels(k, m, f, first, c) ==
    /\ m \in KState /\ m.w = k.w
    /\ \A g \in End : g # f => m.pp[g] = k.pp[g]
    /\ m.pp[f].state = k.pp[f].state
    /\ m.pp[f].cnt = k.pp[f].cnt /\ m.pp[f].size = k.pp[f].size
    /\ m.pp[f].selpid = first /\ m.pp[f].coll = c
    /\ m.pp[f].busy = k.pp[f].busy

\* A state that differs from k in the poller on record has this form.
LEMMA SelShape ==
    ASSUME NEW k \in KState, NEW f \in End, NEW x \in Proc \cup {NoProc}, NEW c \in BOOLEAN
    PROVE  Resels(k, [k EXCEPT !.pp[f].selpid = x, !.pp[f].coll = c], f, x, c)
<1> DEFINE m == [k EXCEPT !.pp[f].selpid = x, !.pp[f].coll = c]
           q == [k.pp[f] EXCEPT !.selpid = x, !.coll = c]
<1>1. /\ m = [k EXCEPT !.pp = [k.pp EXCEPT ![f] = q]]
      /\ q \in PipeRecord
  BY DEF KState, PipeRecord
<1>2. /\ q.state = k.pp[f].state /\ q.cnt = k.pp[f].cnt /\ q.size = k.pp[f].size
      /\ q.selpid = x /\ q.coll = c /\ q.busy = k.pp[f].busy
  BY DEF KState, PipeRecord
<1> HIDE DEF q, m
<1>3. Resels(k, m, f, x, c)
  BY <1>1, <1>2 DEF KState, Resels
<1> QED
  BY <1>3 DEF m

\* selwakeup() wakes everybody it has on record.
LEMMA SelWakeupShape ==
    ASSUME NEW k \in KState, NEW f \in End, NEW n, n = selwakeup(k, f)
    PROVE  /\ n \in KState /\ OnlyWakes(k, n)
           /\ \A g \in End : g # f => n.pp[g] = k.pp[g]
           /\ n.pp[f].state = k.pp[f].state /\ n.pp[f].busy = k.pp[f].busy
           /\ n.pp[f].cnt = k.pp[f].cnt /\ n.pp[f].size = k.pp[f].size
           /\ k.pp[f].selpid # NoProc =>
                 \A p \in Proc : p = k.pp[f].selpid \/ k.pp[f].coll => n.w[p] # "selwait"
           /\ \A p \in Proc, c \in End : n.w[p] = c <=> k.w[p] = c
<1> DEFINE first == k.pp[f].selpid
           all == IF k.pp[f].coll THEN Wake(k, "selwait") ELSE k
           m == [all EXCEPT !.pp[f].selpid = NoProc, !.pp[f].coll = FALSE]
           v == [m.w EXCEPT ![first] = IF @ = "selwait" THEN NoChan ELSE @]
<1>0. "selwait" \in Channel \ {NoChan}
  BY ChannelsDiffer DEF Channel
<1>1. first \in Proc \cup {NoProc}
  BY DEF KState, PipeRecord
<1>2. /\ all \in KState /\ all.pp = k.pp /\ OnlyWakes(k, all)
      /\ k.pp[f].coll => \A a \in Actor : all.w[a] # "selwait"
      /\ \A p \in Proc, c \in End : all.w[p] = c <=> k.w[p] = c
  <2>1. CASE k.pp[f].coll
    <3>1. all = Wake(k, "selwait")
      BY <2>1
    <3>2. \A a \in Actor : all.w[a] = IF k.w[a] = "selwait" THEN NoChan ELSE k.w[a]
      BY <3>1 DEF Wake, Wakeup, KState
    <3> HIDE DEF all
    <3>3. \A p \in Proc, c \in End : all.w[p] = c <=> k.w[p] = c
      BY <3>2, ChannelsDiffer DEF Actor
    <3> QED
      BY <1>0, <3>1, <3>3, WakeShape
  <2>2. CASE ~k.pp[f].coll
    <3>1. all = k
      BY <2>2
    <3> HIDE DEF all
    <3> QED
      BY <2>2, <3>1 DEF OnlyWakes
  <2> QED
    BY <2>1, <2>2
<1> HIDE DEF all
<1>3. CASE first = NoProc
  <2>1. n = k
    BY <1>3 DEF selwakeup
  <2> QED
    BY <1>3, <2>1 DEF OnlyWakes
<1>4. CASE first # NoProc
  <2>1. first \in Actor /\ first \in Proc
    BY <1>1, <1>4 DEF Actor
  <2>2. Resels(all, m, f, NoProc, FALSE)
    BY <1>2, SelShape
  <2>3. m \in KState /\ m.w = all.w
    BY <2>2 DEF Resels
  <2>4. n = [all EXCEPT !.pp[f].selpid = NoProc, !.pp[f].coll = FALSE,
                        !.w[first] = IF @ = "selwait" THEN NoChan ELSE @]
    BY <1>4 DEF selwakeup, all
  <2>5. n = [m EXCEPT !.w = v]
    BY <1>2, <2>1, <2>4 DEF m, v, KState, PipeRecord
  <2> HIDE DEF m
  <2>6. /\ v \in [Actor -> Channel]
        /\ \A a \in Actor : v[a] = IF a = first /\ m.w[a] = "selwait" THEN NoChan ELSE m.w[a]
    BY <2>1, <2>3 DEF KState, Channel
  <2> HIDE DEF v
  <2>7. n \in KState /\ n.w = v /\ n.pp = m.pp
    BY <2>3, <2>5, <2>6 DEF KState
  <2>8. OnlyWakes(k, n)
    BY <1>2, <2>3, <2>6, <2>7 DEF OnlyWakes
  <2>9. \A p \in Proc : p = first \/ k.pp[f].coll => n.w[p] # "selwait"
    BY <1>2, <2>3, <2>6, <2>7, ChannelsDiffer DEF Actor
  <2>10. \A p \in Proc, c \in End : n.w[p] = c <=> k.w[p] = c
    BY <1>2, <2>3, <2>6, <2>7, ChannelsDiffer DEF Actor
  <2> QED
    BY <1>2, <2>2, <2>7, <2>8, <2>9, <2>10 DEF Resels
<1> QED
  BY <1>3, <1>4

\* pipeselwakeup() wakes all pollers of f.
LEMMA SelWakeupGentle ==
    ASSUME NEW k \in KState, NEW f \in End, NEW m, m = pipeselwakeup(k, f)
    PROVE  /\ Gentle(k, m) /\ Unpolled(k, m, f)
           /\ m.pp[f].state = k.pp[f].state \ {"SEL"} /\ m.pp[f].busy = k.pp[f].busy
           /\ \A g \in End : g # f => m.pp[g] = k.pp[g]
<1>1. CASE "SEL" \in k.pp[f].state
  <2> DEFINE c == ClearFlags(k, f, {"SEL"})
  <2>1. Reflags(k, c, f, k.pp[f].state \ {"SEL"})
    BY ClearShape DEF Flags
  <2>2. m = selwakeup(c, f) /\ c \in KState
    BY <1>1, <2>1 DEF pipeselwakeup, Reflags
  <2> HIDE DEF c
  <2>3. /\ m \in KState /\ OnlyWakes(c, m)
        /\ \A g \in End : g # f => m.pp[g] = c.pp[g]
        /\ m.pp[f].state = c.pp[f].state /\ m.pp[f].busy = c.pp[f].busy
        /\ m.pp[f].cnt = c.pp[f].cnt /\ m.pp[f].size = c.pp[f].size
        /\ c.pp[f].selpid # NoProc =>
              \A p \in Proc : p = c.pp[f].selpid \/ c.pp[f].coll => m.w[p] # "selwait"
    BY <2>2, SelWakeupShape
  <2>4. OnlyWakes(k, m)
    BY <2>1, <2>3 DEF Reflags, OnlyWakes
  <2>5. Unpolled(k, m, f)
    BY <2>1, <2>3 DEF Reflags, Unpolled, Recorded
  <2>6. SameEof(k, m) /\ SameCounts(k, m)
    BY <2>1, <2>3 DEF Reflags, SameEof, SameCounts
  <2>7. \A g \in End, p \in Proc : Recorded(k, p, g) /\ m.w[p] = "selwait" => Recorded(m, p, g)
    <3> TAKE g \in End, p \in Proc
    <3>1. g # f => m.pp[g] = k.pp[g]
      BY <2>1, <2>3 DEF Reflags
    <3> QED
      BY <2>5, <3>1 DEF Unpolled, Recorded
  <2>8. \A g \in End : \A x \in Wants \cup {"LOCK"} : x \in k.pp[g].state => x \in m.pp[g].state
    BY <2>1, <2>3 DEF Reflags, Wants
  <2>9. Mild(k, m)
    BY <2>3, <2>4, <2>7, <2>8 DEF Mild
  <2> QED
    BY <2>1, <2>3, <2>5, <2>6, <2>9 DEF Gentle, Reflags
<1>2. CASE "SEL" \notin k.pp[f].state
  <2>1. m = k
    BY <1>2 DEF pipeselwakeup
  <2> QED
    BY <1>2, <2>1, GentleSame DEF Unpolled, Recorded
<1> QED
  BY <1>1, <1>2

\* Nothing changes but pipe_busy, or the data of f.
LEMMA OtherGentle ==
    ASSUME NEW k \in KState, NEW f \in End, NEW m \in KState, m.w = k.w,
           \A g \in End : g # f => m.pp[g] = k.pp[g],
           m.pp[f].state = k.pp[f].state, m.pp[f].selpid = k.pp[f].selpid,
           m.pp[f].coll = k.pp[f].coll
    PROVE  /\ Mild(k, m) /\ SameEof(k, m)
           /\ m.pp[f].cnt = k.pp[f].cnt /\ m.pp[f].size = k.pp[f].size => Gentle(k, m)
<1>1. OnlyWakes(k, m)
  BY DEF OnlyWakes
<1>2. \A g \in End : m.pp[g].state = k.pp[g].state
  OBVIOUS
<1>3. \A g \in End, p \in Proc : Recorded(k, p, g) => Recorded(m, p, g)
  BY DEF Recorded
<1>4. Mild(k, m) /\ SameEof(k, m)
  BY <1>1, <1>2, <1>3 DEF Mild, SameEof
<1>5. m.pp[f].cnt = k.pp[f].cnt /\ m.pp[f].size = k.pp[f].size => SameCounts(k, m)
  BY DEF SameCounts
<1> QED
  BY <1>4, <1>5 DEF Gentle

\* pipe_busy changes.
LEMMA BusyGentle ==
    ASSUME NEW k \in KState, NEW f \in End, NEW b \in Nat, NEW m, m = [k EXCEPT !.pp[f].busy = b]
    PROVE  /\ Gentle(k, m) /\ m.w = k.w
           /\ m.pp[f].state = k.pp[f].state /\ m.pp[f].busy = b
           /\ m.pp[f].cnt = k.pp[f].cnt /\ m.pp[f].size = k.pp[f].size
           /\ \A g \in End : g # f => m.pp[g] = k.pp[g]
<1> DEFINE q == [k.pp[f] EXCEPT !.busy = b]
<1>1. m = [k EXCEPT !.pp = [k.pp EXCEPT ![f] = q]] /\ q \in PipeRecord
  BY DEF KState, PipeRecord
<1>2. /\ q.state = k.pp[f].state /\ q.cnt = k.pp[f].cnt /\ q.size = k.pp[f].size
      /\ q.selpid = k.pp[f].selpid /\ q.coll = k.pp[f].coll /\ q.busy = b
  BY DEF KState, PipeRecord
<1> HIDE DEF q
<1>3. /\ m \in KState /\ m.w = k.w /\ m.pp[f] = q
      /\ \A g \in End : g # f => m.pp[g] = k.pp[g]
  BY <1>1 DEF KState
<1>4. /\ m.pp[f].state = k.pp[f].state /\ m.pp[f].selpid = k.pp[f].selpid
      /\ m.pp[f].coll = k.pp[f].coll
      /\ m.pp[f].cnt = k.pp[f].cnt /\ m.pp[f].size = k.pp[f].size
  BY <1>2, <1>3
<1>5. Gentle(k, m)
  BY <1>3, <1>4, OtherGentle
<1> QED
  BY <1>2, <1>3, <1>5

-----------------------------------------------------------------------------
\* p leaves pipe f, which is as in m then, in the midst of its call with k.
Leaves(p, f, k, m) ==
    /\ Gentle(k, m) /\ Return(p, m)
    /\ "LOCK" \in m.pp[f].state <=> "LOCK" \in k.pp[f].state
    /\ m.pp[f].busy = k.pp[f].busy - 1
    /\ m.pp[f].busy = 0 /\ "WANT" \in k.pp[f].state => Nobody(m, f)
    /\ \A g \in End : g # f => m.pp[g] = k.pp[g]

\* unlocked_error of pipe_read() wakes writers and pollers if there is space ...
LEMMA ReadDoneWakes ==
    ASSUME NEW p \in Proc, NEW f \in End, NEW k \in KState, k.pp[f].busy > 0,
           ReadDone(p, k, f)
    PROVE  \E m : /\ Leaves(p, f, k, m)
                  /\ k.pp[f].cnt < MINPIPESIZE /\ "WANTW" \in k.pp[f].state => Nobody(m, f)
                  /\ Space(k, f) >= PIPE_BUF => Unpolled(k, m, f)
<1> DEFINE left == [k EXCEPT !.pp[f].busy = @ - 1]
           woken == IF left.pp[f].busy = 0 /\ "WANT" \in left.pp[f].state
                    THEN Wake(ClearFlags(left, f, {"WANT", "WANTW"}), f)
                    ELSE IF left.pp[f].cnt < MINPIPESIZE
                    THEN WakeIf(left, f, "WANTW") ELSE left
           m == IF Space(woken, f) >= PIPE_BUF THEN pipeselwakeup(woken, f) ELSE woken
<1>1. Return(p, m)
  BY DEF ReadDone
<1>2. k.pp[f].busy \in Nat /\ k.pp[f].busy - 1 \in Nat
  BY DEF KState, PipeRecord
<1>3. left = [k EXCEPT !.pp[f].busy = k.pp[f].busy - 1]
  BY DEF KState
<1> HIDE DEF left
<1>4. /\ Gentle(k, left) /\ left.w = k.w
      /\ left.pp[f].state = k.pp[f].state /\ left.pp[f].busy = k.pp[f].busy - 1
      /\ left.pp[f].cnt = k.pp[f].cnt
      /\ \A g \in End : g # f => left.pp[g] = k.pp[g]
  BY <1>2, <1>3, BusyGentle
<1>5. left \in KState
  BY <1>4 DEF Gentle, Mild
<1>6. /\ Gentle(left, woken)
      /\ woken.pp[f].busy = left.pp[f].busy
      /\ "LOCK" \in woken.pp[f].state <=> "LOCK" \in left.pp[f].state
      /\ \A g \in End : g # f => woken.pp[g] = left.pp[g]
      /\ left.pp[f].busy = 0 /\ "WANT" \in left.pp[f].state => Nobody(woken, f)
      /\ left.pp[f].cnt < MINPIPESIZE /\ "WANTW" \in left.pp[f].state => Nobody(woken, f)
  <2>1. CASE left.pp[f].busy = 0 /\ "WANT" \in left.pp[f].state
    <3>1. woken = Wake(ClearFlags(left, f, {"WANT", "WANTW"}), f)
      BY <2>1
    <3> HIDE DEF woken
    <3>2. {"WANT", "WANTW"} \in SUBSET (Flags \ {"SEL", "EOF"})
      BY DEF Flags
    <3> QED
      BY <1>5, <3>1, <3>2, ClearWakeGentle
  <2>2. CASE ~(left.pp[f].busy = 0 /\ "WANT" \in left.pp[f].state) /\ left.pp[f].cnt < MINPIPESIZE
    <3>1. woken = WakeIf(left, f, "WANTW")
      BY <2>2
    <3> HIDE DEF woken
    <3>2. "WANTW" \in Wants
      BY DEF Wants
    <3> QED
      BY <1>5, <2>2, <3>1, <3>2, WakeIfGentle
  <2>3. CASE ~(left.pp[f].busy = 0 /\ "WANT" \in left.pp[f].state) /\ ~(left.pp[f].cnt < MINPIPESIZE)
    <3>1. woken = left
      BY <2>3
    <3> HIDE DEF woken
    <3> QED
      BY <1>5, <2>3, <3>1, GentleSame
  <2> QED
    BY <2>1, <2>2, <2>3
<1> HIDE DEF woken
<1>7. woken \in KState /\ Space(woken, f) = Space(k, f)
  BY <1>4, <1>6 DEF Gentle, Mild, SameCounts, Space
<1>8. /\ Gentle(woken, m) /\ m.pp[f].busy = woken.pp[f].busy
      /\ "LOCK" \in m.pp[f].state <=> "LOCK" \in woken.pp[f].state
      /\ \A g \in End : g # f => m.pp[g] = woken.pp[g]
      /\ Space(woken, f) >= PIPE_BUF => Unpolled(woken, m, f)
  <2>1. CASE Space(woken, f) >= PIPE_BUF
    <3>1. m = pipeselwakeup(woken, f)
      BY <2>1
    <3> HIDE DEF m
    <3> QED
      BY <1>7, <3>1, SelWakeupGentle
  <2>2. CASE ~(Space(woken, f) >= PIPE_BUF)
    <3>1. m = woken
      BY <2>2
    <3> HIDE DEF m
    <3> QED
      BY <1>7, <2>2, <3>1, GentleSame
  <2> QED
    BY <2>1, <2>2
<1> HIDE DEF m
<1>9. Gentle(k, woken) /\ Gentle(k, m) /\ OnlyWakes(woken, m) /\ Mild(k, woken)
  BY <1>4, <1>6, <1>8, GentleTrans DEF Gentle, Mild
<1>10. Nobody(woken, f) => Nobody(m, f)
  BY <1>9, NobodyStays
<1>11. Space(k, f) >= PIPE_BUF => Unpolled(k, m, f)
  BY <1>7, <1>8, <1>9, MildUnpolled
<1>12. Leaves(p, f, k, m)
  BY <1>1, <1>4, <1>6, <1>8, <1>9, <1>10 DEF Leaves
<1> QED
  BY <1>4, <1>6, <1>10, <1>11, <1>12

\* ... and the end of pipe_write() wakes readers and pollers if there are data.
LEMMA WriteDoneWakes ==
    ASSUME NEW p \in Proc, NEW f \in End, NEW k \in KState, k.pp[f].busy > 0,
           WriteDone(p, k, f)
    PROVE  \E m : /\ Leaves(p, f, k, m)
                  /\ k.pp[f].cnt > 0 =>
                        /\ "WANTR" \in k.pp[f].state => Nobody(m, f)
                        /\ Unpolled(k, m, f)
<1> DEFINE left == [k EXCEPT !.pp[f].busy = @ - 1]
           woken == IF left.pp[f].busy = 0 /\ "WANT" \in left.pp[f].state
                    THEN Wake(ClearFlags(left, f, {"WANT", "WANTR"}), f)
                    ELSE IF left.pp[f].cnt > 0 THEN WakeIf(left, f, "WANTR") ELSE left
           m == IF woken.pp[f].cnt > 0 THEN pipeselwakeup(woken, f) ELSE woken
<1>1. Return(p, m)
  BY DEF WriteDone
<1>2. k.pp[f].busy \in Nat /\ k.pp[f].busy - 1 \in Nat
  BY DEF KState, PipeRecord
<1>3. left = [k EXCEPT !.pp[f].busy = k.pp[f].busy - 1]
  BY DEF KState
<1> HIDE DEF left
<1>4. /\ Gentle(k, left) /\ left.w = k.w
      /\ left.pp[f].state = k.pp[f].state /\ left.pp[f].busy = k.pp[f].busy - 1
      /\ left.pp[f].cnt = k.pp[f].cnt
      /\ \A g \in End : g # f => left.pp[g] = k.pp[g]
  BY <1>2, <1>3, BusyGentle
<1>5. left \in KState
  BY <1>4 DEF Gentle, Mild
<1>6. /\ Gentle(left, woken)
      /\ woken.pp[f].busy = left.pp[f].busy
      /\ "LOCK" \in woken.pp[f].state <=> "LOCK" \in left.pp[f].state
      /\ \A g \in End : g # f => woken.pp[g] = left.pp[g]
      /\ left.pp[f].busy = 0 /\ "WANT" \in left.pp[f].state => Nobody(woken, f)
      /\ left.pp[f].cnt > 0 /\ "WANTR" \in left.pp[f].state => Nobody(woken, f)
  <2>1. CASE left.pp[f].busy = 0 /\ "WANT" \in left.pp[f].state
    <3>1. woken = Wake(ClearFlags(left, f, {"WANT", "WANTR"}), f)
      BY <2>1
    <3> HIDE DEF woken
    <3>2. {"WANT", "WANTR"} \in SUBSET (Flags \ {"SEL", "EOF"})
      BY DEF Flags
    <3> QED
      BY <1>5, <3>1, <3>2, ClearWakeGentle
  <2>2. CASE ~(left.pp[f].busy = 0 /\ "WANT" \in left.pp[f].state) /\ left.pp[f].cnt > 0
    <3>1. woken = WakeIf(left, f, "WANTR")
      BY <2>2
    <3> HIDE DEF woken
    <3>2. "WANTR" \in Wants
      BY DEF Wants
    <3> QED
      BY <1>5, <2>2, <3>1, <3>2, WakeIfGentle
  <2>3. CASE ~(left.pp[f].busy = 0 /\ "WANT" \in left.pp[f].state) /\ ~(left.pp[f].cnt > 0)
    <3>1. woken = left
      BY <2>3
    <3> HIDE DEF woken
    <3> QED
      BY <1>5, <2>3, <3>1, GentleSame
  <2> QED
    BY <2>1, <2>2, <2>3
<1> HIDE DEF woken
<1>7. woken \in KState /\ woken.pp[f].cnt = k.pp[f].cnt
  BY <1>4, <1>6 DEF Gentle, Mild, SameCounts
<1>8. /\ Gentle(woken, m) /\ m.pp[f].busy = woken.pp[f].busy
      /\ "LOCK" \in m.pp[f].state <=> "LOCK" \in woken.pp[f].state
      /\ \A g \in End : g # f => m.pp[g] = woken.pp[g]
      /\ woken.pp[f].cnt > 0 => Unpolled(woken, m, f)
  <2>1. CASE woken.pp[f].cnt > 0
    <3>1. m = pipeselwakeup(woken, f)
      BY <2>1
    <3> HIDE DEF m
    <3> QED
      BY <1>7, <3>1, SelWakeupGentle
  <2>2. CASE ~(woken.pp[f].cnt > 0)
    <3>1. m = woken
      BY <2>2
    <3> HIDE DEF m
    <3> QED
      BY <1>7, <2>2, <3>1, GentleSame
  <2> QED
    BY <2>1, <2>2
<1> HIDE DEF m
<1>9. Gentle(k, woken) /\ Gentle(k, m) /\ OnlyWakes(woken, m) /\ Mild(k, woken)
  BY <1>4, <1>6, <1>8, GentleTrans DEF Gentle, Mild
<1>10. Nobody(woken, f) => Nobody(m, f)
  BY <1>9, NobodyStays
<1>11. k.pp[f].cnt > 0 => Unpolled(k, m, f)
  BY <1>7, <1>8, <1>9, MildUnpolled
<1>12. Leaves(p, f, k, m)
  BY <1>1, <1>4, <1>6, <1>8, <1>9, <1>10 DEF Leaves
<1> QED
  BY <1>4, <1>6, <1>10, <1>11, <1>12

\* The step of p ends at where, and leaves u but for the sleep of p itself.
Lands(p, u, where, left, sp) ==
    \E m : /\ After(p, m, where, left, sp)
           /\ m.pp = u.pp /\ \A a \in Actor : a # p => m.w[a] = u.w[a]

\* A sleep at the end of a step
LEMMA SleepLands ==
    ASSUME NEW p \in Proc, NEW u \in KState, NEW c \in Channel, NEW where, where # "idle",
           NEW left, NEW sp, StayWith(p, [u EXCEPT !.w = SleepCatch(@, p, c)], where, left, sp)
    PROVE  Lands(p, u, where, left, sp)
<1> DEFINE m == [u EXCEPT !.w = SleepCatch(@, p, c)]
<1>1. m.pp = u.pp /\ \A a \in Actor : a # p => m.w[a] = u.w[a]
  BY Sleeps
<1>2. After(p, m, where, left, sp)
  BY DEF After
<1> QED
  BY <1>1, <1>2 DEF Lands

\* The loop of pipe_read(), begun in k with PIPE_LOCK and `left' bytes to go,
\* ends at where with r: whom it has woken, and what it waits for.
ReadWakes(p, f, k, left, u, where, r) ==
    /\ Gentle(k, u)
    /\ \A g \in End : g # f => u.pp[g] = k.pp[g]
    /\ u.pp[f].busy = IF where = "idle" THEN k.pp[f].busy - 1 ELSE k.pp[f].busy
    /\ "LOCK" \in u.pp[f].state <=> where = "move"
    /\ where = "idle" => /\ Space(k, f) >= PIPE_BUF => Unpolled(k, u, f)
                         /\ u.pp[f].busy = 0 /\ "WANT" \in k.pp[f].state => Nobody(u, f)
    /\ where = "move" => r = left
    /\ where = "piperd" => /\ r = resid[p] /\ left = op[p].n
                           /\ k.pp[f].cnt = 0 /\ "EOF" \notin k.pp[f].state
                           /\ "WANTR" \in u.pp[f].state
    /\ where # "move" /\ k.pp[f].cnt < MINPIPESIZE /\ "WANTW" \in k.pp[f].state => Nobody(u, f)

\* However pipe_read()'s loop goes on, it wakes those whom it has made space
\* for.
LEMMA ReadLoopWakes ==
    ASSUME NEW p \in Proc, NEW f \in End, NEW k \in KState, k.pp[f].busy > 0,
           "LOCK" \in k.pp[f].state, NEW left \in Nat, ReadLoop(p, k, f, left)
    PROVE  \E u, where, r :
              /\ where \in {"idle", "move", "piperd"}
              /\ Lands(p, u, where, r, 0) /\ ReadWakes(p, f, k, left, u, where, r)
<1> DEFINE Goal == \E u, where, r :
              /\ where \in {"idle", "move", "piperd"}
              /\ Lands(p, u, where, r, 0) /\ ReadWakes(p, f, k, left, u, where, r)
<1>0. SUFFICES Goal
  OBVIOUS
<1>1. ASSUME NEW v \in KState, Gentle(k, v), v.pp[f].busy = k.pp[f].busy,
             "LOCK" \notin v.pp[f].state, "WANT" \in k.pp[f].state => "WANT" \in v.pp[f].state,
             \A g \in End : g # f => v.pp[g] = k.pp[g],
             ReadDone(p, v, f)
      PROVE  Goal
  <2>1. PICK m : /\ Leaves(p, f, v, m)
                 /\ v.pp[f].cnt < MINPIPESIZE /\ "WANTW" \in v.pp[f].state => Nobody(m, f)
                 /\ Space(v, f) >= PIPE_BUF => Unpolled(v, m, f)
    BY <1>1, ReadDoneWakes
  <2>2. Gentle(k, m) /\ Mild(k, v) /\ OnlyWakes(v, m)
    BY <1>1, <2>1, GentleTrans DEF Leaves, Gentle, Mild
  <2>3. v.pp[f].cnt = k.pp[f].cnt /\ Space(v, f) = Space(k, f)
    BY <1>1 DEF Gentle, SameCounts, Space
  <2>4. Space(k, f) >= PIPE_BUF => Unpolled(k, m, f)
    BY <2>1, <2>2, <2>3, MildUnpolled
  <2>5. "WANTW" \in Wants
    BY DEF Wants
  <2>6. k.pp[f].cnt < MINPIPESIZE /\ "WANTW" \in k.pp[f].state => Nobody(m, f)
    BY <2>1, <2>2, <2>3, <2>5, MildFlag
  <2>7. ReadWakes(p, f, k, left, m, "idle", 0)
    BY <1>1, <2>1, <2>2, <2>4, <2>6 DEF ReadWakes, Leaves
  <2>8. Lands(p, m, "idle", 0, 0)
    BY <2>1 DEF Lands, After, Leaves
  <2> QED
    BY <2>7, <2>8
<1> DEFINE w == WakeIf(k, f, "WANTW")
           awake == pipeunlock(w, f)
           wants == SetFlags(awake, f, {"WANTR"})
           plain == pipeunlock(k, f)
<1>2. /\ Gentle(k, plain) /\ plain.pp[f].state = k.pp[f].state \ {"LOCK", "LWANT"}
      /\ plain.pp[f].busy = k.pp[f].busy
      /\ \A g \in End : g # f => plain.pp[g] = k.pp[g]
  BY UnlockGentle
<1>3. /\ Gentle(k, w)
      /\ "WANTW" \in k.pp[f].state => Nobody(w, f)
      /\ w.pp[f].state = k.pp[f].state \ {"WANTW"} /\ w.pp[f].busy = k.pp[f].busy
      /\ \A g \in End : g # f => w.pp[g] = k.pp[g]
  BY WakeIfGentle DEF Wants
<1>4. w \in KState
  BY <1>3 DEF Gentle, Mild
<1> HIDE DEF w, plain
<1>5. /\ Gentle(w, awake) /\ awake.pp[f].state = w.pp[f].state \ {"LOCK", "LWANT"}
      /\ awake.pp[f].busy = w.pp[f].busy
      /\ \A g \in End : g # f => awake.pp[g] = w.pp[g]
  BY <1>4, UnlockGentle
<1> HIDE DEF awake
<1>6. Gentle(k, awake) /\ awake \in KState
  BY <1>3, <1>5, GentleTrans DEF Gentle, Mild
<1>7. /\ Gentle(awake, wants) /\ wants.pp[f].state = awake.pp[f].state \cup {"WANTR"}
      /\ wants.pp[f].busy = awake.pp[f].busy
      /\ \A g \in End : g # f => wants.pp[g] = awake.pp[g]
  BY <1>6, SetMild DEF Flags
<1> HIDE DEF wants
<1>8. Gentle(k, wants) /\ wants \in KState /\ Gentle(w, wants)
  BY <1>5, <1>6, <1>7, GentleTrans DEF Gentle, Mild
<1>9. CASE left > 0 /\ k.pp[f].cnt > 0 /\ Stay(p, k, "move", left)
  <2>1. Lands(p, k, "move", left, 0)
    BY <1>9 DEF Lands, After, Stay
  <2>2. ReadWakes(p, f, k, left, k, "move", left)
    BY GentleSame DEF ReadWakes
  <2> QED
    BY <2>1, <2>2
<1>10. CASE ReadDone(p, plain, f)
  <2>1. /\ plain \in KState /\ "LOCK" \notin plain.pp[f].state
        /\ "WANT" \in k.pp[f].state => "WANT" \in plain.pp[f].state
    BY <1>2 DEF Gentle, Mild
  <2> QED
    BY <1>1, <1>2, <1>10, <2>1
<1>11. CASE ReadDone(p, awake, f)
  <2>1. /\ "LOCK" \notin awake.pp[f].state /\ awake.pp[f].busy = k.pp[f].busy
        /\ "WANT" \in k.pp[f].state => "WANT" \in awake.pp[f].state
        /\ \A g \in End : g # f => awake.pp[g] = k.pp[g]
    BY <1>3, <1>5
  <2> QED
    BY <1>1, <1>6, <1>11, <2>1
<1>12. CASE /\ left = op[p].n /\ k.pp[f].cnt = 0 /\ ~Eof(k, f)
            /\ Stay(p, [wants EXCEPT !.w = SleepCatch(@, p, f)], "piperd", resid[p])
  <2>1. Lands(p, wants, "piperd", resid[p], 0)
    <3>1. StayWith(p, [wants EXCEPT !.w = SleepCatch(@, p, f)], "piperd", resid[p], 0) /\ f \in Channel
      BY <1>12 DEF Stay, Channel
    <3> QED
      BY <1>8, <3>1, SleepLands
  <2>2. "WANTW" \in k.pp[f].state => Nobody(wants, f)
    BY <1>3, <1>8, NobodyStays DEF Gentle, Mild
  <2>3. /\ \A g \in End : g # f => wants.pp[g] = k.pp[g]
        /\ wants.pp[f].busy = k.pp[f].busy /\ "LOCK" \notin wants.pp[f].state
        /\ "WANTR" \in wants.pp[f].state
    BY <1>3, <1>5, <1>7
  <2>4. ReadWakes(p, f, k, left, wants, "piperd", resid[p])
    BY <1>8, <1>12, <2>2, <2>3 DEF ReadWakes, Eof
  <2> QED
    BY <2>1, <2>4
<1> QED
  BY <1>9, <1>10, <1>11, <1>12 DEF ReadLoop, ReadEmpty, plain, awake, w, wants

\* pipelock() with PIPE_LOCK set
LEMMA LockSleepLands ==
    ASSUME NEW p \in Proc, NEW f \in End, NEW k \in KState, Locked(k, f),
           NEW where, where # "idle", NEW left, NEW sp,
           StayWith(p, LockSleep(k, p, f), where, left, sp)
    PROVE  \E u : /\ Lands(p, u, where, left, sp) /\ Gentle(k, u)
                  /\ {"LOCK", "LWANT"} \subseteq u.pp[f].state
                  /\ u.pp[f].busy = k.pp[f].busy
                  /\ \A g \in End : g # f => u.pp[g] = k.pp[g]
<1> DEFINE u == SetFlags(k, f, {"LWANT"})
<1>1. /\ Gentle(k, u) /\ u.pp[f].state = k.pp[f].state \cup {"LWANT"}
      /\ u.pp[f].busy = k.pp[f].busy
      /\ \A g \in End : g # f => u.pp[g] = k.pp[g]
  BY SetMild DEF Flags
<1>2. u \in KState /\ f \in Channel
  BY <1>1 DEF Gentle, Mild, Channel
<1>3. StayWith(p, [u EXCEPT !.w = SleepCatch(@, p, f)], where, left, sp)
  BY DEF LockSleep
<1> HIDE DEF u
<1>4. Lands(p, u, where, left, sp)
  BY <1>2, <1>3, SleepLands
<1>5. {"LOCK", "LWANT"} \subseteq u.pp[f].state
  BY <1>1 DEF Locked
<1> QED
  BY <1>1, <1>4, <1>5

\* pipelock() with PIPE_LOCK clear
LEMMA LockLands ==
    ASSUME NEW p \in Proc, NEW f \in End, NEW k \in KState,
           NEW where, where # "idle", NEW left, NEW sp, StayWith(p, Lock(k, f), where, left, sp)
    PROVE  \E u : /\ Lands(p, u, where, left, sp) /\ Gentle(k, u)
                  /\ "LOCK" \in u.pp[f].state
                  /\ u.pp[f].busy = k.pp[f].busy
                  /\ \A g \in End : g # f => u.pp[g] = k.pp[g]
<1> DEFINE u == Lock(k, f)
<1>1. /\ Gentle(k, u) /\ u.pp[f].state = k.pp[f].state \cup {"LOCK"}
      /\ u.pp[f].busy = k.pp[f].busy
      /\ \A g \in End : g # f => u.pp[g] = k.pp[g]
  BY SetMild DEF Flags, Lock
<1>2. After(p, u, where, left, sp)
  BY DEF After
<1> HIDE DEF u
<1>3. Lands(p, u, where, left, sp)
  BY <1>2 DEF Lands
<1> QED
  BY <1>1, <1>3

\* The loop of pipe_write(), begun in k with `left' bytes to go, ends at where:
\* whom it has woken, and what it waits for.
WriteWakes(p, f, k, left, u, where, sp) ==
    /\ Gentle(k, u)
    /\ \A g \in End : g # f => u.pp[g] = k.pp[g]
    /\ u.pp[f].busy = IF where = "idle" THEN k.pp[f].busy - 1 ELSE k.pp[f].busy
    /\ where = "idle" /\ u.pp[f].busy = 0 /\ "WANT" \in k.pp[f].state => Nobody(u, f)
    /\ where \in {"idle", "pipewr"} /\ k.pp[f].cnt > 0 =>
          /\ "WANTR" \in k.pp[f].state => Nobody(u, f)
          /\ Unpolled(k, u, f)
    /\ where = "wlock" => "LOCK" \in k.pp[f].state /\ "LWANT" \in u.pp[f].state
    /\ where = "wmove" => /\ "LOCK" \notin k.pp[f].state /\ "LOCK" \in u.pp[f].state
                          /\ sp = Usable(p, k, f, left)
    /\ where # "wmove" => ("LOCK" \in u.pp[f].state <=> "LOCK" \in k.pp[f].state)
    /\ where = "pipewr" => /\ "EOF" \notin k.pp[f].state /\ "WANTW" \in u.pp[f].state
                           /\ Usable(p, k, f, left) = 0 /\ left > 0
    /\ left > 0 /\ "EOF" \notin k.pp[f].state /\ Usable(p, k, f, left) > 0
          => where \in {"wlock", "wmove"}

\* However pipe_write()'s loop goes on, it wakes those whom it has data for.
LEMMA WriteLoopWakes ==
    ASSUME NEW p \in Proc, NEW f \in End, NEW k \in KState, k.pp[f].busy > 0,
           NEW left \in Nat, WriteLoop(p, k, f, left)
    PROVE  \E u, where, sp :
              /\ where \in {"idle", "wlock", "wmove", "pipewr"}
              /\ Lands(p, u, where, left, sp) /\ WriteWakes(p, f, k, left, u, where, sp)
<1> DEFINE Goal == \E u, where, sp :
              /\ where \in {"idle", "wlock", "wmove", "pipewr"}
              /\ Lands(p, u, where, left, sp) /\ WriteWakes(p, f, k, left, u, where, sp)
           usable == Usable(p, k, f, left)
<1>0. SUFFICES Goal
  OBVIOUS
<1>1. ASSUME NEW v \in KState, Gentle(k, v), v.pp[f].busy = k.pp[f].busy,
             "LOCK" \in v.pp[f].state <=> "LOCK" \in k.pp[f].state,
             "WANT" \in k.pp[f].state => "WANT" \in v.pp[f].state,
             \A g \in End : g # f => v.pp[g] = k.pp[g],
             ~(left > 0 /\ "EOF" \notin k.pp[f].state /\ usable > 0),
             WriteDone(p, v, f)
      PROVE  Goal
  <2>1. PICK m : /\ Leaves(p, f, v, m)
                 /\ v.pp[f].cnt > 0 =>
                       /\ "WANTR" \in v.pp[f].state => Nobody(m, f)
                       /\ Unpolled(v, m, f)
    BY <1>1, WriteDoneWakes
  <2>2. Gentle(k, m) /\ Mild(k, v) /\ OnlyWakes(v, m)
    BY <1>1, <2>1, GentleTrans DEF Leaves, Gentle, Mild
  <2>3. v.pp[f].cnt = k.pp[f].cnt
    BY <1>1 DEF Gentle, SameCounts
  <2>4. k.pp[f].cnt > 0 => Unpolled(k, m, f)
    BY <2>1, <2>2, <2>3, MildUnpolled
  <2>5. "WANTR" \in Wants
    BY DEF Wants
  <2>6. k.pp[f].cnt > 0 /\ "WANTR" \in k.pp[f].state => Nobody(m, f)
    BY <2>1, <2>2, <2>3, <2>5, MildFlag
  <2>7. WriteWakes(p, f, k, left, m, "idle", 0)
    BY <1>1, <2>1, <2>2, <2>4, <2>6 DEF WriteWakes, Leaves
  <2>8. Lands(p, m, "idle", left, 0)
    BY <2>1 DEF Lands, After, Leaves
  <2> QED
    BY <2>7, <2>8
<1> DEFINE awake == WakeIf(k, f, "WANTR")
           sel == pipeselwakeup(awake, f)
           wants == SetFlags(sel, f, {"WANTW"})
<1>2. /\ Gentle(k, awake)
      /\ "WANTR" \in k.pp[f].state => Nobody(awake, f)
      /\ awake.pp[f].state = k.pp[f].state \ {"WANTR"} /\ awake.pp[f].busy = k.pp[f].busy
      /\ \A g \in End : g # f => awake.pp[g] = k.pp[g]
  BY WakeIfGentle DEF Wants
<1>3. awake \in KState /\ Mild(k, awake)
  BY <1>2 DEF Gentle, Mild
<1> HIDE DEF awake
<1>4. /\ Gentle(awake, sel) /\ Unpolled(awake, sel, f)
      /\ sel.pp[f].state = awake.pp[f].state \ {"SEL"} /\ sel.pp[f].busy = awake.pp[f].busy
      /\ \A g \in End : g # f => sel.pp[g] = awake.pp[g]
  BY <1>3, SelWakeupGentle
<1>5. sel \in KState /\ OnlyWakes(awake, sel)
  BY <1>4 DEF Gentle, Mild
<1> HIDE DEF sel
<1>6. /\ Gentle(sel, wants) /\ wants.pp[f].state = sel.pp[f].state \cup {"WANTW"}
      /\ wants.pp[f].busy = sel.pp[f].busy
      /\ \A g \in End : g # f => wants.pp[g] = sel.pp[g]
  BY <1>5, SetMild DEF Flags
<1> HIDE DEF wants
<1>7. Gentle(awake, wants) /\ Gentle(k, wants)
  BY <1>2, <1>4, <1>6, GentleTrans
<1>8. wants \in KState /\ OnlyWakes(awake, wants) /\ OnlyWakes(sel, wants)
  BY <1>6, <1>7 DEF Gentle, Mild
<1>9. CASE (left = 0 \/ Eof(k, f)) /\ WriteDone(p, k, f)
  <2>1. ~(left > 0 /\ "EOF" \notin k.pp[f].state /\ usable > 0)
    BY <1>9 DEF Eof
  <2> QED
    BY <1>1, <1>9, <2>1, GentleSame
<1>10. CASE usable = 0 /\ WriteDone(p, awake, f)
  <2>1. ~(left > 0 /\ "EOF" \notin k.pp[f].state /\ usable > 0)
    BY <1>10
  <2>2. /\ "LOCK" \in awake.pp[f].state <=> "LOCK" \in k.pp[f].state
        /\ "WANT" \in k.pp[f].state => "WANT" \in awake.pp[f].state
    BY <1>2
  <2> QED
    BY <1>1, <1>2, <1>3, <1>10, <2>1, <2>2
<1>11. CASE /\ left > 0 /\ ~Eof(k, f) /\ usable > 0 /\ Locked(k, f)
            /\ StayWith(p, LockSleep(k, p, f), "wlock", left, usable)
  <2>1. PICK u : /\ Lands(p, u, "wlock", left, usable) /\ Gentle(k, u)
                 /\ {"LOCK", "LWANT"} \subseteq u.pp[f].state
                 /\ u.pp[f].busy = k.pp[f].busy
                 /\ \A g \in End : g # f => u.pp[g] = k.pp[g]
    BY <1>11, LockSleepLands
  <2>2. WriteWakes(p, f, k, left, u, "wlock", usable)
    BY <1>11, <2>1 DEF WriteWakes, Locked
  <2> QED
    BY <2>1, <2>2
<1>12. CASE /\ left > 0 /\ ~Eof(k, f) /\ usable > 0 /\ ~Locked(k, f)
            /\ StayWith(p, Lock(k, f), "wmove", left, usable)
  <2>1. PICK u : /\ Lands(p, u, "wmove", left, usable) /\ Gentle(k, u)
                 /\ "LOCK" \in u.pp[f].state
                 /\ u.pp[f].busy = k.pp[f].busy
                 /\ \A g \in End : g # f => u.pp[g] = k.pp[g]
    BY <1>12, LockLands
  <2>2. WriteWakes(p, f, k, left, u, "wmove", usable)
    BY <1>12, <2>1 DEF WriteWakes, Locked
  <2> QED
    BY <2>1, <2>2
<1>13. CASE /\ left > 0 /\ ~Eof(k, f) /\ usable = 0
            /\ Stay(p, [wants EXCEPT !.w = SleepCatch(@, p, f)], "pipewr", left)
  <2>1. Lands(p, wants, "pipewr", left, 0)
    <3>1. StayWith(p, [wants EXCEPT !.w = SleepCatch(@, p, f)], "pipewr", left, 0) /\ f \in Channel
      BY <1>13 DEF Stay, Channel
    <3> QED
      BY <1>8, <3>1, SleepLands
  <2>2. "WANTR" \in k.pp[f].state => Nobody(wants, f)
    BY <1>2, <1>8, NobodyStays
  <2>3. Unpolled(k, wants, f)
    <3>1. Unpolled(k, sel, f)
      BY <1>3, <1>4, <1>5, MildUnpolled
    <3> QED
      BY <1>8, <3>1, UnpolledStays
  <2>4. /\ \A g \in End : g # f => wants.pp[g] = k.pp[g]
        /\ wants.pp[f].busy = k.pp[f].busy
        /\ "LOCK" \in wants.pp[f].state <=> "LOCK" \in k.pp[f].state
        /\ "WANTW" \in wants.pp[f].state
    BY <1>2, <1>4, <1>6
  <2>5. WriteWakes(p, f, k, left, wants, "pipewr", 0)
    BY <1>7, <1>13, <2>2, <2>3, <2>4 DEF WriteWakes, Eof
  <2> QED
    BY <2>1, <2>5
<1> HIDE DEF Goal, usable
<1>14. CASE (left = 0 \/ Eof(k, f)) /\ WriteDone(p, k, f)
  BY <1>9, <1>14
<1>15. CASE /\ left > 0 /\ ~Eof(k, f) /\ usable > 0
            /\ IF Locked(k, f) THEN StayWith(p, LockSleep(k, p, f), "wlock", left, usable)
               ELSE StayWith(p, Lock(k, f), "wmove", left, usable)
  BY <1>11, <1>12, <1>15
<1>16. CASE left > 0 /\ ~Eof(k, f) /\ usable = 0 /\ WriteFull(p, k, f, left)
  BY <1>10, <1>13, <1>16 DEF WriteFull, awake, sel, wants
<1> QED
  BY <1>14, <1>15, <1>16 DEF WriteLoop, usable

-----------------------------------------------------------------------------
\* PIPE_EOF says that an end is closing or the other one is gone.
Ended ==
    \A g \in End :
        /\ ~pipe[g].live => pipe[g].state = {}
        /\ pipe[g].live => ("EOF" \in pipe[g].state
                              <=> closer[g] = "pipecl" \/ closer[Peer(g)] = "closed")

\* Somebody has PIPE_LOCK when it is set ...
LockHeld == \A g \in End : "LOCK" \in pipe[g].state => \E p \in Proc : Is(p, g, Holding)

\* ... and who sleeps for it has said so.
LockPlaces == {"lock", "relock", "wlock", "wbig"}
LockWanted ==
    \A p \in Proc : ~Awake(p) /\ pc[p] \in LockPlaces
        => {"LOCK", "LWANT"} \subseteq pipe[Target(p)].state

\* q will fill the pipe that it has emptied.
Filler(q, g) ==
    /\ Is(q, g, {"wmove"}) /\ op[q].n > PIPE_SIZE /\ q \notin Faulty
    /\ pipe[g].cnt + space[q] >= MINPIPESIZE /\ pipe[g].cnt + resid[q] >= MINPIPESIZE

Frees(q, g) == Is(q, g, {"move"}) \/ Filler(q, g)

\* A writer sleeps while there is a reader and no space.
WriterWaits ==
    \A g \in End, p \in Proc : Is(p, g, {"pipewr"}) /\ ~Awake(p) =>
        /\ "EOF" \notin pipe[g].state /\ "WANTW" \in pipe[g].state
        /\ pipe[g].cnt < MINPIPESIZE => \E q \in Proc : Frees(q, g)

\* A poller is on record in the pipes it polls ...
Polled(p) ==
    {g \in End : \/ g = op[p].file /\ "IN" \in op[p].ev
                 \/ g = Peer(op[p].file) /\ "OUT" \in op[p].ev}

Selecting(p) == pc[p] = "select" /\ ~Awake(p)

PollerRecorded ==
    \A p \in Proc : Selecting(p) =>
        /\ Polled(p) # {}
        /\ \A g \in Polled(p) : Recorded(Now, p, g) /\ "EOF" \notin pipe[g].state

\* ... and sleeps while there are no data or no space there.
PollerWaits ==
    \A p \in Proc : Selecting(p) =>
        \A g \in Polled(p) :
            /\ g = op[p].file /\ pipe[g].cnt > 0
                  => \E q \in Proc : Is(q, g, {"wlock", "wmove"})
            /\ g = Peer(op[p].file) /\ pipe[g].size - pipe[g].cnt >= PIPE_BUF
                  => \E q \in Proc : Frees(q, g)

\* A close sleeps while the pipe is busy.
CloserWaits == \A g \in End : ~Awake(g) => "WANT" \in pipe[g].state /\ pipe[g].busy > 0

\* What a call that has yet to transfer anything is about to transfer
Starts ==
    \A p \in Proc :
        /\ pc[p] \in {"write", "wbig", "alloc"} => resid[p] = op[p].n
        /\ pc[p] \in {"wbig", "alloc"} => op[p].n > PIPE_SIZE
        /\ pc[p] \in Reading => resid[p] <= op[p].n

\* A pipe that is made bigger by a thread that may fault is empty.
SoleEmpty ==
    \A p \in Proc : p \in Faulty /\ pc[p] \in {"wbig", "alloc"} => pipe[Target(p)].cnt = 0

WatchInv ==
    /\ Ended /\ LockHeld /\ LockWanted /\ ReaderNotForgotten /\ WriterWaits
    /\ PollerRecorded /\ PollerWaits /\ CloserWaits /\ Starts /\ SoleEmpty
    /\ ops \in Workloads

-----------------------------------------------------------------------------
\* What p has woken at the end of its step, by what it did to the data
Feeds(p, f, u, where) ==
    /\ pc[p] \notin {"wlock", "wmove"} => u.pp[f].cnt <= pipe[f].cnt
    /\ pc[p] \in {"wlock", "wmove"} /\ where \notin {"wlock", "wmove"} /\ u.pp[f].cnt > 0 =>
          /\ Unpolled(Now, u, f)
          /\ "WANTR" \in pipe[f].state => Nobody(u, f)

Drains(p, f, u, where, left, sp) ==
    /\ pc[p] \notin {"move", "alloc"} => u.pp[f].cnt >= pipe[f].cnt
    /\ pc[p] # "alloc" => u.pp[f].size = pipe[f].size
    /\ pc[p] = "move" /\ where # "move" =>
          /\ u.pp[f].cnt < MINPIPESIZE /\ "WANTW" \in pipe[f].state => Nobody(u, f)
          /\ u.pp[f].size - u.pp[f].cnt >= PIPE_BUF => Unpolled(Now, u, f)
    /\ pc[p] = "alloc" =>
          \/ u.pp[f].cnt = pipe[f].cnt /\ u.pp[f].size = pipe[f].size
          \/ "EOF" \in pipe[f].state
          \/ where = "wmove" /\ u.pp[f].cnt = 0 /\ sp >= MINPIPESIZE /\ left = op[p].n
    /\ pc[p] = "wmove" /\ p \notin Faulty =>
          /\ where # "wlock" /\ u.pp[f].cnt > 0
          /\ \/ u.pp[f].cnt >= pipe[f].cnt + space[p]
             \/ u.pp[f].cnt >= pipe[f].cnt + resid[p]

\* Where p is then
Waits(p, f, u, where, left) ==
    /\ where \in Place \ {"read", "write", "scan", "select"}
    /\ where \in LockPlaces => {"LOCK", "LWANT"} \subseteq u.pp[f].state
    /\ where \notin Holding /\ "LOCK" \in u.pp[f].state
          => pc[p] \notin Holding /\ "LOCK" \in pipe[f].state
    /\ where = "piperd" => /\ "EOF" \notin pipe[f].state /\ "WANTR" \in u.pp[f].state
                           /\ u.pp[f].cnt = 0
    /\ where = "pipewr" => /\ "EOF" \notin pipe[f].state /\ "WANTW" \in u.pp[f].state
                           /\ u.pp[f].cnt >= MINPIPESIZE
    /\ where \in {"wbig", "alloc"} => /\ left = op[p].n /\ op[p].n > PIPE_SIZE
                                      /\ p \in Faulty => u.pp[f].cnt = 0
    /\ where \in Reading => left <= op[p].n

\* A step of p in pipe_read() or pipe_write(), on pipe f
Turn(p, f, u, where, left, sp) ==
    /\ f = Target(p) /\ pc[p] \in Reading \cup Writing
    /\ Mild(Now, u) /\ SameEof(Now, u)
    /\ \A g \in End : g # f => u.pp[g] = pipe[g]
    /\ pipe[f].live \/ u.pp[f].state = pipe[f].state
    /\ pipe[f].busy > 0 /\ u.pp[f].busy = 0 /\ "WANT" \in pipe[f].state => Nobody(u, f)
    /\ Lands(p, u, where, left, sp) /\ closer' = closer /\ ops' = ops
    /\ Feeds(p, f, u, where) /\ Drains(p, f, u, where, left, sp) /\ Waits(p, f, u, where, left)

\* What such a step does to the variables
LEMMA TurnVars ==
    ASSUME Types, NEW p \in Proc, NEW f, NEW u, NEW where, NEW left, NEW sp,
           Turn(p, f, u, where, left, sp)
    PROVE  /\ f \in End /\ u \in KState /\ pipe' = u.pp
           /\ Now.w = p_wchan /\ Now.pp = pipe /\ Now \in KState
           /\ pc'[p] = where
           /\ where # "idle" => /\ op'[p] = op[p] /\ Target(p)' = f
                                /\ resid'[p] = left /\ space'[p] = sp
           /\ \A a \in Proc : a # p => /\ pc'[a] = pc[a] /\ op'[a] = op[a]
                                       /\ Target(a)' = Target(a)
                                       /\ resid'[a] = resid[a] /\ space'[a] = space[a]
           /\ \A a \in Actor : a # p => p_wchan'[a] = u.w[a]
           /\ \A a \in Actor : a # p /\ ~Awake(a)' => ~Awake(a) /\ u.w[a] = p_wchan[a]
<1>1. f \in End /\ u \in KState
  BY NowTypes DEF Turn, Mild
<1>2. PICK m : /\ After(p, m, where, left, sp)
               /\ m.pp = u.pp /\ \A a \in Actor : a # p => m.w[a] = u.w[a]
  BY DEF Turn, Lands
<1>3. pipe' = u.pp /\ p_wchan' = m.w
  BY <1>2 DEF After, Return, StayWith, Commit
<1>4. op = [op EXCEPT ![p] = op[p]]
  BY DEF Types
<1>5. /\ pc' = [pc EXCEPT ![p] = where]
      /\ op' = [op EXCEPT ![p] = IF where = "idle" THEN NoOp ELSE op[p]]
      /\ resid' = [resid EXCEPT ![p] = IF where = "idle" THEN 0 ELSE left]
      /\ space' = [space EXCEPT ![p] = IF where = "idle" THEN 0 ELSE sp]
  BY <1>2, <1>4 DEF After, Return, StayWith
<1>6. /\ pc'[p] = where
      /\ where # "idle" => op'[p] = op[p] /\ resid'[p] = left /\ space'[p] = sp
      /\ \A a \in Proc : a # p => /\ pc'[a] = pc[a] /\ op'[a] = op[a]
                                  /\ resid'[a] = resid[a] /\ space'[a] = space[a]
  BY <1>5 DEF Types, TypeOK
<1>7. where # "idle" => Target(p)' = f
  BY <1>6 DEF Target, Turn
<1>8. \A a \in Proc : a # p => Target(a)' = Target(a)
  BY <1>6 DEF Target
<1>9. Now.w = p_wchan /\ Now.pp = pipe /\ Now \in KState
  BY NowTypes
<1>10. \A a \in Actor : u.w[a] \in {p_wchan[a], NoChan}
  BY <1>9 DEF Turn, Mild, OnlyWakes
<1>11. \A a \in Actor : a # p /\ ~Awake(a)' => ~Awake(a) /\ u.w[a] = p_wchan[a]
  BY <1>2, <1>3, <1>10 DEF Awake
<1> QED
  BY <1>1, <1>2, <1>3, <1>6, <1>7, <1>8, <1>9, <1>11

\* A flag that asks for a wakeup is there as long as somebody sleeps on the pipe.
LEMMA TurnFlag ==
    ASSUME Types, NEW p \in Proc, NEW f, NEW u, NEW where, NEW left, NEW sp,
           Turn(p, f, u, where, left, sp), NEW a \in Actor, a # p, NEW g \in End,
           p_wchan'[a] = g
    PROVE  /\ ~Nobody(u, g)
           /\ \A x \in Wants : x \in pipe[g].state => x \in pipe'[g].state
           /\ {"LOCK", "LWANT"} \subseteq pipe[g].state => {"LOCK", "LWANT"} \subseteq pipe'[g].state
<1>1. /\ pipe' = u.pp /\ Now.pp = pipe
      /\ p_wchan'[a] = u.w[a]
  BY TurnVars
<1>2. ~Nobody(u, g)
  BY <1>1 DEF Nobody
<1>3. \A x \in Wants : x \in pipe[g].state => x \in pipe'[g].state
  BY <1>1, <1>2 DEF Turn, Mild
<1>4. {"LOCK", "LWANT"} \subseteq pipe[g].state => "LOCK" \in pipe'[g].state
  BY <1>1, <1>2 DEF Turn, Mild
<1> QED
  BY <1>2, <1>3, <1>4 DEF Wants

\* A thread asleep on a pipe before and after
LEMMA TurnSleeper ==
    ASSUME Types, PipeInv', NEW p \in Proc, NEW f, NEW u, NEW where, NEW left, NEW sp,
           Turn(p, f, u, where, left, sp), NEW a \in Proc, a # p, ~Awake(a)',
           pc'[a] \in Waiting
    PROVE  ~Awake(a) /\ p_wchan'[a] = Target(a) /\ Target(a) \in End /\ a \in Actor
<1>1. a \in Actor
  BY DEF Actor
<1>2. ~Awake(a) /\ Target(a)' = Target(a) /\ Target(a) \in End
  BY <1>1, TurnVars, NowTypes
<1>3. p_wchan'[a] = Target(a)'
  <2>1. Channels'
    BY DEF PipeInv
  <2> QED
    BY <2>1 DEF Channels, Waiting
<1> QED
  BY <1>1, <1>2, <1>3

\* Such a step keeps WatchInv, part by part: what PIPE_EOF says, ...
LEMMA TurnEnded ==
    ASSUME PipeInv, PipeInv', Ended, NEW p \in Proc, NEW f, NEW u, NEW where, NEW left,
           NEW sp, Turn(p, f, u, where, left, sp)
    PROVE  Ended'
<1>1. Types /\ Connected /\ Connected'
  BY DEF PipeInv
<1>2. f \in End /\ pipe' = u.pp /\ Now.pp = pipe /\ closer' = closer
  BY <1>1, TurnVars DEF Turn
<1>3. \A g \in End : pipe'[g].live <=> pipe[g].live
  BY <1>1, <1>2 DEF Connected
<1>4. \A g \in End : "EOF" \in pipe'[g].state <=> "EOF" \in pipe[g].state
  BY <1>2 DEF Turn, SameEof
<1>5. \A g \in End : ~pipe[g].live => pipe'[g].state = pipe[g].state
  BY <1>2 DEF Turn
<1> QED
  BY <1>2, <1>3, <1>4, <1>5 DEF Ended

\* ... who has PIPE_LOCK ...
LEMMA TurnLockHeld ==
    ASSUME Types, LockExclusive, LockHeld, NEW p \in Proc, NEW f, NEW u, NEW where,
           NEW left, NEW sp, Turn(p, f, u, where, left, sp)
    PROVE  LockHeld'
<1>1. /\ f \in End /\ pipe' = u.pp /\ pc'[p] = where
      /\ where # "idle" => Target(p)' = f
      /\ \A a \in Proc : a # p => pc'[a] = pc[a] /\ Target(a)' = Target(a)
  BY TurnVars
<1>2. f = Target(p)
  BY DEF Turn
<1> SUFFICES ASSUME NEW g \in End, "LOCK" \in pipe'[g].state
             PROVE  \E a \in Proc : Is(a, g, Holding)'
  BY DEF LockHeld
<1>3. CASE g # f
  <2>1. "LOCK" \in pipe[g].state
    BY <1>1, <1>3 DEF Turn
  <2>2. PICK a \in Proc : Is(a, g, Holding)
    BY <2>1 DEF LockHeld
  <2> QED
    BY <1>1, <1>2, <1>3, <2>2 DEF Is
<1>4. CASE g = f /\ where \in Holding
  <2>1. Is(p, g, Holding)'
    BY <1>1, <1>4 DEF Is, Holding
  <2> QED
    BY <2>1
<1>5. CASE g = f /\ where \notin Holding
  <2>1. pc[p] \notin Holding /\ "LOCK" \in pipe[f].state
    BY <1>1, <1>5 DEF Turn, Waits
  <2>2. PICK a \in Proc : Is(a, f, Holding)
    BY <1>1, <2>1 DEF LockHeld
  <2> QED
    BY <1>1, <1>5, <2>1, <2>2 DEF Is
<1> QED
  BY <1>3, <1>4, <1>5

\* ... and who wants it, ...
LEMMA TurnLockWanted ==
    ASSUME Types, PipeInv', LockWanted, NEW p \in Proc, NEW f, NEW u, NEW where,
           NEW left, NEW sp, Turn(p, f, u, where, left, sp)
    PROVE  LockWanted'
<1>1. /\ f \in End /\ pipe' = u.pp /\ pc'[p] = where
      /\ where # "idle" => Target(p)' = f
      /\ \A a \in Proc : a # p => pc'[a] = pc[a] /\ Target(a)' = Target(a)
  BY TurnVars
<1> SUFFICES ASSUME NEW a \in Proc, ~Awake(a)', pc'[a] \in LockPlaces
             PROVE  {"LOCK", "LWANT"} \subseteq pipe'[Target(a)'].state
  BY DEF LockWanted
<1>2. CASE a = p
  <2>1. where \in LockPlaces /\ where # "idle"
    BY <1>1, <1>2 DEF LockPlaces
  <2> QED
    BY <1>1, <1>2, <2>1 DEF Turn, Waits
<1>3. CASE a # p
  <2>1. ~Awake(a) /\ p_wchan'[a] = Target(a) /\ Target(a) \in End /\ a \in Actor
    BY <1>3, TurnSleeper DEF LockPlaces, Waiting
  <2>2. {"LOCK", "LWANT"} \subseteq pipe[Target(a)].state
    BY <1>1, <1>3, <2>1 DEF LockWanted
  <2> QED
    BY <1>1, <1>3, <2>1, <2>2, TurnFlag
<1> QED
  BY <1>2, <1>3

\* Whoever has put data into a pipe and has not finished, before such a step: there
\* is one after it, or the readers and pollers were woken.
LEMMA TurnFeeds ==
    ASSUME Types, NEW p \in Proc, NEW f, NEW u, NEW where, NEW left, NEW sp,
           Turn(p, f, u, where, left, sp), NEW g \in End,
           pipe[g].cnt > 0 => \E q \in Proc : Is(q, g, {"wlock", "wmove"}),
           pipe'[g].cnt > 0,
           ("WANTR" \in pipe[g].state /\ ~Nobody(u, g)) \/ ~Unpolled(Now, u, g)
    PROVE  \E q \in Proc : Is(q, g, {"wlock", "wmove"})'
<1>1. /\ f \in End /\ u \in KState /\ pipe' = u.pp /\ pc'[p] = where
      /\ where # "idle" => Target(p)' = f
      /\ \A a \in Proc : a # p => pc'[a] = pc[a] /\ Target(a)' = Target(a)
  BY TurnVars
<1>2. f = Target(p)
  BY DEF Turn
<1>3. u.pp[f].cnt \in Nat /\ pipe[f].cnt \in Nat
  BY <1>1 DEF KState, PipeRecord, Types
<1>4. CASE g # f
  <2>1. PICK b \in Proc : Is(b, g, {"wlock", "wmove"})
    BY <1>1, <1>4 DEF Turn
  <2> QED
    BY <1>1, <1>2, <1>4, <2>1 DEF Is
<1>5. CASE g = f /\ where \in {"wlock", "wmove"}
  <2>1. Is(p, g, {"wlock", "wmove"})'
    BY <1>1, <1>5 DEF Is
  <2> QED
    BY <2>1
<1>6. CASE g = f /\ where \notin {"wlock", "wmove"}
  <2>1. pc[p] \notin {"wlock", "wmove"}
    BY <1>1, <1>6 DEF Turn, Feeds
  <2>2. u.pp[f].cnt <= pipe[f].cnt
    BY <2>1 DEF Turn, Feeds
  <2>3. pipe[f].cnt > 0
    BY <1>1, <1>3, <1>6, <2>2
  <2>4. PICK b \in Proc : Is(b, f, {"wlock", "wmove"})
    BY <1>6, <2>3
  <2> QED
    BY <1>1, <1>6, <2>1, <2>4 DEF Is
<1> QED
  BY <1>4, <1>5, <1>6

\* ... readers, ...
LEMMA TurnReaders ==
    ASSUME Types, PipeInv', ReaderNotForgotten, NEW p \in Proc, NEW f, NEW u, NEW where,
           NEW left, NEW sp, Turn(p, f, u, where, left, sp)
    PROVE  ReaderNotForgotten'
<1>1. /\ f \in End /\ pipe' = u.pp /\ pc'[p] = where /\ Now.pp = pipe
      /\ where # "idle" => Target(p)' = f
      /\ \A a \in Proc : a # p => pc'[a] = pc[a] /\ Target(a)' = Target(a)
  BY TurnVars
<1>2. f = Target(p)
  BY DEF Turn
<1>3. \A g \in End : "EOF" \in pipe'[g].state <=> "EOF" \in pipe[g].state
  BY <1>1 DEF Turn, SameEof
<1>4. Now'.pp = pipe'
  BY DEF Now
<1> SUFFICES ASSUME NEW g \in End, NEW a \in Proc, Is(a, g, {"piperd"})', ~Awake(a)'
             PROVE  /\ "EOF" \notin pipe'[g].state /\ "WANTR" \in pipe'[g].state
                    /\ pipe'[g].cnt > 0 => \E b \in Proc : Is(b, g, {"wlock", "wmove"})'
  BY <1>4 DEF ReaderNotForgotten, Eof
<1>6. CASE a = p
  <2>1. where = "piperd" /\ g = f
    BY <1>1, <1>6 DEF Is
  <2>2. /\ "EOF" \notin pipe[f].state /\ "WANTR" \in u.pp[f].state /\ u.pp[f].cnt = 0
    BY <2>1 DEF Turn, Waits
  <2> QED
    BY <1>1, <1>3, <2>1, <2>2
<1>7. CASE a # p
  <2>1. pc'[a] = "piperd" /\ pc[a] = "piperd" /\ Target(a) = g
    BY <1>1, <1>7 DEF Is
  <2>2. ~Awake(a) /\ p_wchan'[a] = g /\ a \in Actor
    BY <1>7, <2>1, TurnSleeper DEF Waiting
  <2>3. /\ "EOF" \notin pipe[g].state /\ "WANTR" \in pipe[g].state
        /\ pipe[g].cnt > 0 => \E b \in Proc : Is(b, g, {"wlock", "wmove"})
    BY <1>1, <2>1, <2>2 DEF ReaderNotForgotten, Is, Eof
  <2>4. ~Nobody(u, g) /\ "WANTR" \in pipe'[g].state
    BY <1>7, <2>2, <2>3, TurnFlag DEF Wants
  <2>5. pipe'[g].cnt > 0 => \E b \in Proc : Is(b, g, {"wlock", "wmove"})'
    BY <2>3, <2>4, TurnFeeds
  <2> QED
    BY <1>3, <2>3, <2>4, <2>5
<1> QED
  BY <1>6, <1>7

\* Whoever has made space and has not finished, before such a step: there is one
\* after it, or the writers and pollers were woken.
LEMMA TurnFrees ==
    ASSUME Types, Types', LockExclusive, Starts, SoleEmpty, NEW p \in Proc, NEW f, NEW u,
           NEW where, NEW left, NEW sp, Turn(p, f, u, where, left, sp), NEW g \in End,
           "EOF" \notin pipe[g].state,
           \/ /\ pipe[g].cnt < MINPIPESIZE => \E q \in Proc : Frees(q, g)
              /\ pipe'[g].cnt < MINPIPESIZE
              /\ "WANTW" \in pipe[g].state /\ ~Nobody(u, g)
           \/ /\ pipe[g].size - pipe[g].cnt >= PIPE_BUF => \E q \in Proc : Frees(q, g)
              /\ pipe'[g].size - pipe'[g].cnt >= PIPE_BUF
              /\ ~Unpolled(Now, u, g)
    PROVE  \E q \in Proc : Frees(q, g)'
<1>1. /\ f \in End /\ pipe' = u.pp /\ pc'[p] = where /\ Now.pp = pipe
      /\ where # "idle" => /\ op'[p] = op[p] /\ Target(p)' = f
                           /\ resid'[p] = left /\ space'[p] = sp
      /\ \A a \in Proc : a # p => /\ pc'[a] = pc[a] /\ op'[a] = op[a]
                                  /\ Target(a)' = Target(a)
                                  /\ resid'[a] = resid[a] /\ space'[a] = space[a]
  BY TurnVars
<1>2. f = Target(p)
  BY DEF Turn
<1>3. /\ u.pp[f].cnt \in Nat /\ pipe[f].cnt \in Nat /\ pipe[f].size \in Nat /\ u.pp[f].size \in Nat
      /\ MINPIPESIZE \in Nat /\ MINPIPESIZE > 0 /\ PIPE_BUF \in Nat /\ PIPE_SIZE \in Nat
      /\ PIPE_BUF + MINPIPESIZE <= PIPE_SIZE /\ pipe[f].size >= PIPE_SIZE
  <2>1. PIPE_SIZE \in Nat /\ BIG_PIPE_SIZE \in Nat /\ PIPE_BUF \in Nat /\ PIPE_SIZE < BIG_PIPE_SIZE
    BY PipeAssumption
  <2>2. MINPIPESIZE \in Nat
    BY <2>1 DEF MINPIPESIZE
  <2>3. u.pp[f].cnt \in Nat /\ pipe[f].cnt \in Nat /\ pipe[f].size \in {PIPE_SIZE, BIG_PIPE_SIZE}
        /\ u.pp[f].size \in {PIPE_SIZE, BIG_PIPE_SIZE}
    BY <1>1, TurnVars DEF KState, PipeRecord, Types
  <2> QED
    BY <2>1, <2>2, <2>3, PipeAssumption
<1>4. \A a \in Proc : /\ resid[a] \in Nat /\ space[a] \in Nat
                      /\ resid'[a] \in Nat /\ space'[a] \in Nat
  BY DEF Types, TypeOK
<1>5. ASSUME NEW q \in Proc, Frees(q, f)
      PROVE  Is(q, f, Holding)
  BY <1>5 DEF Frees, Filler, Is, Holding
<1>6. CASE g # f
  <2>1. pipe'[g] = pipe[g]
    BY <1>1, <1>6 DEF Turn
  <2>2. PICK q \in Proc : Frees(q, g)
    BY <2>1
  <2>3. q # p
    BY <1>2, <1>6, <2>2 DEF Frees, Filler, Is
  <2> QED
    BY <1>1, <2>1, <2>2, <2>3 DEF Frees, Filler, Is
<1>7. CASE g = f /\ pc[p] = "move"
  <2>1. where = "move"
    <3>1. ASSUME where # "move"
          PROVE  /\ u.pp[f].cnt < MINPIPESIZE /\ "WANTW" \in pipe[f].state => Nobody(u, f)
                 /\ u.pp[f].size - u.pp[f].cnt >= PIPE_BUF => Unpolled(Now, u, f)
      BY <1>7, <3>1 DEF Turn, Drains
    <3> QED
      BY <1>1, <1>7, <3>1
  <2>2. Is(p, f, {"move"})'
    BY <1>1, <2>1 DEF Is
  <2> QED
    BY <1>7, <2>2 DEF Frees
<1>8. CASE g = f /\ pc[p] = "alloc"
  <2>1. ASSUME NEW q \in Proc, Frees(q, f)
        PROVE  FALSE
    <3>1. Is(p, f, Holding) /\ Is(q, f, Holding)
      BY <1>2, <1>5, <1>8, <2>1 DEF Is, Holding
    <3>2. p = q
      BY <1>1, <3>1 DEF LockExclusive
    <3> QED
      BY <1>8, <2>1, <3>2 DEF Frees, Filler, Is
  <2>2. ~(u.pp[f].cnt = pipe[f].cnt /\ u.pp[f].size = pipe[f].size)
    BY <1>1, <1>8, <2>1
  <2>3. where = "wmove" /\ u.pp[f].cnt = 0 /\ sp >= MINPIPESIZE /\ left = op[p].n
    BY <1>8, <2>2 DEF Turn, Drains
  <2>4. op[p].n > PIPE_SIZE
    BY <1>8 DEF Starts
  <2>5. p \notin Faulty
    <3>1. SUFFICES ASSUME p \in Faulty
                   PROVE  FALSE
      OBVIOUS
    <3>2. pipe[f].cnt = 0
      BY <1>2, <1>8, <3>1 DEF SoleEmpty
    <3>3. pipe[f].cnt < MINPIPESIZE /\ pipe[f].size - pipe[f].cnt >= PIPE_BUF
      BY <1>3, <3>2
    <3> QED
      BY <1>8, <2>1, <3>3
  <2>6. left \in Nat /\ sp \in Nat
    BY <1>1, <1>4, <2>3
  <2>7. 0 + sp >= MINPIPESIZE /\ 0 + left >= MINPIPESIZE
    BY <1>3, <2>3, <2>4, <2>6
  <2>8. Filler(p, f)'
    BY <1>1, <2>3, <2>4, <2>5, <2>7 DEF Filler, Is
  <2> QED
    BY <1>8, <2>8 DEF Frees
<1>9. CASE g = f /\ pc[p] \notin {"move", "alloc"}
  <2>1. u.pp[f].cnt >= pipe[f].cnt /\ u.pp[f].size = pipe[f].size
    BY <1>9 DEF Turn, Drains
  <2>2. PICK q \in Proc : Frees(q, f)
    BY <1>1, <1>3, <1>9, <2>1
  <2>3. CASE q # p
    <3>1. CASE Is(q, f, {"move"})
      BY <1>1, <1>9, <2>3, <3>1 DEF Frees, Is
    <3>2. CASE Filler(q, f)
      <4>1. u.pp[f].cnt + space[q] >= MINPIPESIZE /\ u.pp[f].cnt + resid[q] >= MINPIPESIZE
        BY <1>3, <1>4, <2>1, <3>2 DEF Filler
      <4>2. Filler(q, f)'
        BY <1>1, <2>3, <3>2, <4>1 DEF Filler, Is
      <4> QED
        BY <1>9, <4>2 DEF Frees
    <3> QED
      BY <2>2, <3>1, <3>2 DEF Frees
  <2>4. CASE q = p
    <3>1. Filler(p, f) /\ pc[p] = "wmove" /\ p \notin Faulty
      BY <1>9, <2>2, <2>4 DEF Frees, Filler, Is
    <3>2. /\ where # "wlock" /\ u.pp[f].cnt > 0
          /\ \/ u.pp[f].cnt >= pipe[f].cnt + space[p]
             \/ u.pp[f].cnt >= pipe[f].cnt + resid[p]
      BY <3>1 DEF Turn, Drains
    <3>3. u.pp[f].cnt >= MINPIPESIZE
      BY <1>3, <1>4, <3>1, <3>2 DEF Filler
    <3>4. ~Unpolled(Now, u, f)
      BY <1>1, <1>3, <1>9, <3>3
    <3>5. where = "wmove"
      BY <3>1, <3>2, <3>4 DEF Turn, Feeds
    <3>6. left \in Nat /\ sp \in Nat
      BY <1>1, <1>4, <3>5
    <3>7. u.pp[f].cnt + sp >= MINPIPESIZE /\ u.pp[f].cnt + left >= MINPIPESIZE
      BY <1>3, <3>3, <3>6
    <3>8. Filler(p, f)'
      BY <1>1, <3>1, <3>5, <3>7 DEF Filler, Is
    <3> QED
      BY <1>9, <3>8 DEF Frees
  <2> QED
    BY <2>3, <2>4
<1> QED
  BY <1>6, <1>7, <1>8, <1>9

\* ... writers, ...
LEMMA TurnWriters ==
    ASSUME Types, PipeInv', LockExclusive, Starts, SoleEmpty, WriterWaits, NEW p \in Proc,
           NEW f, NEW u, NEW where, NEW left, NEW sp, Turn(p, f, u, where, left, sp)
    PROVE  WriterWaits'
<1>0. Types'
  BY DEF PipeInv
<1>1. /\ f \in End /\ u \in KState /\ pipe' = u.pp /\ pc'[p] = where /\ Now.pp = pipe
      /\ where # "idle" => Target(p)' = f
      /\ \A a \in Proc : a # p => pc'[a] = pc[a] /\ Target(a)' = Target(a)
  BY TurnVars
<1>2. \A g \in End : "EOF" \in pipe'[g].state <=> "EOF" \in pipe[g].state
  BY <1>1 DEF Turn, SameEof
<1> SUFFICES ASSUME NEW g \in End, NEW a \in Proc, Is(a, g, {"pipewr"})', ~Awake(a)'
             PROVE  /\ "EOF" \notin pipe'[g].state /\ "WANTW" \in pipe'[g].state
                    /\ pipe'[g].cnt < MINPIPESIZE => \E q \in Proc : Frees(q, g)'
  BY DEF WriterWaits
<1>3. CASE a = p
  <2>1. where = "pipewr" /\ g = f
    BY <1>1, <1>3 DEF Is
  <2>2. /\ "EOF" \notin pipe[f].state /\ "WANTW" \in u.pp[f].state
        /\ u.pp[f].cnt >= MINPIPESIZE
    BY <2>1 DEF Turn, Waits
  <2>3. u.pp[f].cnt \in Nat /\ MINPIPESIZE \in Int
    BY <1>1, PipeAssumption DEF KState, PipeRecord, MINPIPESIZE
  <2> QED
    BY <1>1, <1>2, <2>1, <2>2, <2>3
<1>4. CASE a # p
  <2>1. pc'[a] = "pipewr" /\ pc[a] = "pipewr" /\ Target(a) = g
    BY <1>1, <1>4 DEF Is
  <2>2. ~Awake(a) /\ p_wchan'[a] = g /\ a \in Actor
    BY <1>4, <2>1, TurnSleeper DEF Waiting
  <2>3. /\ "EOF" \notin pipe[g].state /\ "WANTW" \in pipe[g].state
        /\ pipe[g].cnt < MINPIPESIZE => \E q \in Proc : Frees(q, g)
    BY <2>1, <2>2 DEF WriterWaits, Is
  <2>4. ~Nobody(u, g) /\ "WANTW" \in pipe'[g].state
    BY <1>4, <2>2, <2>3, TurnFlag DEF Wants
  <2>5. pipe'[g].cnt < MINPIPESIZE => \E q \in Proc : Frees(q, g)'
    BY <1>0, <2>2, <2>3, <2>4, TurnFrees
  <2> QED
    BY <1>2, <2>1, <2>2, <2>3, <2>4, <2>5
<1> QED
  BY <1>3, <1>4

\* ... pollers, ...
LEMMA TurnPollers ==
    ASSUME PipeInv, PipeInv', Starts, SoleEmpty, PollerRecorded, PollerWaits,
           NEW p \in Proc, NEW f, NEW u, NEW where, NEW left, NEW sp,
           Turn(p, f, u, where, left, sp)
    PROVE  PollerRecorded' /\ PollerWaits'
<1>0. Types /\ Types' /\ LockExclusive /\ Channels
  BY DEF PipeInv
<1>1. /\ f \in End /\ u \in KState /\ pipe' = u.pp /\ pc'[p] = where /\ Now.pp = pipe
      /\ \A a \in Proc : a # p => pc'[a] = pc[a] /\ op'[a] = op[a]
      /\ \A a \in Actor : a # p /\ ~Awake(a)' => ~Awake(a) /\ u.w[a] = p_wchan[a]
  BY <1>0, TurnVars
<1>2. \A g \in End : "EOF" \in pipe'[g].state <=> "EOF" \in pipe[g].state
  BY <1>1 DEF Turn, SameEof
<1>3. Now'.pp = pipe'
  BY DEF Now
<1>4. ASSUME NEW a \in Proc, Selecting(a)'
      PROVE  /\ Selecting(a) /\ op'[a] = op[a] /\ Polled(a)' = Polled(a)
             /\ u.w[a] = "selwait"
  <2>1. where # "select"
    BY DEF Turn, Waits
  <2>2. a # p /\ a \in Actor
    BY <1>1, <1>4, <2>1 DEF Selecting, Actor
  <2>3. pc[a] = "select" /\ ~Awake(a) /\ op'[a] = op[a] /\ u.w[a] = p_wchan[a]
    BY <1>1, <1>4, <2>2 DEF Selecting
  <2>4. p_wchan[a] = "selwait"
    BY <1>0, <2>3 DEF Channels, Waiting
  <2> QED
    BY <2>3, <2>4 DEF Selecting, Polled
<1>5. ASSUME NEW a \in Proc, Selecting(a)', NEW g \in Polled(a)
      PROVE  /\ g \in End /\ Recorded(Now, a, g) /\ ~Unpolled(Now, u, g)
             /\ "EOF" \notin pipe[g].state /\ Recorded(Now, a, g)'
  <2>1. g \in End
    BY DEF Polled
  <2>2. Recorded(Now, a, g) /\ "EOF" \notin pipe[g].state
    BY <1>4, <1>5 DEF PollerRecorded
  <2>3. u.w[a] = "selwait"
    BY <1>4, <1>5
  <2>4. Recorded(u, a, g)
    BY <2>1, <2>2, <2>3 DEF Turn, Mild
  <2>5. Recorded(Now, a, g)'
    BY <1>1, <1>3, <2>4 DEF Recorded
  <2> QED
    BY <2>1, <2>2, <2>3, <2>5 DEF Unpolled
<1>6. PollerRecorded'
  <2> SUFFICES ASSUME NEW a \in Proc, Selecting(a)'
               PROVE  /\ Polled(a)' # {}
                      /\ \A g \in Polled(a)' : Recorded(Now, a, g)' /\ "EOF" \notin pipe'[g].state
    BY DEF PollerRecorded
  <2>1. Polled(a) # {}
    BY <1>4 DEF PollerRecorded
  <2> QED
    BY <1>2, <1>4, <1>5, <2>1
<1>7. PollerWaits'
  <2> SUFFICES ASSUME NEW a \in Proc, Selecting(a)', NEW g \in Polled(a)'
               PROVE  /\ g = op'[a].file /\ pipe'[g].cnt > 0
                            => \E q \in Proc : Is(q, g, {"wlock", "wmove"})'
                      /\ g = Peer(op'[a].file) /\ pipe'[g].size - pipe'[g].cnt >= PIPE_BUF
                            => \E q \in Proc : Frees(q, g)'
    BY DEF PollerWaits
  <2>1. Selecting(a) /\ op'[a] = op[a] /\ g \in Polled(a)
    BY <1>4
  <2>2. g \in End /\ ~Unpolled(Now, u, g) /\ "EOF" \notin pipe[g].state
    BY <1>5, <2>1
  <2>3. /\ g = op[a].file /\ pipe[g].cnt > 0
              => \E q \in Proc : Is(q, g, {"wlock", "wmove"})
        /\ g = Peer(op[a].file) /\ pipe[g].size - pipe[g].cnt >= PIPE_BUF
              => \E q \in Proc : Frees(q, g)
    BY <2>1 DEF PollerWaits
  <2>4. ASSUME g = op[a].file, pipe'[g].cnt > 0
        PROVE  \E q \in Proc : Is(q, g, {"wlock", "wmove"})'
    BY <1>0, <2>2, <2>3, <2>4, TurnFeeds
  <2>5. ASSUME g = Peer(op[a].file), pipe'[g].size - pipe'[g].cnt >= PIPE_BUF
        PROVE  \E q \in Proc : Frees(q, g)'
    BY <1>0, <2>2, <2>3, <2>5, TurnFrees
  <2> QED
    BY <2>1, <2>4, <2>5
<1> QED
  BY <1>6, <1>7

\* ... and closers, ...
LEMMA TurnClosers ==
    ASSUME PipeInv, PipeInv', CloserWaits, NEW p \in Proc, NEW f, NEW u, NEW where, NEW left,
           NEW sp, Turn(p, f, u, where, left, sp)
    PROVE  CloserWaits'
<1>0. Types /\ Channels'
  BY DEF PipeInv
<1>1. /\ f \in End /\ u \in KState /\ pipe' = u.pp
      /\ \A a \in Actor : a # p /\ ~Awake(a)' => ~Awake(a) /\ u.w[a] = p_wchan[a]
  BY <1>0, TurnVars
<1> SUFFICES ASSUME NEW g \in End, ~Awake(g)'
             PROVE  "WANT" \in pipe'[g].state /\ pipe'[g].busy > 0
  BY DEF CloserWaits
<1>2. g \in Actor /\ g # p
  BY PipeAssumption DEF Actor
<1>3. p_wchan'[g] = g
  BY <1>0 DEF Channels
<1>4. ~Awake(g)
  BY <1>1, <1>2
<1>5. "WANT" \in pipe[g].state /\ pipe[g].busy > 0
  BY <1>4 DEF CloserWaits
<1>6. ~Nobody(u, g) /\ "WANT" \in pipe'[g].state
  BY <1>0, <1>2, <1>3, <1>5, TurnFlag DEF Wants
<1>7. u.pp[g].busy \in Nat /\ pipe[g].busy \in Nat
  BY <1>0, <1>1 DEF KState, PipeRecord, Types
<1>8. pipe'[g].busy > 0
  <2>1. CASE g # f
    BY <1>1, <1>5, <2>1 DEF Turn
  <2>2. CASE g = f
    <3>1. u.pp[f].busy # 0
      BY <1>5, <1>6, <2>2 DEF Turn
    <3> QED
      BY <1>1, <1>7, <2>2, <3>1
  <2> QED
    BY <2>1, <2>2
<1> QED
  BY <1>6, <1>8

\* ... and what is about to begin.
LEMMA TurnStarts ==
    ASSUME Types, Starts, NEW p \in Proc, NEW f, NEW u, NEW where, NEW left, NEW sp,
           Turn(p, f, u, where, left, sp)
    PROVE  Starts'
<1>1. /\ pc'[p] = where
      /\ where # "idle" => op'[p] = op[p] /\ resid'[p] = left
      /\ \A a \in Proc : a # p => pc'[a] = pc[a] /\ op'[a] = op[a] /\ resid'[a] = resid[a]
  BY TurnVars
<1>2. /\ where # "write"
      /\ where \in {"wbig", "alloc"} => left = op[p].n /\ op[p].n > PIPE_SIZE
      /\ where \in Reading => left <= op[p].n
  BY DEF Turn, Waits
<1>3. "idle" \notin Reading
  BY DEF Reading
<1> SUFFICES ASSUME NEW a \in Proc
             PROVE  /\ pc'[a] \in {"write", "wbig", "alloc"} => resid'[a] = op'[a].n
                    /\ pc'[a] \in {"wbig", "alloc"} => op'[a].n > PIPE_SIZE
                    /\ pc'[a] \in Reading => resid'[a] <= op'[a].n
  BY DEF Starts
<1>4. CASE a = p
  BY <1>1, <1>2, <1>3, <1>4
<1>5. CASE a # p
  BY <1>1, <1>5 DEF Starts
<1> QED
  BY <1>4, <1>5

\* Who writes to a pipe that a thread that may fault makes bigger is that thread.
LEMMA OnlyWriter ==
    ASSUME PipeInv, Starts, \A w \in Workloads : Sturdy(w), ops \in Workloads,
           NEW a \in Proc, a \in Faulty, pc[a] \in {"wbig", "alloc"},
           NEW p \in Proc, pc[p] \in Writing, Target(p) = Target(a)
    PROVE  p = a
<1>1. Types /\ CallsFit
  BY DEF PipeInv
<1>2. pc[a] \in Writing /\ pc[a] # "idle" /\ pc[p] # "idle"
  BY DEF Writing
<1>3. /\ op[a].op = "write" /\ op[a] \in ops /\ op[a].p = a
      /\ op[p].op = "write" /\ op[p] \in ops /\ op[p].p = p
  BY <1>1, <1>2 DEF CallsFit
<1>4. op[a].n > PIPE_SIZE
  BY DEF Starts
<1>5. op[p].file \in End /\ op[a].file \in End
  BY <1>1 DEF Types, Op, NoOp, End
<1>6. op[p].file = op[a].file
  BY <1>3, <1>5 DEF Target, Peer, End
<1>7. Sturdy(ops)
  OBVIOUS
<1> QED
  BY <1>3, <1>4, <1>6, <1>7 DEF Sturdy

\* A pipe that will be made bigger by a thread that may fault stays empty.
LEMMA TurnSole ==
    ASSUME PipeInv, \A w \in Workloads : Sturdy(w), ops \in Workloads, Starts, SoleEmpty,
           NEW p \in Proc, NEW f, NEW u, NEW where, NEW left, NEW sp,
           Turn(p, f, u, where, left, sp)
    PROVE  SoleEmpty'
<1>0. Types
  BY DEF PipeInv
<1>1. /\ f \in End /\ u \in KState /\ pipe' = u.pp /\ pc'[p] = where
      /\ where # "idle" => Target(p)' = f
      /\ \A a \in Proc : a # p => pc'[a] = pc[a] /\ Target(a)' = Target(a)
  BY <1>0, TurnVars
<1> SUFFICES ASSUME NEW a \in Proc, a \in Faulty, pc'[a] \in {"wbig", "alloc"}
             PROVE  \A g \in End : g = Target(a)' => pipe'[g].cnt = 0
  <2>1. \A a \in Proc : pc'[a] \in {"wbig", "alloc"} => Target(a)' \in End
    BY <1>0, <1>1, NowTypes
  <2> QED
    BY <2>1 DEF SoleEmpty
<1>2. CASE a = p
  <2>1. u.pp[f].cnt = 0
    BY <1>1, <1>2 DEF Turn, Waits
  <2> QED
    BY <1>1, <1>2, <2>1
<1>3. CASE a # p
  <2>1. pc[a] \in {"wbig", "alloc"} /\ Target(a)' = Target(a) /\ Target(a) \in End
    BY <1>0, <1>1, <1>3, NowTypes
  <2>2. pipe[Target(a)].cnt = 0
    BY <2>1 DEF SoleEmpty
  <2>3. CASE Target(a) # f
    BY <1>1, <2>1, <2>2, <2>3 DEF Turn
  <2>4. CASE Target(a) = f
    <3>1. pc[p] \notin Writing
      BY <1>3, <2>1, <2>4, OnlyWriter DEF Turn
    <3>2. pc[p] \notin {"wlock", "wmove"}
      BY <3>1 DEF Writing
    <3>3. u.pp[f].cnt <= 0
      BY <2>2, <2>4, <3>2 DEF Turn, Feeds
    <3>4. u.pp[f].cnt \in Nat
      BY <1>1 DEF KState, PipeRecord
    <3> QED
      BY <1>1, <2>1, <2>4, <3>3, <3>4
  <2> QED
    BY <2>3, <2>4
<1> QED
  BY <1>2, <1>3

\* A turn of a thread in pipe_read() or pipe_write() forgets nobody.
LEMMA TurnKeeps ==
    ASSUME PipeInv, PipeInv', \A w \in Workloads : Sturdy(w), WatchInv, NEW p \in Proc,
           \E f, u, where, left, sp : Turn(p, f, u, where, left, sp)
    PROVE  WatchInv'
<1>1. PICK f, u, where, left, sp : Turn(p, f, u, where, left, sp)
  OBVIOUS
<1>2. Types /\ LockExclusive
  BY DEF PipeInv
<1>3. /\ Ended /\ LockHeld /\ LockWanted /\ ReaderNotForgotten /\ WriterWaits
      /\ PollerRecorded /\ PollerWaits /\ CloserWaits /\ Starts /\ SoleEmpty
      /\ ops \in Workloads
  BY DEF WatchInv
<1>4. Ended' /\ CloserWaits' /\ PollerRecorded' /\ PollerWaits'
  BY <1>1, <1>3, TurnEnded, TurnClosers, TurnPollers
<1>5. LockHeld' /\ LockWanted' /\ ReaderNotForgotten'
  BY <1>1, <1>2, <1>3, TurnLockHeld, TurnLockWanted, TurnReaders
<1>6. WriterWaits' /\ Starts' /\ SoleEmpty'
  BY <1>1, <1>2, <1>3, TurnWriters, TurnStarts, TurnSole
<1>7. ops' \in Workloads
  BY <1>1, <1>3 DEF Turn
<1> QED
  BY <1>4, <1>5, <1>6, <1>7 DEF WatchInv

-----------------------------------------------------------------------------
\* From the state before a step to k, in the midst of it: p, which is on pipe f, has
\* done something to that pipe, and forgotten nobody.
Amid(p, f, k) ==
    /\ f \in End /\ f = Target(p)
    /\ Mild(Now, k) /\ SameEof(Now, k)
    /\ \A g \in End : g # f => k.pp[g] = pipe[g]
    /\ "WANT" \in pipe[f].state => "WANT" \in k.pp[f].state
    /\ pipe[f].live /\ k.pp[f].busy > 0

\* The numbers that a step of p looks at
LEMMA NumbersAre ==
    ASSUME Types, NEW p \in Proc, NEW f \in End
    PROVE  pipe[f].cnt \in Nat /\ op[p].n \in Nat
BY DEF Types, PipeRecord, Op, NoOp

\* pipe_read()'s loop is the end of a turn ...
LEMMA ReadLoopTurn ==
    ASSUME PipeInv, Starts, NEW p \in Proc, pc[p] \in Reading, NEW f \in End, NEW k,
           Amid(p, f, k), "LOCK" \in k.pp[f].state, k.pp[f].size = pipe[f].size,
           NEW left \in Nat, left <= op[p].n,
           pc[p] # "move" => k.pp[f].cnt = pipe[f].cnt,
           pc[p] = "move" => k.pp[f].cnt <= pipe[f].cnt /\ left < op[p].n,
           ReadLoop(p, k, f, left), closer' = closer, ops' = ops
    PROVE  \E h, u, where, r, sp : Turn(p, h, u, where, r, sp)
<1>1. k \in KState /\ k.pp[f].busy > 0 /\ Mild(Now, k) /\ SameEof(Now, k) /\ f = Target(p)
  BY DEF Amid, Mild
<1>2. PICK u, where, r :
         /\ where \in {"idle", "move", "piperd"}
         /\ Lands(p, u, where, r, 0) /\ ReadWakes(p, f, k, left, u, where, r)
  BY <1>1, ReadLoopWakes
<1>3. Types
  BY DEF PipeInv
<1>4. Now.pp = pipe /\ Now.w = p_wchan /\ pipe[f].cnt \in Nat /\ op[p].n \in Nat
  BY <1>3, NowTypes, NumbersAre
<1>5. Mild(k, u) /\ SameEof(k, u) /\ SameCounts(k, u) /\ OnlyWakes(k, u) /\ u \in KState
  BY <1>2 DEF ReadWakes, Gentle, Mild
<1>6. Mild(Now, u) /\ SameEof(Now, u)
  BY <1>1, <1>5, MildTrans DEF SameEof
<1>7. u.pp[f].cnt = k.pp[f].cnt /\ u.pp[f].size = k.pp[f].size /\ u.pp[f].cnt \in Nat
  BY <1>5 DEF SameCounts, KState, PipeRecord
<1>8. \A g \in End : g # f => u.pp[g] = pipe[g]
  BY <1>2 DEF ReadWakes, Amid
<1>9. u.pp[f].busy = 0 /\ "WANT" \in pipe[f].state => Nobody(u, f)
  <2>1. ASSUME u.pp[f].busy = 0, "WANT" \in pipe[f].state
        PROVE  Nobody(u, f)
    <3>1. where = "idle"
      BY <1>1, <1>2, <2>1 DEF ReadWakes
    <3>2. "WANT" \in k.pp[f].state
      BY <2>1 DEF Amid
    <3> QED
      BY <1>2, <2>1, <3>1, <3>2 DEF ReadWakes
  <2> QED
    BY <2>1
<1>10. pc[p] \notin {"wlock", "wmove", "alloc"}
  BY DEF Reading
<1>11. Feeds(p, f, u, where)
  BY <1>4, <1>7, <1>10 DEF Feeds
<1>12. Drains(p, f, u, where, r, 0)
  <2>1. ASSUME pc[p] = "move", where # "move"
        PROVE  /\ u.pp[f].cnt < MINPIPESIZE /\ "WANTW" \in pipe[f].state => Nobody(u, f)
               /\ u.pp[f].size - u.pp[f].cnt >= PIPE_BUF => Unpolled(Now, u, f)
    <3>1. where = "idle"
      BY <1>2, <1>4, <2>1 DEF ReadWakes
    <3>2. Space(k, f) >= PIPE_BUF => Unpolled(k, u, f)
      BY <1>2, <3>1 DEF ReadWakes
    <3>3. u.pp[f].size - u.pp[f].cnt >= PIPE_BUF => Unpolled(Now, u, f)
      BY <1>1, <1>5, <1>7, <3>2, MildUnpolled DEF Space
    <3>4. "WANTW" \in Wants
      BY DEF Wants
    <3>5. u.pp[f].cnt < MINPIPESIZE /\ "WANTW" \in k.pp[f].state => Nobody(u, f)
      BY <1>2, <1>7, <3>1 DEF ReadWakes
    <3>6. u.pp[f].cnt < MINPIPESIZE /\ "WANTW" \in pipe[f].state => Nobody(u, f)
      BY <1>1, <1>4, <1>5, <3>4, <3>5, MildFlag
    <3> QED
      BY <3>3, <3>6
  <2>2. pc[p] \notin {"move", "alloc"} => u.pp[f].cnt >= pipe[f].cnt
    BY <1>4, <1>7
  <2> QED
    BY <1>7, <1>10, <2>1, <2>2 DEF Drains
<1>13. Waits(p, f, u, where, r)
  <2>1. where \in Place \ {"read", "write", "scan", "select"} /\ where \notin LockPlaces
        /\ where \notin {"pipewr", "wbig", "alloc"}
    BY <1>2 DEF Place, LockPlaces
  <2>2. where \notin Holding => "LOCK" \notin u.pp[f].state
    BY <1>2 DEF ReadWakes, Holding
  <2>3. where = "piperd" => /\ "EOF" \notin pipe[f].state /\ "WANTR" \in u.pp[f].state
                            /\ u.pp[f].cnt = 0
    BY <1>1, <1>2, <1>4, <1>7 DEF ReadWakes, SameEof
  <2>4. where \in Reading => r <= op[p].n
    <3>1. resid[p] <= op[p].n
      BY DEF Starts
    <3> QED
      BY <1>2, <3>1 DEF ReadWakes, Reading
  <2> QED
    BY <2>1, <2>2, <2>3, <2>4 DEF Waits
<1>14. Turn(p, f, u, where, r, 0)
  BY <1>1, <1>2, <1>6, <1>8, <1>9, <1>11, <1>12, <1>13 DEF Turn, Amid
<1> QED
  BY <1>14

\* ... and so is the end of pipe_read().
LEMMA ReadDoneTurn ==
    ASSUME PipeInv, NEW p \in Proc, pc[p] \in Reading, NEW f \in End, NEW k,
           Amid(p, f, k), SameCounts(Now, k),
           "LOCK" \in k.pp[f].state => pc[p] \notin Holding /\ "LOCK" \in pipe[f].state,
           ReadDone(p, k, f), closer' = closer, ops' = ops
    PROVE  \E h, u, where, r, sp : Turn(p, h, u, where, r, sp)
<1>1. k \in KState /\ k.pp[f].busy > 0 /\ Mild(Now, k) /\ SameEof(Now, k) /\ f = Target(p)
  BY DEF Amid, Mild
<1>2. PICK u : /\ Leaves(p, f, k, u)
               /\ k.pp[f].cnt < MINPIPESIZE /\ "WANTW" \in k.pp[f].state => Nobody(u, f)
               /\ Space(k, f) >= PIPE_BUF => Unpolled(k, u, f)
  BY <1>1, ReadDoneWakes
<1>3. Types
  BY DEF PipeInv
<1>4. Now.pp = pipe /\ pipe[f].cnt \in Nat
  BY <1>3, NowTypes DEF Types, PipeRecord
<1>5. Mild(k, u) /\ SameEof(k, u) /\ SameCounts(k, u) /\ OnlyWakes(k, u)
  BY <1>2 DEF Leaves, Gentle, Mild
<1>6. Mild(Now, u) /\ SameEof(Now, u)
  BY <1>1, <1>5, MildTrans DEF SameEof
<1>7. /\ u.pp[f].cnt = k.pp[f].cnt /\ u.pp[f].size = k.pp[f].size
      /\ u.pp[f].cnt = pipe[f].cnt /\ u.pp[f].size = pipe[f].size
  BY <1>4, <1>5 DEF SameCounts
<1>8. \A g \in End : g # f => u.pp[g] = pipe[g]
  BY <1>2 DEF Leaves, Amid
<1>9. u.pp[f].busy = 0 /\ "WANT" \in pipe[f].state => Nobody(u, f)
  BY <1>2 DEF Leaves, Amid
<1>10. pc[p] \notin {"wlock", "wmove", "alloc"}
  BY DEF Reading
<1>11. Feeds(p, f, u, "idle")
  BY <1>4, <1>7, <1>10 DEF Feeds
<1>12. Drains(p, f, u, "idle", 0, 0)
  <2>1. u.pp[f].size - u.pp[f].cnt >= PIPE_BUF => Unpolled(Now, u, f)
    BY <1>1, <1>2, <1>5, <1>7, MildUnpolled DEF Space
  <2>2. "WANTW" \in Wants
    BY DEF Wants
  <2>3. u.pp[f].cnt < MINPIPESIZE /\ "WANTW" \in pipe[f].state => Nobody(u, f)
    BY <1>1, <1>2, <1>4, <1>5, <1>7, <2>2, MildFlag
  <2>4. u.pp[f].cnt >= pipe[f].cnt
    BY <1>4, <1>7
  <2> QED
    BY <1>7, <1>10, <2>1, <2>3, <2>4 DEF Drains
<1>13. Waits(p, f, u, "idle", 0)
  BY <1>2 DEF Waits, Leaves, Place, LockPlaces, Reading
<1>14. Lands(p, u, "idle", 0, 0)
  BY <1>2 DEF Leaves, Lands, After
<1>15. Turn(p, f, u, "idle", 0, 0)
  BY <1>1, <1>6, <1>8, <1>9, <1>11, <1>12, <1>13, <1>14 DEF Turn, Amid
<1> QED
  BY <1>15

\* pipelock() with PIPE_LOCK set ends a turn.
LEMMA LockSleepTurn ==
    ASSUME PipeInv, NEW p \in Proc, pc[p] \in Reading \cup Writing, pc[p] \notin Holding,
           NEW f \in End, NEW k, Amid(p, f, k), SameCounts(Now, k),
           "LOCK" \in pipe[f].state, Locked(k, f), NEW where \in LockPlaces, NEW left, NEW sp,
           pc[p] = "wlock" => where = "wlock",
           where = "wbig" => /\ left = op[p].n /\ op[p].n > PIPE_SIZE
                             /\ p \in Faulty => pipe[f].cnt = 0,
           where \in Reading => left <= op[p].n,
           StayWith(p, LockSleep(k, p, f), where, left, sp), closer' = closer, ops' = ops
    PROVE  \E h, u, wh, r, s : Turn(p, h, u, wh, r, s)
<1>1. /\ k \in KState /\ k.pp[f].busy > 0 /\ Mild(Now, k) /\ SameEof(Now, k) /\ f = Target(p)
      /\ where # "idle" /\ Gentle(Now, k)
  BY DEF Amid, Mild, LockPlaces, Gentle
<1>2. PICK u : /\ Lands(p, u, where, left, sp) /\ Gentle(k, u)
               /\ {"LOCK", "LWANT"} \subseteq u.pp[f].state
               /\ u.pp[f].busy = k.pp[f].busy
               /\ \A g \in End : g # f => u.pp[g] = k.pp[g]
  BY <1>1, LockSleepLands
<1>3. Types
  BY DEF PipeInv
<1>4. Now.pp = pipe /\ pipe[f].cnt \in Nat
  BY <1>3, NowTypes DEF Types, PipeRecord
<1>5. Mild(Now, u) /\ SameEof(Now, u) /\ SameCounts(Now, u)
  BY <1>1, <1>2, GentleTrans DEF Gentle
<1>6. u.pp[f].cnt = pipe[f].cnt /\ u.pp[f].size = pipe[f].size
  BY <1>4, <1>5 DEF SameCounts
<1>7. \A g \in End : g # f => u.pp[g] = pipe[g]
  BY <1>2 DEF Amid
<1>8. u.pp[f].busy # 0
  BY <1>1, <1>2
<1>9. pc[p] \notin {"move", "wmove", "alloc"}
  BY DEF Holding
<1>10. Feeds(p, f, u, where)
  BY <1>4, <1>6, <1>9 DEF Feeds
<1>11. Drains(p, f, u, where, left, sp)
  BY <1>4, <1>6, <1>9 DEF Drains
<1>12. Waits(p, f, u, where, left)
  BY <1>2, <1>6 DEF Waits, LockPlaces, Place
<1>13. Turn(p, f, u, where, left, sp)
  BY <1>1, <1>2, <1>5, <1>7, <1>8, <1>10, <1>11, <1>12 DEF Turn, Amid
<1> QED
  BY <1>13

\* pipelock() with PIPE_LOCK clear does, too.
LEMMA LockTurn ==
    ASSUME PipeInv, NEW p \in Proc, pc[p] \in Writing, pc[p] \notin Holding,
           NEW f \in End, NEW k, Amid(p, f, k), SameCounts(Now, k),
           NEW where \in {"alloc", "wmove"}, NEW left, NEW sp,
           pc[p] = "wlock" => where = "wmove",
           where = "alloc" => /\ left = op[p].n /\ op[p].n > PIPE_SIZE
                              /\ p \in Faulty => pipe[f].cnt = 0,
           StayWith(p, Lock(k, f), where, left, sp), closer' = closer, ops' = ops
    PROVE  \E h, u, wh, r, s : Turn(p, h, u, wh, r, s)
<1>1. /\ k \in KState /\ k.pp[f].busy > 0 /\ Mild(Now, k) /\ SameEof(Now, k) /\ f = Target(p)
      /\ where # "idle" /\ Gentle(Now, k)
  BY DEF Amid, Mild, Gentle
<1>2. PICK u : /\ Lands(p, u, where, left, sp) /\ Gentle(k, u)
               /\ "LOCK" \in u.pp[f].state
               /\ u.pp[f].busy = k.pp[f].busy
               /\ \A g \in End : g # f => u.pp[g] = k.pp[g]
  BY <1>1, LockLands
<1>3. Types
  BY DEF PipeInv
<1>4. Now.pp = pipe /\ pipe[f].cnt \in Nat
  BY <1>3, NowTypes DEF Types, PipeRecord
<1>5. Mild(Now, u) /\ SameEof(Now, u) /\ SameCounts(Now, u)
  BY <1>1, <1>2, GentleTrans DEF Gentle
<1>6. u.pp[f].cnt = pipe[f].cnt /\ u.pp[f].size = pipe[f].size
  BY <1>4, <1>5 DEF SameCounts
<1>7. \A g \in End : g # f => u.pp[g] = pipe[g]
  BY <1>2 DEF Amid
<1>8. u.pp[f].busy # 0
  BY <1>1, <1>2
<1>9. pc[p] \notin {"move", "wmove", "alloc"}
  BY DEF Holding
<1>10. Feeds(p, f, u, where)
  BY <1>4, <1>6, <1>9 DEF Feeds
<1>11. Drains(p, f, u, where, left, sp)
  BY <1>4, <1>6, <1>9 DEF Drains
<1>12. Waits(p, f, u, where, left)
  BY <1>2, <1>6 DEF Waits, LockPlaces, Place, Holding, Reading
<1>13. Turn(p, f, u, where, left, sp)
  BY <1>1, <1>2, <1>5, <1>7, <1>8, <1>10, <1>11, <1>12 DEF Turn, Amid
<1> QED
  BY <1>13

\* A write that finds no space finds data.
LEMMA NoSpace ==
    ASSUME Types, NEW p \in Proc, NEW f \in End, NEW k \in KState, NEW left \in Nat,
           left <= op[p].n, op[p].n \in Nat, Usable(p, k, f, left) = 0, left > 0
    PROVE  k.pp[f].cnt >= MINPIPESIZE
<1>1. /\ PIPE_SIZE \in Nat /\ BIG_PIPE_SIZE \in Nat /\ PIPE_BUF \in Nat
      /\ PIPE_SIZE < BIG_PIPE_SIZE /\ PIPE_BUF + MINPIPESIZE <= PIPE_SIZE
  BY PipeAssumption
<1>2. MINPIPESIZE \in Nat
  BY <1>1 DEF MINPIPESIZE
<1>3. k.pp[f].cnt \in Nat /\ k.pp[f].size \in {PIPE_SIZE, BIG_PIPE_SIZE}
  BY DEF KState, PipeRecord
<1>4. k.pp[f].size \in Nat /\ k.pp[f].size >= PIPE_SIZE
  BY <1>1, <1>3
<1>5. \/ k.pp[f].size - k.pp[f].cnt < left /\ op[p].n <= PIPE_BUF
      \/ k.pp[f].size - k.pp[f].cnt = 0
  BY DEF Usable, Space
<1> QED
  BY <1>1, <1>2, <1>3, <1>4, <1>5

\* pipe_write()'s loop is the end of a turn ...
LEMMA WriteLoopTurn ==
    ASSUME PipeInv, NEW p \in Proc, pc[p] \in Writing, NEW f \in End, NEW k,
           Amid(p, f, k),
           "LOCK" \in k.pp[f].state => pc[p] \notin Holding /\ "LOCK" \in pipe[f].state,
           NEW left \in Nat, left <= op[p].n,
           pc[p] \notin {"wlock", "wmove"} => k.pp[f].cnt <= pipe[f].cnt,
           pc[p] # "alloc" => k.pp[f].cnt >= pipe[f].cnt /\ k.pp[f].size = pipe[f].size,
           pc[p] = "alloc" =>
              \/ k.pp[f].cnt = pipe[f].cnt /\ k.pp[f].size = pipe[f].size
              \/ /\ k.pp[f].cnt = 0 /\ Usable(p, k, f, left) >= MINPIPESIZE
                 /\ left = op[p].n /\ left > 0,
           pc[p] = "wmove" =>
              /\ k.pp[f].cnt > 0
              /\ \/ k.pp[f].cnt >= pipe[f].cnt + space[p]
                 \/ k.pp[f].cnt >= pipe[f].cnt + resid[p],
           WriteLoop(p, k, f, left), closer' = closer, ops' = ops
    PROVE  \E h, u, where, r, sp : Turn(p, h, u, where, r, sp)
<1>1. k \in KState /\ k.pp[f].busy > 0 /\ Mild(Now, k) /\ SameEof(Now, k) /\ f = Target(p)
  BY DEF Amid, Mild
<1>2. PICK u, where, sp :
         /\ where \in {"idle", "wlock", "wmove", "pipewr"}
         /\ Lands(p, u, where, left, sp) /\ WriteWakes(p, f, k, left, u, where, sp)
  BY <1>1, WriteLoopWakes
<1>3. Types
  BY DEF PipeInv
<1>4. Now.pp = pipe /\ Now.w = p_wchan /\ pipe[f].cnt \in Nat /\ op[p].n \in Nat
  BY <1>3, NowTypes, NumbersAre
<1>5. Mild(k, u) /\ SameEof(k, u) /\ SameCounts(k, u) /\ OnlyWakes(k, u) /\ u \in KState
  BY <1>2 DEF WriteWakes, Gentle, Mild
<1>6. Mild(Now, u) /\ SameEof(Now, u)
  BY <1>1, <1>5, MildTrans DEF SameEof
<1>7. u.pp[f].cnt = k.pp[f].cnt /\ u.pp[f].size = k.pp[f].size /\ u.pp[f].cnt \in Nat
  BY <1>5 DEF SameCounts, KState, PipeRecord
<1>8. \A g \in End : g # f => u.pp[g] = pipe[g]
  BY <1>2 DEF WriteWakes, Amid
<1>9. u.pp[f].busy = 0 /\ "WANT" \in pipe[f].state => Nobody(u, f)
  <2>1. ASSUME u.pp[f].busy = 0, "WANT" \in pipe[f].state
        PROVE  Nobody(u, f)
    <3>1. where = "idle"
      BY <1>1, <1>2, <2>1 DEF WriteWakes
    <3>2. "WANT" \in k.pp[f].state
      BY <2>1 DEF Amid
    <3> QED
      BY <1>2, <2>1, <3>1, <3>2 DEF WriteWakes
  <2> QED
    BY <2>1
<1>10. pc[p] # "move" /\ (pc[p] \in {"wmove", "alloc"} => "LOCK" \notin k.pp[f].state)
  BY DEF Writing, Holding
<1>11. Feeds(p, f, u, where)
  <2>1. ASSUME where \notin {"wlock", "wmove"}, u.pp[f].cnt > 0
        PROVE  Unpolled(Now, u, f) /\ ("WANTR" \in pipe[f].state => Nobody(u, f))
    <3>1. ("WANTR" \in k.pp[f].state => Nobody(u, f)) /\ Unpolled(k, u, f)
      BY <1>2, <1>7, <2>1 DEF WriteWakes
    <3>2. Unpolled(Now, u, f)
      BY <1>1, <1>5, <3>1, MildUnpolled
    <3>3. "WANTR" \in Wants
      BY DEF Wants
    <3>4. "WANTR" \in pipe[f].state => Nobody(u, f)
      BY <1>1, <1>4, <1>5, <3>1, <3>3, MildFlag
    <3> QED
      BY <3>2, <3>4
  <2> QED
    BY <1>7, <2>1 DEF Feeds
<1>12. Drains(p, f, u, where, left, sp)
  <2>1. ASSUME pc[p] = "alloc"
        PROVE  \/ u.pp[f].cnt = pipe[f].cnt /\ u.pp[f].size = pipe[f].size
               \/ "EOF" \in pipe[f].state
               \/ where = "wmove" /\ u.pp[f].cnt = 0 /\ sp >= MINPIPESIZE /\ left = op[p].n
    <3>1. CASE k.pp[f].cnt = pipe[f].cnt /\ k.pp[f].size = pipe[f].size
      BY <1>7, <3>1
    <3>2. CASE "EOF" \in pipe[f].state
      BY <3>2
    <3>3. CASE /\ k.pp[f].cnt = 0 /\ Usable(p, k, f, left) >= MINPIPESIZE
               /\ left = op[p].n /\ left > 0 /\ "EOF" \notin pipe[f].state
      <4>1. "EOF" \notin k.pp[f].state
        BY <1>1, <1>4, <3>3 DEF SameEof
      <4>2. Usable(p, k, f, left) > 0
        <5>1. MINPIPESIZE > 0 /\ MINPIPESIZE \in Int /\ Usable(p, k, f, left) \in Int
          BY <1>1, PipeAssumption DEF MINPIPESIZE, Usable, Space, KState, PipeRecord
        <5> HIDE DEF Usable
        <5> QED
          BY <3>3, <5>1
      <4>3. where \in {"wlock", "wmove"}
        BY <1>2, <3>3, <4>1, <4>2 DEF WriteWakes
      <4>4. where = "wmove"
        BY <1>2, <1>10, <2>1, <4>3 DEF WriteWakes
      <4>5. sp = Usable(p, k, f, left)
        BY <1>2, <4>4 DEF WriteWakes
      <4> QED
        BY <1>7, <3>3, <4>4, <4>5
    <3> QED
      BY <2>1, <3>1, <3>2, <3>3
  <2>2. ASSUME pc[p] = "wmove"
        PROVE  where # "wlock"
    BY <1>2, <1>10, <2>2 DEF WriteWakes
  <2> QED
    BY <1>7, <1>10, <2>1, <2>2 DEF Drains
<1>13. Waits(p, f, u, where, left)
  <2>1. /\ where \in Place \ {"read", "write", "scan", "select"} /\ where \notin Reading
        /\ where \notin {"piperd", "wbig", "alloc"}
        /\ where \in LockPlaces => where = "wlock"
        /\ where \in Holding <=> where = "wmove"
    BY <1>2 DEF Place, LockPlaces, Reading, Holding
  <2>2. where = "wlock" => {"LOCK", "LWANT"} \subseteq u.pp[f].state
    BY <1>2 DEF WriteWakes
  <2>3. where # "wmove" /\ "LOCK" \in u.pp[f].state
              => pc[p] \notin Holding /\ "LOCK" \in pipe[f].state
    BY <1>2 DEF WriteWakes
  <2>4. ASSUME where = "pipewr"
        PROVE  /\ "EOF" \notin pipe[f].state /\ "WANTW" \in u.pp[f].state
               /\ u.pp[f].cnt >= MINPIPESIZE
    <3>1. /\ "EOF" \notin k.pp[f].state /\ "WANTW" \in u.pp[f].state
          /\ Usable(p, k, f, left) = 0 /\ left > 0
      BY <1>2, <2>4 DEF WriteWakes
    <3>2. k.pp[f].cnt >= MINPIPESIZE
      BY <1>1, <1>3, <1>4, <3>1, NoSpace
    <3> QED
      BY <1>1, <1>4, <1>7, <3>1, <3>2 DEF SameEof
  <2> QED
    BY <2>1, <2>2, <2>3, <2>4 DEF Waits
<1>14. Turn(p, f, u, where, left, sp)
  BY <1>1, <1>2, <1>6, <1>8, <1>9, <1>11, <1>12, <1>13 DEF Turn, Amid
<1> QED
  BY <1>14

\* ... and so is the end of pipe_write().
LEMMA WriteDoneTurn ==
    ASSUME PipeInv, NEW p \in Proc, pc[p] \in Writing \ {"alloc"},
           pc[p] = "wmove" => p \in Faulty, NEW f \in End, NEW k,
           Amid(p, f, k), SameCounts(Now, k),
           "LOCK" \in k.pp[f].state => pc[p] \notin Holding /\ "LOCK" \in pipe[f].state,
           WriteDone(p, k, f), closer' = closer, ops' = ops
    PROVE  \E h, u, where, r, sp : Turn(p, h, u, where, r, sp)
<1>1. k \in KState /\ k.pp[f].busy > 0 /\ Mild(Now, k) /\ SameEof(Now, k) /\ f = Target(p)
  BY DEF Amid, Mild
<1>2. PICK u : /\ Leaves(p, f, k, u)
               /\ k.pp[f].cnt > 0 =>
                     /\ "WANTR" \in k.pp[f].state => Nobody(u, f)
                     /\ Unpolled(k, u, f)
  BY <1>1, WriteDoneWakes
<1>3. Types
  BY DEF PipeInv
<1>4. Now.pp = pipe /\ pipe[f].cnt \in Nat
  BY <1>3, NowTypes DEF Types, PipeRecord
<1>5. Mild(k, u) /\ SameEof(k, u) /\ SameCounts(k, u) /\ OnlyWakes(k, u)
  BY <1>2 DEF Leaves, Gentle, Mild
<1>6. Mild(Now, u) /\ SameEof(Now, u)
  BY <1>1, <1>5, MildTrans DEF SameEof
<1>7. /\ u.pp[f].cnt = k.pp[f].cnt /\ u.pp[f].size = k.pp[f].size
      /\ u.pp[f].cnt = pipe[f].cnt /\ u.pp[f].size = pipe[f].size
  BY <1>4, <1>5 DEF SameCounts
<1>8. \A g \in End : g # f => u.pp[g] = pipe[g]
  BY <1>2 DEF Leaves, Amid
<1>9. u.pp[f].busy = 0 /\ "WANT" \in pipe[f].state => Nobody(u, f)
  BY <1>2 DEF Leaves, Amid
<1>10. pc[p] \notin {"move", "alloc"}
  BY DEF Writing
<1>11. Feeds(p, f, u, "idle")
  <2>1. u.pp[f].cnt > 0 => Unpolled(Now, u, f)
    BY <1>1, <1>2, <1>5, <1>7, MildUnpolled
  <2>2. "WANTR" \in Wants
    BY DEF Wants
  <2>3. u.pp[f].cnt > 0 /\ "WANTR" \in pipe[f].state => Nobody(u, f)
    BY <1>1, <1>2, <1>4, <1>5, <1>7, <2>2, MildFlag
  <2> QED
    BY <1>4, <1>7, <2>1, <2>3 DEF Feeds
<1>12. Drains(p, f, u, "idle", 0, 0)
  BY <1>4, <1>7, <1>10 DEF Drains
<1>13. Waits(p, f, u, "idle", 0)
  BY <1>2 DEF Waits, Leaves, Place, LockPlaces, Reading
<1>14. Lands(p, u, "idle", 0, 0)
  BY <1>2 DEF Leaves, Lands, After
<1>15. Turn(p, f, u, "idle", 0, 0)
  BY <1>1, <1>6, <1>8, <1>9, <1>11, <1>12, <1>13, <1>14 DEF Turn, Amid
<1> QED
  BY <1>15

\* A call that returns before it has counted itself ends a turn.
LEMMA ReturnTurn ==
    ASSUME PipeInv, NEW p \in Proc, pc[p] \in {"lock", "write"}, Return(p, Now),
           closer' = closer, ops' = ops
    PROVE  \E h, u, where, r, sp : Turn(p, h, u, where, r, sp)
<1> DEFINE f == Target(p)
<1>1. Types
  BY DEF PipeInv
<1>2. f \in End /\ Now \in KState /\ Now.pp = pipe /\ Now.w = p_wchan
  BY <1>1, NowTypes
<1>3. Mild(Now, Now) /\ SameEof(Now, Now)
  BY <1>2, GentleSame DEF Gentle
<1>4. pipe[f].cnt \in Nat
  BY <1>1, <1>2 DEF Types, PipeRecord
<1>5. Lands(p, Now, "idle", 0, 0)
  BY DEF Lands, After
<1>6. f = Target(p)
  OBVIOUS
<1> HIDE DEF f
<1>7. Feeds(p, f, Now, "idle") /\ Drains(p, f, Now, "idle", 0, 0)
  BY <1>2, <1>4 DEF Feeds, Drains
<1>8. Waits(p, f, Now, "idle", 0)
  BY <1>2 DEF Waits, Place, LockPlaces, Reading, Holding
<1>9. Turn(p, f, Now, "idle", 0, 0)
  BY <1>2, <1>3, <1>5, <1>6, <1>7, <1>8 DEF Turn, Reading, Writing
<1> QED
  BY <1>9

\* The states in the midst of a step: as it was, ...
LEMMA AmidNow ==
    ASSUME PipeInv, NEW p \in Proc, NEW f \in End, f = Target(p), pipe[f].busy > 0
    PROVE  Amid(p, f, Now) /\ SameCounts(Now, Now) /\ Now.pp = pipe
<1>1. Types /\ Connected
  BY DEF PipeInv
<1>2. Now \in KState /\ Now.pp = pipe
  BY <1>1, NowTypes
<1>3. Gentle(Now, Now)
  BY <1>2, GentleSame
<1>4. pipe[f].live
  BY <1>1 DEF Connected
<1> QED
  BY <1>2, <1>3, <1>4 DEF Amid, Gentle

\* ... after something that is gentle, ...
LEMMA AmidGentle ==
    ASSUME NEW p \in Proc, NEW f \in End, NEW k, Amid(p, f, k), NEW m, Gentle(k, m),
           \A g \in End : g # f => m.pp[g] = k.pp[g],
           "WANT" \in k.pp[f].state => "WANT" \in m.pp[f].state,
           m.pp[f].busy = k.pp[f].busy
    PROVE  /\ Amid(p, f, m) /\ (SameCounts(Now, k) => SameCounts(Now, m))
           /\ m.pp[f].cnt = k.pp[f].cnt /\ m.pp[f].size = k.pp[f].size
<1>1. Mild(Now, m) /\ SameEof(Now, m)
  BY MildTrans DEF Amid, Gentle, SameEof
<1>2. \A g \in End : m.pp[g].cnt = k.pp[g].cnt /\ m.pp[g].size = k.pp[g].size
  BY DEF Gentle, SameCounts
<1>3. Amid(p, f, m)
  BY <1>1 DEF Amid
<1> QED
  BY <1>2, <1>3 DEF SameCounts

\* ... pipeunlock(), ...
LEMMA AmidUnlock ==
    ASSUME NEW p \in Proc, NEW f \in End, NEW k, Amid(p, f, k), NEW m, m = pipeunlock(k, f)
    PROVE  /\ Amid(p, f, m) /\ (SameCounts(Now, k) => SameCounts(Now, m))
           /\ m.pp[f].cnt = k.pp[f].cnt /\ m.pp[f].size = k.pp[f].size
           /\ "LOCK" \notin m.pp[f].state
<1>1. k \in KState
  BY DEF Amid, Mild
<1>2. /\ Gentle(k, m)
      /\ m.pp[f].state = k.pp[f].state \ {"LOCK", "LWANT"}
      /\ m.pp[f].busy = k.pp[f].busy
      /\ \A g \in End : g # f => m.pp[g] = k.pp[g]
  BY <1>1, UnlockGentle
<1>3. "WANT" \in k.pp[f].state => "WANT" \in m.pp[f].state
  BY <1>2
<1> QED
  BY <1>2, <1>3, AmidGentle

\* ... pipelock(), ...
LEMMA AmidLock ==
    ASSUME NEW p \in Proc, NEW f \in End, NEW k, Amid(p, f, k), NEW m, m = Lock(k, f)
    PROVE  /\ Amid(p, f, m) /\ (SameCounts(Now, k) => SameCounts(Now, m))
           /\ m.pp[f].cnt = k.pp[f].cnt /\ m.pp[f].size = k.pp[f].size
           /\ "LOCK" \in m.pp[f].state
<1>1. k \in KState
  BY DEF Amid, Mild
<1>2. /\ Gentle(k, m)
      /\ m.pp[f].state = k.pp[f].state \cup {"LOCK"}
      /\ m.pp[f].busy = k.pp[f].busy
      /\ \A g \in End : g # f => m.pp[g] = k.pp[g]
  BY <1>1, SetMild DEF Lock, Flags
<1>3. "WANT" \in k.pp[f].state => "WANT" \in m.pp[f].state
  BY <1>2
<1> QED
  BY <1>2, <1>3, AmidGentle

\* ... "++pipe_busy" ...
LEMMA AmidBusy ==
    ASSUME PipeInv, NEW p \in Proc, NEW f \in End, f = Target(p), pipe[f].live,
           NEW l, Gentle(Now, l), l.pp[f].busy = pipe[f].busy,
           \A g \in End : g # f => l.pp[g] = pipe[g], pipe[f].state \subseteq l.pp[f].state,
           NEW k, k = [l EXCEPT !.pp[f].busy = @ + 1]
    PROVE  /\ Amid(p, f, k) /\ SameCounts(Now, k)
           /\ k.pp[f].state = l.pp[f].state
           /\ k.pp[f].cnt = pipe[f].cnt /\ k.pp[f].size = pipe[f].size
<1>1. Types
  BY DEF PipeInv
<1>2. Now \in KState /\ Now.pp = pipe
  BY <1>1, NowTypes
<1>3. l \in KState /\ l.pp[f].busy \in Nat
  BY DEF Gentle, Mild, KState, PipeRecord
<1>4. k = [l EXCEPT !.pp[f].busy = l.pp[f].busy + 1] /\ l.pp[f].busy + 1 \in Nat
  BY <1>3 DEF KState
<1>5. /\ Gentle(l, k) /\ k.pp[f].state = l.pp[f].state /\ k.pp[f].busy = l.pp[f].busy + 1
      /\ \A g \in End : g # f => k.pp[g] = l.pp[g]
  BY <1>3, <1>4, BusyGentle
<1>6. Gentle(Now, k)
  BY <1>5, GentleTrans
<1>7. k.pp[f].busy > 0
  BY <1>3, <1>5
<1>8. Amid(p, f, k)
  BY <1>5, <1>6, <1>7 DEF Amid, Gentle
<1>9. SameCounts(Now, k)
  BY <1>6 DEF Gentle
<1>10. k.pp[f].cnt = pipe[f].cnt /\ k.pp[f].size = pipe[f].size
  BY <1>2, <1>9 DEF SameCounts
<1> QED
  BY <1>5, <1>8, <1>9, <1>10

\* ... and a change of the data.
LEMMA AmidData ==
    ASSUME PipeInv, NEW p \in Proc, NEW f \in End, f = Target(p), pipe[f].busy > 0,
           NEW t \in PipeRecord, t.state = pipe[f].state, t.selpid = pipe[f].selpid,
           t.coll = pipe[f].coll, t.busy = pipe[f].busy,
           NEW k, k = [Now EXCEPT !.pp[f] = t]
    PROVE  Amid(p, f, k) /\ k.pp[f] = t
<1>1. Types /\ Connected
  BY DEF PipeInv
<1>2. Now \in KState /\ Now.pp = pipe /\ Now.w = p_wchan
  BY <1>1, NowTypes
<1>3. /\ k \in KState /\ k.w = Now.w /\ k.pp[f] = t
      /\ \A g \in End : g # f => k.pp[g] = Now.pp[g]
  BY <1>2 DEF KState
<1>4. Mild(Now, k) /\ SameEof(Now, k)
  <2>1. k.pp[f].state = Now.pp[f].state /\ k.pp[f].selpid = Now.pp[f].selpid
        /\ k.pp[f].coll = Now.pp[f].coll
    BY <1>2, <1>3
  <2> QED
    BY <1>2, <1>3, <2>1, OtherGentle
<1>5. pipe[f].live
  BY <1>1 DEF Connected
<1> QED
  BY <1>2, <1>3, <1>4, <1>5 DEF Amid

\* A pipe that is locked is in use.
LEMMA LockedBusy ==
    ASSUME PipeInv, LockHeld, NEW f \in End, "LOCK" \in pipe[f].state
    PROVE  pipe[f].busy > 0
<1>1. PICK a \in Proc : Is(a, f, Holding)
  BY DEF LockHeld
<1>2. pc[a] \in Busy /\ f = Target(a)
  BY <1>1 DEF Is, Holding, Busy, Writing
<1> QED
  BY <1>2, BusyPositive DEF PipeInv

-----------------------------------------------------------------------------
\* The steps of pipe_read() are turns: the first one, ...
LEMMA PipeReadTurn ==
    ASSUME PipeInv, Starts, LockHeld, NEW p \in Proc, pipe_read(p)
    PROVE  \E h, u, where, r, sp : Turn(p, h, u, where, r, sp)
<1> DEFINE f == Target(p)
<1>0. pc[p] \in {"read", "lock"} /\ pc[p] \in Reading /\ Awake(p) /\ pc[p] # "move"
  BY DEF pipe_read, At, Reading
<1>1. /\ Types /\ op[p].file = f /\ f \in End /\ resid[p] \in Nat /\ Now.pp = pipe
      /\ \A g \in End : Locked(Now, g) <=> "LOCK" \in pipe[g].state
      /\ pipe[f].live
  BY <1>0, AtReading
<1>2. pc[p] \notin Holding /\ resid[p] <= op[p].n /\ f = Target(p)
  BY <1>0 DEF Holding, Starts
<1>3. closer' = closer /\ ops' = ops
  BY DEF pipe_read
<1>4. \/ pc[p] = "lock" /\ Return(p, Now)
      \/ Locked(Now, f) /\ Stay(p, LockSleep(Now, p, f), "lock", resid[p])
      \/ ~Locked(Now, f)
         /\ ReadLoop(p, [Lock(Now, f) EXCEPT !.pp[f].busy = @ + 1], f, resid[p])
  BY <1>1 DEF pipe_read
<1> HIDE DEF f
<1>5. CASE pc[p] = "lock" /\ Return(p, Now)
  BY <1>3, <1>5, ReturnTurn
<1>6. CASE Locked(Now, f) /\ Stay(p, LockSleep(Now, p, f), "lock", resid[p])
  <2>1. "LOCK" \in pipe[f].state /\ pipe[f].busy > 0
    BY <1>1, <1>6, LockedBusy
  <2>2. Amid(p, f, Now) /\ SameCounts(Now, Now)
    BY <1>1, <1>2, <2>1, AmidNow
  <2>3. "lock" \in LockPlaces /\ "lock" # "wbig" /\ pc[p] # "wlock"
    BY <1>0 DEF LockPlaces
  <2>4. StayWith(p, LockSleep(Now, p, f), "lock", resid[p], 0)
    BY <1>6 DEF Stay
  <2> QED
    BY <1>0, <1>1, <1>2, <1>3, <1>6, <2>1, <2>2, <2>3, <2>4, LockSleepTurn
<1>7. CASE ReadLoop(p, [Lock(Now, f) EXCEPT !.pp[f].busy = @ + 1], f, resid[p])
  <2> DEFINE l == Lock(Now, f)
             k == [l EXCEPT !.pp[f].busy = @ + 1]
  <2>1. ReadLoop(p, k, f, resid[p]) /\ k = [l EXCEPT !.pp[f].busy = @ + 1]
    BY <1>7
  <2>2. /\ Gentle(Now, l) /\ l.pp[f].state = pipe[f].state \cup {"LOCK"}
        /\ l.pp[f].busy = pipe[f].busy
        /\ \A g \in End : g # f => l.pp[g] = pipe[g]
    BY <1>1, NowTypes, SetMild DEF Lock, Flags
  <2>3. pipe[f].state \subseteq l.pp[f].state /\ "LOCK" \in l.pp[f].state
    BY <2>2
  <2> HIDE DEF k, l
  <2>4. l \in KState /\ l.pp[f].busy \in Nat /\ Now \in KState /\ f \in End
    BY <1>1, <2>2, NowTypes DEF Gentle, Mild, KState, PipeRecord
  <2>5. k = [l EXCEPT !.pp[f].busy = l.pp[f].busy + 1] /\ l.pp[f].busy + 1 \in Nat
    BY <2>1, <2>4 DEF KState
  <2>6. /\ Gentle(l, k) /\ k.pp[f].state = l.pp[f].state /\ k.pp[f].busy = l.pp[f].busy + 1
        /\ \A g \in End : g # f => k.pp[g] = l.pp[g]
    BY <2>4, <2>5, BusyGentle
  <2>7. Gentle(Now, k) /\ k.pp[f].busy > 0
    BY <2>2, <2>4, <2>6, GentleTrans
  <2>8. /\ Amid(p, f, k)
        /\ k.pp[f].cnt = pipe[f].cnt /\ k.pp[f].size = pipe[f].size
    BY <1>1, <1>2, <2>2, <2>3, <2>6, <2>7 DEF Amid, Gentle, SameCounts
  <2> QED
    BY <1>0, <1>1, <1>2, <1>3, <2>1, <2>3, <2>6, <2>8, ReadLoopTurn
<1> QED
  BY <1>4, <1>5, <1>6, <1>7

\* ... the one after a sleep, ...
LEMMA ReadRelockTurn ==
    ASSUME PipeInv, Starts, LockHeld, NEW p \in Proc, ReadRelock(p)
    PROVE  \E h, u, where, r, sp : Turn(p, h, u, where, r, sp)
<1> DEFINE f == Target(p)
           k == Lock(Now, f)
<1>0. pc[p] \in {"piperd", "relock"} /\ pc[p] \in Reading /\ Awake(p) /\ pc[p] # "move"
  BY DEF ReadRelock, At, Reading
<1>1. /\ Types /\ BusyCounts /\ op[p].file = f /\ f \in End /\ resid[p] \in Nat /\ Now.pp = pipe
      /\ \A g \in End : Locked(Now, g) <=> "LOCK" \in pipe[g].state
  BY <1>0, AtReading
<1>2. pc[p] \notin Holding /\ resid[p] <= op[p].n /\ f = Target(p) /\ pc[p] \in Busy
  BY <1>0 DEF Holding, Starts, Busy
<1>3. closer' = closer /\ ops' = ops
  BY DEF ReadRelock
<1>4. \/ ReadDone(p, Now, f)
      \/ Locked(Now, f) /\ Stay(p, LockSleep(Now, p, f), "relock", resid[p])
      \/ ReadLoop(p, k, f, resid[p])
  BY <1>1 DEF ReadRelock
<1> HIDE DEF f
<1>5. Amid(p, f, Now) /\ SameCounts(Now, Now)
  BY <1>1, <1>2, BusyPositive, AmidNow
<1>6. CASE ReadDone(p, Now, f)
  BY <1>0, <1>1, <1>2, <1>3, <1>5, <1>6, ReadDoneTurn
<1>7. CASE Locked(Now, f) /\ Stay(p, LockSleep(Now, p, f), "relock", resid[p])
  <2>1. "LOCK" \in pipe[f].state
    BY <1>1, <1>7
  <2>2. "relock" \in LockPlaces /\ "relock" # "wbig" /\ pc[p] # "wlock"
    BY <1>0 DEF LockPlaces
  <2>3. StayWith(p, LockSleep(Now, p, f), "relock", resid[p], 0)
    BY <1>7 DEF Stay
  <2> QED
    BY <1>0, <1>1, <1>2, <1>3, <1>5, <1>7, <2>1, <2>2, <2>3, LockSleepTurn
<1>8. CASE ReadLoop(p, k, f, resid[p])
  <2>1. /\ Amid(p, f, k) /\ "LOCK" \in k.pp[f].state
        /\ k.pp[f].cnt = pipe[f].cnt /\ k.pp[f].size = pipe[f].size
    BY <1>1, <1>5, AmidLock
  <2> HIDE DEF k
  <2> QED
    BY <1>0, <1>1, <1>2, <1>3, <1>8, <2>1, ReadLoopTurn
<1> QED
  BY <1>4, <1>6, <1>7, <1>8

\* ... the one after a transfer ...
LEMMA ReadMoveTurn ==
    ASSUME PipeInv, Starts, NEW p \in Proc, ReadMove(p)
    PROVE  \E h, u, where, r, sp : Turn(p, h, u, where, r, sp)
<1> DEFINE f == Target(p)
           n == Chunk(pipe[f], resid[p])
           t == Taken(pipe[f], n)
           k == [Now EXCEPT !.pp[f] = t]
<1>0. pc[p] = "move" /\ pc[p] \in Reading /\ Awake(p)
  BY DEF ReadMove, At, Reading
<1>1. /\ Types /\ BusyCounts /\ op[p].op = "read" /\ op[p].file = f /\ f \in End
      /\ Sane(pipe[f]) /\ resid[p] \in Nat /\ Now.pp = pipe /\ op[p].n \in Nat
  BY <1>0, AtReading, NumbersAre
<1>2. pc[p] \in Busy /\ pc[p] \in Holding /\ f = Target(p) /\ resid[p] <= op[p].n
  BY <1>0 DEF Busy, Holding, Starts
<1>3. closer' = closer /\ ops' = ops
  BY DEF ReadMove
<1>4. ReadLoop(p, k, f, resid[p] - n)
  <2>1. ReadLoop(p, [Now EXCEPT !.pp[f] = Taken(@, n)], f, resid[p] - n)
    BY <1>1 DEF ReadMove
  <2>2. [Now EXCEPT !.pp[f] = Taken(@, n)] = k
    BY <1>1
  <2> QED
    BY <2>1, <2>2
<1>5. resid[p] > 0 /\ pipe[f].cnt > 0
  BY <1>0 DEF PipeInv, Transfers
<1>6. /\ pipe[f].size \in Nat /\ pipe[f].cnt \in Nat /\ pipe[f].out \in Nat
      /\ pipe[f].out < pipe[f].size
  BY <1>1, SizeNat
<1>7. /\ n \in Nat /\ n > 0 /\ n <= pipe[f].size - pipe[f].out /\ n <= pipe[f].cnt
      /\ n <= resid[p]
  <2>1. pipe[f].size - pipe[f].out \in Nat /\ pipe[f].size - pipe[f].out > 0
    BY <1>6
  <2>2. /\ n \in {pipe[f].size - pipe[f].out, pipe[f].cnt, resid[p]}
        /\ n <= pipe[f].size - pipe[f].out /\ n <= pipe[f].cnt /\ n <= resid[p]
    BY <1>1, <1>6, <2>1, MinThree DEF Chunk
  <2> HIDE DEF n, f
  <2> QED
    BY <1>1, <1>5, <1>6, <2>1, <2>2
<1> HIDE DEF n
<1>8. pipe[f] \in PipeRecord /\ stream[f] \in Seq(Byte) /\ Ring(pipe[f], stream[f])
  BY <1>1, StreamNow DEF Types, PipeInv
<1>9. /\ t.cnt = pipe[f].cnt - n /\ t.selpid = pipe[f].selpid /\ t.coll = pipe[f].coll
  BY <1>8 DEF Taken, PipeRecord
<1>10. t = Taken(pipe[f], n)
  OBVIOUS
<1> HIDE DEF t
<1>11. t \in PipeRecord /\ t.busy = pipe[f].busy /\ t.state = pipe[f].state /\ t.size = pipe[f].size
  BY <1>1, <1>7, <1>8, <1>10, TakenRing
<1> HIDE DEF f
<1>12. pipe[f].busy > 0
  BY <1>1, <1>2, BusyPositive
<1>13. Amid(p, f, k) /\ k.pp[f] = t
  BY <1>1, <1>2, <1>9, <1>11, <1>12, AmidData
<1>14. "LOCK" \in k.pp[f].state
  BY <1>2, <1>11, <1>13, HasLock
<1> HIDE DEF k
<1>15. /\ k.pp[f].size = pipe[f].size /\ k.pp[f].cnt <= pipe[f].cnt
       /\ resid[p] - n \in Nat /\ resid[p] - n <= op[p].n /\ resid[p] - n < op[p].n
  BY <1>1, <1>2, <1>6, <1>7, <1>9, <1>11, <1>13
<1> QED
  BY <1>0, <1>1, <1>3, <1>4, <1>13, <1>14, <1>15, ReadLoopTurn

\* ... and the one after a transfer that failed.
LEMMA ReadFaultTurn ==
    ASSUME PipeInv, NEW p \in Proc, ReadFault(p)
    PROVE  \E h, u, where, r, sp : Turn(p, h, u, where, r, sp)
<1> DEFINE f == Target(p)
           k == pipeunlock(Now, f)
<1>0. pc[p] = "move" /\ pc[p] \in Reading /\ Awake(p)
  BY DEF ReadFault, At, Reading
<1>1. Types /\ BusyCounts /\ op[p].file = f /\ f \in End /\ f = Target(p) /\ pc[p] \in Busy
  BY <1>0, AtReading DEF Busy
<1>2. closer' = closer /\ ops' = ops
  BY DEF ReadFault
<1>3. ReadDone(p, k, f)
  BY <1>1 DEF ReadFault
<1> HIDE DEF f
<1>4. Amid(p, f, Now) /\ SameCounts(Now, Now)
  BY <1>1, BusyPositive, AmidNow
<1>5. Amid(p, f, k) /\ SameCounts(Now, k) /\ "LOCK" \notin k.pp[f].state
  BY <1>1, <1>4, AmidUnlock
<1> HIDE DEF k
<1> QED
  BY <1>0, <1>1, <1>2, <1>3, <1>5, ReadDoneTurn

\* The pipelock() of a resize ends a turn.
LEMMA ResizeLockTurn ==
    ASSUME PipeInv, NEW p \in Proc, pc[p] \in {"write", "wbig"}, NEW f \in End, NEW k,
           Amid(p, f, k), SameCounts(Now, k), k.pp[f].state = pipe[f].state,
           resid[p] = op[p].n, op[p].n > PIPE_SIZE, p \in Faulty => pipe[f].cnt = 0,
           ResizeLock(p, k, f), closer' = closer, ops' = ops
    PROVE  \E h, u, where, r, sp : Turn(p, h, u, where, r, sp)
<1>1. pc[p] \in Writing /\ pc[p] \notin Holding /\ pc[p] # "wlock"
  BY DEF Writing, Holding
<1>2. CASE Locked(k, f)
  <2>1. StayWith(p, LockSleep(k, p, f), "wbig", resid[p], 0)
    BY <1>2 DEF ResizeLock, Stay
  <2>2. "wbig" \in LockPlaces /\ "wbig" \notin Reading /\ "LOCK" \in pipe[f].state
    BY <1>2 DEF LockPlaces, Reading, Locked
  <2> QED
    BY <1>1, <1>2, <2>1, <2>2, LockSleepTurn
<1>3. CASE ~Locked(k, f)
  <2>1. StayWith(p, Lock(k, f), "alloc", resid[p], 0)
    BY <1>3 DEF ResizeLock, Stay
  <2> QED
    BY <1>1, <2>1, LockTurn
<1> QED
  BY <1>2, <1>3

\* The steps of pipe_write() are turns: the first one, ...
LEMMA PipeWriteTurn ==
    ASSUME PipeInv, Starts, NEW p \in Proc, pipe_write(p)
    PROVE  \E h, u, where, r, sp : Turn(p, h, u, where, r, sp)
<1> DEFINE f == Target(p)
           k == [Now EXCEPT !.pp[f].busy = @ + 1]
<1>0. pc[p] = "write" /\ pc[p] \in Writing /\ Awake(p) /\ pc[p] \notin Holding
  BY DEF pipe_write, At, Writing, Holding
<1>1. /\ Types /\ Peer(op[p].file) = f /\ f \in End /\ f = Target(p)
      /\ resid[p] \in Nat /\ Now.pp = pipe /\ resid[p] <= op[p].n
      /\ pipe[op[p].file].peer => pipe[f].live
  BY <1>0, AtWriting
<1>2. closer' = closer /\ ops' = ops
  BY DEF pipe_write
<1>3. resid[p] = op[p].n
  BY <1>0 DEF Starts
<1>4. \/ Return(p, Now)
      \/ pipe[f].live /\ Resizes(p, f) /\ ResizeLock(p, k, f)
      \/ pipe[f].live /\ WriteLoop(p, k, f, resid[p])
  BY <1>0, <1>1 DEF pipe_write
<1> HIDE DEF f
<1>5. CASE Return(p, Now)
  BY <1>0, <1>2, <1>5, ReturnTurn
<1>6. CASE pipe[f].live /\ ((Resizes(p, f) /\ ResizeLock(p, k, f)) \/ WriteLoop(p, k, f, resid[p]))
  <2>1. Gentle(Now, Now)
    BY <1>1, NowTypes, GentleSame
  <2>2. k = [Now EXCEPT !.pp[f].busy = @ + 1]
    OBVIOUS
  <2> HIDE DEF k
  <2>3. /\ Amid(p, f, k) /\ SameCounts(Now, k)
        /\ k.pp[f].state = Now.pp[f].state
        /\ k.pp[f].cnt = pipe[f].cnt /\ k.pp[f].size = pipe[f].size
    BY <1>1, <1>6, <2>1, <2>2, AmidBusy
  <2>4. k.pp[f].state = pipe[f].state
    BY <1>1, <2>3
  <2>5. CASE Resizes(p, f) /\ ResizeLock(p, k, f)
    <3>1. op[p].n > PIPE_SIZE /\ pipe[f].cnt = 0
      BY <2>5 DEF Resizes
    <3> QED
      BY <1>0, <1>1, <1>2, <1>3, <2>3, <2>4, <2>5, <3>1, ResizeLockTurn
  <2>6. CASE WriteLoop(p, k, f, resid[p])
    <3>1. k.pp[f].cnt <= pipe[f].cnt /\ k.pp[f].cnt >= pipe[f].cnt
      BY <1>1, <2>3, NumbersAre
    <3> QED
      BY <1>0, <1>1, <1>2, <2>3, <2>4, <2>6, <3>1, WriteLoopTurn
  <2> QED
    BY <1>6, <2>5, <2>6
<1> QED
  BY <1>4, <1>5, <1>6

\* ... the one after a sleep for the lock of a resize, ...
LEMMA WriteResizeTurn ==
    ASSUME PipeInv, Starts, SoleEmpty, NEW p \in Proc, WriteResize(p)
    PROVE  \E h, u, where, r, sp : Turn(p, h, u, where, r, sp)
<1> DEFINE f == Target(p)
           left == [Now EXCEPT !.pp[f].busy = @ - 1]
           woken == IF left.pp[f].busy = 0 /\ "WANT" \in left.pp[f].state
                    THEN Wake(ClearFlags(left, f, {"WANT", "WANTR"}), f) ELSE left
<1>0. pc[p] = "wbig" /\ pc[p] \in Writing /\ Awake(p) /\ pc[p] \in Busy /\ pc[p] \notin Holding
  BY DEF WriteResize, At, Writing, Busy, Holding
<1>1. /\ Types /\ BusyCounts /\ Peer(op[p].file) = f /\ f \in End /\ f = Target(p)
      /\ Now.pp = pipe
  BY <1>0, AtWriting
<1>2. closer' = closer /\ ops' = ops
  BY DEF WriteResize
<1>3. ResizeLock(p, Now, f) \/ Return(p, woken)
  BY <1>1 DEF WriteResize
<1>4. pipe[f].busy > 0 /\ pipe[f].busy \in Nat /\ pipe[f].cnt \in Nat
  BY <1>0, <1>1, BusyPositive DEF Types, TypeOK, PipeRecord
<1>5. Amid(p, f, Now) /\ SameCounts(Now, Now)
  BY <1>1, <1>4, AmidNow
<1>6. CASE ResizeLock(p, Now, f)
  <2>1. resid[p] = op[p].n /\ op[p].n > PIPE_SIZE /\ (p \in Faulty => pipe[f].cnt = 0)
    BY <1>0, <1>1 DEF Starts, SoleEmpty
  <2> HIDE DEF f
  <2> QED
    BY <1>0, <1>1, <1>2, <1>5, <1>6, <2>1, ResizeLockTurn
<1>7. CASE Return(p, woken)
  <2>1. Now \in KState
    BY <1>1, NowTypes
  <2>2. left = [Now EXCEPT !.pp[f].busy = Now.pp[f].busy - 1] /\ Now.pp[f].busy - 1 \in Nat
    BY <1>1, <1>4, <2>1 DEF KState
  <2> HIDE DEF left, f
  <2>3. /\ Gentle(Now, left) /\ left.pp[f].state = pipe[f].state
        /\ left.pp[f].busy = pipe[f].busy - 1
        /\ \A g \in End : g # f => left.pp[g] = pipe[g]
    BY <1>1, <2>1, <2>2, BusyGentle
  <2>4. left \in KState
    BY <2>3 DEF Gentle, Mild
  <2>5. /\ Gentle(left, woken) /\ woken.pp[f].busy = left.pp[f].busy
        /\ "LOCK" \in woken.pp[f].state <=> "LOCK" \in left.pp[f].state
        /\ \A g \in End : g # f => woken.pp[g] = left.pp[g]
        /\ left.pp[f].busy = 0 /\ "WANT" \in left.pp[f].state => Nobody(woken, f)
    <3>1. CASE left.pp[f].busy = 0 /\ "WANT" \in left.pp[f].state
      <4>1. woken = Wake(ClearFlags(left, f, {"WANT", "WANTR"}), f)
        BY <3>1
      <4> HIDE DEF woken
      <4>2. {"WANT", "WANTR"} \in SUBSET (Flags \ {"SEL", "EOF"})
        BY DEF Flags
      <4> QED
        BY <1>1, <2>4, <4>1, <4>2, ClearWakeGentle
    <3>2. CASE ~(left.pp[f].busy = 0 /\ "WANT" \in left.pp[f].state)
      <4>1. woken = left
        BY <3>2
      <4> HIDE DEF woken
      <4> QED
        BY <2>4, <3>2, <4>1, GentleSame
    <3> QED
      BY <3>1, <3>2
  <2> HIDE DEF woken
  <2>6. Mild(Now, woken) /\ SameEof(Now, woken) /\ SameCounts(Now, woken)
    BY <2>3, <2>5, GentleTrans DEF Gentle
  <2>7. woken.pp[f].cnt = pipe[f].cnt /\ woken.pp[f].size = pipe[f].size
    BY <1>1, <2>6 DEF SameCounts
  <2>8. Lands(p, woken, "idle", 0, 0)
    BY <1>7 DEF Lands, After
  <2>9. Feeds(p, f, woken, "idle") /\ Drains(p, f, woken, "idle", 0, 0)
    BY <1>0, <1>4, <2>7 DEF Feeds, Drains
  <2>10. Waits(p, f, woken, "idle", 0)
    BY <1>0, <2>3, <2>5 DEF Waits, Place, LockPlaces, Reading
  <2>11. \A g \in End : g # f => woken.pp[g] = pipe[g]
    BY <2>3, <2>5
  <2>12. woken.pp[f].busy = 0 /\ "WANT" \in pipe[f].state => Nobody(woken, f)
    BY <2>3, <2>5
  <2>13. Turn(p, f, woken, "idle", 0, 0)
    BY <1>0, <1>1, <1>2, <1>5, <2>6, <2>8, <2>9, <2>10, <2>11, <2>12 DEF Turn, Amid
  <2> QED
    BY <2>13
<1> QED
  BY <1>3, <1>6, <1>7

\* ... the resize, after which the thread has PIPE_LOCK again, ...
LEMMA PipespaceTurn ==
    ASSUME PipeInv, Starts, NEW p \in Proc, pipespace(p)
    PROVE  \E h, u, where, r, sp : Turn(p, h, u, where, r, sp)
<1> DEFINE f == Target(p)
           empty == [i \in 0 .. BIG_PIPE_SIZE - 1 |-> NoByte]
           t == [pipe[f] EXCEPT !.size = BIG_PIPE_SIZE, !.cnt = 0, !.in = 0, !.out = 0,
                                !.buffer = empty]
           j == [Now EXCEPT !.pp[f] = t]
<1>0. pc[p] = "alloc" /\ pc[p] \in Writing /\ Awake(p) /\ pc[p] \in Busy
  BY DEF pipespace, At, Writing, Busy
<1>1. /\ Types /\ BusyCounts /\ Peer(op[p].file) = f /\ f \in End /\ f = Target(p)
      /\ resid[p] \in Nat /\ Now.pp = pipe /\ resid[p] <= op[p].n
  BY <1>0, AtWriting
<1>2. closer' = closer /\ ops' = ops
  BY DEF pipespace
<1>3. resid[p] = op[p].n /\ op[p].n > PIPE_SIZE
  BY <1>0 DEF Starts
<1>4. \/ WriteLoop(p, pipeunlock(Now, f), f, resid[p])
      \/ WriteLoop(p, pipeunlock(j, f), f, resid[p])
  <2>1. j = [Now EXCEPT !.pp[f] = [@ EXCEPT !.size = BIG_PIPE_SIZE, !.cnt = 0,
                                          !.in = 0, !.out = 0, !.buffer = empty]]
    BY <1>1
  <2> HIDE DEF j
  <2> QED
    BY <1>1, <2>1 DEF pipespace
<1>5. pipe[f].busy > 0 /\ pipe[f].cnt \in Nat
  BY <1>0, <1>1, BusyPositive, NumbersAre
<1>6. pipe[f] \in PipeRecord
  BY <1>1 DEF Types
<1>7. /\ t.size = BIG_PIPE_SIZE /\ t.cnt = 0 /\ t.busy = pipe[f].busy /\ t.state = pipe[f].state
      /\ t.selpid = pipe[f].selpid /\ t.coll = pipe[f].coll
  BY <1>6 DEF PipeRecord
<1>8. empty \in Buffer(BIG_PIPE_SIZE)
  BY DEF Buffer
<1>9. t \in PipeRecord
  <2> HIDE DEF empty
  <2> QED
    BY <1>6, <1>8 DEF PipeRecord
<1> HIDE DEF t, f
<1>10. Amid(p, f, j) /\ j.pp[f] = t
  BY <1>1, <1>5, <1>7, <1>9, AmidData
<1> HIDE DEF j
<1>11. CASE WriteLoop(p, pipeunlock(Now, f), f, resid[p])
  <2> DEFINE k == pipeunlock(Now, f)
  <2>1. Amid(p, f, Now) /\ Now.pp[f] = pipe[f]
    BY <1>1, <1>5, AmidNow
  <2>2. /\ Amid(p, f, k) /\ "LOCK" \notin k.pp[f].state
        /\ k.pp[f].cnt = pipe[f].cnt /\ k.pp[f].size = pipe[f].size
    BY <1>1, <2>1, AmidUnlock
  <2>3. WriteLoop(p, k, f, resid[p])
    BY <1>11
  <2> HIDE DEF k
  <2>4. k.pp[f].cnt <= pipe[f].cnt
    BY <1>5, <2>2
  <2> QED
    BY <1>0, <1>1, <1>2, <2>2, <2>3, <2>4, WriteLoopTurn
<1>12. CASE WriteLoop(p, pipeunlock(j, f), f, resid[p])
  <2> DEFINE k == pipeunlock(j, f)
  <2>1. /\ Amid(p, f, k) /\ "LOCK" \notin k.pp[f].state
        /\ k.pp[f].cnt = 0 /\ k.pp[f].size = BIG_PIPE_SIZE
    BY <1>1, <1>7, <1>10, AmidUnlock
  <2>2. WriteLoop(p, k, f, resid[p])
    BY <1>12
  <2> HIDE DEF k
  <2>3. /\ PIPE_SIZE \in Nat /\ BIG_PIPE_SIZE \in Nat /\ PIPE_BUF \in Nat /\ MINPIPESIZE \in Nat
        /\ PIPE_BUF + MINPIPESIZE <= PIPE_SIZE /\ PIPE_SIZE < BIG_PIPE_SIZE
    BY PipeAssumption DEF MINPIPESIZE
  <2>4. Usable(p, k, f, resid[p]) = BIG_PIPE_SIZE
    <3>1. ~(op[p].n <= PIPE_BUF) /\ BIG_PIPE_SIZE - 0 = BIG_PIPE_SIZE
      BY <1>1, <1>3, <2>3
    <3> QED
      BY <2>1, <3>1 DEF Usable, Space
  <2>5. BIG_PIPE_SIZE >= MINPIPESIZE /\ resid[p] > 0 /\ k.pp[f].cnt <= pipe[f].cnt
    BY <1>1, <1>3, <1>5, <2>1, <2>3
  <2> QED
    BY <1>0, <1>1, <1>2, <1>3, <2>1, <2>2, <2>4, <2>5, WriteLoopTurn
<1> QED
  BY <1>4, <1>11, <1>12

\* ... the one after a sleep for the lock of a transfer, ...
LEMMA WriteLockTurn ==
    ASSUME PipeInv, NEW p \in Proc, WriteLock(p)
    PROVE  \E h, u, where, r, sp : Turn(p, h, u, where, r, sp)
<1> DEFINE f == Target(p)
           l == Lock(Now, f)
           k == pipeunlock(l, f)
<1>0. /\ pc[p] = "wlock" /\ pc[p] \in Writing \ {"alloc"} /\ Awake(p) /\ pc[p] \in Busy
      /\ pc[p] \notin Holding
  BY DEF WriteLock, At, Writing, Busy, Holding
<1>1. /\ Types /\ BusyCounts /\ Peer(op[p].file) = f /\ f \in End /\ f = Target(p)
      /\ resid[p] \in Nat /\ Now.pp = pipe /\ resid[p] <= op[p].n
      /\ \A g \in End : Locked(Now, g) <=> "LOCK" \in pipe[g].state
  BY <1>0, AtWriting
<1>2. closer' = closer /\ ops' = ops
  BY DEF WriteLock
<1>3. \/ WriteDone(p, Now, f)
      \/ Locked(Now, f) /\ StayWith(p, LockSleep(Now, p, f), "wlock", resid[p], space[p])
      \/ WriteLoop(p, k, f, resid[p])
      \/ StayWith(p, Lock(Now, f), "wmove", resid[p], space[p])
  BY <1>1 DEF WriteLock
<1> HIDE DEF f
<1>4. pipe[f].busy > 0 /\ pipe[f].cnt \in Nat
  BY <1>0, <1>1, BusyPositive, NumbersAre
<1>5. Amid(p, f, Now) /\ SameCounts(Now, Now)
  BY <1>1, <1>4, AmidNow
<1>6. CASE WriteDone(p, Now, f)
  BY <1>0, <1>1, <1>2, <1>5, <1>6, WriteDoneTurn
<1>7. CASE Locked(Now, f) /\ StayWith(p, LockSleep(Now, p, f), "wlock", resid[p], space[p])
  <2>1. "LOCK" \in pipe[f].state /\ "wlock" \in LockPlaces /\ "wlock" \notin Reading
    BY <1>1, <1>7 DEF LockPlaces, Reading
  <2> QED
    BY <1>0, <1>1, <1>2, <1>5, <1>7, <2>1, LockSleepTurn
<1>8. CASE WriteLoop(p, k, f, resid[p])
  <2>1. Amid(p, f, l) /\ l.pp[f].cnt = pipe[f].cnt /\ l.pp[f].size = pipe[f].size
    BY <1>1, <1>5, AmidLock
  <2> HIDE DEF l
  <2>2. /\ Amid(p, f, k) /\ "LOCK" \notin k.pp[f].state
        /\ k.pp[f].cnt = pipe[f].cnt /\ k.pp[f].size = pipe[f].size
    BY <1>1, <2>1, AmidUnlock
  <2> HIDE DEF k
  <2>3. k.pp[f].cnt >= pipe[f].cnt
    BY <1>4, <2>2
  <2> QED
    BY <1>0, <1>1, <1>2, <1>8, <2>2, <2>3, WriteLoopTurn
<1>9. CASE StayWith(p, Lock(Now, f), "wmove", resid[p], space[p])
  BY <1>0, <1>1, <1>2, <1>5, <1>9, LockTurn
<1> QED
  BY <1>3, <1>6, <1>7, <1>8, <1>9

\* ... the one after a transfer, ...
LEMMA WriteMoveTurn ==
    ASSUME PipeInv, NEW p \in Proc, WriteMove(p)
    PROVE  \E h, u, where, r, sp : Turn(p, h, u, where, r, sp)
<1> DEFINE f == Target(p)
           n == Min({space[p], resid[p]})
           bytes == [i \in 1 .. n |-> <<p, op[p].n - resid[p] + i>>]
           t == Put(pipe[f], bytes)
           j == [Now EXCEPT !.pp[f] = t]
           k == pipeunlock(j, f)
<1>0. pc[p] = "wmove" /\ pc[p] \in Writing /\ Awake(p) /\ pc[p] \in Busy
  BY DEF WriteMove, At, Writing, Busy
<1>1. /\ Types /\ BusyCounts /\ Peer(op[p].file) = f /\ f \in End /\ f = Target(p)
      /\ Sane(pipe[f]) /\ resid[p] \in Nat /\ space[p] \in Nat /\ op[p].n \in Nat /\ Now.pp = pipe
      /\ resid[p] <= op[p].n /\ space[p] > 0 /\ resid[p] > 0
      /\ space[p] <= pipe[f].size - pipe[f].cnt
  BY <1>0, AtWriting
<1>2. closer' = closer /\ ops' = ops
  BY DEF WriteMove
<1>3. WriteLoop(p, k, f, resid[p] - n)
  <2>1. WriteLoop(p, pipeunlock([Now EXCEPT !.pp[f] = Put(@, bytes)], f), f, resid[p] - n)
    BY <1>1 DEF WriteMove
  <2>2. [Now EXCEPT !.pp[f] = Put(@, bytes)] = j
    BY <1>1
  <2> QED
    BY <2>1, <2>2
<1>4. n \in {space[p], resid[p]} /\ n <= space[p] /\ n <= resid[p]
  BY <1>1, MinTwo
<1> HIDE DEF n
<1>5. pipe[f].size \in Nat /\ pipe[f].cnt \in Nat
  BY <1>1, SizeNat
<1>6. n \in Nat /\ n > 0 /\ n <= pipe[f].size - pipe[f].cnt /\ resid[p] - n \in Nat
      /\ resid[p] - n <= op[p].n
  BY <1>1, <1>4, <1>5
<1>7. pipe[f] \in PipeRecord /\ stream[f] \in Seq(Byte) /\ Ring(pipe[f], stream[f])
  BY <1>1, StreamNow DEF Types, PipeInv
<1>8. bytes \in Seq(Byte) /\ Len(bytes) = n
  <2>1. \A i \in 1 .. n : op[p].n - resid[p] + i \in Nat \ {0}
    BY <1>1, <1>6
  <2>2. \A i \in 1 .. n : <<p, op[p].n - resid[p] + i>> \in Byte
    BY <2>1 DEF Byte
  <2> QED
    BY <1>6, <2>2
<1> HIDE DEF bytes
<1>9. t.cnt = pipe[f].cnt + n /\ t.selpid = pipe[f].selpid /\ t.coll = pipe[f].coll
  BY <1>7, <1>8 DEF Put, PipeRecord
<1>10. t = Put(pipe[f], bytes)
  OBVIOUS
<1> HIDE DEF t
<1>11. t \in PipeRecord /\ t.busy = pipe[f].busy /\ t.state = pipe[f].state /\ t.size = pipe[f].size
  <2>1. Len(bytes) > 0 /\ Len(bytes) <= pipe[f].size - pipe[f].cnt
    BY <1>6, <1>8
  <2> QED
    BY <1>1, <1>7, <1>8, <1>10, <2>1, PutRing
<1> HIDE DEF f
<1>12. pipe[f].busy > 0
  BY <1>0, <1>1, BusyPositive
<1>13. Amid(p, f, j) /\ j.pp[f] = t
  BY <1>1, <1>9, <1>11, <1>12, AmidData
<1> HIDE DEF j
<1>14. /\ Amid(p, f, k) /\ "LOCK" \notin k.pp[f].state
       /\ k.pp[f].cnt = pipe[f].cnt + n /\ k.pp[f].size = pipe[f].size
  BY <1>1, <1>9, <1>11, <1>13, AmidUnlock
<1> HIDE DEF k
<1>15. /\ k.pp[f].cnt > 0 /\ k.pp[f].cnt >= pipe[f].cnt
       /\ \/ k.pp[f].cnt >= pipe[f].cnt + space[p]
          \/ k.pp[f].cnt >= pipe[f].cnt + resid[p]
  BY <1>1, <1>4, <1>5, <1>6, <1>14
<1> QED
  BY <1>0, <1>1, <1>2, <1>3, <1>6, <1>14, <1>15, WriteLoopTurn

\* ... the one after a transfer that failed ...
LEMMA WriteFaultTurn ==
    ASSUME PipeInv, NEW p \in Proc, WriteFault(p)
    PROVE  \E h, u, where, r, sp : Turn(p, h, u, where, r, sp)
<1> DEFINE f == Target(p)
           k == pipeunlock(Now, f)
<1>0. /\ pc[p] = "wmove" /\ pc[p] \in Writing \ {"alloc"} /\ Awake(p) /\ pc[p] \in Busy
      /\ p \in Faulty
  BY DEF WriteFault, At, Writing, Busy
<1>1. Types /\ BusyCounts /\ Peer(op[p].file) = f /\ f \in End /\ f = Target(p)
  BY <1>0, AtWriting
<1>2. closer' = closer /\ ops' = ops
  BY DEF WriteFault
<1>3. WriteDone(p, k, f)
  BY <1>1 DEF WriteFault
<1> HIDE DEF f
<1>4. Amid(p, f, Now) /\ SameCounts(Now, Now)
  BY <1>0, <1>1, BusyPositive, AmidNow
<1>5. Amid(p, f, k) /\ SameCounts(Now, k) /\ "LOCK" \notin k.pp[f].state
  BY <1>1, <1>4, AmidUnlock
<1> HIDE DEF k
<1> QED
  BY <1>0, <1>1, <1>2, <1>3, <1>5, WriteDoneTurn

\* ... and the one after a sleep for space.
LEMMA WriteAgainTurn ==
    ASSUME PipeInv, NEW p \in Proc, WriteAgain(p)
    PROVE  \E h, u, where, r, sp : Turn(p, h, u, where, r, sp)
<1> DEFINE f == Target(p)
<1>0. /\ pc[p] = "pipewr" /\ pc[p] \in Writing \ {"alloc"} /\ Awake(p) /\ pc[p] \in Busy
      /\ pc[p] \notin Holding
  BY DEF WriteAgain, At, Writing, Busy, Holding
<1>1. /\ Types /\ BusyCounts /\ Peer(op[p].file) = f /\ f \in End /\ f = Target(p)
      /\ resid[p] \in Nat /\ Now.pp = pipe /\ resid[p] <= op[p].n
  BY <1>0, AtWriting
<1>2. closer' = closer /\ ops' = ops
  BY DEF WriteAgain
<1>3. WriteDone(p, Now, f) \/ WriteLoop(p, Now, f, resid[p])
  BY <1>1 DEF WriteAgain
<1> HIDE DEF f
<1>4. pipe[f].busy > 0 /\ pipe[f].cnt \in Nat
  BY <1>0, <1>1, BusyPositive, NumbersAre
<1>5. Amid(p, f, Now) /\ SameCounts(Now, Now)
  BY <1>1, <1>4, AmidNow
<1>6. CASE WriteDone(p, Now, f)
  BY <1>0, <1>1, <1>2, <1>5, <1>6, WriteDoneTurn
<1>7. CASE WriteLoop(p, Now, f, resid[p])
  <2>1. Now.pp[f].cnt <= pipe[f].cnt /\ Now.pp[f].cnt >= pipe[f].cnt
    BY <1>1, <1>4
  <2> QED
    BY <1>0, <1>1, <1>2, <1>5, <1>7, <2>1, WriteLoopTurn
<1> QED
  BY <1>3, <1>6, <1>7

-----------------------------------------------------------------------------
\* What is not a step in pipe_read() or pipe_write() but of a thread p: a signal, the
\* end of a timeout, the beginning of a call, or poll(), which finds nothing to wait
\* for or has put itself on record.
Watches(p, u) ==
    /\ Polled(p)' # {}
    /\ \A g \in Polled(p)' :
        /\ Recorded(u, p, g) /\ "EOF" \notin pipe[g].state
        /\ g = op'[p].file => pipe[g].cnt = 0
        /\ g = Peer(op'[p].file) => pipe[g].size - pipe[g].cnt < PIPE_BUF

SameThread(p) == pc'[p] = pc[p] /\ op'[p] = op[p] /\ resid'[p] = resid[p] /\ space'[p] = space[p]

Aside(p, u) ==
    /\ Gentle(Now, u) /\ pipe' = u.pp /\ closer' = closer /\ ops' = ops
    /\ \A g \in End :
        /\ u.pp[g].busy = pipe[g].busy /\ u.pp[g].live = pipe[g].live
        /\ "LOCK" \in u.pp[g].state => "LOCK" \in pipe[g].state
        /\ pipe[g].live \/ u.pp[g].state = pipe[g].state
    /\ \A a \in Actor : a # p => p_wchan'[a] \in {u.w[a], NoChan}
    /\ \A a \in Proc : a # p => SameThread(a)
    /\ \/ SameThread(p) /\ p_wchan'[p] \in {u.w[p], NoChan}
       \/ /\ pc[p] \in {"idle", "scan", "select"}
          /\ pc'[p] \in {"idle", "read", "write", "scan", "select"}
          /\ pc'[p] \in {"read", "write"} => resid'[p] = op'[p].n
          /\ Selecting(p)' => Watches(p, u)

\* Past the beginning of pipe_read() or pipe_write()
Inside == Place \ {"idle", "read", "write", "scan", "select"}

\* Threads there stay where they are.
LEMMA AsideThreads ==
    ASSUME Types, NEW p \in Proc, NEW u, Aside(p, u)
    PROVE  /\ \A a \in Proc : pc[a] \in Inside \/ pc'[a] \in Inside =>
                 /\ SameThread(a) /\ Target(a)' = Target(a)
                 /\ ~Awake(a)' => ~Awake(a) /\ p_wchan'[a] = u.w[a]
           /\ \A g \in End : ~Awake(g)' => ~Awake(g) /\ p_wchan'[g] = u.w[g]
           /\ Now.pp = pipe /\ Now'.pp = pipe' /\ u \in KState /\ Now.w = p_wchan
<1>1. Now.pp = pipe /\ Now'.pp = pipe' /\ u \in KState /\ Now.w = p_wchan
  BY DEF Now, Aside, Gentle, Mild
<1>2. \A a \in Actor : u.w[a] \in {p_wchan[a], NoChan}
  BY <1>1 DEF Aside, Gentle, Mild, OnlyWakes
<1>3. ASSUME NEW a \in Actor, p_wchan'[a] \in {u.w[a], NoChan}, ~Awake(a)'
      PROVE  ~Awake(a) /\ p_wchan'[a] = u.w[a]
  BY <1>2, <1>3 DEF Awake
<1>4. ASSUME NEW a \in Proc, pc[a] \in Inside \/ pc'[a] \in Inside
      PROVE  SameThread(a) /\ p_wchan'[a] \in {u.w[a], NoChan} /\ a \in Actor
  BY <1>4 DEF Aside, Inside, Actor
<1>5. \A a \in Proc : SameThread(a) => Target(a)' = Target(a)
  BY DEF SameThread, Target
<1>6. \A g \in End : g \in Actor /\ g # p
  BY PipeAssumption DEF Actor
<1>7. \A g \in End : p_wchan'[g] \in {u.w[g], NoChan}
  BY <1>6 DEF Aside
<1> QED
  BY <1>1, <1>3, <1>4, <1>5, <1>6, <1>7

\* Who is at a place in pipe_read() or pipe_write() on a pipe stays there.
LEMMA AsideIs ==
    ASSUME Types, NEW p \in Proc, NEW u, Aside(p, u), NEW a \in Proc, NEW g \in End,
           NEW S \in SUBSET Inside
    PROVE  Is(a, g, S)' <=> Is(a, g, S)
BY AsideThreads DEF Is, SameThread

\* Who frees space does so still.
LEMMA AsideFrees ==
    ASSUME Types, NEW p \in Proc, NEW u, Aside(p, u), NEW a \in Proc, NEW g \in End,
           Frees(a, g)
    PROVE  Frees(a, g)'
<1>1. {"move"} \in SUBSET Inside /\ {"wmove"} \in SUBSET Inside
  BY DEF Inside, Place
<1>2. CASE Is(a, g, {"move"})
  <2>1. Is(a, g, {"move"})'
    BY <1>1, <1>2, AsideIs
  <2> QED
    BY <2>1 DEF Frees
<1>3. CASE Filler(a, g)
  <2>1. Is(a, g, {"wmove"})'
    BY <1>1, <1>3, AsideIs DEF Filler
  <2>2. SameThread(a)
    BY <1>3, AsideThreads DEF Filler, Is, Inside, Place
  <2>3. pipe'[g].cnt = pipe[g].cnt
    BY AsideThreads DEF Aside, Gentle, SameCounts
  <2>4. Filler(a, g)'
    BY <1>3, <2>1, <2>2, <2>3 DEF Filler, SameThread
  <2> QED
    BY <2>4 DEF Frees
<1> QED
  BY <1>2, <1>3 DEF Frees

\* PIPE_EOF and PIPE_LOCK say what they said.
LEMMA AsideFlags ==
    ASSUME PipeInv, PipeInv', Ended, LockHeld, NEW p \in Proc, NEW u, Aside(p, u)
    PROVE  Ended' /\ LockHeld'
<1>0. Types
  BY DEF PipeInv
<1>1. \A g \in End : "EOF" \in pipe'[g].state <=> "EOF" \in pipe[g].state
  BY <1>0, AsideThreads DEF Aside, Gentle, SameEof
<1>2. \A g \in End : pipe'[g].live <=> pipe[g].live
  BY DEF Aside
<1>3. \A g \in End : ~pipe[g].live => pipe'[g].state = pipe[g].state
  BY DEF Aside
<1>4. Ended'
  BY <1>1, <1>2, <1>3 DEF Ended, Aside
<1>5. Holding \in SUBSET Inside
  BY DEF Holding, Inside, Place
<1>6. \A g \in End : "LOCK" \in pipe'[g].state => "LOCK" \in pipe[g].state
  BY DEF Aside
<1>7. LockHeld'
  BY <1>0, <1>5, <1>6, AsideIs DEF LockHeld
<1> QED
  BY <1>4, <1>7

\* Who sleeps on a pipe finds the flags that it has set.
LEMMA AsideSleeper ==
    ASSUME PipeInv, PipeInv', NEW p \in Proc, NEW u, Aside(p, u), NEW a \in Proc,
           ~Awake(a)', pc'[a] \in Waiting
    PROVE  /\ ~Awake(a) /\ pc[a] = pc'[a] /\ Target(a)' = Target(a) /\ Target(a) \in End
           /\ \A x \in Wants : x \in pipe[Target(a)].state => x \in pipe'[Target(a)].state
           /\ {"LOCK", "LWANT"} \subseteq pipe[Target(a)].state
                 => {"LOCK", "LWANT"} \subseteq pipe'[Target(a)].state
<1>0. Types /\ Channels'
  BY DEF PipeInv
<1>1. pc'[a] \in Inside
  BY DEF Waiting, Inside, Place
<1>2. /\ SameThread(a) /\ Target(a)' = Target(a) /\ ~Awake(a) /\ p_wchan'[a] = u.w[a]
      /\ Now.pp = pipe
  BY <1>0, <1>1, AsideThreads
<1>3. pc[a] = pc'[a] /\ Target(a) \in End /\ a \in Actor
  BY <1>0, <1>2, NowTypes DEF SameThread, Actor
<1>4. p_wchan'[a] = Target(a)'
  BY <1>0 DEF Channels, Waiting
<1>5. u.w[a] = Target(a)
  BY <1>2, <1>4
<1>6. ~Nobody(u, Target(a))
  BY <1>3, <1>5 DEF Nobody
<1>7. \A x \in Wants : x \in pipe[Target(a)].state => x \in pipe'[Target(a)].state
  BY <1>2, <1>3, <1>6 DEF Aside, Gentle, Mild
<1>8. {"LOCK", "LWANT"} \subseteq pipe[Target(a)].state => "LOCK" \in pipe'[Target(a)].state
  BY <1>2, <1>3, <1>6 DEF Aside, Gentle, Mild
<1> QED
  BY <1>2, <1>3, <1>7, <1>8 DEF Wants

\* Readers, writers and those who want PIPE_LOCK sleep for what is not there.
LEMMA AsideWaits ==
    ASSUME PipeInv, PipeInv', LockWanted, ReaderNotForgotten, WriterWaits,
           NEW p \in Proc, NEW u, Aside(p, u)
    PROVE  LockWanted' /\ ReaderNotForgotten' /\ WriterWaits'
<1>0. Types
  BY DEF PipeInv
<1>1. /\ Now.pp = pipe /\ Now'.pp = pipe'
      /\ \A g \in End : /\ pipe'[g].cnt = pipe[g].cnt
                        /\ "EOF" \in pipe'[g].state <=> "EOF" \in pipe[g].state
  BY <1>0, AsideThreads DEF Aside, Gentle, SameCounts, SameEof
<1>2. LockPlaces \subseteq Waiting /\ {"piperd", "pipewr"} \subseteq Waiting
  BY DEF LockPlaces, Waiting
<1>3. LockWanted'
  <2> SUFFICES ASSUME NEW a \in Proc, ~Awake(a)', pc'[a] \in LockPlaces
               PROVE  \A g \in End : g = Target(a)' => {"LOCK", "LWANT"} \subseteq pipe'[g].state
    <3>1. \A a \in Proc : ~Awake(a)' /\ pc'[a] \in LockPlaces => Target(a)' \in End
      BY <1>2, AsideSleeper
    <3> QED
      BY <3>1 DEF LockWanted
  <2>1. /\ ~Awake(a) /\ pc[a] = pc'[a] /\ Target(a)' = Target(a)
        /\ {"LOCK", "LWANT"} \subseteq pipe[Target(a)].state
              => {"LOCK", "LWANT"} \subseteq pipe'[Target(a)].state
    BY <1>2, AsideSleeper
  <2> QED
    BY <2>1 DEF LockWanted
<1>4. ReaderNotForgotten'
  <2> SUFFICES ASSUME NEW g \in End, NEW a \in Proc, Is(a, g, {"piperd"})', ~Awake(a)'
               PROVE  /\ "EOF" \notin pipe'[g].state /\ "WANTR" \in pipe'[g].state
                      /\ pipe'[g].cnt > 0 => \E q \in Proc : Is(q, g, {"wlock", "wmove"})'
    BY <1>1 DEF ReaderNotForgotten, Eof
  <2>1. pc'[a] \in Waiting /\ pc'[a] = "piperd" /\ Target(a)' = g
    BY <1>2 DEF Is
  <2>2. /\ ~Awake(a) /\ Is(a, g, {"piperd"})
        /\ \A x \in Wants : x \in pipe[g].state => x \in pipe'[g].state
    BY <2>1, AsideSleeper DEF Is
  <2>3. /\ "EOF" \notin pipe[g].state /\ "WANTR" \in pipe[g].state
        /\ pipe[g].cnt > 0 => \E q \in Proc : Is(q, g, {"wlock", "wmove"})
    BY <1>1, <2>2 DEF ReaderNotForgotten, Eof
  <2>4. \A q \in Proc : Is(q, g, {"wlock", "wmove"}) => Is(q, g, {"wlock", "wmove"})'
    BY <1>0, AsideIs DEF Inside, Place
  <2> QED
    BY <1>1, <2>2, <2>3, <2>4 DEF Wants
<1>5. WriterWaits'
  <2> SUFFICES ASSUME NEW g \in End, NEW a \in Proc, Is(a, g, {"pipewr"})', ~Awake(a)'
               PROVE  /\ "EOF" \notin pipe'[g].state /\ "WANTW" \in pipe'[g].state
                      /\ pipe'[g].cnt < MINPIPESIZE => \E q \in Proc : Frees(q, g)'
    BY DEF WriterWaits
  <2>1. pc'[a] \in Waiting /\ pc'[a] = "pipewr" /\ Target(a)' = g
    BY <1>2 DEF Is
  <2>2. /\ ~Awake(a) /\ Is(a, g, {"pipewr"})
        /\ \A x \in Wants : x \in pipe[g].state => x \in pipe'[g].state
    BY <2>1, AsideSleeper DEF Is
  <2>3. /\ "EOF" \notin pipe[g].state /\ "WANTW" \in pipe[g].state
        /\ pipe[g].cnt < MINPIPESIZE => \E q \in Proc : Frees(q, g)
    BY <2>2 DEF WriterWaits
  <2>4. \A q \in Proc : Frees(q, g) => Frees(q, g)'
    BY <1>0, AsideFrees
  <2> QED
    BY <1>1, <2>2, <2>3, <2>4 DEF Wants
<1> QED
  BY <1>3, <1>4, <1>5

\* Pollers do, too ...
LEMMA AsidePollers ==
    ASSUME PipeInv, PipeInv', PollerRecorded, PollerWaits, NEW p \in Proc, NEW u, Aside(p, u)
    PROVE  PollerRecorded' /\ PollerWaits'
<1>0. Types /\ Channels /\ Channels'
  BY DEF PipeInv
<1>1. /\ Now.pp = pipe /\ Now'.pp = pipe' /\ pipe' = u.pp
      /\ \A g \in End : /\ pipe'[g].cnt = pipe[g].cnt /\ pipe'[g].size = pipe[g].size
                        /\ "EOF" \in pipe'[g].state <=> "EOF" \in pipe[g].state
  BY <1>0, AsideThreads DEF Aside, Gentle, SameCounts, SameEof
<1>2. \A g \in End, q \in Proc : Is(q, g, {"wlock", "wmove"}) => Is(q, g, {"wlock", "wmove"})'
  BY <1>0, AsideIs DEF Inside, Place
<1>3. \A g \in End, q \in Proc : Frees(q, g) => Frees(q, g)'
  BY <1>0, AsideFrees
<1>4. \A a \in Proc, g \in End : Recorded(u, a, g) => Recorded(Now, a, g)'
  BY <1>1 DEF Recorded
<1>5. ASSUME NEW a \in Proc, Selecting(a)', SameThread(a), p_wchan'[a] \in {u.w[a], NoChan}
      PROVE  /\ Selecting(a) /\ op'[a] = op[a] /\ Polled(a)' = Polled(a)
             /\ \A g \in Polled(a) : Recorded(Now, a, g)' /\ g \in End
  <2>1. pc[a] = "select" /\ op'[a] = op[a] /\ p_wchan'[a] = u.w[a] /\ a \in Actor
    BY <1>5 DEF Selecting, SameThread, Awake, Actor
  <2>2. ~Awake(a)
    BY <1>0, <1>5, <2>1, NowTypes DEF Aside, Gentle, Mild, OnlyWakes, Awake, Selecting
  <2>3. p_wchan'[a] = "selwait"
    BY <1>0, <1>5, <2>1 DEF Selecting, Channels, Waiting
  <2>4. Selecting(a) /\ Polled(a)' = Polled(a)
    BY <2>1, <2>2 DEF Selecting, Polled
  <2>5. ASSUME NEW g \in Polled(a)
        PROVE  Recorded(u, a, g) /\ g \in End
    <3>1. g \in End /\ Recorded(Now, a, g)
      BY <2>4 DEF PollerRecorded, Polled
    <3> QED
      BY <2>1, <2>3, <3>1 DEF Aside, Gentle, Mild
  <2> QED
    BY <1>4, <2>1, <2>4, <2>5
<1>6. ASSUME NEW a \in Proc, Selecting(a)'
      PROVE  \/ SameThread(a) /\ p_wchan'[a] \in {u.w[a], NoChan}
             \/ a = p /\ Watches(p, u)
  BY <1>6 DEF Aside, Actor
<1>7. \A g \in Polled(p)' : g \in End
  BY DEF Polled
<1>8. PollerRecorded'
  <2> SUFFICES ASSUME NEW a \in Proc, Selecting(a)'
               PROVE  /\ Polled(a)' # {}
                      /\ \A g \in Polled(a)' : Recorded(Now, a, g)' /\ "EOF" \notin pipe'[g].state
    BY DEF PollerRecorded
  <2>1. CASE SameThread(a) /\ p_wchan'[a] \in {u.w[a], NoChan}
    <3>1. /\ Selecting(a) /\ Polled(a)' = Polled(a)
          /\ \A g \in Polled(a) : Recorded(Now, a, g)' /\ g \in End
      BY <1>5, <2>1
    <3>2. Polled(a) # {} /\ \A g \in Polled(a) : "EOF" \notin pipe[g].state
      BY <3>1 DEF PollerRecorded
    <3> QED
      BY <1>1, <3>1, <3>2
  <2>2. CASE a = p /\ Watches(p, u)
    BY <1>1, <1>4, <1>7, <2>2 DEF Watches
  <2> QED
    BY <1>6, <2>1, <2>2
<1>9. PollerWaits'
  <2> SUFFICES ASSUME NEW a \in Proc, Selecting(a)', NEW g \in Polled(a)'
               PROVE  /\ g = op'[a].file /\ pipe'[g].cnt > 0
                            => \E q \in Proc : Is(q, g, {"wlock", "wmove"})'
                      /\ g = Peer(op'[a].file) /\ pipe'[g].size - pipe'[g].cnt >= PIPE_BUF
                            => \E q \in Proc : Frees(q, g)'
    BY DEF PollerWaits
  <2>1. CASE SameThread(a) /\ p_wchan'[a] \in {u.w[a], NoChan}
    <3>1. Selecting(a) /\ op'[a] = op[a] /\ g \in Polled(a) /\ g \in End
      BY <1>5, <2>1
    <3>2. /\ g = op[a].file /\ pipe[g].cnt > 0
                => \E q \in Proc : Is(q, g, {"wlock", "wmove"})
          /\ g = Peer(op[a].file) /\ pipe[g].size - pipe[g].cnt >= PIPE_BUF
                => \E q \in Proc : Frees(q, g)
      BY <3>1 DEF PollerWaits
    <3> QED
      BY <1>1, <1>2, <1>3, <3>1, <3>2
  <2>2. CASE a = p /\ Watches(p, u)
    <3>1. /\ g \in End
          /\ g = op'[a].file => pipe[g].cnt = 0
          /\ g = Peer(op'[a].file) => pipe[g].size - pipe[g].cnt < PIPE_BUF
      BY <1>7, <2>2 DEF Watches
    <3>2. pipe[g].size \in Nat /\ pipe[g].cnt \in Nat /\ PIPE_BUF \in Nat
      BY <1>0, <3>1, SizeNat, PipeAssumption DEF Types, PipeRecord
    <3> QED
      BY <1>1, <3>1, <3>2
  <2> QED
    BY <1>6, <2>1, <2>2
<1> QED
  BY <1>8, <1>9

\* ... and the rest is as it was.
LEMMA AsideRest ==
    ASSUME PipeInv, PipeInv', CloserWaits, Starts, SoleEmpty, NEW p \in Proc, NEW u, Aside(p, u)
    PROVE  CloserWaits' /\ Starts' /\ SoleEmpty'
<1>0. Types /\ Types' /\ Channels'
  BY DEF PipeInv
<1>1. /\ Now.pp = pipe /\ pipe' = u.pp /\ u \in KState
      /\ \A g \in End : pipe'[g].cnt = pipe[g].cnt /\ pipe'[g].busy = pipe[g].busy
      /\ \A g \in End : ~Awake(g)' => ~Awake(g) /\ p_wchan'[g] = u.w[g]
      /\ \A a \in Proc : pc'[a] \in Inside => SameThread(a) /\ Target(a)' = Target(a)
  BY <1>0, AsideThreads DEF Aside, Gentle, SameCounts
<1>2. CloserWaits'
  <2> SUFFICES ASSUME NEW g \in End, ~Awake(g)'
               PROVE  "WANT" \in pipe'[g].state /\ pipe'[g].busy > 0
    BY DEF CloserWaits
  <2>1. p_wchan'[g] = g /\ g \in Actor
    BY <1>0 DEF Channels, Actor
  <2>2. ~Awake(g) /\ ~Nobody(u, g)
    BY <1>1, <2>1 DEF Nobody
  <2>3. "WANT" \in pipe[g].state /\ pipe[g].busy > 0
    BY <2>2 DEF CloserWaits
  <2> QED
    BY <1>1, <2>2, <2>3 DEF Aside, Gentle, Mild, Wants
<1>3. Starts'
  <2> SUFFICES ASSUME NEW a \in Proc
               PROVE  /\ pc'[a] \in {"write", "wbig", "alloc"} => resid'[a] = op'[a].n
                      /\ pc'[a] \in {"wbig", "alloc"} => op'[a].n > PIPE_SIZE
                      /\ pc'[a] \in Reading => resid'[a] <= op'[a].n
    BY DEF Starts
  <2>1. CASE SameThread(a)
    BY <2>1 DEF SameThread, Starts
  <2>2. CASE ~SameThread(a)
    <3>1. /\ pc'[a] \in {"idle", "read", "write", "scan", "select"}
          /\ pc'[a] \in {"read", "write"} => resid'[a] = op'[a].n
      BY <2>2 DEF Aside
    <3>2. resid'[a] \in Nat
      BY <1>0 DEF Types, TypeOK
    <3> QED
      BY <3>1, <3>2 DEF Reading
  <2> QED
    BY <2>1, <2>2
<1>4. SoleEmpty'
  <2> SUFFICES ASSUME NEW a \in Proc, a \in Faulty, pc'[a] \in {"wbig", "alloc"}
               PROVE  \A g \in End : g = Target(a)' => pipe'[g].cnt = 0
    <3>1. \A a \in Proc : pc'[a] \in {"wbig", "alloc"} => Target(a)' \in End
      BY <1>0, <1>1, NowTypes DEF Inside, Place
    <3> QED
      BY <3>1 DEF SoleEmpty
  <2>1. pc[a] \in {"wbig", "alloc"} /\ Target(a)' = Target(a) /\ Target(a) \in End
    BY <1>0, <1>1, NowTypes DEF SameThread, Inside, Place
  <2>2. pipe[Target(a)].cnt = 0
    BY <2>1 DEF SoleEmpty
  <2> QED
    BY <1>1, <2>1, <2>2
<1> QED
  BY <1>2, <1>3, <1>4

\* Such a step forgets nobody.
LEMMA AsideKeeps ==
    ASSUME PipeInv, PipeInv', WatchInv, NEW p \in Proc, \E u : Aside(p, u)
    PROVE  WatchInv'
<1>1. PICK u : Aside(p, u)
  OBVIOUS
<1>2. /\ Ended /\ LockHeld /\ LockWanted /\ ReaderNotForgotten /\ WriterWaits
      /\ PollerRecorded /\ PollerWaits /\ CloserWaits /\ Starts /\ SoleEmpty
      /\ ops \in Workloads
  BY DEF WatchInv
<1>3. Ended' /\ LockHeld' /\ CloserWaits' /\ Starts' /\ SoleEmpty'
  BY <1>1, <1>2, AsideFlags, AsideRest
<1>4. LockWanted' /\ ReaderNotForgotten' /\ WriterWaits' /\ PollerRecorded' /\ PollerWaits'
  BY <1>1, <1>2, AsideWaits, AsidePollers
<1>5. ops' \in Workloads
  BY <1>1, <1>2 DEF Aside
<1> QED
  BY <1>3, <1>4, <1>5 DEF WatchInv

\* Signals and timeouts wake p.
LEMMA SignalAside ==
    ASSUME PipeInv, NEW p \in Proc, ptsignal(p) \/ endtsleep(p)
    PROVE  \E u : Aside(p, u)
<1>0. Types
  BY DEF PipeInv
<1>1. /\ Now \in KState /\ Now.w = p_wchan /\ Now.pp = pipe /\ p \in Actor
      /\ p_wchan \in [Actor -> Channel]
  BY <1>0, NowTypes DEF Actor, Types, TypeOK, Channel
<1>2. /\ p_wchan' = [p_wchan EXCEPT ![p] = NoChan]
      /\ UNCHANGED <<pipe, closer, nbigpipe, localVars, pc, stream, last>>
  BY DEF ptsignal, endtsleep, PostSignal, EndTsleep
<1>3. /\ pipe' = pipe /\ closer' = closer /\ ops' = ops /\ pc' = pc /\ op' = op
      /\ resid' = resid /\ space' = space
  BY <1>2 DEF localVars
<1>4. Gentle(Now, Now)
  BY <1>1, GentleSame
<1>5. \A a \in Proc : SameThread(a)
  BY <1>3 DEF SameThread
<1>6. \A a \in Actor : p_wchan'[a] \in {Now.w[a], NoChan}
  BY <1>1, <1>2
<1>7. Aside(p, Now)
  BY <1>1, <1>3, <1>4, <1>5, <1>6 DEF Aside
<1> QED
  BY <1>7

\* A call begins.
LEMMA CallAside ==
    ASSUME PipeInv, NEW p \in Proc, NEW o \in ops, Call(p, o)
    PROVE  \E u : Aside(p, u)
<1>0. Types /\ ops \subseteq Op
  BY DEF PipeInv, Types, TypeOK
<1>1. Now \in KState /\ Now.w = p_wchan /\ Now.pp = pipe
  BY <1>0, NowTypes
<1>2. /\ pipe' = pipe /\ closer' = closer /\ ops' = ops /\ p_wchan' = p_wchan /\ space' = space
      /\ op' = [op EXCEPT ![p] = o] /\ resid' = [resid EXCEPT ![p] = o.n]
      /\ pc' = [pc EXCEPT ![p] = IF o.op = "poll" THEN "scan" ELSE o.op]
      /\ pc[p] = "idle"
  BY DEF Call
<1>3. Gentle(Now, Now)
  BY <1>1, GentleSame
<1>4. \A a \in Proc : a # p => SameThread(a)
  BY <1>0, <1>2 DEF SameThread, Types, TypeOK
<1>5. o.op \in {"read", "write", "poll"}
  BY <1>0 DEF Op
<1>6. /\ pc'[p] \in {"read", "write", "scan"} /\ op'[p] = o /\ resid'[p] = o.n
  BY <1>0, <1>2, <1>5 DEF Types, TypeOK
<1>7. ~Selecting(p)'
  BY <1>6 DEF Selecting
<1>8. \A a \in Actor : p_wchan'[a] \in {Now.w[a], NoChan}
  BY <1>1, <1>2
<1>9. Aside(p, Now)
  BY <1>1, <1>2, <1>3, <1>4, <1>6, <1>7, <1>8 DEF Aside
<1> QED
  BY <1>9

\* selrecord() puts p on record and forgets nobody who sleeps.
LEMMA SelRecordGentle ==
    ASSUME NEW k \in KState, NEW p \in Proc, NEW f \in End, NEW r, r = selrecord(k, p, f)
    PROVE  /\ r \in KState /\ r.w = k.w
           /\ r.pp[f].state = k.pp[f].state /\ r.pp[f].selpid # NoProc
           /\ r.pp[f].cnt = k.pp[f].cnt /\ r.pp[f].size = k.pp[f].size
           /\ r.pp[f].selpid = p \/ r.pp[f].coll
           /\ \A a \in Proc : Recorded(k, a, f) /\ k.w[a] = "selwait" => Recorded(r, a, f)
           /\ \A g \in End : g # f => r.pp[g] = k.pp[g]
<1> DEFINE first == k.pp[f].selpid
<1>0. NoProc \notin Proc
  BY PipeAssumption
<1>1. first \in Proc \cup {NoProc} /\ k.pp[f].coll \in BOOLEAN
  BY DEF KState, PipeRecord
<1>2. CASE first = p
  <2>1. r = k
    BY <1>2 DEF selrecord
  <2> QED
    BY <1>0, <1>2, <2>1
<1>3. CASE first # p /\ first # NoProc /\ k.w[first] = "selwait"
  <2>1. r = [k EXCEPT !.pp[f].selpid = k.pp[f].selpid, !.pp[f].coll = TRUE]
    BY <1>3 DEF selrecord, KState, PipeRecord
  <2>2. Resels(k, r, f, first, TRUE)
    <3>1. Resels(k, [k EXCEPT !.pp[f].selpid = k.pp[f].selpid, !.pp[f].coll = TRUE], f, k.pp[f].selpid, TRUE)
      BY <1>1, SelShape
    <3> QED
      BY <2>1, <3>1, Zenon
  <2> HIDE DEF first
  <2> QED
    BY <1>3, <2>2 DEF Resels, Recorded
<1>4. CASE first # p /\ ~(first # NoProc /\ k.w[first] = "selwait")
  <2>1. r = [k EXCEPT !.pp[f].selpid = p]
    BY <1>4 DEF selrecord
  <2>2. r = [k EXCEPT !.pp[f].selpid = p, !.pp[f].coll = k.pp[f].coll]
    BY <2>1 DEF KState, PipeRecord
  <2>3. Resels(k, r, f, p, k.pp[f].coll)
    <3>1. Resels(k, [k EXCEPT !.pp[f].selpid = p, !.pp[f].coll = k.pp[f].coll], f, p, k.pp[f].coll)
      BY <1>1, SelShape
    <3> QED
      BY <2>2, <3>1, Zenon
  <2>4. \A a \in Proc : Recorded(k, a, f) /\ k.w[a] = "selwait" => k.pp[f].coll
    BY <1>4 DEF Recorded
  <2> HIDE DEF first
  <2> QED
    BY <1>0, <2>3, <2>4 DEF Resels, Recorded
<1> QED
  BY <1>2, <1>3, <1>4

\* "selrecord(); state |= PIPE_SEL" of pipe_poll()
LEMMA RecordGentle ==
    ASSUME NEW k \in KState, NEW p \in Proc, NEW f \in End,
           NEW m, m = SetFlags(selrecord(k, p, f), f, {"SEL"})
    PROVE  /\ Gentle(k, m) /\ m.w = k.w /\ Recorded(m, p, f)
           /\ \A g \in End : g # f => m.pp[g] = k.pp[g]
<1> DEFINE r == selrecord(k, p, f)
<1>1. /\ r \in KState /\ r.w = k.w
      /\ r.pp[f].state = k.pp[f].state /\ r.pp[f].selpid # NoProc
      /\ r.pp[f].cnt = k.pp[f].cnt /\ r.pp[f].size = k.pp[f].size
      /\ r.pp[f].selpid = p \/ r.pp[f].coll
      /\ \A a \in Proc : Recorded(k, a, f) /\ k.w[a] = "selwait" => Recorded(r, a, f)
      /\ \A g \in End : g # f => r.pp[g] = k.pp[g]
  BY SelRecordGentle
<1>2. Reflags(r, m, f, r.pp[f].state \cup {"SEL"})
  BY <1>1, SetShape DEF Flags
<1> HIDE DEF r
<1>3. m \in KState /\ m.w = k.w /\ \A g \in End : g # f => m.pp[g] = k.pp[g]
  BY <1>1, <1>2 DEF Reflags
<1>4. m.pp[f].state = k.pp[f].state \cup {"SEL"}
  BY <1>1, <1>2 DEF Reflags
<1>5. Recorded(m, p, f)
  BY <1>1, <1>2, <1>4 DEF Reflags, Recorded
<1>6. \A a \in Proc : Recorded(k, a, f) /\ m.w[a] = "selwait" => Recorded(m, a, f)
  BY <1>1, <1>2, <1>3, <1>4 DEF Reflags, Recorded
<1>7. \A g \in End, a \in Proc : Recorded(k, a, g) /\ m.w[a] = "selwait" => Recorded(m, a, g)
  BY <1>3, <1>6 DEF Recorded
<1>8. \A g \in End : \A x : x \in k.pp[g].state => x \in m.pp[g].state
  BY <1>3, <1>4
<1>9. Mild(k, m)
  BY <1>3, <1>7, <1>8 DEF Mild, OnlyWakes
<1>10. SameEof(k, m) /\ SameCounts(k, m)
  BY <1>1, <1>2, <1>3, <1>4 DEF Reflags, SameEof, SameCounts
<1> QED
  BY <1>3, <1>5, <1>9, <1>10 DEF Gentle

\* pipe_poll() without an event puts p on record wherever it polls.
LEMMA PollRecordGentle ==
    ASSUME NEW k \in KState, NEW p \in Proc, NEW f \in End, NEW ev,
           NEW m, m = PollRecord(k, p, f, ev)
    PROVE  /\ Gentle(k, m) /\ m.w = k.w
           /\ "IN" \in ev => Recorded(m, p, f)
           /\ "OUT" \in ev => Recorded(m, p, Peer(f))
<1> DEFINE in == IF "IN" \in ev THEN SetFlags(selrecord(k, p, f), f, {"SEL"}) ELSE k
<1>1. Peer(f) \in End /\ Peer(f) # f
  BY DEF Peer, End
<1>2. m = IF "OUT" \in ev THEN SetFlags(selrecord(in, p, Peer(f)), Peer(f), {"SEL"}) ELSE in
  BY DEF PollRecord
<1>3. Gentle(k, in) /\ in.w = k.w /\ ("IN" \in ev => Recorded(in, p, f))
  BY RecordGentle, GentleSame
<1> HIDE DEF in
<1>4. in \in KState
  BY <1>3 DEF Gentle, Mild
<1>5. CASE "OUT" \in ev
  <2>1. m = SetFlags(selrecord(in, p, Peer(f)), Peer(f), {"SEL"})
    BY <1>2, <1>5
  <2>2. /\ Gentle(in, m) /\ m.w = in.w /\ Recorded(m, p, Peer(f))
        /\ \A g \in End : g # Peer(f) => m.pp[g] = in.pp[g]
    BY <1>1, <1>4, <2>1, RecordGentle
  <2>3. Gentle(k, m)
    BY <1>3, <2>2, GentleTrans
  <2>4. "IN" \in ev => Recorded(m, p, f)
    BY <1>1, <1>3, <2>2 DEF Recorded
  <2> QED
    BY <1>3, <2>2, <2>3, <2>4
<1>6. CASE "OUT" \notin ev
  BY <1>2, <1>3, <1>6
<1> QED
  BY <1>5, <1>6

\* poll() returns, or sleeps on record for events that are not there.
LEMMA PollAside ==
    ASSUME PipeInv, \A w \in Workloads : Sturdy(w), ops \in Workloads, NEW p \in Proc, Poll(p)
    PROVE  \E u : Aside(p, u)
<1> DEFINE f == op[p].file
           k == PollRecord(Now, p, f, op[p].ev)
           m == [k EXCEPT !.w = SleepCatch(@, p, "selwait")]
<1>0. Types /\ CallsFit /\ Connected /\ pc[p] \in {"scan", "select"} /\ pc[p] # "idle"
  BY DEF PipeInv, Poll, At
<1>1. /\ op[p].op = "poll" /\ op[p] \in ops /\ op[p] \in Op /\ f \in End
      /\ op[p].ev \subseteq {"IN", "OUT"} /\ p \in Actor
  BY <1>0 DEF CallsFit, Types, TypeOK, Op, Actor
<1>2. Now \in KState /\ Now.w = p_wchan /\ Now.pp = pipe
  BY <1>0, NowTypes
<1>3. closer' = closer /\ ops' = ops
  BY DEF Poll
<1>4. \/ Return(p, Now)
      \/ /\ closer[f] = "open" /\ ~Revents(Now, f, op[p].ev)
         /\ Stay(p, m, "select", resid[p])
  BY DEF Poll
<1>5. CASE Return(p, Now)
  <2>1. /\ pipe' = pipe /\ p_wchan' = p_wchan /\ pc' = [pc EXCEPT ![p] = "idle"]
        /\ op' = [op EXCEPT ![p] = NoOp] /\ resid' = [resid EXCEPT ![p] = 0]
        /\ space' = [space EXCEPT ![p] = 0]
    BY <1>2, <1>5 DEF Return, Commit
  <2>2. \A a \in Proc : a # p => SameThread(a)
    BY <1>0, <2>1 DEF SameThread, Types, TypeOK
  <2>3. pc'[p] = "idle" /\ ~Selecting(p)'
    BY <1>0, <2>1 DEF Selecting, Types, TypeOK
  <2>4. Gentle(Now, Now)
    BY <1>2, GentleSame
  <2>5. \A a \in Actor : p_wchan'[a] \in {Now.w[a], NoChan}
    BY <1>2, <2>1
  <2>6. Aside(p, Now)
    BY <1>0, <1>2, <1>3, <2>1, <2>2, <2>3, <2>4, <2>5 DEF Aside
  <2> QED
    BY <2>6
<1>6. CASE /\ closer[f] = "open" /\ ~Revents(Now, f, op[p].ev)
           /\ Stay(p, m, "select", resid[p])
  <2> DEFINE g == Peer(f)
  <2>1. Calm(Now, k) /\ g \in End /\ g # f /\ \A h \in End : h = f \/ h = g
    BY <1>1, <1>2, PollRecordCalm DEF Peer, End
  <2>2. /\ "EOF" \notin pipe[f].state /\ pipe[f].peer /\ "EOF" \notin pipe[g].state
        /\ "IN" \in op[p].ev => ~(pipe[f].cnt > 0)
        /\ "OUT" \in op[p].ev => ~(pipe[g].size - pipe[g].cnt >= PIPE_BUF)
    BY <1>2, <1>6 DEF Revents, Eof, Space
  <2>3. pipe[f].live /\ pipe[g].live
    BY <1>0, <1>1, <1>6, <2>1, <2>2 DEF Connected
  <2>4. /\ pipe[f].cnt \in Nat /\ pipe[g].cnt \in Nat /\ pipe[g].size \in Nat
        /\ PIPE_BUF \in Nat
    BY <1>0, <1>1, <2>1, SizeNat, PipeAssumption DEF Types, PipeRecord
  <2>5. /\ "IN" \in op[p].ev => pipe[f].cnt = 0
        /\ "OUT" \in op[p].ev => pipe[g].size - pipe[g].cnt < PIPE_BUF
    BY <2>2, <2>4
  <2>6. /\ Gentle(Now, k) /\ k.w = p_wchan
        /\ "IN" \in op[p].ev => Recorded(k, p, f)
        /\ "OUT" \in op[p].ev => Recorded(k, p, g)
    BY <1>1, <1>2, PollRecordGentle
  <2>7. k \in KState /\ "selwait" \in Channel
    BY <2>1 DEF Calm, Channel
  <2>8. "IN" \in op[p].ev \/ "OUT" \in op[p].ev
    <3>1. op[p].ev # {}
      BY <1>1 DEF Sturdy
    <3> QED
      BY <1>1, <3>1
  <2>9. Commit(m) /\ op' = op /\ pc' = [pc EXCEPT ![p] = "select"]
        /\ resid' = [resid EXCEPT ![p] = resid[p]] /\ space' = [space EXCEPT ![p] = 0]
    BY <1>6 DEF Stay, StayWith
  <2> HIDE DEF k, f, g
  <2>10. m.pp = k.pp /\ \A a \in Actor : a # p => m.w[a] = k.w[a]
    BY <2>7, Sleeps
  <2> HIDE DEF m
  <2>11. pipe' = k.pp /\ \A a \in Actor : a # p => p_wchan'[a] = k.w[a]
    BY <2>9, <2>10 DEF Commit
  <2>12. \A a \in Proc : a # p => SameThread(a)
    BY <1>0, <2>9 DEF SameThread, Types, TypeOK
  <2>13. pc'[p] = "select"
    BY <1>0, <2>9 DEF Types, TypeOK
  <2>14. Watches(p, k)
    <3>1. Polled(p)' = Polled(p) /\ op'[p].file = f
      BY <2>9 DEF Polled, f
    <3>2. \A h \in End : h \in Polled(p) <=> \/ h = f /\ "IN" \in op[p].ev
                                             \/ h = g /\ "OUT" \in op[p].ev
      BY DEF Polled, f, g
    <3>3. Polled(p) # {}
      BY <1>1, <2>1, <2>8, <3>2
    <3>4. \A h \in Polled(p) : /\ Recorded(k, p, h) /\ "EOF" \notin pipe[h].state
                               /\ h = f => pipe[h].cnt = 0
                               /\ h = g => pipe[h].size - pipe[h].cnt < PIPE_BUF
      <4> TAKE h \in Polled(p)
      <4>1. h \in End
        BY DEF Polled
      <4> QED
        BY <2>1, <2>2, <2>5, <2>6, <3>2, <4>1
    <3>5. g = Peer(op'[p].file)
      BY <3>1 DEF g
    <3> QED
      BY <3>1, <3>3, <3>4, <3>5 DEF Watches
  <2>15. \A h \in End : /\ k.pp[h].busy = pipe[h].busy /\ k.pp[h].live = pipe[h].live
                        /\ "LOCK" \in k.pp[h].state <=> "LOCK" \in pipe[h].state
    BY <1>2, <2>1 DEF Calm, SameLink, SameLocks
  <2>16. \A h \in End : pipe[h].live
    BY <2>1, <2>3
  <2>17. Aside(p, k)
    BY <1>0, <1>3, <2>6, <2>11, <2>12, <2>13, <2>14, <2>15, <2>16 DEF Aside
  <2> QED
    BY <2>17
<1> QED
  BY <1>4, <1>5, <1>6

-----------------------------------------------------------------------------
\* The steps of no thread: closes and the making of pipes.  A pipe is left alone, or
\* nobody waits for it any longer but its own close.
Untouched(g) == pipe'[g] = pipe[g] /\ (~Awake(g)' => ~Awake(g))

Shut(g) ==
    /\ \A a \in Proc : p_wchan'[a] # g
    /\ \A a \in Proc : Selecting(a)' => g \notin Polled(a)
    /\ ~Awake(g)' => "WANT" \in pipe'[g].state /\ pipe'[g].busy > 0
    /\ "LOCK" \in pipe'[g].state => "LOCK" \in pipe[g].state
    /\ pipe'[g].cnt \in {pipe[g].cnt, 0}

Elsewhere ==
    /\ pc' = pc /\ op' = op /\ resid' = resid /\ space' = space /\ ops' = ops
    /\ \A a \in Proc : p_wchan'[a] \in {p_wchan[a], NoChan}
    /\ \A g \in End : Untouched(g) \/ Shut(g)

\* Threads are where they were, and whoever sleeps has slept before.
LEMMA ElsewhereThreads ==
    ASSUME PipeInv, PipeInv', Elsewhere
    PROVE  /\ \A a \in Proc : Target(a)' = Target(a) /\ Polled(a)' = Polled(a)
           /\ \A a \in Proc : ~Awake(a)' => ~Awake(a)
           /\ \A a \in Proc, g \in End : \A S : Is(a, g, S)' <=> Is(a, g, S)
           /\ \A a \in Proc, g \in End : Untouched(g) /\ Frees(a, g) => Frees(a, g)'
           /\ \A a \in Proc : ~Awake(a)' /\ pc[a] \in Waiting =>
                 Target(a) \in End /\ Untouched(Target(a))
           /\ \A a \in Proc : Selecting(a)' =>
                 Selecting(a) /\ \A g \in Polled(a) : g \in End /\ Untouched(g)
           /\ Now.pp = pipe /\ Now'.pp = pipe'
<1>0. Types /\ Channels'
  BY DEF PipeInv
<1>1. \A a \in Proc : Target(a)' = Target(a) /\ Polled(a)' = Polled(a) /\ Target(a) \in End
  BY <1>0, NowTypes DEF Elsewhere, Target, Polled
<1>2. \A a \in Proc : ~Awake(a)' => ~Awake(a)
  BY DEF Elsewhere, Awake
<1>3. \A a \in Proc, g \in End : \A S : Is(a, g, S)' <=> Is(a, g, S)
  BY <1>1 DEF Elsewhere, Is
<1>4. \A a \in Proc, g \in End : Untouched(g) /\ Frees(a, g) => Frees(a, g)'
  <2> TAKE a \in Proc, g \in End
  <2> HAVE Untouched(g) /\ Frees(a, g)
  <2>1. Is(a, g, {"move"})' <=> Is(a, g, {"move"})
    BY <1>3
  <2>2. Is(a, g, {"wmove"})' <=> Is(a, g, {"wmove"})
    BY <1>3
  <2>3. Filler(a, g) => Filler(a, g)'
    BY <2>2 DEF Elsewhere, Filler, Untouched
  <2> QED
    BY <2>1, <2>3 DEF Frees
<1>5. \A a \in Proc : ~Awake(a)' /\ pc[a] \in Waiting => Untouched(Target(a))
  <2> TAKE a \in Proc
  <2> HAVE ~Awake(a)' /\ pc[a] \in Waiting
  <2>1. pc'[a] \in Waiting
    BY DEF Elsewhere
  <2>2. p_wchan'[a] = Target(a)'
    BY <1>0, <2>1 DEF Channels, Waiting
  <2>3. ~Shut(Target(a))
    BY <1>1, <2>2 DEF Shut
  <2> QED
    BY <1>1, <2>3 DEF Elsewhere
<1>6. \A a \in Proc : Selecting(a)' =>
          Selecting(a) /\ \A g \in Polled(a) : g \in End /\ Untouched(g)
  <2> TAKE a \in Proc
  <2> HAVE Selecting(a)'
  <2>1. Selecting(a)
    BY <1>2 DEF Selecting, Elsewhere
  <2>2. \A g \in Polled(a) : g \in End /\ ~Shut(g)
    BY DEF Shut, Polled
  <2> QED
    BY <2>1, <2>2 DEF Elsewhere
<1>7. Now.pp = pipe /\ Now'.pp = pipe'
  BY DEF Now
<1> QED
  BY <1>1, <1>2, <1>3, <1>4, <1>5, <1>6, <1>7

\* Such a step forgets nobody.
LEMMA ElsewhereKeeps ==
    ASSUME PipeInv, PipeInv', WatchInv, Elsewhere, Ended'
    PROVE  WatchInv'
<1>0. /\ LockHeld /\ LockWanted /\ ReaderNotForgotten /\ WriterWaits
      /\ PollerRecorded /\ PollerWaits /\ CloserWaits /\ Starts /\ SoleEmpty
      /\ ops \in Workloads /\ Types
  BY DEF WatchInv, PipeInv
<1>1. /\ \A a \in Proc : Target(a)' = Target(a) /\ Polled(a)' = Polled(a)
      /\ \A a \in Proc : ~Awake(a)' => ~Awake(a)
      /\ \A a \in Proc, g \in End : \A S : Is(a, g, S)' <=> Is(a, g, S)
      /\ \A a \in Proc, g \in End : Untouched(g) /\ Frees(a, g) => Frees(a, g)'
      /\ \A a \in Proc : ~Awake(a)' /\ pc[a] \in Waiting =>
            Target(a) \in End /\ Untouched(Target(a))
      /\ \A a \in Proc : Selecting(a)' =>
            Selecting(a) /\ \A g \in Polled(a) : g \in End /\ Untouched(g)
      /\ Now.pp = pipe /\ Now'.pp = pipe'
  BY ElsewhereThreads
<1>2. /\ pc' = pc /\ op' = op /\ resid' = resid /\ space' = space /\ ops' = ops
      /\ \A g \in End : Untouched(g) \/ Shut(g)
  BY DEF Elsewhere
<1>3. LockHeld'
  <2> SUFFICES ASSUME NEW g \in End, "LOCK" \in pipe'[g].state
               PROVE  \E a \in Proc : Is(a, g, Holding)'
    BY DEF LockHeld
  <2>1. "LOCK" \in pipe[g].state
    BY <1>2 DEF Untouched, Shut
  <2>2. PICK a \in Proc : Is(a, g, Holding)
    BY <1>0, <2>1 DEF LockHeld
  <2> QED
    BY <1>1, <2>2
<1>4. LockWanted'
  <2> SUFFICES ASSUME NEW a \in Proc, ~Awake(a)', pc[a] \in LockPlaces
               PROVE  {"LOCK", "LWANT"} \subseteq pipe'[Target(a)].state
    BY <1>1, <1>2 DEF LockWanted
  <2>1. ~Awake(a) /\ Untouched(Target(a))
    BY <1>1 DEF LockPlaces, Waiting
  <2> QED
    BY <1>0, <2>1 DEF LockWanted, Untouched
<1>5. ReaderNotForgotten'
  <2> SUFFICES ASSUME NEW g \in End, NEW a \in Proc, Is(a, g, {"piperd"})', ~Awake(a)'
               PROVE  /\ "EOF" \notin pipe'[g].state /\ "WANTR" \in pipe'[g].state
                      /\ pipe'[g].cnt > 0 => \E q \in Proc : Is(q, g, {"wlock", "wmove"})'
    BY <1>1 DEF ReaderNotForgotten, Eof
  <2>1. Is(a, g, {"piperd"}) /\ ~Awake(a)
    BY <1>1
  <2>2. Untouched(g)
    BY <1>1, <2>1 DEF Is, Waiting
  <2>3. /\ "EOF" \notin pipe[g].state /\ "WANTR" \in pipe[g].state
        /\ pipe[g].cnt > 0 => \E q \in Proc : Is(q, g, {"wlock", "wmove"})
    BY <1>0, <1>1, <2>1 DEF ReaderNotForgotten, Eof
  <2> QED
    BY <1>1, <2>2, <2>3 DEF Untouched
<1>6. WriterWaits'
  <2> SUFFICES ASSUME NEW g \in End, NEW a \in Proc, Is(a, g, {"pipewr"})', ~Awake(a)'
               PROVE  /\ "EOF" \notin pipe'[g].state /\ "WANTW" \in pipe'[g].state
                      /\ pipe'[g].cnt < MINPIPESIZE => \E q \in Proc : Frees(q, g)'
    BY DEF WriterWaits
  <2>1. Is(a, g, {"pipewr"}) /\ ~Awake(a)
    BY <1>1
  <2>2. Untouched(g)
    BY <1>1, <2>1 DEF Is, Waiting
  <2>3. /\ "EOF" \notin pipe[g].state /\ "WANTW" \in pipe[g].state
        /\ pipe[g].cnt < MINPIPESIZE => \E q \in Proc : Frees(q, g)
    BY <1>0, <2>1 DEF WriterWaits
  <2> QED
    BY <1>1, <2>2, <2>3 DEF Untouched
<1>7. PollerRecorded'
  <2> SUFFICES ASSUME NEW a \in Proc, Selecting(a)'
               PROVE  /\ Polled(a)' # {}
                      /\ \A g \in Polled(a)' : Recorded(Now, a, g)' /\ "EOF" \notin pipe'[g].state
    BY DEF PollerRecorded
  <2>1. /\ Selecting(a) /\ Polled(a)' = Polled(a)
        /\ \A g \in Polled(a) : pipe'[g] = pipe[g]
    BY <1>1 DEF Untouched
  <2>2. /\ Polled(a) # {}
        /\ \A g \in Polled(a) : Recorded(Now, a, g) /\ "EOF" \notin pipe[g].state
    BY <1>0, <2>1 DEF PollerRecorded
  <2>3. \A g \in Polled(a) : Recorded(Now, a, g)'
    BY <1>1, <2>1, <2>2 DEF Recorded
  <2> QED
    BY <2>1, <2>2, <2>3
<1>8. PollerWaits'
  <2> SUFFICES ASSUME NEW a \in Proc, Selecting(a)', NEW g \in Polled(a)'
               PROVE  /\ g = op'[a].file /\ pipe'[g].cnt > 0
                            => \E q \in Proc : Is(q, g, {"wlock", "wmove"})'
                      /\ g = Peer(op'[a].file) /\ pipe'[g].size - pipe'[g].cnt >= PIPE_BUF
                            => \E q \in Proc : Frees(q, g)'
    BY DEF PollerWaits
  <2>1. /\ Selecting(a) /\ g \in Polled(a) /\ op'[a] = op[a] /\ g \in End
        /\ Untouched(g) /\ pipe'[g] = pipe[g]
    BY <1>1, <1>2 DEF Untouched
  <2>2. /\ g = op[a].file /\ pipe[g].cnt > 0
              => \E q \in Proc : Is(q, g, {"wlock", "wmove"})
        /\ g = Peer(op[a].file) /\ pipe[g].size - pipe[g].cnt >= PIPE_BUF
              => \E q \in Proc : Frees(q, g)
    BY <1>0, <2>1 DEF PollerWaits
  <2> QED
    BY <1>1, <2>1, <2>2
<1>9. CloserWaits'
  <2> SUFFICES ASSUME NEW g \in End, ~Awake(g)'
               PROVE  "WANT" \in pipe'[g].state /\ pipe'[g].busy > 0
    BY DEF CloserWaits
  <2>1. CASE Untouched(g)
    BY <1>0, <2>1 DEF Untouched, CloserWaits
  <2>2. CASE Shut(g)
    BY <2>2 DEF Shut
  <2> QED
    BY <1>2, <2>1, <2>2
<1>10. Starts'
  BY <1>0, <1>2 DEF Starts
<1>11. SoleEmpty'
  <2> SUFFICES ASSUME NEW a \in Proc, a \in Faulty, pc[a] \in {"wbig", "alloc"}
               PROVE  pipe'[Target(a)].cnt = 0
    BY <1>1, <1>2 DEF SoleEmpty
  <2>1. pipe[Target(a)].cnt = 0 /\ Target(a) \in End
    BY <1>0, NowTypes DEF SoleEmpty
  <2> QED
    BY <1>2, <2>1 DEF Untouched, Shut
<1> QED
  BY <1>0, <1>2, <1>3, <1>4, <1>5, <1>6, <1>7, <1>8, <1>9, <1>10, <1>11 DEF WatchInv

\* The pollers that still sleep do not poll f.
Departed(f, k) == \A p \in Proc : Selecting(p) /\ k.w[p] # NoChan => f \notin Polled(p)

\* pipeclose() wakes everybody on a busy pipe, and waits.
LEMMA CloseWaitsElsewhere ==
    ASSUME PipeInv, PipeInv', Ended, NEW f \in End, Closing(f), NEW k, Calm(Now, k),
           k.pp[f].busy > 0, "EOF" \in k.pp[f].state, Departed(f, k),
           \A g \in End : g # f => k.pp[g] = pipe[g],
           NEW m, m = [SetFlags(Wake(k, f), f, {"WANT"}) EXCEPT !.w = Sleep(@, f, f)],
           Commit(m), closer' = [closer EXCEPT ![f] = "pipecl"],
           UNCHANGED <<last, localVars, pc, sleepVars>>
    PROVE  Elsewhere /\ Ended'
<1> DEFINE v == Wake(k, f)
           n == SetFlags(v, f, {"WANT"})
<1>0. Types /\ Channels' /\ Connected
  BY DEF PipeInv
<1>1. /\ pc' = pc /\ op' = op /\ resid' = resid /\ space' = space /\ ops' = ops
      /\ pipe' = m.pp /\ p_wchan' = m.w /\ Now.pp = pipe /\ Now.w = p_wchan /\ k \in KState
  BY DEF localVars, Commit, Now, Calm
<1>2. f \in Channel \ {NoChan} /\ f \in Actor /\ f \notin Proc
  BY ChannelsDiffer, PipeAssumption DEF Channel, Actor
<1>3. /\ v \in KState /\ v.pp = k.pp /\ OnlyWakes(k, v) /\ \A a \in Actor : v.w[a] # f
  BY <1>1, <1>2, WakeShape
<1> HIDE DEF v
<1>4. Reflags(v, n, f, v.pp[f].state \cup {"WANT"})
  BY <1>3, SetShape DEF Flags
<1>5. m = [n EXCEPT !.w = [n.w EXCEPT ![f] = f]]
  BY DEF Sleep, n, v
<1> HIDE DEF n
<1>6. n \in KState /\ n.w = v.w
  BY <1>4 DEF Reflags
<1>7. m.pp = n.pp /\ \A a \in Actor : a # f => m.w[a] = v.w[a]
  BY <1>2, <1>5, <1>6 DEF KState
<1>8. \A a \in Proc : p_wchan'[a] = v.w[a] /\ a \in Actor
  BY <1>1, <1>2, <1>7 DEF Actor
<1>9. \A a \in Proc : p_wchan'[a] # f
  BY <1>3, <1>8
<1>10. \A a \in Proc : p_wchan'[a] \in {k.w[a], NoChan} /\ k.w[a] \in {p_wchan[a], NoChan}
  BY <1>1, <1>3, <1>8 DEF OnlyWakes, Calm
<1>11. /\ pipe'[f].state = k.pp[f].state \cup {"WANT"} /\ pipe'[f].cnt = k.pp[f].cnt
       /\ pipe'[f].busy = k.pp[f].busy
       /\ \A g \in End : g # f => pipe'[g] = pipe[g]
  BY <1>1, <1>3, <1>4, <1>7 DEF Reflags
<1>12. \A a \in Proc : Selecting(a)' => f \notin Polled(a)
  <2> TAKE a \in Proc
  <2> HAVE Selecting(a)'
  <2>1. p_wchan'[a] # NoChan /\ k.w[a] # NoChan
    BY <1>10 DEF Selecting, Awake
  <2>2. Selecting(a)
    BY <1>1, <1>10, <2>1 DEF Selecting, Awake
  <2> QED
    BY <2>1, <2>2 DEF Departed
<1>13. /\ "LOCK" \in k.pp[f].state => "LOCK" \in pipe[f].state
       /\ k.pp[f].cnt = pipe[f].cnt
  BY <1>1 DEF Calm, SameLocks, SameData
<1>14. Shut(f)
  BY <1>9, <1>11, <1>12, <1>13 DEF Shut
<1>15. ASSUME NEW g \in End, g # f
       PROVE  Untouched(g)
  <2>1. g \in Actor /\ p_wchan'[g] = v.w[g]
    BY <1>1, <1>7, <1>15 DEF Actor
  <2>2. p_wchan'[g] \in {p_wchan[g], NoChan}
    BY <1>1, <1>3, <2>1 DEF OnlyWakes, Calm
  <2> QED
    BY <1>11, <1>15, <2>2 DEF Untouched, Awake
<1>16. Elsewhere
  BY <1>1, <1>10, <1>14, <1>15 DEF Elsewhere
<1>17. Ended'
  <2>1. /\ closer'[f] = "pipecl" /\ \A g \in End : g # f => closer'[g] = closer[g]
    BY <1>0 DEF Types, TypeOK
  <2>2. pipe'[f].live
    BY <1>0, <2>1 DEF PipeInv, Connected
  <2>3. ASSUME NEW g \in End, g # f
        PROVE  /\ ~pipe'[g].live => pipe'[g].state = {}
               /\ pipe'[g].live => ("EOF" \in pipe'[g].state
                                      <=> closer'[g] = "pipecl" \/ closer'[Peer(g)] = "closed")
    <3>1. Peer(g) = f /\ closer[f] # "closed"
      BY <2>3 DEF Peer, End, Closing
    <3> QED
      BY <1>11, <2>1, <2>3, <3>1 DEF Ended
  <2> QED
    BY <1>11, <2>1, <2>2, <2>3 DEF Ended
<1> QED
  BY <1>16, <1>17

\* What pipeclose() does to the peer g before it frees f
Alone(k, m, f, g) ==
    /\ k.pp[f].peer => Unpolled(k, m, g) /\ Nobody(m, g) /\ "EOF" \in m.pp[g].state
    /\ ~k.pp[f].peer => m.pp[g] = k.pp[g]

\* The peer's pollers and sleepers are woken.
LEMMA UnlinkedWakes ==
    ASSUME NEW k \in KState, NEW f \in End, NEW g \in End, g # f, NEW dead \in PipeRecord,
           NEW m, m = [Unlinked(k, f, g) EXCEPT !.pp[f] = dead]
    PROVE  Alone(k, m, f, g)
<1> DEFINE s == pipeselwakeup(k, g)
           t == SetFlags(s, g, {"EOF"})
           e == Wake(t, g)
           rest == Unlinked(k, f, g)
<1>1. Gentle(k, s) /\ Unpolled(k, s, g)
  BY SelWakeupGentle
<1>2. s \in KState
  BY <1>1 DEF Gentle, Mild
<1> HIDE DEF s
<1>3. Reflags(s, t, g, s.pp[g].state \cup {"EOF"})
  BY <1>2, SetShape DEF Flags
<1>4. t \in KState /\ t.w = s.w /\ "EOF" \in t.pp[g].state
  BY <1>3 DEF Reflags
<1> HIDE DEF t
<1>5. g \in Channel \ {NoChan}
  BY ChannelsDiffer DEF Channel
<1>6. e \in KState /\ e.pp = t.pp /\ OnlyWakes(t, e) /\ Nobody(e, g)
  BY <1>4, <1>5, WakeShape DEF Nobody
<1>7. OnlyWakes(s, e)
  BY <1>4, <1>6 DEF OnlyWakes
<1>8. Unpolled(k, e, g)
  BY <1>1, <1>7, UnpolledStays
<1>9. rest = IF k.pp[f].peer THEN [e EXCEPT !.pp[g].peer = FALSE] ELSE k
  BY DEF Unlinked, e, t, s
<1> HIDE DEF e
<1>10. CASE k.pp[f].peer
  <2>1. rest = [e EXCEPT !.pp[g].peer = FALSE]
    BY <1>9, <1>10
  <2> HIDE DEF rest
  <2>2. rest.w = e.w /\ rest.pp[g].state = e.pp[g].state
    BY <1>6, <2>1 DEF KState, PipeRecord
  <2>3. m.w = rest.w /\ m.pp[g] = rest.pp[g]
    BY <1>6, <2>1 DEF KState, rest
  <2>4. m.w = e.w /\ "EOF" \in m.pp[g].state
    BY <1>4, <1>6, <2>2, <2>3
  <2> QED
    BY <1>6, <1>8, <1>10, <2>4 DEF Unpolled, Nobody, Alone
<1>11. CASE ~k.pp[f].peer
  <2>1. m = [k EXCEPT !.pp[f] = dead]
    BY <1>9, <1>11
  <2>2. m.pp[g] = k.pp[g]
    BY <2>1 DEF KState
  <2> QED
    BY <1>11, <2>2 DEF Alone
<1> QED
  BY <1>10, <1>11

\* pipeclose() that frees the pipe wakes everybody on the peer.
LEMMA CloseFreesElsewhere ==
    ASSUME PipeInv, PipeInv', Ended, PollerRecorded, NEW f \in End, Closing(f), NEW k,
           Calm(Now, k), ~(k.pp[f].busy > 0), Departed(f, k),
           \A h \in End : h # f => k.pp[h] = pipe[h],
           NEW g, g = Peer(f),
           NEW m, m = [Unlinked(k, f, g) EXCEPT !.pp[f] = [NewPipe EXCEPT !.live = FALSE]],
           Commit(m), closer' = [closer EXCEPT ![f] = "closed"],
           UNCHANGED <<last, localVars, pc, sleepVars>>
    PROVE  Elsewhere /\ Ended'
<1> DEFINE dead == [NewPipe EXCEPT !.live = FALSE]
<1>0. Types /\ Channels /\ Channels' /\ Connected
  BY DEF PipeInv
<1>1. dead \in PipeRecord /\ ~dead.live /\ dead.cnt = 0 /\ dead.state = {}
  BY NewSane DEF PipeRecord, NewPipe
<1>2. m = [Unlinked(k, f, g) EXCEPT !.pp[f] = dead]
  OBVIOUS
<1> HIDE DEF dead
<1>3. /\ pc' = pc /\ op' = op /\ resid' = resid /\ space' = space /\ ops' = ops
      /\ pipe' = m.pp /\ p_wchan' = m.w /\ Now.pp = pipe /\ Now.w = p_wchan /\ k \in KState
  BY DEF localVars, Commit, Now, Calm
<1>4. g \in End /\ g # f /\ Peer(g) = f /\ \A h \in End : h = f \/ h = g
  BY DEF Peer, End
<1>5. /\ OnlyWakes(k, m) /\ m.pp[f] = dead /\ SameData(m.pp[g], k.pp[g])
      /\ "LOCK" \in m.pp[g].state <=> "LOCK" \in k.pp[g].state
      /\ m.pp[g].live = k.pp[g].live
  <2>1. Disconnected(k, m, f, g, dead)
    BY <1>1, <1>2, <1>3, <1>4, Disconnects
  <2> QED
    BY <2>1 DEF Disconnected
<1>6. /\ k.pp[f].peer => Unpolled(k, m, g) /\ Nobody(m, g) /\ "EOF" \in m.pp[g].state
      /\ ~k.pp[f].peer => m.pp[g] = k.pp[g]
  <2>1. Alone(k, m, f, g)
    BY <1>1, <1>2, <1>3, <1>4, UnlinkedWakes
  <2> QED
    BY <2>1 DEF Alone
<1>7. k.pp[g] = pipe[g] /\ k.pp[f].peer = pipe[f].peer /\ pipe[f].live
  BY <1>0, <1>3, <1>4 DEF Calm, SameLink, Connected, Closing
<1>8. /\ closer'[f] = "closed" /\ closer'[g] = closer[g]
  BY <1>0, <1>4 DEF Types, TypeOK
<1>9. \A a \in Actor : p_wchan'[a] \in {k.w[a], NoChan} /\ k.w[a] \in {p_wchan[a], NoChan}
  BY <1>3, <1>5 DEF Calm, OnlyWakes
<1>10. ASSUME NEW a \in Proc, Selecting(a)'
       PROVE  Selecting(a) /\ f \notin Polled(a) /\ p_wchan'[a] = "selwait" /\ a \in Actor
  <2>1. a \in Actor /\ p_wchan'[a] # NoChan
    BY <1>10 DEF Selecting, Awake, Actor
  <2>2. k.w[a] # NoChan /\ p_wchan[a] # NoChan
    BY <1>9, <2>1
  <2>3. Selecting(a)
    BY <1>3, <1>10, <2>2 DEF Selecting, Awake
  <2>4. p_wchan'[a] = "selwait"
    BY <1>0, <1>10 DEF Selecting, Channels, Waiting
  <2> QED
    BY <2>1, <2>2, <2>3, <2>4 DEF Departed
<1>11. Shut(f)
  <2>1. ~pipe'[f].live
    BY <1>1, <1>3, <1>5
  <2>2. \A a \in Actor : p_wchan'[a] # f
    <3>1. NoUseAfterFree'
      BY FreedUnused, PTL
    <3> QED
      BY <2>1, <3>1 DEF NoUseAfterFree
  <2>3. Awake(f)'
    BY <1>0, <1>8 DEF Channels
  <2> QED
    BY <1>1, <1>3, <1>5, <1>10, <2>2, <2>3 DEF Shut, Actor
<1>12. Untouched(g) \/ Shut(g)
  <2>1. CASE ~k.pp[f].peer
    <3>1. g \in Actor
      BY <1>4 DEF Actor
    <3>2. ~Awake(g)' => ~Awake(g)
      BY <1>9, <3>1 DEF Awake
    <3> QED
      BY <1>3, <1>6, <1>7, <2>1, <3>2 DEF Untouched
  <2>2. CASE k.pp[f].peer
    <3>1. \A a \in Actor : p_wchan'[a] # g
      BY <1>3, <1>6, <2>2 DEF Nobody
    <3>2. Awake(g)'
      BY <1>0, <1>4, <3>1 DEF Channels, Actor
    <3>3. \A a \in Proc : Selecting(a)' => g \notin Polled(a)
      <4> SUFFICES ASSUME NEW a \in Proc, Selecting(a)', g \in Polled(a)
                   PROVE  FALSE
        OBVIOUS
      <4>1. Selecting(a) /\ p_wchan'[a] = "selwait"
        BY <1>10
      <4>2. Recorded(Now, a, g)
        BY <4>1 DEF PollerRecorded
      <4>3. Recorded(k, a, g)
        BY <1>3, <1>7, <4>2 DEF Recorded
      <4> QED
        BY <1>3, <1>6, <2>2, <4>1, <4>3 DEF Unpolled
    <3>4. "LOCK" \in pipe'[g].state => "LOCK" \in pipe[g].state
      BY <1>3, <1>5, <1>7
    <3>5. pipe'[g].cnt = pipe[g].cnt
      BY <1>3, <1>5, <1>7 DEF SameData
    <3> QED
      BY <3>1, <3>2, <3>3, <3>4, <3>5 DEF Shut, Actor
  <2> QED
    BY <2>1, <2>2
<1>13. Elsewhere
  <2>1. \A a \in Proc : p_wchan'[a] \in {p_wchan[a], NoChan}
    BY <1>9 DEF Actor
  <2> QED
    BY <1>3, <1>4, <1>11, <1>12, <2>1 DEF Elsewhere
<1>14. Ended'
  <2>1. ~pipe'[f].live /\ pipe'[f].state = {}
    BY <1>1, <1>3, <1>5
  <2>2. pipe'[g].live = pipe[g].live
    BY <1>3, <1>5, <1>7
  <2>3. CASE pipe[g].live
    <3>1. k.pp[f].peer
      BY <1>0, <1>7, <2>3 DEF Connected
    <3>2. "EOF" \in pipe'[g].state /\ pipe'[g].live /\ closer'[Peer(g)] = "closed"
      BY <1>3, <1>4, <1>6, <1>8, <2>2, <2>3, <3>1
    <3> QED
      BY <1>4, <2>1, <3>2 DEF Ended
  <2>4. CASE ~pipe[g].live
    <3>1. ~k.pp[f].peer
      BY <1>0, <1>7, <2>4 DEF Connected
    <3>2. pipe'[g].state = {}
      BY <1>3, <1>4, <1>6, <1>7, <2>4, <3>1 DEF Ended
    <3> QED
      BY <1>4, <2>1, <2>2, <2>4, <3>2 DEF Ended
  <2> QED
    BY <2>3, <2>4
<1> QED
  BY <1>13, <1>14

\* A round of pipeclose()'s loop forgets nobody ...
LEMMA CloseLoopWatch ==
    ASSUME PipeInv, PipeInv', WatchInv, NEW f \in End, Closing(f), NEW k, Calm(Now, k),
           "EOF" \in k.pp[f].state, Departed(f, k), \A g \in End : g # f => k.pp[g] = pipe[g],
           CloseLoop(f, k), UNCHANGED <<last, localVars, pc, sleepVars>>
    PROVE  WatchInv'
<1>0. Ended /\ PollerRecorded
  BY DEF WatchInv
<1>1. CASE k.pp[f].busy > 0
  <2> DEFINE m == [SetFlags(Wake(k, f), f, {"WANT"}) EXCEPT !.w = Sleep(@, f, f)]
  <2>1. Commit(m) /\ closer' = [closer EXCEPT ![f] = "pipecl"]
    BY <1>1 DEF CloseLoop
  <2>2. m = [SetFlags(Wake(k, f), f, {"WANT"}) EXCEPT !.w = Sleep(@, f, f)]
    OBVIOUS
  <2> HIDE DEF m
  <2>3. Elsewhere /\ Ended'
    BY <1>0, <1>1, <2>1, <2>2, CloseWaitsElsewhere
  <2> QED
    BY <2>3, ElsewhereKeeps
<1>2. CASE ~(k.pp[f].busy > 0)
  <2> DEFINE g == Peer(f)
             m == [Unlinked(k, f, g) EXCEPT !.pp[f] = [NewPipe EXCEPT !.live = FALSE]]
  <2>1. Commit(m) /\ closer' = [closer EXCEPT ![f] = "closed"]
    BY <1>2 DEF CloseLoop, Unlinked
  <2>2. g = Peer(f) /\ m = [Unlinked(k, f, g) EXCEPT !.pp[f] = [NewPipe EXCEPT !.live = FALSE]]
    OBVIOUS
  <2> HIDE DEF m, g
  <2>3. Elsewhere /\ Ended'
    BY <1>0, <1>2, <2>1, <2>2, CloseFreesElsewhere
  <2> QED
    BY <2>3, ElsewhereKeeps
<1> QED
  BY <1>1, <1>2

\* ... when it begins, with pipeselwakeup() and PIPE_EOF, ...
LEMMA PipeCloseWatch ==
    ASSUME PipeInv, PipeInv', WatchInv, NEW f \in End, pipe_close(f)
    PROVE  WatchInv'
<1> DEFINE s == pipeselwakeup(Now, f)
           k == SetFlags(s, f, {"EOF"})
<1>0. Types /\ Channels /\ PollerRecorded
  BY DEF PipeInv, WatchInv
<1>1. Closing(f)
  BY DEF pipe_close, Closing, Referenced, PipeInv, Channels
<1>2. Now \in KState /\ Now.pp = pipe /\ Now.w = p_wchan
  BY <1>0, NowTypes
<1>3. Calm(Now, s)
  BY <1>2, PipeSelWakeupCalm
<1>4. Calm(s, k)
  BY <1>3, SetFlagsCalm DEF Calm, Flags
<1>5. Calm(Now, k)
  BY <1>3, <1>4, CalmTrans
<1>6. Unpolled(Now, s, f) /\ \A g \in End : g # f => s.pp[g] = pipe[g]
  BY <1>2, SelWakeupGentle
<1>7. CloseLoop(f, k) /\ UNCHANGED <<last, localVars, pc, sleepVars>>
  BY DEF pipe_close
<1>8. s \in KState
  BY <1>3 DEF Calm
<1> HIDE DEF s
<1>9. Reflags(s, k, f, s.pp[f].state \cup {"EOF"})
  BY <1>8, SetShape DEF Flags
<1> HIDE DEF k
<1>10. /\ k.w = s.w /\ "EOF" \in k.pp[f].state
       /\ \A g \in End : g # f => k.pp[g] = pipe[g]
  BY <1>6, <1>9 DEF Reflags
<1>11. Departed(f, k)
  <2> SUFFICES ASSUME NEW p \in Proc, Selecting(p), k.w[p] # NoChan, f \in Polled(p)
               PROVE  FALSE
    BY DEF Departed
  <2>1. Recorded(Now, p, f)
    BY <1>0 DEF PollerRecorded
  <2>2. p_wchan[p] = "selwait" /\ p \in Actor
    BY <1>0 DEF Channels, Selecting, Waiting, Actor
  <2>3. k.w[p] = "selwait"
    BY <1>2, <1>5, <2>2 DEF Calm, OnlyWakes
  <2> QED
    BY <1>6, <1>10, <2>1, <2>3 DEF Unpolled
<1> QED
  BY <1>1, <1>5, <1>7, <1>10, <1>11, CloseLoopWatch

\* ... and after each tsleep().
LEMMA PipecloseWatch ==
    ASSUME PipeInv, PipeInv', WatchInv, NEW f \in End, pipeclose(f)
    PROVE  WatchInv'
<1>0. Types /\ PollerRecorded /\ Ended /\ Connected
  BY DEF PipeInv, WatchInv
<1>1. Closing(f)
  BY DEF pipeclose, Closing, PipeInv, References
<1>2. Now \in KState /\ Now.pp = pipe
  BY <1>0, NowTypes
<1>3. Calm(Now, Now)
  BY <1>2, CalmSame
<1>4. "EOF" \in Now.pp[f].state
  BY <1>0, <1>2 DEF Ended, Connected, pipeclose
<1>5. Departed(f, Now)
  BY <1>0, <1>2, <1>4 DEF Departed, PollerRecorded
<1>6. CloseLoop(f, Now) /\ UNCHANGED <<last, localVars, pc, sleepVars>>
  BY DEF pipeclose
<1> QED
  BY <1>1, <1>2, <1>3, <1>4, <1>5, <1>6, CloseLoopWatch

\* Nobody waits for the pipes that a new one replaces.
LEMMA DopipeWatch ==
    ASSUME PipeInv, PipeInv', WatchInv, dopipe
    PROVE  WatchInv'
<1>0. Types /\ PollerRecorded /\ Ended /\ Connected /\ Channels /\ NoUseAfterFree
  BY FreedUnused DEF PipeInv, WatchInv
<1>1. /\ pc' = pc /\ op' = op /\ resid' = resid /\ space' = space /\ ops' = ops
      /\ p_wchan' = p_wchan
      /\ \A g \in End : pipe'[g] = NewPipe /\ closer'[g] = "open"
  BY DEF dopipe, localVars
<1>2. \A g \in End : closer[g] = "closed" /\ ~pipe[g].live /\ pipe[g].state = {}
  BY <1>0 DEF dopipe, Connected, Ended
<1>3. NewPipe.state = {} /\ NewPipe.cnt = 0
  BY DEF NewPipe
<1>4. \A g \in End : \A a \in Actor : p_wchan'[a] # g
  BY <1>0, <1>1, <1>2 DEF NoUseAfterFree
<1>5. \A a \in Proc : ~Selecting(a)'
  <2> SUFFICES ASSUME NEW a \in Proc, Selecting(a)'
               PROVE  FALSE
    OBVIOUS
  <2>1. Selecting(a)
    BY <1>1 DEF Selecting, Awake
  <2>2. PICK g \in Polled(a) : Recorded(Now, a, g)
    BY <1>0, <2>1 DEF PollerRecorded
  <2>3. g \in End /\ Now.pp = pipe
    BY <1>0, NowTypes DEF Polled
  <2> QED
    BY <1>2, <2>2, <2>3 DEF Recorded
<1>6. \A g \in End : Awake(g)'
  BY <1>0, <1>1, <1>2 DEF Channels, Awake
<1>7. \A g \in End : Shut(g)
  BY <1>1, <1>3, <1>4, <1>5, <1>6 DEF Shut, Actor
<1>8. Elsewhere
  BY <1>1, <1>7 DEF Elsewhere
<1>9. Ended'
  <2>1. \A g \in End : Peer(g) \in End
    BY DEF Peer, End
  <2> QED
    BY <1>1, <1>3, <2>1, NewSane DEF Ended
<1> QED
  BY <1>8, <1>9, ElsewhereKeeps

\* In the beginning nobody sleeps.
LEMMA InitWatch ==
    ASSUME Init
    PROVE  WatchInv
<1>1. /\ \A g \in End : pipe[g] = NewPipe /\ closer[g] = "open" /\ Peer(g) \in End
      /\ \A p \in Proc : pc[p] = "idle"
      /\ \A a \in Actor : Awake(a)
      /\ ops \in Workloads
  BY DEF Init, SleepInit, Awake, Peer, End
<1>2. NewPipe.state = {} /\ NewPipe.live
  BY NewSane DEF NewPipe
<1>3. Ended /\ LockHeld
  BY <1>1, <1>2 DEF Ended, LockHeld
<1>4. LockWanted /\ ReaderNotForgotten /\ WriterWaits
  BY <1>1 DEF LockWanted, LockPlaces, ReaderNotForgotten, WriterWaits, Is
<1>5. PollerRecorded /\ PollerWaits /\ CloserWaits
  BY <1>1 DEF PollerRecorded, PollerWaits, CloserWaits, Selecting, Actor
<1>6. Starts /\ SoleEmpty
  BY <1>1 DEF Starts, SoleEmpty, Reading
<1> QED
  BY <1>1, <1>3, <1>4, <1>5, <1>6 DEF WatchInv

\* Nothing happens.
LEMMA StutterWatch ==
    ASSUME PipeInv, PipeInv', WatchInv, UNCHANGED vars
    PROVE  WatchInv'
<1>1. /\ pc' = pc /\ op' = op /\ resid' = resid /\ space' = space /\ ops' = ops
      /\ p_wchan' = p_wchan /\ pipe' = pipe /\ closer' = closer
  BY DEF vars, localVars
<1>2. Ended'
  BY <1>1 DEF Ended, WatchInv
<1>3. Elsewhere
  BY <1>1 DEF Elsewhere, Untouched, Awake
<1> QED
  BY <1>2, <1>3, ElsewhereKeeps

\* Every step of the pipe keeps WatchInv.
LEMMA NextWatch ==
    ASSUME \A w \in Workloads : Sturdy(w), PipeInv, PipeInv', WatchInv, [Next]_vars
    PROVE  WatchInv'
<1>0. Starts /\ LockHeld /\ SoleEmpty /\ ops \in Workloads
  BY DEF WatchInv
<1>1. ASSUME NEW p \in Proc, Read(p)
      PROVE  \E h, u, where, r, sp : Turn(p, h, u, where, r, sp)
  BY <1>0, <1>1, PipeReadTurn, ReadRelockTurn, ReadMoveTurn, ReadFaultTurn DEF Read
<1>2. ASSUME NEW p \in Proc, Write(p)
      PROVE  \E h, u, where, r, sp : Turn(p, h, u, where, r, sp)
  BY <1>0, <1>2, PipeWriteTurn, WriteResizeTurn, PipespaceTurn, WriteLockTurn, WriteMoveTurn,
     WriteFaultTurn, WriteAgainTurn DEF Write
<1>3. ASSUME NEW p \in Proc, Poll(p) \/ ptsignal(p) \/ endtsleep(p)
      PROVE  WatchInv'
  <2>1. \E u : Aside(p, u)
    BY <1>0, <1>3, PollAside, SignalAside
  <2> QED
    BY <2>1, AsideKeeps
<1>4. ASSUME NEW p \in Proc, NEW o \in ops, Call(p, o)
      PROVE  WatchInv'
  <2>1. \E u : Aside(p, u)
    BY <1>4, CallAside
  <2> QED
    BY <2>1, AsideKeeps
<1>5. ASSUME NEW f \in End, pipe_close(f) \/ pipeclose(f)
      PROVE  WatchInv'
  BY <1>5, PipeCloseWatch, PipecloseWatch
<1>6. CASE dopipe
  BY <1>6, DopipeWatch
<1>7. CASE UNCHANGED vars
  BY <1>7, StutterWatch
<1>8. ASSUME NEW p \in Proc, Read(p) \/ Write(p)
      PROVE  WatchInv'
  BY <1>1, <1>2, <1>8, TurnKeeps
<1> QED
  BY <1>3, <1>4, <1>5, <1>6, <1>7, <1>8 DEF Next

-----------------------------------------------------------------------------
\* PIPE_LOCK is not forgotten: somebody has it, alone.
LEMMA WatchLock ==
    ASSUME PipeInv, WatchInv
    PROVE  LockNotForgotten
<1>0. Types /\ LockExclusive /\ LockHeld /\ LockWanted
  BY DEF PipeInv, WatchInv
<1> SUFFICES ASSUME NEW f \in End
             PROVE  /\ Cardinality({p \in Proc : Is(p, f, {"move", "wmove", "alloc"})}) =
                          IF Locked(Now, f) THEN 1 ELSE 0
                    /\ \A p \in Proc : Is(p, f, {"lock", "relock", "wlock", "wbig"}) /\ ~Awake(p)
                          => {"LOCK", "LWANT"} \subseteq pipe[f].state
  BY DEF LockNotForgotten
<1> DEFINE H == {p \in Proc : Is(p, f, {"move", "wmove", "alloc"})}
<1>1. Holding = {"move", "wmove", "alloc"} /\ Now.pp = pipe
  BY <1>0, NowTypes DEF Holding
<1>2. CASE Locked(Now, f)
  <2>1. PICK p \in Proc : Is(p, f, Holding)
    BY <1>0, <1>1, <1>2 DEF LockHeld, Locked
  <2>2. H = {p}
    BY <1>0, <1>1, <2>1 DEF LockExclusive
  <2>3. Cardinality({p}) = 1
    BY FS_Singleton
  <2> QED
    BY <1>0, <1>2, <2>2, <2>3 DEF LockWanted, LockPlaces, Is
<1>3. CASE ~Locked(Now, f)
  <2>1. H = {}
    BY <1>0, <1>1, <1>3 DEF LockExclusive
  <2>2. Cardinality({}) = 0
    BY FS_EmptySet
  <2> QED
    BY <1>0, <1>3, <2>1, <2>2 DEF LockWanted, LockPlaces, Is
<1> QED
  BY <1>2, <1>3

\* A close that waits is not forgotten.
LEMMA WatchCloser ==
    ASSUME PipeInv, WatchInv
    PROVE  CloserNotForgotten
<1>0. /\ Types /\ CallsFit /\ References /\ BusyCounts /\ Connected /\ Ended /\ CloserWaits
      /\ ReaderNotForgotten /\ WriterWaits
  BY DEF PipeInv, WatchInv
<1> SUFFICES ASSUME NEW f \in End, closer[f] = "pipecl", ~Awake(f)
             PROVE  /\ {"WANT", "EOF"} \subseteq pipe[f].state
                    /\ pipe[f].busy = Cardinality({p \in Proc : Uses(p, f)})
                    /\ pipe[f].busy > 0
                    /\ \A p \in Proc : ~(Is(p, f, {"piperd", "pipewr"}) /\ ~Awake(p))
  BY DEF CloserNotForgotten
<1>1. "WANT" \in pipe[f].state /\ pipe[f].busy > 0
  BY <1>0 DEF CloserWaits
<1>2. "EOF" \in pipe[f].state
  BY <1>0 DEF Ended, Connected
<1>3. Now.pp = pipe
  BY <1>0, NowTypes
<1>4. \A p \in Proc : ~(Is(p, f, {"piperd", "pipewr"}) /\ ~Awake(p))
  <2> SUFFICES ASSUME NEW p \in Proc, Is(p, f, {"piperd", "pipewr"}), ~Awake(p)
               PROVE  FALSE
    OBVIOUS
  <2>1. CASE Is(p, f, {"piperd"})
    BY <1>0, <1>2, <1>3, <2>1 DEF ReaderNotForgotten, Eof
  <2>2. CASE Is(p, f, {"pipewr"})
    BY <1>0, <1>2, <2>2 DEF WriterWaits
  <2> QED
    BY <2>1, <2>2 DEF Is
<1>5. ASSUME NEW p \in Proc, Uses(p, f)
      PROVE  Is(p, f, Busy)
  <2>1. \/ pc[p] \notin {"idle", "select"} /\ op[p].file = f
        \/ pc[p] \in Busy /\ Target(p) = f
    BY <1>0, <1>5, UsersHold
  <2> QED
    BY <1>0, <2>1 DEF References, Is
<1>6. ASSUME NEW p \in Proc, Is(p, f, Busy)
      PROVE  Uses(p, f)
  <2>1. CASE pc[p] \in {"relock", "piperd", "move"}
    <3>1. pc[p] \in Reading /\ pc[p] # "read"
      BY <2>1 DEF Reading
    <3>2. op[p].op = "read"
      BY <1>0, <3>1 DEF CallsFit
    <3> QED
      BY <1>6, <3>1, <3>2 DEF Uses, Is, Target
  <2>2. CASE pc[p] \in Writing \ {"write"}
    <3>1. op[p].op = "write"
      BY <1>0, <2>2 DEF CallsFit
    <3> QED
      BY <1>6, <2>2, <3>1 DEF Uses, Is, Target
  <2> QED
    BY <1>6, <2>1, <2>2 DEF Is, Busy
<1>7. {p \in Proc : Uses(p, f)} = Users(f)
  BY <1>5, <1>6 DEF Users
<1> QED
  BY <1>0, <1>1, <1>2, <1>4, <1>7 DEF BusyCounts

\* Neither is a poller ...
LEMMA WatchPoller ==
    ASSUME PipeInv, WatchInv
    PROVE  PollerNotForgotten
<1>0. Types /\ Connected /\ Ended /\ PollerRecorded /\ PollerWaits
  BY DEF PipeInv, WatchInv
<1>1. Now.pp = pipe
  BY <1>0, NowTypes
<1> SUFFICES ASSUME NEW p \in Proc, pc[p] = "select", ~Awake(p),
                    NEW f, f = op[p].file, \A g \in End : closer[g] # "pipecl"
             PROVE  /\ closer[f] = "open" /\ pipe[f].peer /\ "EOF" \notin pipe[f].state
                    /\ "IN" \in op[p].ev /\ pipe[f].cnt > 0
                         => \E q \in Proc : Is(q, f, {"wlock", "wmove"})
                    /\ "OUT" \in op[p].ev /\ pipe[Peer(f)].size - pipe[Peer(f)].cnt >= PIPE_BUF
                         => \E q \in Proc : Emptied(q, Peer(f))
  BY <1>1 DEF PollerNotForgotten, Eof, Space
<1>2. Selecting(p) /\ op[p] \in Op /\ f \in End /\ Peer(f) \in End /\ Peer(Peer(f)) = f
  <2>1. op[p] \in Op
    BY <1>0 DEF Types, TypeOK
  <2>2. f \in End
    BY <2>1 DEF Op
  <2> QED
    BY <2>1, <2>2 DEF Selecting, Peer, End
<1>3. PICK g \in Polled(p) : Recorded(Now, p, g) /\ "EOF" \notin pipe[g].state
  BY <1>0, <1>2 DEF PollerRecorded
<1>4. g \in End /\ (g = f \/ g = Peer(f)) /\ Peer(Peer(g)) = g
  BY DEF Polled, Peer, End
<1>5. pipe[g].live
  BY <1>0, <1>1, <1>3, <1>4 DEF Ended, Recorded
<1>6. closer[g] = "open" /\ closer[Peer(g)] = "open"
  <2>1. closer[g] # "closed" /\ closer[Peer(g)] # "closed"
    BY <1>0, <1>3, <1>4, <1>5 DEF Ended, Connected
  <2>2. Peer(g) \in End /\ closer \in [End -> {"open", "pipecl", "closed"}]
    BY <1>0 DEF Types, TypeOK, Peer, End
  <2> QED
    BY <1>4, <2>1, <2>2
<1>7. closer[f] = "open" /\ closer[Peer(f)] = "open"
  BY <1>2, <1>4, <1>6
<1>8. pipe[f].live /\ pipe[Peer(f)].live
  BY <1>0, <1>2, <1>7 DEF Connected
<1>9. pipe[f].peer /\ "EOF" \notin pipe[f].state
  BY <1>0, <1>2, <1>7, <1>8 DEF Connected, Ended
<1>10. ASSUME "IN" \in op[p].ev, pipe[f].cnt > 0
       PROVE  \E q \in Proc : Is(q, f, {"wlock", "wmove"})
  <2>1. f \in Polled(p)
    BY <1>2, <1>10 DEF Polled
  <2> QED
    BY <1>0, <1>2, <1>10, <2>1 DEF PollerWaits
<1>11. ASSUME "OUT" \in op[p].ev, pipe[Peer(f)].size - pipe[Peer(f)].cnt >= PIPE_BUF
       PROVE  \E q \in Proc : Emptied(q, Peer(f))
  <2>1. Peer(f) \in Polled(p)
    BY <1>2, <1>11 DEF Polled
  <2>2. PICK q \in Proc : Frees(q, Peer(f))
    BY <1>0, <1>2, <1>11, <2>1 DEF PollerWaits
  <2> QED
    BY <2>2 DEF Frees, Filler, Emptied
<1> QED
  BY <1>7, <1>9, <1>10, <1>11

\* ... nor a writer.
LEMMA WatchWriter ==
    ASSUME PipeInv, WatchInv
    PROVE  WriterNotForgotten
<1>0. Types /\ WriterWaits /\ Now.pp = pipe
  BY NowTypes DEF PipeInv, WatchInv
<1>1. \A q \in Proc, f \in End : Frees(q, f) => Emptied(q, f)
  BY DEF Frees, Filler, Emptied
<1> QED
  BY <1>0, <1>1 DEF WriterWaits, WriterNotForgotten, Eof

\* WatchInv holds in every state of the programs that Sturdy describes.
THEOREM WatchInvariance ==
    ASSUME \A w \in Workloads : Sturdy(w)
    PROVE  Spec => []WatchInv
<1>1. Init => WatchInv
  BY InitWatch
<1>2. PipeInv /\ PipeInv' /\ WatchInv /\ [Next]_vars => WatchInv'
  BY NextWatch
<1> QED
  BY <1>1, <1>2, PipeInvariance, PTL DEF Spec

\* Nobody sleeps on a pipe for what is there: not for PIPE_LOCK, data, space, an event
\* or the last user, for any number of readers, writers and pollers, any lengths, and
\* signals, timeouts, closes and faults at any sleep.
THEOREM NobodyIsForgotten ==
    ASSUME \A w \in Workloads : Sturdy(w)
    PROVE  Spec => []NobodyForgotten
<1>1. PipeInv /\ WatchInv => NobodyForgotten
  BY WatchLock, WatchCloser, WatchPoller, WatchWriter DEF NobodyForgotten, WatchInv
<1> QED
  BY <1>1, PipeInvariance, WatchInvariance, PTL

=============================================================================
