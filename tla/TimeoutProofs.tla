--------------------------- MODULE TimeoutProofs ----------------------------
(***************************************************************************)
(* Proofs about Timeout: TimeoutInv is an invariant for any timeouts and    *)
(* processors and for a wheel of any size, the code's 4 * 256 included.     *)
(***************************************************************************)
EXTENDS Timeout, DataTheorems

\* Division with a remainder.
LEMMA Division ==
    ASSUME NEW n \in Nat, n > 0, NEW x \in Int
    PROVE  /\ x \div n \in Int /\ x % n \in 0 .. n - 1
           /\ x = n * (x \div n) + (x % n)
  OBVIOUS

\* It is unique.
LEMMA Divided ==
    ASSUME NEW n \in Nat, n > 0, NEW q \in Int, NEW r \in 0 .. n - 1
    PROVE  (n * q + r) % n = r /\ (n * q + r) \div n = q
  OBVIOUS

\* The remainder is smaller than either.
LEMMA RemainderSmaller ==
    ASSUME NEW n \in Nat, n > 0, NEW x \in Nat
    PROVE  x % n \in Nat /\ x % n < n /\ x % n <= x
  OBVIOUS

\* Wrapping early does not matter.
LEMMA WrapTwice ==
    ASSUME NEW n \in Nat, n > 0, NEW x \in Int, NEW y \in Int
    PROVE  ((x % n) + y) % n = (x + y) % n
<1>1. PICK q \in Int, r \in 0 .. n - 1 : x = n * q + r /\ x % n = r
  BY Division
<1>2. PICK p \in Int, s \in 0 .. n - 1 : r + y = n * p + s /\ (r + y) % n = s
  BY Division, r + y \in Int
<1>3. x + y = n * (q + p) + s /\ q + p \in Int
  BY <1>1, <1>2
<1>4. (n * (q + p) + s) % n = s
  BY <1>3, Divided
<1> QED
  BY <1>1, <1>2, <1>3, <1>4

\* The sizes of the wheel and of an int.
LEMMA Sizes ==
    /\ WHEELSIZE \in Nat /\ WHEELSIZE > 1
    /\ \A v \in 0 .. 3 : Span(v) \in Nat /\ Span(v) > 0
    /\ INT_SIZE \in Nat /\ INT_SIZE > 1
    /\ INT_MAX \in Nat /\ INT_MAX + INT_MAX + 1 < INT_SIZE
    /\ MaxLag \in Nat /\ MaxLag <= INT_MAX
<1> DEFINE w == WHEELSIZE
<1>1. w \in Nat /\ w > 1
  BY TimeoutAssumption
<1> HIDE DEF w
<1>2. w * w \in Nat /\ w * w > 1
  BY <1>1
<1>3. w * w * w \in Nat /\ w * w * w > 1
  BY <1>1, <1>2
<1>4. w * w * w * w \in Nat /\ w * w * w * w > 1
  BY <1>1, <1>3
<1>5. Span(0) = 1 /\ Span(1) = w /\ Span(2) = w * w /\ Span(3) = w * w * w
  BY DEF Span, w
<1>6. \A v \in 0 .. 3 : Span(v) \in Nat /\ Span(v) > 0
  BY <1>1, <1>2, <1>3, <1>5
<1>7. INT_SIZE \in Nat /\ INT_SIZE > 1
  BY <1>4, <1>5 DEF INT_SIZE, w
<1>8. INT_MAX \in Nat /\ INT_MAX + INT_MAX + 1 < INT_SIZE
  BY <1>7 DEF INT_MAX
<1> QED
  BY <1>1, <1>6, <1>7, <1>8, TimeoutAssumption DEF w

\* "The result will always be positive for future timeouts and 0 or negative
\* for due timeouts": the distance survives the wrap.
LEMMA RelIsLeft ==
    ASSUME NEW a \in 0 .. INT_SIZE - 1, NEW l \in -INT_MAX .. INT_MAX
    PROVE  Signed(((a + l) % INT_SIZE) - a) = l
<1> DEFINE n == INT_SIZE
<1>1. n \in Nat /\ n > 1 /\ INT_MAX \in Nat /\ INT_MAX + INT_MAX + 1 < n /\ a \in Int /\ l \in Int
  BY Sizes
<1> HIDE DEF n
<1>2. (((a + l) % n) + (-a)) % n = l % n
  <2>1. PICK b \in Int, c \in Int : b = a + l /\ c = -a /\ b + c = l
    BY <1>1
  <2>2. n \in Nat /\ n > 0
    BY <1>1
  <2>3. ((b % n) + c) % n = (b + c) % n
    BY <2>2, WrapTwice, Zenon
  <2> QED
    BY <2>1, <2>3
<1>3. ((a + l) % n) - a = ((a + l) % n) + (-a)
  BY <1>1, Division, a + l \in Int
<1>4. l % n = IF l >= 0 THEN l ELSE l + n
  <2>1. CASE l >= 0
    BY <1>1, <2>1, n * 0 + l = l, Divided, l \in 0 .. n - 1
  <2>2. CASE l < 0
    BY <1>1, <2>2, n * (-1) + (l + n) = l, Divided, l + n \in 0 .. n - 1
  <2> QED
    BY <1>1, <2>1, <2>2
<1> QED
  BY <1>1, <1>2, <1>3, <1>4 DEF Signed, n

\* The level below a level divides it.
LEMMA SpanDivides ==
    ASSUME NEW v \in 0 .. 3, NEW u \in 0 .. v - 1
    PROVE  \E k \in Nat : Span(v) = Span(u) * (WHEELSIZE * k)
<1> DEFINE w == WHEELSIZE
<1>1. w \in Nat /\ w * w \in Nat
  BY Sizes
<1>2. Span(0) = 1 /\ Span(1) = w /\ Span(2) = w * w /\ Span(3) = w * w * w
  BY DEF Span
<1> HIDE DEF w
<1>3. CASE v = u + 1
  <2>1. Span(v) = Span(u) * (w * 1)
    BY <1>1, <1>2, <1>3
  <2> QED
    BY <2>1 DEF w
<1>4. CASE v = u + 2
  <2>1. Span(v) = Span(u) * (w * w)
    BY <1>1, <1>2, <1>4
  <2> QED
    BY <1>1, <2>1 DEF w
<1>5. CASE v = u + 3
  <2>1. Span(v) = Span(u) * (w * (w * w))
    BY <1>1, <1>2, <1>5
  <2> QED
    BY <1>1, <2>1 DEF w
<1> QED
  BY <1>3, <1>4, <1>5

\* When the lower digits of the time become 0 that it has at x, the bucket of
\* x is emptied.
LEMMA EmptiedBefore ==
    ASSUME NEW x \in Nat, NEW v \in 0 .. 3
    PROVE  MASKWHEEL(v, x) + v * WHEELSIZE \in Moved(x - (x % Span(v)))
<1> DEFINE w == WHEELSIZE
           s == Span(v)
           q == x \div s
           y == x - (x % s)
<1>1. w \in Nat /\ w > 1 /\ s \in Nat /\ s > 0
  BY Sizes
<1> HIDE DEF s
<1>2. q \in Int /\ y = s * q
  <2>1. PICK p \in Int, r \in 0 .. s - 1 : x \div s = p /\ x % s = r /\ x = s * p + r
    BY <1>1, Division
  <2> QED
    BY <1>1, <2>1
<1> HIDE DEF w, q, y
<1>4. y \div s = q
  <2>1. (s * q + 0) \div s = q
    BY <1>1, <1>2, Divided
  <2> QED
    BY <1>1, <1>2, <2>1
<1>5. MASKWHEEL(v, y) = MASKWHEEL(v, x)
  BY <1>4 DEF MASKWHEEL, q, s
<1>6. ASSUME NEW u \in 0 .. v - 1 PROVE MASKWHEEL(u, y) = 0
  <2>1. PICK k \in Nat : s = Span(u) * (w * k)
    BY SpanDivides DEF s, w
  <2>2. PICK m \in Nat : m = Span(u) /\ m > 0
    BY Sizes
  <2>3. y = m * (w * (k * q)) + 0 /\ w * (k * q) \in Int /\ k * q \in Int
    BY <1>1, <1>2, <2>1, <2>2
  <2>4. y \div m = w * (k * q) + 0
    BY <2>2, <2>3, Divided
  <2>5. (w * (k * q) + 0) % w = 0
    <3>1. PICK j \in Int : j = k * q
      BY <2>3
    <3>2. (w * j + 0) % w = 0
      BY <1>1, Divided
    <3> QED
      BY <3>1, <3>2
  <2> QED
    BY <2>2, <2>4, <2>5 DEF MASKWHEEL, w
<1>7. MASKWHEEL(v, y) + v * WHEELSIZE \in Moved(y)
  BY <1>6 DEF Moved
<1> QED
  BY <1>5, <1>7 DEF y, s

\* A timeout that softclock() puts into the wheel is in a bucket that is
\* emptied in time, and not before the next tick: `d' ticks from now the lower
\* digits of the time are 0 and the others those of to_time.
LEMMA InsertedInTime ==
    ASSUME NEW a \in 0 .. INT_SIZE - 1, NEW l \in 1 .. INT_MAX, NEW x, x = (a + l) % INT_SIZE
    PROVE  /\ BUCKET(l, x) \in 0 .. BUCKETS - 1
           /\ \E d \in 1 .. l : BUCKET(l, x) \in Moved((a + d) % INT_SIZE)
<1> DEFINE n == INT_SIZE
           b == BUCKET(l, x)
<1>1. n \in Nat /\ n > 0 /\ INT_MAX \in Nat /\ l \in Nat /\ l > 0 /\ a \in Nat
  BY Sizes
<1> HIDE DEF n
<1>2. x = (a + l) % n
  BY DEF n
<1>3. x \in 0 .. n - 1
  BY <1>1, <1>2, Division, a + l \in Int
<1>4. PICK v \in 0 .. 3 : b = MASKWHEEL(v, x) + v * WHEELSIZE /\ (v = 0 \/ l > Span(v))
  <2>1. Span(1) \in Nat /\ Span(2) \in Nat /\ Span(3) \in Nat
    BY Sizes
  <2>2. CASE l <= Span(1)
    <3>1. b = MASKWHEEL(0, x)
      BY <2>2 DEF BUCKET
    <3>2. MASKWHEEL(0, x) = MASKWHEEL(0, x) + 0 * WHEELSIZE
      BY <1>1, <1>3, Sizes, Division DEF MASKWHEEL, Span
    <3> QED
      BY <3>1, <3>2
  <2>3. CASE l > Span(1) /\ l <= Span(2)
    BY <1>1, <2>1, <2>3, Sizes DEF BUCKET
  <2>4. CASE l > Span(1) /\ l > Span(2) /\ l <= Span(3)
    BY <1>1, <2>1, <2>4, Sizes DEF BUCKET
  <2>5. CASE l > Span(1) /\ l > Span(2) /\ l > Span(3)
    BY <1>1, <2>1, <2>5, Sizes DEF BUCKET
  <2> QED
    BY <1>1, <2>1, <2>2, <2>3, <2>4, <2>5
<1> HIDE DEF b
<1>5. PICK s \in Nat : s = Span(v) /\ s > 0
  BY Sizes
<1>6. PICK c \in Nat : c = x % s /\ c < s /\ c <= x
  BY <1>3, <1>5, RemainderSmaller, x \in Nat
<1>7. c < l
  <2>1. CASE v = 0
    BY <1>1, <1>5, <1>6, <2>1 DEF Span
  <2>2. CASE l > Span(v)
    BY <1>1, <1>5, <1>6, <2>2
  <2> QED
    BY <1>4, <2>1, <2>2
<1>8. (a + (l - c)) % n = x - c
  <2>1. PICK y \in Int, z \in Int : y = a + l /\ z = -c /\ y + z = a + (l - c)
    BY <1>1, <1>6
  <2>2. ((y % n) + z) % n = (y + z) % n
    BY <1>1, WrapTwice, Zenon
  <2>3. y % n = x /\ x + z = x - c /\ x - c \in 0 .. n - 1
    <3>1. y % n = x
      BY <1>2, <2>1
    <3>2. x + z = x - c /\ x - c \in 0 .. n - 1
      BY <1>1, <1>3, <1>6, <2>1
    <3> QED
      BY <3>1, <3>2
  <2>4. PICK u \in 0 .. n - 1 : u = x - c
    BY <2>3
  <2>5. u % n = u
    BY <1>1, <2>4, Divided, n * 0 + u = u
  <2> QED
    BY <2>1, <2>2, <2>3, <2>4, <2>5
<1>9. b \in Moved(x - c)
  BY <1>3, <1>4, <1>5, <1>6, EmptiedBefore, x \in Nat
<1>10. b \in 0 .. BUCKETS - 1
  <2>1. PICK w \in Nat : w = WHEELSIZE /\ w > 1
    BY Sizes
  <2>2. x \div s \in Int
    BY <1>3, <1>5, Division, x \in Int
  <2>3. MASKWHEEL(v, x) \in 0 .. w - 1
    BY <1>5, <2>1, <2>2, Division DEF MASKWHEEL
  <2>4. PICK m \in 0 .. w - 1 : m = MASKWHEEL(v, x)
    BY <2>3
  <2>5. b = m + v * w /\ BUCKETS = 4 * w
    BY <1>4, <2>1, <2>4 DEF BUCKETS
  <2> QED
    BY <2>1, <2>5
<1>11. l - c \in 1 .. l
  BY <1>1, <1>6, <1>7
<1> QED
  BY <1>8, <1>9, <1>10, <1>11 DEF n, b

-----------------------------------------------------------------------------
\* The parts of TypeOK: the timeouts and their queues, and the processors.
ListTypes ==
    /\ ticks \in 0 .. INT_SIZE - 1
    /\ to_time \in [To -> 0 .. INT_SIZE - 1]
    /\ queue \in [To -> 0 .. Off]
    /\ todo \in Seq(To) /\ IsInjective(todo)
    /\ ToSet(todo) = {t \in To : queue[t] = Todo}
    /\ triggered \in [To -> BOOLEAN]
    /\ left \in [To -> -MaxLag .. INT_MAX]
CpuTypes ==
    /\ softintr \in [Cpu -> BOOLEAN]
    /\ pc \in [Cpu -> {"idle", "loop", "lock", "call"}]
    /\ to \in [Cpu -> To \cup {NoTo}]

ListInv == ListTypes /\ TimesMatch /\ BucketComesUp

\* The numbers of the queues.
LEMMA QueueNumbers ==
    /\ BUCKETS \in Nat /\ Todo \in 0 .. Off /\ Off \in 0 .. Off /\ Todo # Off
    /\ \A q \in 0 .. Off : q \in 0 .. BUCKETS - 1 <=> q # Todo /\ q # Off
  BY Sizes DEF BUCKETS, Todo, Off

\* What the code computes is how long it is until the timeout.
LEMMA RelLeft ==
    ASSUME ListInv, NEW t \in To, OnQueue(t)
    PROVE  Rel(t) = left[t]
<1>1. left[t] \in -INT_MAX .. INT_MAX /\ ticks \in 0 .. INT_SIZE - 1
  BY Sizes DEF ListInv, ListTypes
<1>2. to_time[t] = (ticks + left[t]) % INT_SIZE
  BY DEF ListInv, TimesMatch
<1> QED
  BY <1>1, <1>2, RelIsLeft DEF Rel

\* A timeout is moved to the end of the worklist, from wherever it was.
LEMMA RequeueKeeps ==
    ASSUME ListTypes, NEW t \in To, Requeue(t)
    PROVE  /\ queue' \in [To -> 0 .. Off]
           /\ \A u \in To : queue'[u] = IF u = t THEN Todo ELSE queue[u]
           /\ todo' \in Seq(To) /\ IsInjective(todo')
           /\ ToSet(todo') = {u \in To : queue'[u] = Todo}
<1> USE DEF ListTypes
<1>1. /\ queue' \in [To -> 0 .. Off]
      /\ \A u \in To : queue'[u] = IF u = t THEN Todo ELSE queue[u]
  BY QueueNumbers DEF Requeue
<1>2. PICK r \in Seq(To) : r = Without(todo, t) /\ IsInjective(r) /\ ToSet(r) = ToSet(todo) \ {t}
  BY QueueRemove DEF Without
<1>3. todo' = Append(r, t)
  BY <1>2 DEF Requeue
<1>4. todo' \in Seq(To) /\ IsInjective(todo') /\ ToSet(todo') = ToSet(r) \cup {t}
  BY <1>2, <1>3, QueueAppend
<1> QED
  BY <1>1, <1>2, <1>4

\* The timeouts of some buckets are moved to the worklist.
LEMMA ToWorklistKeeps ==
    ASSUME ListTypes, NEW S, S \subseteq To, \A t \in S : queue[t] # Todo, ToWorklist(S)
    PROVE  /\ queue' \in [To -> 0 .. Off]
           /\ \A u \in To : queue'[u] = IF u \in S THEN Todo ELSE queue[u]
           /\ todo' \in Seq(To) /\ IsInjective(todo')
           /\ ToSet(todo') = {u \in To : queue'[u] = Todo}
<1> USE DEF ListTypes
<1>1. /\ queue' \in [To -> 0 .. Off]
      /\ \A u \in To : queue'[u] = IF u \in S THEN Todo ELSE queue[u]
  BY QueueNumbers DEF ToWorklist
<1>2. PICK s \in SetToSeqs(S) : todo' = todo \o s
  BY DEF ToWorklist
<1>3. IsFiniteSet(S)
  BY FS_Subset, TimeoutAssumption
<1>4. s \in Seq(S) /\ IsInjective(s) /\ ToSet(s) = S
  BY <1>3, QueueOfSet
<1>5. s \in Seq(To)
  BY <1>4
<1>6. ToSet(todo) \cap ToSet(s) = {}
  BY <1>4
<1>7. todo' \in Seq(To) /\ IsInjective(todo') /\ ToSet(todo') = ToSet(todo) \cup ToSet(s)
  BY <1>2, <1>4, <1>5, <1>6, QueueConcat
<1> QED
  BY <1>1, <1>4, <1>7

-----------------------------------------------------------------------------
\* timeout_add() keeps the invariant.  A timeout that is postponed stays in a
\* bucket that comes up before it is due.
LEMMA AddKeeps ==
    ASSUME ListInv, NEW t \in To, NEW n \in 0 .. INT_MAX, AddTimeout(t, n), ticks' = ticks
    PROVE  ListInv'
<1> USE DEF ListInv
<1>1. /\ to_time' = [to_time EXCEPT ![t] = (n + ticks) % INT_SIZE]
      /\ triggered' = [triggered EXCEPT ![t] = FALSE] /\ left' = [left EXCEPT ![t] = n]
  BY DEF AddTimeout
<1>2. (n + ticks) % INT_SIZE \in 0 .. INT_SIZE - 1 /\ n + ticks = ticks + n
  <2>1. PICK m \in Nat : m = INT_SIZE /\ m > 0
    BY Sizes
  <2>2. n + ticks \in Int /\ n + ticks = ticks + n
    BY Sizes DEF ListTypes
  <2> QED
    BY <2>1, <2>2, Division
<1>3. /\ to_time' \in [To -> 0 .. INT_SIZE - 1]
      /\ \A u \in To : to_time'[u] = IF u = t THEN (ticks + n) % INT_SIZE ELSE to_time[u]
  BY <1>1, <1>2 DEF ListTypes
<1>4. /\ left' \in [To -> -MaxLag .. INT_MAX]
      /\ \A u \in To : left'[u] = IF u = t THEN n ELSE left[u]
  <2>1. n \in -MaxLag .. INT_MAX
    BY Sizes
  <2> QED
    BY <1>1, <2>1 DEF ListTypes
<1>5. triggered' \in [To -> BOOLEAN]
  BY <1>1 DEF ListTypes
<1>6. CASE Requeue(t)
  <2>1. /\ queue' \in [To -> 0 .. Off]
        /\ \A u \in To : queue'[u] = IF u = t THEN Todo ELSE queue[u]
        /\ todo' \in Seq(To) /\ IsInjective(todo')
        /\ ToSet(todo') = {u \in To : queue'[u] = Todo}
    BY <1>6, RequeueKeeps
  <2>2. ListTypes'
    BY <1>3, <1>4, <1>5, <2>1 DEF ListTypes
  <2>3. TimesMatch'
    BY <1>3, <1>4, <2>1 DEF TimesMatch, OnQueue
  <2>4. BucketComesUp'
    BY <1>4, <2>1, QueueNumbers DEF BucketComesUp
  <2> QED
    BY <2>2, <2>3, <2>4
<1>7. CASE UNCHANGED <<queue, todo>> /\ OnQueue(t) /\ ~(n < Rel(t))
  <2>1. left[t] <= n
    BY <1>7, RelLeft, Sizes, SMTT(30) DEF ListTypes
  <2>2. ListTypes'
    BY <1>3, <1>4, <1>5, <1>7 DEF ListTypes
  <2>3. TimesMatch'
    BY <1>3, <1>4, <1>7 DEF TimesMatch, OnQueue
  <2>4. \A u \in To : 1 .. left[u] \subseteq 1 .. left'[u]
    <3> SUFFICES ASSUME NEW u \in To PROVE 1 .. left[u] \subseteq 1 .. left'[u]
      OBVIOUS
    <3>1. left[u] \in Int /\ n \in Int
      BY Sizes DEF ListTypes
    <3>2. left'[u] = IF u = t THEN n ELSE left[u]
      BY <1>4
    <3> QED
      BY <2>1, <3>1, <3>2
  <2>5. BucketComesUp'
    BY <1>7, <2>4 DEF BucketComesUp
  <2> QED
    BY <2>2, <2>3, <2>5
<1> QED
  BY <1>6, <1>7 DEF AddTimeout

\* timeout_del() keeps it.
LEMMA DelKeeps ==
    ASSUME ListInv, NEW t \in To, timeout_del(t)
    PROVE  ListInv'
<1> USE DEF ListInv
<1>1. /\ queue' = [queue EXCEPT ![t] = Off] /\ todo' = Without(todo, t)
      /\ triggered' = [triggered EXCEPT ![t] = FALSE] /\ left' = [left EXCEPT ![t] = 0]
      /\ to_time' = [to_time EXCEPT ![t] = 0] /\ ticks' = ticks
  BY DEF timeout_del
<1>2. todo' \in Seq(To) /\ IsInjective(todo') /\ ToSet(todo') = ToSet(todo) \ {t}
  BY <1>1, QueueRemove DEF Without, ListTypes
<1>3. 0 \in 0 .. INT_SIZE - 1 /\ 0 \in -MaxLag .. INT_MAX /\ Off \in 0 .. Off
  BY Sizes, QueueNumbers
<1>4. /\ \A u \in To : queue'[u] = IF u = t THEN Off ELSE queue[u]
      /\ \A u \in To : to_time'[u] = IF u = t THEN 0 ELSE to_time[u]
      /\ \A u \in To : left'[u] = IF u = t THEN 0 ELSE left[u]
  BY <1>1 DEF ListTypes
<1>5. ToSet(todo') = {u \in To : queue'[u] = Todo}
  BY <1>2, <1>4, QueueNumbers DEF ListTypes
<1>6. ListTypes'
  BY <1>1, <1>2, <1>3, <1>5 DEF ListTypes
<1>7. TimesMatch'
  BY <1>1, <1>4 DEF TimesMatch, OnQueue
<1>8. BucketComesUp'
  BY <1>1, <1>4, QueueNumbers DEF BucketComesUp
<1> QED
  BY <1>6, <1>7, <1>8

\* The next tick has the same times as seen from it.
LEMMA NextTick ==
    ASSUME NEW a \in 0 .. INT_SIZE - 1, NEW x \in Int
    PROVE  (((a + 1) % INT_SIZE) + (x - 1)) % INT_SIZE = (a + x) % INT_SIZE
           /\ (a + 1) % INT_SIZE \in 0 .. INT_SIZE - 1
<1>1. PICK n \in Nat : n = INT_SIZE /\ n > 0
  BY Sizes
<1>2. PICK y \in Int, z \in Int : y = a + 1 /\ z = x - 1 /\ y + z = a + x
  BY <1>1
<1>3. ((y % n) + z) % n = (y + z) % n
  BY <1>1, WrapTwice, Zenon
<1>4. y % n \in 0 .. n - 1
  BY <1>1, Division
<1> QED
  BY <1>1, <1>2, <1>3, <1>4

\* timeout_hardclock_update() keeps it: a timeout that does not move has a
\* bucket that comes up later.
LEMMA HardclockKeeps ==
    ASSUME ListInv, timeout_hardclock_update
    PROVE  ListInv'
<1> USE DEF ListInv
<1> DEFINE now == (ticks + 1) % INT_SIZE
           S == {t \in To : queue[t] \in Moved(now)}
<1>1. /\ \A t \in To : OnQueue(t) => left[t] > -MaxLag
      /\ ticks' = now /\ ToWorklist(S) /\ UNCHANGED <<to_time, triggered>>
      /\ left' = [t \in To |-> IF OnQueue(t) THEN left[t] - 1 ELSE 0]
  BY DEF timeout_hardclock_update
<1>2. now \in 0 .. INT_SIZE - 1
  BY NextTick, 0 \in Int DEF ListTypes
<1>3. \A t \in S : queue[t] # Todo /\ queue[t] # Off
  <2> SUFFICES ASSUME NEW t \in S PROVE queue[t] # Todo /\ queue[t] # Off
    OBVIOUS
  <2>1. PICK v \in 0 .. 3 : queue[t] = MASKWHEEL(v, now) + v * WHEELSIZE
    BY DEF Moved
  <2>2. PICK w \in Nat : w = WHEELSIZE /\ w > 1
    BY Sizes
  <2>3. now \div Span(v) \in Int
    BY <1>2, Sizes, Division, now \in Int
  <2>4. MASKWHEEL(v, now) \in 0 .. w - 1
    BY <2>2, <2>3, Division DEF MASKWHEEL
  <2>5. PICK m \in 0 .. w - 1 : m = MASKWHEEL(v, now)
    BY <2>4
  <2>6. queue[t] = m + v * w /\ Todo = 4 * w /\ Off = 4 * w + 1
    BY <2>1, <2>2, <2>5 DEF BUCKETS, Todo, Off
  <2> QED
    BY <2>2, <2>6
<1> HIDE DEF now, S
<1>4. /\ queue' \in [To -> 0 .. Off]
      /\ \A u \in To : queue'[u] = IF u \in S THEN Todo ELSE queue[u]
      /\ todo' \in Seq(To) /\ IsInjective(todo')
      /\ ToSet(todo') = {u \in To : queue'[u] = Todo}
  <2>1. S \subseteq To
    BY DEF S
  <2> QED
    BY <1>1, <1>3, <2>1, ToWorklistKeeps
<1>5. /\ left' \in [To -> -MaxLag .. INT_MAX]
      /\ \A u \in To : left'[u] = IF OnQueue(u) THEN left[u] - 1 ELSE 0
  BY <1>1, Sizes DEF ListTypes
<1>6. ListTypes'
  BY <1>1, <1>2, <1>4, <1>5 DEF ListTypes
<1>7. \A u \in To : OnQueue(u)' => OnQueue(u)
  BY <1>3, <1>4 DEF OnQueue
<1>8. ASSUME NEW x \in Int PROVE (now + (x - 1)) % INT_SIZE = (ticks + x) % INT_SIZE
  BY NextTick DEF now, ListTypes
<1>9. TimesMatch'
  <2> SUFFICES ASSUME NEW u \in To, OnQueue(u)'
               PROVE  to_time'[u] = (ticks' + left'[u]) % INT_SIZE
    BY DEF TimesMatch
  <2>1. left'[u] = left[u] - 1 /\ left[u] \in Int
    BY <1>5, <1>7, Sizes DEF ListTypes
  <2>2. to_time'[u] = (ticks + left[u]) % INT_SIZE
    BY <1>1, <1>7 DEF TimesMatch
  <2> QED
    BY <1>1, <1>8, <2>1, <2>2
<1>10. BucketComesUp'
  <2> SUFFICES ASSUME NEW u \in To, queue'[u] \in 0 .. BUCKETS - 1
               PROVE  \E d \in 1 .. left'[u] : queue'[u] \in Moved((ticks' + d) % INT_SIZE)
    BY DEF BucketComesUp
  <2>1. u \notin S /\ queue'[u] = queue[u]
    BY <1>4, QueueNumbers
  <2>2. PICK d \in 1 .. left[u] : queue[u] \in Moved((ticks + d) % INT_SIZE)
    BY <2>1 DEF BucketComesUp
  <2>3. d # 1
    BY <2>1, <2>2 DEF S, now
  <2>4. left'[u] = left[u] - 1 /\ left[u] \in Int
    BY <1>4, <1>5, <2>1, QueueNumbers, Sizes DEF ListTypes, OnQueue
  <2>5. d - 1 \in 1 .. left'[u]
    BY <2>3, <2>4
  <2>6. (ticks' + (d - 1)) % INT_SIZE = (ticks + d) % INT_SIZE
    BY <1>1, <1>8
  <2> QED
    BY <2>1, <2>2, <2>5, <2>6
<1> QED
  BY <1>6, <1>9, <1>10

\* timeout_adjust_ticks() keeps it: the wheel is emptied, and what is not yet
\* due is as many ticks nearer.
LEMMA AdjustKeeps ==
    ASSUME ListInv, NEW adj \in 1 .. INT_MAX, timeout_adjust_ticks(adj)
    PROVE  ListInv'
<1> USE DEF ListInv
<1> DEFINE now == (ticks + adj) % INT_SIZE
           S == {t \in To : queue[t] \in 0 .. BUCKETS - 1}
           over(t) == t \in S /\ Rel(t) < adj
<1>1. /\ \A t \in To : queue[t] = Todo => left[t] - adj > -MaxLag
      /\ to_time' = [t \in To |-> IF over(t) THEN now ELSE to_time[t]]
      /\ ToWorklist(S) /\ ticks' = now /\ triggered' = triggered
      /\ left' = [t \in To |-> IF ~OnQueue(t) \/ over(t) THEN 0 ELSE left[t] - adj]
  BY DEF timeout_adjust_ticks
<1>2. PICK n \in Nat : n = INT_SIZE /\ n > 0
  BY Sizes
<1>3. now \in 0 .. n - 1
  BY <1>2, Division, Sizes, ticks + adj \in Int DEF ListTypes
<1>4. \A t \in S : queue[t] # Todo /\ OnQueue(t)
  BY QueueNumbers DEF OnQueue, ListTypes
<1>5. ASSUME NEW x \in Int PROVE (now + (x - adj)) % n = (ticks + x) % n
  <2>1. PICK y \in Int, z \in Int : y = ticks + adj /\ z = x - adj /\ y + z = ticks + x
    BY Sizes DEF ListTypes
  <2>2. ((y % n) + z) % n = (y + z) % n
    BY <1>2, WrapTwice, Zenon
  <2> QED
    BY <1>2, <2>1, <2>2
<1> HIDE DEF now, S
<1>6. /\ queue' \in [To -> 0 .. Off]
      /\ \A u \in To : queue'[u] = IF u \in S THEN Todo ELSE queue[u]
      /\ todo' \in Seq(To) /\ IsInjective(todo')
      /\ ToSet(todo') = {u \in To : queue'[u] = Todo}
  <2>1. S \subseteq To
    BY DEF S
  <2> QED
    BY <1>1, <1>4, <2>1, ToWorklistKeeps
<1>7. ASSUME NEW u \in To, OnQueue(u), ~over(u) PROVE left[u] - adj \in -MaxLag .. INT_MAX
  <2>1. left[u] \in -MaxLag .. INT_MAX
    BY DEF ListTypes
  <2>2. CASE u \in S
    <3>1. left[u] >= adj
      BY <1>7, <2>1, <2>2, RelLeft, Sizes
    <3> QED
      BY <2>1, <3>1, Sizes
  <2>3. CASE u \notin S
    <3>1. queue[u] = Todo
      BY <1>7, <2>3, QueueNumbers DEF S, OnQueue, ListTypes
    <3> QED
      BY <1>1, <2>1, <3>1, Sizes
  <2> QED
    BY <2>2, <2>3
<1>8. /\ \A u \in To : to_time'[u] = IF over(u) THEN now ELSE to_time[u]
      /\ \A u \in To : left'[u] = IF ~OnQueue(u) \/ over(u) THEN 0 ELSE left[u] - adj
  BY <1>1
<1> HIDE DEF over
<1>9. left' \in [To -> -MaxLag .. INT_MAX]
  BY <1>1, <1>7, Sizes
<1>10. to_time' \in [To -> 0 .. INT_SIZE - 1]
  BY <1>1, <1>2, <1>3 DEF ListTypes
<1>11. ListTypes'
  BY <1>1, <1>2, <1>3, <1>6, <1>9, <1>10 DEF ListTypes
<1>12. TimesMatch'
  <2> SUFFICES ASSUME NEW u \in To, OnQueue(u)'
               PROVE  to_time'[u] = (ticks' + left'[u]) % n
    BY <1>2 DEF TimesMatch
  <2>1. OnQueue(u)
    BY <1>4, <1>6 DEF OnQueue
  <2>2. CASE over(u)
    <3>1. to_time'[u] = now /\ left'[u] = 0
      BY <1>8, <2>2
    <3>2. now = n * 0 + now /\ now + 0 = now
      BY <1>2, <1>3
    <3>3. (n * 0 + now) % n = now
      BY <1>2, <1>3, Divided
    <3> QED
      BY <1>1, <3>1, <3>2, <3>3
  <2>3. CASE ~over(u)
    <3>1. to_time'[u] = to_time[u] /\ left'[u] = left[u] - adj /\ left[u] \in Int
      BY <1>8, <2>1, <2>3, Sizes DEF ListTypes
    <3>2. to_time[u] = (ticks + left[u]) % n
      BY <1>2, <2>1 DEF TimesMatch
    <3> QED
      BY <1>1, <1>5, <3>1, <3>2
  <2> QED
    BY <2>2, <2>3
<1>13. BucketComesUp'
  BY <1>6, QueueNumbers DEF BucketComesUp, S
<1> QED
  BY <1>11, <1>12, <1>13

\* The bucket that softclock() chooses for the first timeout of the worklist.
LEMMA InsertBucket ==
    ASSUME ListInv, NEW c, NEW t \in To, SoftclockInsert(c, t)
    PROVE  \E b \in 0 .. BUCKETS - 1 :
                /\ queue' = [queue EXCEPT ![t] = b]
                /\ b \in 0 .. Off /\ b # Todo /\ b # Off
                /\ \E d \in 1 .. left[t] : b \in Moved((ticks + d) % INT_SIZE)
<1> USE DEF ListInv
<1>1. /\ todo # << >> /\ t = Head(todo) /\ Rel(t) > 0
      /\ queue' = [queue EXCEPT ![t] = BUCKET(Rel(t), to_time[t])]
  BY DEF SoftclockInsert, First
<1>2. t \in ToSet(todo)
  BY <1>1, QueueTail DEF ListTypes
<1>3. OnQueue(t)
  BY <1>2, QueueNumbers DEF ListTypes, OnQueue
<1>4. Rel(t) = left[t] /\ left[t] \in 1 .. INT_MAX
  <2>1. Rel(t) = left[t]
    BY <1>3, RelLeft
  <2>2. left[t] \in -MaxLag .. INT_MAX /\ MaxLag \in Nat /\ INT_MAX \in Nat
    BY Sizes DEF ListTypes
  <2>3. left[t] > 0
    BY <1>1, <2>1
  <2> QED
    BY <2>1, <2>2, <2>3
<1>5. PICK b : b = BUCKET(left[t], to_time[t])
  OBVIOUS
<1>6. b \in 0 .. BUCKETS - 1 /\ \E d \in 1 .. left[t] : b \in Moved((ticks + d) % INT_SIZE)
  BY <1>3, <1>4, <1>5, InsertedInTime DEF TimesMatch, ListTypes
<1>7. b \in 0 .. Off /\ b # Todo /\ b # Off
  BY <1>6, QueueNumbers DEF Off, Todo
<1> QED
  BY <1>1, <1>4, <1>5, <1>6, <1>7

\* softclock() puts it there, ...
LEMMA InsertKeeps ==
    ASSUME ListInv, NEW c, NEW t \in To, SoftclockInsert(c, t)
    PROVE  ListInv'
<1> USE DEF ListInv
<1>1. /\ todo # << >> /\ t = Head(todo) /\ todo' = Tail(todo)
      /\ UNCHANGED <<ticks, to_time, triggered, left>>
  BY DEF SoftclockInsert, First
<1>2. /\ todo' \in Seq(To) /\ IsInjective(todo') /\ ToSet(todo') = ToSet(todo) \ {t}
      /\ t \in ToSet(todo)
  BY <1>1, QueueTail DEF ListTypes
<1>3. queue[t] = Todo /\ OnQueue(t)
  BY <1>2, QueueNumbers DEF ListTypes, OnQueue
<1>4. PICK b \in 0 .. BUCKETS - 1 :
            /\ queue' = [queue EXCEPT ![t] = b]
            /\ b \in 0 .. Off /\ b # Todo /\ b # Off
            /\ \E d \in 1 .. left[t] : b \in Moved((ticks + d) % INT_SIZE)
  BY InsertBucket
<1>5. /\ queue' \in [To -> 0 .. Off]
      /\ \A u \in To : queue'[u] = IF u = t THEN b ELSE queue[u]
  BY <1>4 DEF ListTypes
<1>6. ListTypes'
  BY <1>1, <1>2, <1>4, <1>5 DEF ListTypes
<1>7. TimesMatch'
  BY <1>1, <1>3, <1>5 DEF TimesMatch, OnQueue
<1>8. BucketComesUp'
  BY <1>1, <1>4, <1>5 DEF BucketComesUp
<1> QED
  BY <1>6, <1>7, <1>8

\* ... or takes it to call it.
LEMMA TakeKeeps ==
    ASSUME ListInv, NEW c, NEW t \in To, SoftclockTake(c, t)
    PROVE  ListInv'
<1> USE DEF ListInv
<1>1. /\ todo # << >> /\ t = Head(todo) /\ todo' = Tail(todo)
      /\ queue' = [queue EXCEPT ![t] = Off] /\ triggered' = [triggered EXCEPT ![t] = TRUE]
      /\ to_time' = [to_time EXCEPT ![t] = 0] /\ left' = [left EXCEPT ![t] = 0]
      /\ ticks' = ticks
  BY DEF SoftclockTake, First
<1>2. todo' \in Seq(To) /\ IsInjective(todo') /\ ToSet(todo') = ToSet(todo) \ {t}
  BY <1>1, QueueTail DEF ListTypes
<1>3. 0 \in 0 .. INT_SIZE - 1 /\ 0 \in -MaxLag .. INT_MAX /\ Off \in 0 .. Off
  BY Sizes, QueueNumbers
<1>4. /\ \A u \in To : queue'[u] = IF u = t THEN Off ELSE queue[u]
      /\ \A u \in To : to_time'[u] = IF u = t THEN 0 ELSE to_time[u]
      /\ \A u \in To : left'[u] = IF u = t THEN 0 ELSE left[u]
  BY <1>1 DEF ListTypes
<1>5. ToSet(todo') = {u \in To : queue'[u] = Todo}
  BY <1>2, <1>4, QueueNumbers DEF ListTypes
<1>6. ListTypes'
  BY <1>1, <1>2, <1>3, <1>5 DEF ListTypes
<1>7. TimesMatch'
  BY <1>1, <1>4 DEF TimesMatch, OnQueue
<1>8. BucketComesUp'
  BY <1>1, <1>4, QueueNumbers DEF BucketComesUp
<1> QED
  BY <1>6, <1>7, <1>8

-----------------------------------------------------------------------------
\* The invariant holds at first ...
LEMMA TimeoutInit == Init => TimeoutInv
<1> SUFFICES ASSUME Init PROVE TimeoutInv
  OBVIOUS
<1>1. 0 \in 0 .. INT_SIZE - 1 /\ 0 \in -MaxLag .. INT_MAX
  BY Sizes
<1>2. << >> \in Seq(To) /\ ToSet(<< >>) = {} /\ IsInjective(<< >>)
  <2>1. << >> \in Seq(To)
    OBVIOUS
  <2>2. ToSet(<< >>) = {}
    BY <2>1, QueueSet
  <2> QED
    BY <2>1, <2>2 DEF IsInjective
<1>3. TypeOK
  BY <1>1, <1>2, QueueNumbers DEF Init, TypeOK
<1>4. TimesMatch /\ BucketComesUp
  BY QueueNumbers DEF Init, TimesMatch, BucketComesUp, OnQueue
<1> QED
  BY <1>3, <1>4 DEF TimeoutInv

\* ... and every step keeps it.
LEMMA TimeoutNext == TimeoutInv /\ [Next]_vars => TimeoutInv'
<1> SUFFICES ASSUME TimeoutInv, [Next]_vars PROVE TimeoutInv'
  OBVIOUS
<1>1. ListInv /\ CpuTypes
  BY DEF TimeoutInv, TypeOK, ListInv, ListTypes, CpuTypes
<1>2. ASSUME ListInv', CpuTypes' PROVE TimeoutInv'
  BY <1>2 DEF TimeoutInv, TypeOK, ListInv, ListTypes, CpuTypes
<1>3. ASSUME UNCHANGED <<ticks, to_time, queue, todo, triggered, left>> PROVE ListInv'
  BY <1>1, <1>3 DEF ListInv, ListTypes, TimesMatch, BucketComesUp, OnQueue
<1>4. ASSUME UNCHANGED <<softintr, pc, to>> PROVE CpuTypes'
  BY <1>1, <1>4 DEF CpuTypes
<1>5. CASE UNCHANGED vars
  BY <1>2, <1>3, <1>4, <1>5 DEF vars
<1>6. ASSUME NEW t \in To, NEW n \in AddTicks, timeout_add(t, n) PROVE TimeoutInv'
  BY <1>1, <1>2, <1>4, <1>6, AddKeeps, TimeoutAssumption DEF timeout_add
<1>7. ASSUME NEW t \in To, timeout_del(t) PROVE TimeoutInv'
  BY <1>1, <1>2, <1>4, <1>7, DelKeeps DEF timeout_del
<1>8. CASE timeout_hardclock_update
  <2>1. softintr' = [softintr EXCEPT ![Primary] = @ \/ todo' # << >>] /\ UNCHANGED <<pc, to>>
    BY <1>8 DEF timeout_hardclock_update
  <2>2. CpuTypes'
    BY <1>1, <2>1 DEF CpuTypes
  <2> QED
    BY <1>1, <1>2, <1>8, <2>2, HardclockKeeps
<1>9. ASSUME NEW n \in AdjTicks, timeout_adjust_ticks(n) PROVE TimeoutInv'
  <2>1. UNCHANGED <<softintr, pc, to>>
    BY <1>9 DEF timeout_adjust_ticks
  <2> QED
    BY <1>1, <1>2, <1>4, <1>9, <2>1, AdjustKeeps, TimeoutAssumption
<1>10. ASSUME NEW c \in Cpu, NEW t \in To, proc_stop(c, t) PROVE TimeoutInv'
  <2>1. CpuTypes'
    BY <1>1, <1>10 DEF CpuTypes, proc_stop
  <2>2. 0 \in 0 .. INT_MAX
    BY Sizes
  <2> QED
    BY <1>1, <1>2, <1>10, <2>1, <2>2, AddKeeps DEF proc_stop
<1>11. ASSUME NEW c \in Cpu, softclock(c) PROVE TimeoutInv'
  <2>1. CASE SoftclockStart(c) \/ SoftclockEnd(c) \/ SoftclockCall(c) \/ SoftclockReturn(c)
    <3>1. CpuTypes'
      BY <1>1, <2>1 DEF CpuTypes, SoftclockStart, SoftclockEnd, SoftclockCall, SoftclockReturn
    <3> QED
      BY <1>2, <1>3, <2>1, <3>1 DEF SoftclockStart, SoftclockEnd, SoftclockCall, SoftclockReturn
  <2>2. ASSUME NEW t \in To, SoftclockInsert(c, t) PROVE TimeoutInv'
    BY <1>1, <1>2, <1>4, <2>2, InsertKeeps DEF SoftclockInsert
  <2>3. ASSUME NEW t \in To, SoftclockTake(c, t) PROVE TimeoutInv'
    <3>1. CpuTypes'
      BY <1>1, <2>3 DEF CpuTypes, SoftclockTake
    <3> QED
      BY <1>1, <1>2, <2>3, <3>1, TakeKeeps
  <2> QED
    BY <1>11, <2>1, <2>2, <2>3 DEF softclock
<1> QED
  BY <1>5, <1>6, <1>7, <1>8, <1>9, <1>10, <1>11 DEF Next

-----------------------------------------------------------------------------
\* The inductive invariant holds of every behaviour.
THEOREM TimeoutInvariance == Spec => []TimeoutInv
  BY TimeoutInit, TimeoutNext, PTL DEF Spec

\* The variables have their types: the worklist holds each timeout once that is
\* on it, and to_time and ticks never leave the range of an int.
THEOREM TypeCorrect == Spec => []TypeOK
<1>1. TimeoutInv => TypeOK
  BY DEF TimeoutInv
<1> QED
  BY <1>1, TimeoutInvariance, PTL

\* A timeout in the wheel reaches the worklist no later than the tick it is due:
\* for the wheel of the code, its 32-bit ticks and every delay up to INT_MAX.
THEOREM WheelInTime == Spec => []BucketMovesInTime
<1>1. TimeoutInv => BucketMovesInTime
  <2> SUFFICES ASSUME TimeoutInv, NEW t \in To, queue[t] \in 0 .. BUCKETS - 1
               PROVE  left[t] > 0
    BY DEF BucketMovesInTime
  <2>1. left[t] \in Int
    BY Sizes DEF TimeoutInv, TypeOK
  <2>2. PICK d \in 1 .. left[t] : TRUE
    BY DEF TimeoutInv, BucketComesUp
  <2> QED
    BY <2>1, <2>2
<1> QED
  BY <1>1, TimeoutInvariance, PTL

\* softclock() calls no timeout before as many ticks have passed as its last
\* timeout_add() asked for.
THEOREM NeverEarly == Spec => NotEarly
<1>1. TimeoutInv /\ [Next]_vars => [\A t \in To : Taken(t) => left[t] <= 0]_vars
  <2> SUFFICES ASSUME TimeoutInv, Next, NEW t \in To, Taken(t) PROVE left[t] <= 0
    OBVIOUS
  <2>1. ListInv
    BY DEF TimeoutInv, TypeOK, ListInv, ListTypes
  <2>2. OnQueue(t) /\ queue'[t] = Off /\ triggered'[t] /\ queue[t] # Off
    BY DEF Taken, OnQueue
  <2>3. ASSUME NEW c \in Cpu, NEW u \in To, SoftclockTake(c, u) PROVE left[t] <= 0
    <3>1. u = t
      BY <2>2, <2>3 DEF SoftclockTake, TimeoutInv, TypeOK
    <3>2. Rel(t) <= 0
      BY <2>3, <3>1 DEF SoftclockTake
    <3> QED
      BY <2>1, <2>2, <3>2, RelLeft
  <2>4. queue \in [To -> 0 .. Off] /\ Todo # Off
    BY QueueNumbers DEF TimeoutInv, TypeOK
  <2>5. queue' # queue
    BY <2>2
  <2>6. ASSUME NEW u \in To, NEW n, AddTimeout(u, n) PROVE FALSE
    BY <2>2, <2>4, <2>6 DEF AddTimeout, Requeue
  <2>7. ASSUME NEW u \in To, timeout_del(u) PROVE FALSE
    <3>1. queue' = [queue EXCEPT ![u] = Off] /\ triggered' = [triggered EXCEPT ![u] = FALSE]
      BY <2>7 DEF timeout_del
    <3>2. u = t
      BY <2>2, <2>4, <3>1
    <3>3. triggered'[t] = FALSE
      BY <3>1, <3>2 DEF TimeoutInv, TypeOK
    <3> QED
      BY <2>2, <3>3
  <2>8. ASSUME NEW S, ToWorklist(S) PROVE FALSE
    BY <2>2, <2>4, <2>8 DEF ToWorklist
  <2>9. ASSUME NEW c \in Cpu, NEW u \in To, SoftclockInsert(c, u) PROVE FALSE
    BY <2>1, <2>2, <2>4, <2>9, InsertBucket
  <2>10. ASSUME NEW c \in Cpu, softclock(c) PROVE left[t] <= 0
    BY <2>3, <2>5, <2>9, <2>10
       DEF softclock, SoftclockStart, SoftclockEnd, SoftclockCall, SoftclockReturn
  <2> QED
    BY <2>6, <2>7, <2>8, <2>10
       DEF Next, timeout_add, proc_stop, timeout_hardclock_update, timeout_adjust_ticks
<1> QED
  BY <1>1, TimeoutInvariance, PTL DEF Spec, NotEarly
=============================================================================
