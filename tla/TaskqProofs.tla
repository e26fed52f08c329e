---------------------------- MODULE TaskqProofs -----------------------------
(***************************************************************************)
(* Proofs about Taskq: TaskqInv is an invariant for any number of tasks,    *)
(* threads and callers and any kinds of queues.  The count of the threads   *)
(* is exact throughout the life of a queue, so a thread that brings it to 0 *)
(* is the last, and while work is left when a queue is destroyed a thread   *)
(* that has not found the worklist empty is counted.                        *)
(***************************************************************************)
EXTENDS Taskq, DataTheorems

\* The threads that are counted are finitely many.
LEMMA CountedFinite == IsFiniteSet(Counted) /\ Cardinality(Counted) \in Nat
<1>1. Counted \subseteq Thread
  BY DEF Counted
<1> QED
  BY <1>1, FS_Subset, FS_CardinalityType, TaskqAssumption

\* A task is put at the end of the worklist.
LEMMA Appended ==
    ASSUME NEW q \in Seq(Task), IsInjective(q), NEW e \in Task, ~Contains(q, e)
    PROVE  /\ Append(q, e) \in Seq(Task) /\ Append(q, e) # << >> /\ IsInjective(Append(q, e))
           /\ \A x \in Task : Contains(Append(q, e), x) <=> Contains(q, x) \/ x = e
<1> DEFINE r == Append(q, e)
<1>1. e \notin ToSet(q)
  BY QueueSet
<1>2. r \in Seq(Task) /\ r # << >> /\ IsInjective(r) /\ ToSet(r) = ToSet(q) \cup {e}
  BY <1>1, QueueAppend
<1> HIDE DEF r
<1>3. \A x \in Task : Contains(r, x) <=> Contains(q, x) \/ x = e
  BY <1>2, QueueSet
<1> QED
  BY <1>2, <1>3 DEF r

\* The first task is taken off the worklist.
LEMMA Taken ==
    ASSUME NEW q \in Seq(Task), IsInjective(q), q # << >>
    PROVE  /\ Head(q) \in Task /\ Tail(q) \in Seq(Task) /\ IsInjective(Tail(q))
           /\ \A x \in Task : Contains(Tail(q), x) <=> Contains(q, x) /\ x # Head(q)
<1> DEFINE r == Tail(q)
<1>1. /\ Head(q) \in Task /\ r \in Seq(Task) /\ IsInjective(r)
      /\ ToSet(r) = ToSet(q) \ {Head(q)}
  BY QueueTail
<1> HIDE DEF r
<1>2. \A x \in Task : Contains(r, x) <=> Contains(q, x) /\ x # Head(q)
  BY <1>1, QueueSet
<1> QED
  BY <1>1, <1>2 DEF r

\* A task is removed from the middle of the worklist.
LEMMA Removed ==
    ASSUME NEW q \in Seq(Task), IsInjective(q), NEW k \in DOMAIN q
    PROVE  /\ RemoveAt(q, k) \in Seq(Task) /\ IsInjective(RemoveAt(q, k))
           /\ \A x \in Task : Contains(RemoveAt(q, k), x) <=> Contains(q, x) /\ x # q[k]
<1> DEFINE r == RemoveAt(q, k)
<1>1. r \in Seq(Task) /\ IsInjective(r) /\ ToSet(r) = ToSet(q) \ {q[k]}
  BY QueueRemoveAt
<1> HIDE DEF r
<1>2. \A x \in Task : Contains(r, x) <=> Contains(q, x) /\ x # q[k]
  BY <1>1, QueueSet
<1> QED
  BY <1>1, <1>2 DEF r

\* wakeup_one(tq): a thread that sleeps in taskq_next_work() runs again.
LEMMA WakeupOneEffect ==
    ASSUME TaskqInv, NEW a \in Actor, a \notin Bored, NEW y \in Where, WakeupOne(a, y)
    PROVE  /\ pc' \in [Actor -> Where] /\ pc'[a] = y
           /\ \A b \in Actor : b # a => pc'[b] = pc[b] \/ (b \in Bored /\ pc'[b] = "next")
           /\ Bored # {} => \E w \in Thread : pc'[w] = "next"
<1>1. pc \in [Actor -> Where] /\ "next" \in Where
  BY DEF TaskqInv, TypeOK, Where
<1>2. CASE Bored = {} /\ Go(a, y)
  BY <1>1, <1>2 DEF Go
<1>3. ASSUME NEW w \in Bored, pc' = [pc EXCEPT ![a] = y, ![w] = "next"]
      PROVE  /\ pc' \in [Actor -> Where] /\ pc'[a] = y /\ pc'[w] = "next" /\ w \in Thread
             /\ \A b \in Actor : b # a => pc'[b] = pc[b] \/ (b \in Bored /\ pc'[b] = "next")
  BY <1>1, <1>3 DEF Bored, Actor
<1> QED
  BY <1>2, <1>3 DEF WakeupOne

\* task_add() before the mutex.
LEMMA TaskAddStep ==
    ASSUME TaskqInv, NEW a \in Actor, NEW t \in Task, task_add(a, t)
    PROVE  TaskqInv'
<1> USE DEF TaskqInv, task_add, tqVars, kindVars, Go, Home, MayCall
<1>1. \A b \in Actor : pc'[b] = IF b = a /\ t \notin onqueue THEN "add" ELSE pc[b]
  BY DEF TypeOK
<1>2. \A b \in Actor : arg'[b] = IF b = a /\ t \notin onqueue THEN t ELSE arg[b]
  BY DEF TypeOK
<1>3. TypeOK'
  BY <1>1, <1>2 DEF TypeOK, Where, Actor
<1>4. Exact'
  BY <1>1, <1>2 DEF Exact, Counted, Actor
<1>5. OnQueue'
  BY <1>1, <1>2 DEF OnQueue
<1>6. Hands'
  BY <1>1, <1>2 DEF Hands, Actor
<1>7. NoBoredThread'
  BY <1>1, <1>2 DEF NoBoredThread, Bored, Actor
<1>8. NoLostTask'
  BY <1>1, <1>2 DEF NoLostTask, OnQueue, Actor
<1>9. Kind'
  BY <1>1, <1>2 DEF Kind
<1>10. Life'
  BY <1>1, <1>2 DEF Life, Counted, Created, Actor
<1>11. Leaving'
  BY <1>1, <1>2 DEF Leaving, Actor
<1>12. LeftWork'
  BY <1>1, <1>2 DEF LeftWork, Counted, Actor
<1> QED
  BY <1>3, <1>4, <1>5, <1>6, <1>7, <1>8, <1>9, <1>10, <1>11, <1>12

\* task_del() before the mutex.
LEMMA TaskDelStep ==
    ASSUME TaskqInv, NEW a \in Actor, NEW t \in Task, task_del(a, t)
    PROVE  TaskqInv'
<1> USE DEF TaskqInv, task_del, tqVars, kindVars, Go, Home, MayCall
<1>1. \A b \in Actor : pc'[b] = IF b = a THEN "del" ELSE pc[b]
  BY DEF TypeOK
<1>2. \A b \in Actor : arg'[b] = IF b = a THEN t ELSE arg[b]
  BY DEF TypeOK
<1>3. TypeOK'
  BY <1>1, <1>2 DEF TypeOK, Where, Actor
<1>4. Exact'
  BY <1>1, <1>2 DEF Exact, Counted, Actor
<1>5. OnQueue'
  BY <1>1, <1>2 DEF OnQueue
<1>6. Hands'
  BY <1>1, <1>2 DEF Hands, Actor
<1>7. NoBoredThread'
  BY <1>1, <1>2 DEF NoBoredThread, Bored, Actor
<1>8. NoLostTask'
  BY <1>1, <1>2 DEF NoLostTask, OnQueue, Actor
<1>9. Kind'
  BY <1>1, <1>2 DEF Kind
<1>10. Life'
  BY <1>1, <1>2 DEF Life, Counted, Created, Actor
<1>11. Leaving'
  BY <1>1, <1>2 DEF Leaving, Actor
<1>12. LeftWork'
  BY <1>1, <1>2 DEF LeftWork, Counted, Actor
<1> QED
  BY <1>3, <1>4, <1>5, <1>6, <1>7, <1>8, <1>9, <1>10, <1>11, <1>12

\* The function of a task starts.
LEMMA CallTaskStep ==
    ASSUME TaskqInv, NEW a \in Thread, CallTask(a)
    PROVE  TaskqInv'
<1> USE DEF TaskqInv, CallTask, tqVars, kindVars, Go
<1>1. \A b \in Actor : pc'[b] = IF b = a THEN "running" ELSE pc[b]
  BY DEF TypeOK, Actor
<1>2. TypeOK'
  BY <1>1 DEF TypeOK, Where, Actor
<1>3. Exact'
  BY <1>1 DEF Exact, Counted, Actor
<1>4. OnQueue'
  BY <1>1 DEF OnQueue
<1>5. Hands'
  BY <1>1 DEF Hands, Actor
<1>6. NoBoredThread'
  BY <1>1 DEF NoBoredThread, Bored, Actor
<1>7. NoLostTask'
  BY <1>1 DEF NoLostTask, OnQueue, Actor
<1>8. Kind'
  BY <1>1 DEF Kind
<1>9. Life'
  BY <1>1 DEF Life, Counted, Created, Actor
<1>10. Leaving'
  BY <1>1 DEF Leaving, Actor
<1>11. LeftWork'
  BY <1>1 DEF LeftWork, Counted, Actor
<1> QED
  BY <1>2, <1>3, <1>4, <1>5, <1>6, <1>7, <1>8, <1>9, <1>10, <1>11

\* The function of a task returns.
LEMMA TaskReturnsStep ==
    ASSUME TaskqInv, NEW a \in Thread, TaskReturns(a)
    PROVE  TaskqInv'
<1> USE DEF TaskqInv, TaskReturns, tqVars, kindVars, Go
<1>1. \A b \in Actor : pc'[b] = IF b = a THEN "next" ELSE pc[b]
  BY DEF TypeOK, Actor
<1>2. \A b \in Thread : b # a => work'[b] = work[b]
  BY DEF TypeOK
<1>3. TypeOK'
  BY <1>1, <1>2 DEF TypeOK, Where, Actor
<1>4. Exact'
  BY <1>1, <1>2 DEF Exact, Counted, Actor
<1>5. OnQueue'
  BY <1>1, <1>2 DEF OnQueue
<1>6. Hands'
  BY <1>1, <1>2 DEF Hands, Actor
<1>7. NoBoredThread'
  BY <1>1, <1>2 DEF NoBoredThread, Bored, Actor
<1>8. NoLostTask'
  BY <1>1, <1>2 DEF NoLostTask, OnQueue, Actor
<1>9. Kind'
  BY <1>1, <1>2 DEF Kind
<1>10. Life'
  BY <1>1, <1>2 DEF Life, Counted, Created, Actor
<1>11. Leaving'
  BY <1>1, <1>2 DEF Leaving, Actor
<1>12. LeftWork'
  BY <1>1, <1>2 DEF LeftWork, Counted, Actor
<1> QED
  BY <1>3, <1>4, <1>5, <1>6, <1>7, <1>8, <1>9, <1>10, <1>11, <1>12

\* task_add() wakes a thread up.
LEMMA AddWakeupStep ==
    ASSUME TaskqInv, NEW a \in Actor, AddWakeup(a)
    PROVE  TaskqInv'
<1> USE DEF TaskqInv, AddWakeup, tqVars, kindVars, Home
<1>1. WakeupOne(a, Home(a)) /\ a \notin Bored /\ a \in Actor /\ Home(a) \in Where
  BY DEF AddWakeup, Bored, Actor, Where
<1>2. /\ pc' \in [Actor -> Where] /\ pc'[a] = Home(a)
      /\ \A b \in Actor : b # a => pc'[b] = pc[b] \/ (b \in Bored /\ pc'[b] = "next")
      /\ Bored # {} => \E w \in Thread : pc'[w] = "next"
  BY <1>1, WakeupOneEffect
<1>3. Thread \cap Caller = {}
  BY TaskqAssumption
<1>4. TypeOK'
  BY <1>1, <1>2, <1>3 DEF TypeOK, Where, Actor
<1>5. Exact'
  BY <1>1, <1>2, <1>3 DEF Exact, Counted, Actor, AddWakeup, Bored
<1>6. OnQueue'
  BY <1>1, <1>2, <1>3 DEF OnQueue
<1>7. Hands'
  BY <1>1, <1>2, <1>3 DEF Hands, Actor, AddWakeup, Bored
<1>8. NoBoredThread'
  BY <1>1, <1>2, <1>3 DEF NoBoredThread, Bored, Actor
<1>9. NoLostTask'
  BY <1>1, <1>2, <1>3 DEF NoLostTask, OnQueue, Actor, AddWakeup, Bored
<1>10. Kind'
  BY <1>1, <1>2, <1>3 DEF Kind
<1>11. Life'
  BY <1>1, <1>2, <1>3 DEF Life, Counted, Created, Actor, AddWakeup, Bored
<1>12. Leaving'
  BY <1>1, <1>2, <1>3 DEF Leaving, Actor, AddWakeup, Bored
<1>13. LeftWork'
  BY <1>1, <1>2, <1>3 DEF LeftWork, Counted, Actor, AddWakeup, Bored
<1> QED
  BY <1>4, <1>5, <1>6, <1>7, <1>8, <1>9, <1>10, <1>11, <1>12, <1>13

\* A thread that leaves work on the list wakes another one up.
LEMMA WakeupNextStep ==
    ASSUME TaskqInv, NEW a \in Thread, WakeupNext(a)
    PROVE  TaskqInv'
<1> USE DEF TaskqInv, WakeupNext, tqVars, kindVars
<1>1. WakeupOne(a, "call") /\ a \notin Bored /\ a \in Actor /\ "call" \in Where
  BY DEF WakeupNext, Bored, Actor, Where
<1>2. /\ pc' \in [Actor -> Where] /\ pc'[a] = "call"
      /\ \A b \in Actor : b # a => pc'[b] = pc[b] \/ (b \in Bored /\ pc'[b] = "next")
      /\ Bored # {} => \E w \in Thread : pc'[w] = "next"
  BY <1>1, WakeupOneEffect
<1>3. TypeOK'
  BY <1>1, <1>2 DEF TypeOK, Where, Actor
<1>4. Exact'
  BY <1>1, <1>2 DEF Exact, Counted, Actor, WakeupNext, Bored
<1>5. OnQueue'
  BY <1>1, <1>2 DEF OnQueue
<1>6. Hands'
  BY <1>1, <1>2 DEF Hands, Actor, WakeupNext, Bored
<1>7. NoBoredThread'
  BY <1>1, <1>2 DEF NoBoredThread, Bored, Actor
<1>8. NoLostTask'
  BY <1>1, <1>2 DEF NoLostTask, OnQueue, Actor, WakeupNext, Bored
<1>9. Kind'
  BY <1>1, <1>2 DEF Kind
<1>10. Life'
  BY <1>1, <1>2 DEF Life, Counted, Created, Actor, WakeupNext, Bored
<1>11. Leaving'
  BY <1>1, <1>2 DEF Leaving, Actor, WakeupNext, Bored
<1>12. LeftWork'
  BY <1>1, <1>2 DEF LeftWork, Counted, Actor, WakeupNext, Bored
<1> QED
  BY <1>3, <1>4, <1>5, <1>6, <1>7, <1>8, <1>9, <1>10, <1>11, <1>12

\* The load of tq_flags.
LEMMA ExitFlagsStep ==
    ASSUME TaskqInv, NEW a \in Thread, ExitFlags(a)
    PROVE  TaskqInv'
<1> USE DEF TaskqInv, ExitFlags, tqVars, kindVars, Go
<1>1. \A b \in Actor : pc'[b] = IF b = a THEN IF pc[a] = "flags" THEN "none" ELSE "last" ELSE pc[b]
  BY DEF TypeOK, Actor
<1>2. TypeOK'
  BY <1>1 DEF TypeOK, Where, Actor
<1>3. Exact'
  BY <1>1 DEF Exact, Counted, Actor
<1>4. OnQueue'
  BY <1>1 DEF OnQueue
<1>5. Hands'
  BY <1>1 DEF Hands, Actor
<1>6. NoBoredThread'
  BY <1>1 DEF NoBoredThread, Bored, Actor
<1>7. NoLostTask'
  BY <1>1 DEF NoLostTask, OnQueue, Actor
<1>8. Kind'
  BY <1>1 DEF Kind
<1>9. Life'
  BY <1>1 DEF Life, Counted, Created, Actor
<1>10. Leaving'
  BY <1>1 DEF Leaving, Actor
<1>11. LeftWork'
  BY <1>1 DEF LeftWork, Counted, Actor
<1> QED
  BY <1>2, <1>3, <1>4, <1>5, <1>6, <1>7, <1>8, <1>9, <1>10, <1>11

\* The last thread wakes taskq_destroy() up.
LEMMA ExitWakeupStep ==
    ASSUME TaskqInv, NEW a \in Thread, ExitWakeup(a)
    PROVE  TaskqInv'
<1> USE DEF TaskqInv, ExitWakeup, WakeupDestroyer, tqVars, kindVars, Go
<1>1. \A b \in Actor : pc'[b] = IF b = a THEN "none" ELSE pc[b]
  BY DEF TypeOK, Actor
<1>2. TypeOK'
  BY <1>1 DEF TypeOK, Where, Actor
<1>3. Exact'
  BY <1>1 DEF Exact, Counted, Actor
<1>4. OnQueue'
  BY <1>1 DEF OnQueue
<1>5. Hands'
  BY <1>1 DEF Hands, Actor
<1>6. NoBoredThread'
  BY <1>1 DEF NoBoredThread, Bored, Actor
<1>7. NoLostTask'
  BY <1>1 DEF NoLostTask, OnQueue, Actor
<1>8. Kind'
  BY <1>1 DEF Kind
<1>9. Life'
  BY <1>1 DEF Life, Counted, Created, Actor
<1>10. Leaving'
  BY <1>1 DEF Leaving, Actor
<1>11. LeftWork'
  BY <1>1 DEF LeftWork, Counted, Actor
<1> QED
  BY <1>2, <1>3, <1>4, <1>5, <1>6, <1>7, <1>8, <1>9, <1>10, <1>11

\* task_add() with the mutex.
LEMMA AddInsertStep ==
    ASSUME TaskqInv, NEW a \in Actor, AddInsert(a)
    PROVE  TaskqInv'
<1> USE DEF TaskqInv, AddInsert, kindVars
<1>1. arg[a] \in Task /\ tq_worklist \in Seq(Task)
  BY DEF Hands, TypeOK
<1>2. \A b \in Actor : pc'[b] = IF b # a THEN pc[b]
                                ELSE IF arg[a] \in onqueue THEN Home(a) ELSE "addwakeup"
  BY DEF TypeOK, Go
<1>3. \A b \in Actor : b # a => arg'[b] = arg[b]
  BY DEF TypeOK
<1>4. Thread \cap Caller = {}
  BY TaskqAssumption
<1>5. /\ tq_worklist' \in Seq(Task) /\ IsInjective(tq_worklist')
      /\ \A x \in Task : Contains(tq_worklist', x) <=> Contains(tq_worklist, x) \/ x = arg[a]
      /\ \A x \in Task : x \in onqueue' <=> x \in onqueue \/ x = arg[a]
      /\ onqueue' \subseteq Task
  <2>1. CASE arg[a] \in onqueue
    BY <1>1, <2>1 DEF OnQueue, TypeOK
  <2>2. CASE arg[a] \notin onqueue
    <3>1. ~Contains(tq_worklist, arg[a]) /\ IsInjective(tq_worklist)
      BY <1>1, <2>2 DEF OnQueue
    <3>2. tq_worklist' = Append(tq_worklist, arg[a])
      BY <2>2
    <3> QED
      BY <1>1, <2>2, <3>1, <3>2, Appended DEF TypeOK
  <2> QED
    BY <2>1, <2>2
<1>6. TypeOK'
  BY <1>1, <1>5 DEF TypeOK, Where, Actor, Go, Home
<1>7. Exact'
  BY <1>2 DEF Exact, Counted, Actor, Home
<1>8. OnQueue'
  BY <1>5 DEF OnQueue
<1>9. Hands'
  BY <1>2, <1>3 DEF Hands, Actor, Home
<1>10. NoBoredThread'
  BY <1>2, <1>4 DEF NoBoredThread, Bored, Actor, Home
<1>11. NoLostTask'
  <2> SUFFICES ASSUME NEW x \in wanted', x # arg[a]
               PROVE  \/ \E w \in Thread : pc[w] \in {"wakeup", "call"} /\ work[w] = x
                         /\ pc'[w] = pc[w]
                      \/ Contains(tq_worklist, x)
                      \/ \E b \in Actor : pc[b] = "add" /\ arg[b] = x /\ pc'[b] = pc[b]
                         /\ arg'[b] = arg[b]
    BY <1>1, <1>5 DEF NoLostTask, TypeOK
  <2> QED
    BY <1>2, <1>3 DEF NoLostTask, Actor
<1>12. Kind'
  BY DEF Kind
<1>13. Life'
  BY <1>2 DEF Life, Counted, Created, Actor, Home
<1>14. Leaving'
  BY <1>2, <1>4 DEF Leaving, Actor, Home
<1>15. LeftWork'
  <2>1. CASE a \in Thread
    BY <1>2, <2>1 DEF LeftWork, Counted, Home
  <2>2. CASE a \in Caller
    BY <2>2 DEF LeftWork, Leaving, Life
  <2> QED
    BY <2>1, <2>2 DEF Actor
<1> QED
  BY <1>6, <1>7, <1>8, <1>9, <1>10, <1>11, <1>12, <1>13, <1>14, <1>15

\* task_del() with the mutex.
LEMMA DelRemoveStep ==
    ASSUME TaskqInv, NEW a \in Actor, DelRemove(a)
    PROVE  TaskqInv'
<1> USE DEF TaskqInv, DelRemove, kindVars
<1>1. arg[a] \in Task /\ tq_worklist \in Seq(Task)
  BY DEF Hands, TypeOK
<1>2. \A b \in Actor : pc'[b] = IF b = a THEN Home(a) ELSE pc[b]
  BY DEF TypeOK, Go
<1>3. \A b \in Actor : b # a => arg'[b] = arg[b]
  BY DEF TypeOK
<1>4. Thread \cap Caller = {}
  BY TaskqAssumption
<1>5. /\ tq_worklist' \in Seq(Task) /\ IsInjective(tq_worklist')
      /\ \A x \in Task : Contains(tq_worklist', x) <=> Contains(tq_worklist, x) /\ x # arg[a]
      /\ \A x \in Task : x \in onqueue' <=> x \in onqueue /\ x # arg[a]
      /\ onqueue' \subseteq Task
  <2>1. CASE arg[a] \notin onqueue
    BY <1>1, <2>1 DEF OnQueue, TypeOK
  <2>2. CASE arg[a] \in onqueue
    <3>1. PICK i \in DOMAIN tq_worklist :
            tq_worklist[i] = arg[a] /\ tq_worklist' = RemoveAt(tq_worklist, i)
      BY <2>2
    <3> QED
      BY <1>1, <2>2, <3>1, Removed DEF TypeOK, OnQueue
  <2> QED
    BY <2>1, <2>2
<1>6. wanted' \subseteq wanted /\ (tq_worklist' # << >> => tq_worklist # << >>)
      /\ (arg[a] \in wanted' => wanted' = wanted /\ tq_worklist' = tq_worklist)
  <2>1. tq_worklist = << >> => ~\E i \in DOMAIN tq_worklist : TRUE
    OBVIOUS
  <2> QED
    BY <2>1
<1>7. TypeOK'
  BY <1>1, <1>5, <1>6 DEF TypeOK, Where, Actor, Go, Home
<1>8. Exact'
  BY <1>2 DEF Exact, Counted, Actor, Home
<1>9. OnQueue'
  BY <1>5 DEF OnQueue
<1>10. Hands'
  BY <1>2, <1>3 DEF Hands, Actor, Home
<1>11. NoBoredThread'
  BY <1>2, <1>6 DEF NoBoredThread, Bored, Actor, Home
<1>12. NoLostTask'
  <2> SUFFICES ASSUME NEW x \in wanted'
               PROVE  \/ \E w \in Thread : pc[w] \in {"wakeup", "call"} /\ work[w] = x
                         /\ pc'[w] = pc[w]
                      \/ Contains(tq_worklist', x)
                      \/ \E b \in Actor : pc[b] = "add" /\ arg[b] = x /\ pc'[b] = pc[b]
                         /\ arg'[b] = arg[b]
    BY <1>1, <1>5 DEF NoLostTask, TypeOK
  <2>1. \/ \E w \in Thread : pc[w] \in {"wakeup", "call"} /\ work[w] = x
        \/ Contains(tq_worklist, x)
        \/ \E b \in Actor : pc[b] = "add" /\ arg[b] = x
    BY <1>6 DEF NoLostTask
  <2>2. Contains(tq_worklist, x) => Contains(tq_worklist', x)
    BY <1>5, <1>6 DEF TypeOK
  <2> QED
    BY <1>2, <1>3, <2>1, <2>2 DEF Actor
<1>13. Kind'
  BY DEF Kind
<1>14. Life'
  BY <1>2 DEF Life, Counted, Created, Actor, Home
<1>15. Leaving'
  BY <1>2, <1>4 DEF Leaving, Actor, Home
<1>16. LeftWork'
  BY <1>2, <1>6 DEF LeftWork, Counted, Actor, Home
<1> QED
  BY <1>7, <1>8, <1>9, <1>10, <1>11, <1>12, <1>13, <1>14, <1>15, <1>16

\* taskq_next_work().
LEMMA NextWorkStep ==
    ASSUME TaskqInv, NEW a \in Thread, NextWork(a)
    PROVE  TaskqInv'
<1> USE DEF TaskqInv, NextWork, kindVars
<1>1. \A b \in Actor : pc'[b] = IF b # a THEN pc[b] ELSE
                IF tq_worklist = << >>
                THEN IF tq_state = "running" THEN "bored" ELSE "exit"
                ELSE IF Tail(tq_worklist) = << >> THEN "call" ELSE "wakeup"
  BY DEF TypeOK, Actor, Go
<1>2. \A b \in Thread : b # a => work'[b] = work[b]
  BY DEF TypeOK
<1>3. tq_worklist # << >> =>
        /\ Head(tq_worklist) \in Task /\ work'[a] = Head(tq_worklist)
        /\ tq_worklist' = Tail(tq_worklist)
        /\ tq_worklist' \in Seq(Task) /\ IsInjective(tq_worklist')
        /\ \A x \in Task : Contains(tq_worklist', x) <=>
                             Contains(tq_worklist, x) /\ x # Head(tq_worklist)
        /\ \A x \in Task : x \in onqueue' <=> x \in onqueue /\ x # Head(tq_worklist)
  <2> SUFFICES ASSUME tq_worklist # << >>
               PROVE  <1>3!2
    OBVIOUS
  <2>1. tq_worklist \in Seq(Task) /\ IsInjective(tq_worklist)
    BY DEF TypeOK, OnQueue
  <2>2. /\ tq_worklist' = Tail(tq_worklist)
        /\ onqueue' = onqueue \ {Head(tq_worklist)}
        /\ work'[a] = Head(tq_worklist)
    BY DEF TypeOK
  <2> QED
    BY <2>1, <2>2, Taken
<1>4. tq_worklist = << >> => UNCHANGED <<tq_worklist, onqueue, work>>
  OBVIOUS
<1>5. TypeOK'
  <2>1. pc' \in [Actor -> Where]
    BY DEF TypeOK, Where, Actor, Go
  <2>2. tq_worklist' \in Seq(Task) /\ onqueue' \subseteq Task
        /\ work' \in [Thread -> Task \cup {NoTask}]
    BY <1>3, <1>4 DEF TypeOK
  <2> QED
    BY <2>1, <2>2 DEF TypeOK
<1>6. Exact'
  BY <1>1 DEF Exact, Counted, Actor
<1>7. OnQueue'
  BY <1>3, <1>4 DEF OnQueue
<1>8. Hands'
  BY <1>1, <1>2, <1>3, <1>4, TaskqAssumption DEF Hands, Actor
<1>9. NoBoredThread'
  BY <1>1, <1>3, <1>4 DEF NoBoredThread, Bored, Actor
<1>10. NoLostTask'
  <2> SUFFICES ASSUME NEW x \in wanted'
               PROVE  \/ \E w \in Thread : pc'[w] \in {"wakeup", "call"} /\ work'[w] = x
                      \/ Contains(tq_worklist', x)
                      \/ \E b \in Actor : pc[b] = "add" /\ arg[b] = x /\ pc'[b] = pc[b]
    BY DEF NoLostTask
  <2>1. \/ \E w \in Thread : pc[w] \in {"wakeup", "call"} /\ work[w] = x
        \/ Contains(tq_worklist, x)
        \/ \E b \in Actor : pc[b] = "add" /\ arg[b] = x
    BY DEF NoLostTask
  <2>2. ASSUME Contains(tq_worklist, x)
        PROVE  \/ Contains(tq_worklist', x)
               \/ pc'[a] \in {"wakeup", "call"} /\ work'[a] = x
    <3>1. x \in Task
      BY DEF TypeOK
    <3> QED
      BY <1>1, <1>3, <1>4, <2>2, <3>1 DEF Actor
  <2> QED
    BY <1>1, <1>2, <2>1, <2>2 DEF Actor
<1>11. Kind'
  BY DEF Kind
<1>12. Life'
  BY <1>1 DEF Life, Counted, Created, Actor
<1>13. Leaving'
  <2>1. tq_state \in {"running", "destroyed"}
    BY DEF Life, TypeOK
  <2> QED
    BY <1>1, <2>1, TaskqAssumption DEF Leaving, Actor
<1>14. LeftWork'
  BY <1>1, <1>3, <1>4 DEF LeftWork, Counted, Actor
<1> QED
  BY <1>5, <1>6, <1>7, <1>8, <1>9, <1>10, <1>11, <1>12, <1>13, <1>14

\* A thread that has found no work ends.
LEMMA ExitThreadStep ==
    ASSUME TaskqInv, NEW a \in Thread, ExitThread(a)
    PROVE  TaskqInv'
<1> USE DEF TaskqInv, ExitThread, kindVars
<1>1. \A b \in Actor : pc'[b] = IF b # a THEN pc[b] ELSE
                IF tq_running = 1 THEN IF MPSAFE THEN "lastflags" ELSE "last"
                ELSE IF MPSAFE THEN "flags" ELSE "none"
  BY DEF TypeOK, Actor, Go
<1>2. a \in Counted /\ Counted' = Counted \ {a}
  BY <1>1 DEF Counted, Actor
<1>3. /\ Cardinality(Counted) \in Nat \ {0} /\ Cardinality(Counted') = Cardinality(Counted) - 1
  BY <1>2, CountedFinite, FS_RemoveElement, FS_EmptySet
<1>4. tq_running \in Nat \ {0} /\ tq_running' = tq_running - 1 /\ tq_nthreads \in Nat
  BY <1>3 DEF Exact, TypeOK
<1>5. TypeOK'
  BY <1>4 DEF TypeOK, Where, Actor, Go
<1>6. Exact'
  BY <1>3, <1>4 DEF Exact
<1>7. OnQueue'
  BY DEF OnQueue
<1>8. Hands'
  BY <1>1 DEF Hands, Actor
<1>9. NoBoredThread'
  BY <1>1 DEF NoBoredThread, Bored, Actor
<1>10. NoLostTask'
  BY <1>1 DEF NoLostTask, Actor
<1>11. Kind'
  BY <1>4 DEF Kind
<1>12. Life'
  <2>1. tq_state = "destroyed"
    BY DEF Leaving
  <2> QED
    BY <1>1, <2>1 DEF Life, Created, Actor
<1>13. Leaving'
  <2>1. \A w \in Thread : pc[w] \notin {"lastflags", "last"}
    BY <1>4 DEF Leaving
  <2>2. destroyer # "wait" /\ tq_state = "destroyed"
    BY <1>4 DEF Leaving
  <2>3. tq_running # 1 => tq_nthreads > 1
    BY <1>4 DEF Kind
  <2>4. tq_running = 1 => tq_running' = 0
    BY <1>4
  <2> QED
    BY <1>1, <2>1, <2>2, <2>3, <2>4, TaskqAssumption DEF Leaving, Actor
<1>14. LeftWork'
  BY <1>1 DEF LeftWork, Counted, Actor
<1> QED
  BY <1>5, <1>6, <1>7, <1>8, <1>9, <1>10, <1>11, <1>12, <1>13, <1>14

\* taskq_create().
LEMMA TaskqCreateStep ==
    ASSUME TaskqInv, taskq_create
    PROVE  TaskqInv'
<1> USE DEF TaskqInv, taskq_create
<1>1. Counted' = {} /\ Cardinality(Counted') = 0
  BY FS_EmptySet DEF Counted
<1>2. tq_nthreads' \in Nat \ {0} /\ MPSAFE' \in BOOLEAN /\ deferred' \in BOOLEAN
      /\ (MPSAFE' => \E k \in Kinds : k.mpsafe /\ k.n = tq_nthreads')
  <2>1. PICK k \in Kinds : /\ tq_nthreads' = k.n /\ MPSAFE' = k.mpsafe
                           /\ deferred' \in {FALSE, k.early}
    OBVIOUS
  <2>2. k.n \in Nat \ {0} /\ k.mpsafe \in BOOLEAN /\ k.early \in BOOLEAN
    <3>1. Cardinality(Thread) \in Nat
      BY FS_CardinalityType, TaskqAssumption
    <3> QED
      BY <3>1, TaskqAssumption
  <2> QED
    BY <2>1, <2>2
<1>3. << >> \in Seq(Task) /\ DOMAIN << >> = {} /\ \A x \in Task : ~Contains(<< >>, x)
  BY EmptySeq DEF Contains
<1>4. TypeOK'
  BY <1>2, <1>3 DEF TypeOK
<1>5. Exact'
  BY <1>1 DEF Exact
<1>6. OnQueue'
  BY <1>3 DEF OnQueue, IsInjective
<1>7. Hands'
  BY DEF Hands
<1>8. NoBoredThread' /\ NoLostTask' /\ LeftWork'
  BY DEF NoBoredThread, NoLostTask, LeftWork
<1>9. Kind'
  BY <1>2 DEF Kind
<1>10. Life'
  BY DEF Life, Created
<1>11. Leaving'
  BY DEF Leaving
<1> QED
  BY <1>4, <1>5, <1>6, <1>7, <1>8, <1>9, <1>10, <1>11

\* taskq_create_thread() starts, or finds that the queue is destroyed.
LEMMA CreateStartStep ==
    ASSUME TaskqInv, CreateStart
    PROVE  TaskqInv'
<1> USE DEF TaskqInv, CreateStart, kindVars
<1>1. Counted = {} /\ Counted' = {} /\ Cardinality(Counted) = 0
  BY FS_EmptySet DEF Counted, Life
<1>2. tq_running = 0 /\ tq_nthreads > 0 /\ tq_nthreads \in Nat
  BY <1>1 DEF Exact, Kind, TypeOK
<1>3. TypeOK'
  <2>1. tq_running' \in Nat
    BY <1>2
  <2>2. freed' \in BOOLEAN
    BY Zenon DEF TypeOK
  <2> QED
    BY <2>1, <2>2 DEF TypeOK
<1>4. Exact'
  BY <1>1, <1>2 DEF Exact
<1>5. OnQueue' /\ Hands' /\ NoBoredThread' /\ NoLostTask'
  BY DEF OnQueue, Hands, NoBoredThread, Bored, NoLostTask
<1>6. Kind'
  BY <1>2 DEF Kind
<1>7. Life'
  BY <1>1 DEF Life, Created
<1>8. Leaving'
  BY <1>2 DEF Leaving, Life
<1>9. LeftWork'
  BY DEF LeftWork, Counted, Life, Created
<1> QED
  BY <1>3, <1>4, <1>5, <1>6, <1>7, <1>8, <1>9

\* taskq_create_thread() creates a thread, or fails to.
LEMMA CreateThreadStep ==
    ASSUME TaskqInv, CreateThread
    PROVE  TaskqInv'
<1> USE DEF TaskqInv, CreateThread, kindVars
<1>0. tq_running = Cardinality(Counted) + 1 /\ Cardinality(Counted) \in Nat /\ ~freed
      /\ tq_nthreads \in Nat
  BY CountedFinite DEF Exact, Life, Created, TypeOK
<1>1. CASE creator' = "failed" /\ UNCHANGED <<pc, tq_running>>
  <2>1. Counted' = Counted
    BY <1>1 DEF Counted
  <2> QED
    BY <1>1, <2>1 DEF TypeOK, Exact, OnQueue, Hands, NoBoredThread, Bored, NoLostTask, Kind,
       Life, Created, Leaving, LeftWork
<1>2. ASSUME NEW a \in Thread, pc[a] = "none", Go(a, "next"),
             IF tq_running < tq_nthreads
             THEN tq_running' = tq_running + 1 /\ UNCHANGED creator
             ELSE creator' = "done" /\ UNCHANGED tq_running
      PROVE  TaskqInv'
  <2>1. \A b \in Actor : pc'[b] = IF b = a THEN "next" ELSE pc[b]
    BY <1>2 DEF TypeOK, Actor, Go
  <2>2. a \notin Counted /\ Counted' = Counted \cup {a}
    BY <1>2, <2>1 DEF Counted, Actor
  <2>3. Cardinality(Counted') = Cardinality(Counted) + 1
    BY <2>2, CountedFinite, FS_AddElement
  <2>4. TypeOK'
    BY <1>0, <1>2 DEF TypeOK, Where, Actor, Go
  <2>5. Exact'
    BY <1>0, <1>2, <2>3 DEF Exact
  <2>6. OnQueue'
    BY DEF OnQueue
  <2>7. Hands'
    BY <1>2, <2>1 DEF Hands, Actor
  <2>8. NoBoredThread'
    BY <1>2, <2>1 DEF NoBoredThread, Bored, Actor
  <2>9. NoLostTask'
    BY <1>2, <2>1 DEF NoLostTask, Actor
  <2>10. Kind'
    BY <1>0, <1>2 DEF Kind
  <2>11. Life'
    BY <1>0, <1>2, <2>2 DEF Life, Created
  <2>12. Leaving'
    <3>1. destroyer # "wait" /\ \A w \in Thread : pc[w] \notin {"lastflags", "last"}
      BY <1>0 DEF Leaving
    <3> QED
      BY <1>2, <2>1, <3>1, TaskqAssumption DEF Leaving, Actor
  <2>13. LeftWork'
    BY <1>2, <2>1 DEF LeftWork, Counted, Actor
  <2> QED
    BY <2>4, <2>5, <2>6, <2>7, <2>8, <2>9, <2>10, <2>11, <2>12, <2>13
<1> QED
  BY <1>1, <1>2

\* taskq_create_thread() gives up.
LEMMA CreateFailedStep ==
    ASSUME TaskqInv, CreateFailed
    PROVE  TaskqInv'
<1> USE DEF TaskqInv, CreateFailed, kindVars
<1>1. tq_running = Cardinality(Counted) + 1 /\ Cardinality(Counted) \in Nat
  BY CountedFinite DEF Exact
<1>2. Counted' = Counted /\ (Counted # {} => tq_running # 1) /\ (tq_running # 1 => Counted # {})
  BY <1>1, CountedFinite, FS_EmptySet DEF Counted
<1>3. tq_running' \in Nat /\ tq_running' = Cardinality(Counted)
  BY <1>1
<1>4. TypeOK'
  BY <1>3 DEF TypeOK, WakeupDestroyer
<1>5. Exact'
  BY <1>2, <1>3 DEF Exact
<1>6. OnQueue' /\ Hands' /\ NoBoredThread' /\ NoLostTask'
  BY DEF OnQueue, Hands, NoBoredThread, Bored, NoLostTask
<1>7. Kind'
  BY <1>1 DEF Kind, TypeOK
<1>8. Life'
  BY <1>1, <1>2 DEF Life, Created, WakeupDestroyer
<1>9. Leaving'
  <2>1. destroyer # "wait" /\ \A w \in Thread : pc[w] \notin {"lastflags", "last"}
    BY <1>1 DEF Leaving
  <2>2. destroyer' = "wait" => tq_running' = 0
    BY <1>1, <1>3, <2>1 DEF WakeupDestroyer
  <2>3. destroyer' # "none" => destroyer # "none"
    BY DEF WakeupDestroyer
  <2> QED
    BY <2>1, <2>2, <2>3 DEF Leaving
<1>10. LeftWork'
  BY <1>2 DEF LeftWork, Life, Created
<1> QED
  BY <1>4, <1>5, <1>6, <1>7, <1>8, <1>9, <1>10

\* taskq_destroy(), up to its first sleep and between two of them.
LEMMA DestroyStep ==
    ASSUME TaskqInv, taskq_destroy \/ DestroyLoop
    PROVE  TaskqInv'
<1> USE DEF TaskqInv, kindVars
<1>1. /\ ~freed /\ tq_state' = "destroyed"
      /\ UNCHANGED <<tq_running, tq_worklist, onqueue, kindVars, creator, work, arg, wanted>>
      /\ \A b \in Caller : pc[b] = "idle"
      /\ destroyer' \in {"asleep", "returned"}
  BY DEF taskq_destroy, DestroyLoop, DestroyRound, Leaving, Life
<1>2. \A b \in Actor : pc'[b] = pc[b] \/ (b \in Bored /\ pc'[b] = "next")
  BY DEF taskq_destroy, DestroyLoop, DestroyRound
<1>3. pc' \in [Actor -> Where]
  BY DEF taskq_destroy, DestroyLoop, DestroyRound, TypeOK, Where
<1>4. Counted' = Counted
  BY <1>2 DEF Counted, Bored, Actor
<1>5. \/ freed' = FALSE /\ destroyer' = "asleep" /\ tq_running > 0
      \/ freed' = TRUE /\ destroyer' = "returned" /\ tq_running = 0 /\ creator # "start"
      \/ freed' = FALSE /\ destroyer' = "returned" /\ creator = "start" /\ tq_state = "created"
  BY DEF taskq_destroy, DestroyLoop, DestroyRound, Life, TypeOK
<1>6. TypeOK'
  BY <1>1, <1>3, <1>5 DEF TypeOK
<1>7. Exact'
  BY <1>1, <1>4 DEF Exact
<1>8. OnQueue'
  BY <1>1 DEF OnQueue
<1>9. Hands'
  BY <1>1, <1>2 DEF Hands, Actor
<1>10. NoBoredThread'
  BY <1>1, <1>2 DEF NoBoredThread, Bored, Actor
<1>11. NoLostTask'
  BY <1>1, <1>2 DEF NoLostTask, Bored, Actor
<1>12. Kind'
  BY <1>1, <1>5 DEF Kind
<1>13. tq_running = 0 => Counted = {} /\ creator \notin {"create", "failed"}
  BY CountedFinite, FS_EmptySet DEF Exact
<1>14. ~Created => deferred
  BY DEF taskq_destroy, DestroyLoop, Known, Life
<1>15. Life'
  <2>1. freed' => creator \in {"done", "orphan"} /\ Counted' = {}
    BY <1>4, <1>5, <1>13 DEF TypeOK
  <2>2. creator = "start" => /\ ~freed' /\ destroyer' = "returned"
                             /\ \A w \in Thread : pc'[w] = "none"
    <3>1. creator = "start" => tq_running = 0
      BY FS_EmptySet DEF Life, Counted, Exact
    <3>2. creator = "start" => \A w \in Thread : pc[w] = "none"
      BY DEF Life
    <3> QED
      BY <1>2, <1>5, <3>1, <3>2 DEF Bored, Actor
  <2>3. freed' \in BOOLEAN /\ (destroyer' = "returned" => freed' \/ creator = "start")
        /\ destroyer' # "none"
    BY <1>5
  <2> QED
    BY <1>1, <1>4, <1>5, <1>14, <2>1, <2>2, <2>3 DEF Life, Created
<1>16. Leaving'
  <2>1. freed' => destroyer = "wait" \/ tq_state = "running"
    BY DEF taskq_destroy, DestroyLoop, DestroyRound, Life, TypeOK
  <2>2. freed' => \A w \in Thread : pc[w] # "lastflags"
    BY <2>1 DEF Leaving
  <2> QED
    BY <1>1, <1>2, <1>5, <2>2, TaskqAssumption DEF Leaving, Bored, Actor
<1>17. LeftWork'
  <2>1. CASE tq_state = "destroyed"
    BY <1>1, <1>2, <1>4, <2>1 DEF LeftWork, Counted, Bored, Actor
  <2>2. CASE tq_state = "created"
    BY <1>1, <1>14, <2>2 DEF LeftWork, Life, Created
  <2>3. CASE tq_state = "running"
    <3>1. creator = "done" => \E w \in Counted : pc[w] # "exit"
      BY <2>3 DEF Life, Leaving, Counted
    <3> QED
      BY <1>1, <1>2, <1>4, <1>14, <2>3, <3>1 DEF LeftWork, Life, Created, TypeOK, Counted,
         Bored, Actor
  <2> QED
    BY <2>1, <2>2, <2>3 DEF TypeOK
<1> QED
  BY <1>6, <1>7, <1>8, <1>9, <1>10, <1>11, <1>12, <1>15, <1>16, <1>17

-----------------------------------------------------------------------------
\* The invariant holds initially.
LEMMA InitTaskqInv == Init => TaskqInv
<1> SUFFICES ASSUME Init PROVE TaskqInv
  OBVIOUS
<1>1. Counted = {} /\ Cardinality(Counted) = 0
  BY FS_EmptySet DEF Counted, Init, Actor
<1>2. << >> \in Seq(Task) /\ DOMAIN << >> = {} /\ \A x \in Task : ~Contains(<< >>, x)
  BY EmptySeq DEF Contains
<1>3. TypeOK
  BY <1>2 DEF TypeOK, Init, Where, Actor
<1>4. Exact
  BY <1>1 DEF Exact, Init
<1>5. OnQueue
  BY <1>2 DEF OnQueue, IsInjective, Init
<1>6. Hands /\ NoBoredThread /\ NoLostTask /\ LeftWork /\ Kind
  BY DEF Hands, NoBoredThread, NoLostTask, LeftWork, Kind, Init, Actor
<1>7. Life
  BY <1>1 DEF Life, Created, Init
<1>8. Leaving
  BY TaskqAssumption DEF Leaving, Init, Actor
<1> QED
  BY <1>3, <1>4, <1>5, <1>6, <1>7, <1>8 DEF TaskqInv

\* Every step preserves it.
LEMMA NextTaskqInv == TaskqInv /\ [Next]_vars => TaskqInv'
<1> SUFFICES ASSUME TaskqInv, [Next]_vars PROVE TaskqInv'
  OBVIOUS
<1>1. CASE UNCHANGED vars
  BY <1>1 DEF vars, tqVars, kindVars, TaskqInv, TypeOK, Exact, OnQueue, Hands, NoBoredThread,
     Bored, NoLostTask, Kind, Life, Created, Leaving, LeftWork, Counted
<1>2. CASE taskq_create \/ Creating \/ taskq_destroy \/ DestroyLoop
  BY <1>2, TaskqCreateStep, CreateStartStep, CreateThreadStep, CreateFailedStep, DestroyStep
     DEF Creating
<1>3. ASSUME NEW w \in Thread, Working(w) PROVE TaskqInv'
  BY <1>3, NextWorkStep, WakeupNextStep, CallTaskStep, TaskReturnsStep, ExitThreadStep,
     ExitFlagsStep, ExitWakeupStep DEF Working
<1>4. ASSUME NEW a \in Actor, InCall(a) PROVE TaskqInv'
  BY <1>4, AddInsertStep, AddWakeupStep, DelRemoveStep DEF InCall
<1>5. ASSUME NEW a \in Actor, NEW t \in Task, task_add(a, t) \/ task_del(a, t)
      PROVE  TaskqInv'
  BY <1>5, TaskAddStep, TaskDelStep
<1> QED
  BY <1>1, <1>2, <1>3, <1>4, <1>5 DEF Next

\* TaskqInv is an invariant, for all values of the constants.
THEOREM TaskqInvariance == Spec => []TaskqInv
  BY InitTaskqInv, NextTaskqInv, PTL DEF Spec

\* Every variable keeps its type; in particular tq_running is never decremented
\* below 0.
THEOREM TypeCorrect == Spec => []TypeOK
<1>1. TaskqInv => TypeOK
  BY DEF TaskqInv
<1> QED
  BY <1>1, TaskqInvariance, PTL

\* tq_running counts the threads that will still look at the worklist and the
\* one that is being created, however many threads the queue is to have.
THEOREM CountsAreRight == Spec => []RunningCounts
<1>1. TaskqInv => RunningCounts
  BY DEF TaskqInv, RunningCounts, Exact
<1> QED
  BY <1>1, TaskqInvariance, PTL

\* No thread sleeps in taskq_next_work() while there is work that nobody is on
\* the way to: any number of threads and tasks.
THEOREM WakeupsSuffice == Spec => []NoBoredThread
<1>1. TaskqInv => NoBoredThread
  BY DEF TaskqInv
<1> QED
  BY <1>1, TaskqInvariance, PTL

\* No task_add() is lost, although it looks at TASK_ONQUEUE without the mutex.
THEOREM TasksAreKept == Spec => []NoLostTask
<1>1. TaskqInv => NoLostTask
  BY DEF TaskqInv
<1> QED
  BY <1>1, TaskqInvariance, PTL

\* taskq_destroy() returns when the tasks are done, and frees the queue when
\* nobody uses it, if the queues whose threads run without the kernel lock
\* have one thread, as all the queues of this kernel do.  With several, one
\* that ends may still load tq_flags when the last one has ended.
THEOREM DestructionSafe ==
    ASSUME \A k \in Kinds : k.mpsafe => k.n = 1
    PROVE  Spec => []DestroySafe
<1>1. ASSUME TaskqInv PROVE DestroySafe
  <2> USE <1>1 DEF TaskqInv
  <2>1. DestroyCompletes
    BY DEF DestroyCompletes, Life, Created, LeftWork, Counted, TypeOK
  <2>2. ASSUME freed PROVE Unused
    <3>1. Created /\ Counted = {} /\ destroyer = "returned"
      BY <2>2 DEF Life
    <3>2. \A a \in Caller : pc[a] = "idle"
      BY <3>1 DEF Leaving
    <3>3. \A w \in Thread : pc[w] \notin {"flags", "lastflags"}
      BY <2>2 DEF Leaving, Kind, TypeOK
    <3> QED
      BY <3>1, <3>2, <3>3 DEF Unused, Counted
  <2> QED
    BY <2>1, <2>2 DEF DestroySafe, NoUseAfterFree
<1> QED
  BY <1>1, TaskqInvariance, PTL
=============================================================================
