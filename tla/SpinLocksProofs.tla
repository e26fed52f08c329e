-------------------------- MODULE SpinLocksProofs ---------------------------
(***************************************************************************)
(* Proofs about SpinLocks: for any number of processors, any interrupt      *)
(* levels and any level of the mutex, MutexInv is an invariant.  It gives   *)
(* mutual exclusion, the KASSERTs of kern_mutex.c, the restoring of the     *)
(* interrupt priority level and, for a mutex that blocks interrupts at all, *)
(* the order of the mutex and the __mp_lock.                                *)
(*                                                                         *)
(* MpInv is an invariant for any number of processors up to the range of    *)
(* the tickets, any interrupt levels and any nesting.  The tickets in use   *)
(* are an interval around the end of the range, as long as there are        *)
(* processors at the lock: a processor that comes takes the ticket behind   *)
(* it, the one that is served leaves it at the front.  The depth is a sum   *)
(* over the contexts, of which a step changes one summand.                  *)
(***************************************************************************)
EXTENDS SpinLocks, DataTheorems

\* What an update of one context does to a function of contexts.
LEMMA PairUpdate ==
    ASSUME NEW A, NEW B, NEW D, NEW f \in [A -> [B -> D]], NEW a \in A, NEW b \in B,
           NEW w, NEW g, g = [f EXCEPT ![a][b] = w]
    PROVE  \A x \in A, y \in B :
              g[x][y] = IF x = a /\ y = b THEN w ELSE f[x][y]
  OBVIOUS

\* __MUTEX_IPL lowers no level, and blocks all that take the __mp_lock.
LEMMA WantIpl ==
    /\ mtx_wantipl \in Nat
    /\ \A l \in MtxLevel : l <= mtx_wantipl
    /\ mtx_wantipl = 0 => ipl = 0
    /\ ipl # 0 => IPL_TTY <= mtx_wantipl
  BY SpinLocksAssumption, MutexAssumption DEF mtx_wantipl, MUTEX_IPL, Level,
       IPL_NONE

\* Levels are natural numbers.
LEMMA LevelNat == Level \subseteq Nat
  BY SpinLocksAssumption DEF Level

\* Steps that have to do with the __mp_lock only.
Quiet ==
    /\ UNCHANGED <<mtxVars, cpl, base, s, t>>
    /\ \E c \in Cpu, l \in Level, w \in {"run", "mp", "acquire", "handover"} :
        /\ pc[c][l] \in {"run", "mp", "acquire", "handover"}
        /\ pc' = [pc EXCEPT ![c][l] = w]
        /\ w = "mp" => l = 0 \/ l \in MpLevel

\* They preserve the invariant of the mutex.
LEMMA QuietStep == MutexInv /\ Quiet => MutexInv'
<1> SUFFICES ASSUME MutexInv, Quiet PROVE MutexInv'
  OBVIOUS
<1> USE LevelNat, WantIpl, SpinLocksAssumption DEF IPL_NONE
<1>1. PICK c \in Cpu, l \in Level, w \in {"run", "mp", "acquire", "handover"} :
        /\ pc[c][l] \in {"run", "mp", "acquire", "handover"}
        /\ pc' = [pc EXCEPT ![c][l] = w]
        /\ w = "mp" => l = 0 \/ l \in MpLevel
  BY DEF Quiet
<1>2. pc' \in PerContext(Where)
  BY <1>1 DEF MutexInv, MutexTypes, Where, PerContext
<1>3. \A a \in Cpu, b \in Level :
        pc'[a][b] = IF a = c /\ b = l THEN w ELSE pc[a][b]
  BY <1>1, PairUpdate DEF MutexInv, MutexTypes, PerContext
<1>4. UNCHANGED <<mtx_owner, mtx_oldipl, mtx_ticket, mtx_cur, cpl, base, s, t>>
  BY DEF Quiet, mtxVars
<1>5. ASSUME NEW a \in Cpu, NEW b \in Level
      PROVE  /\ InMutex(a, b)' <=> InMutex(a, b)
             /\ InCode(a, b)' <=> InCode(a, b)
             /\ pc'[a][b] = "off" <=> pc[a][b] = "off"
             /\ pc'[a][b] = "spin" <=> pc[a][b] = "spin"
             /\ pc'[a][b] = "cas" <=> pc[a][b] = "cas"
             /\ pc'[a][b] = "held" <=> pc[a][b] = "held"
  <2>1. CASE a = c /\ b = l
    BY <2>1, <1>1, <1>3 DEF InMutex, InCode
  <2>2. CASE ~(a = c /\ b = l)
    BY <2>2, <1>3 DEF InMutex, InCode
  <2> QED
    BY <2>1, <2>2
<1>6. MutexTypes'
  BY <1>2, <1>4 DEF MutexInv, MutexTypes
<1>7. Tickets' /\ MutexExclusive' /\ Owner'
  BY <1>4, <1>5 DEF MutexInv, Tickets, MutexExclusive, Owner
<1>8. Rules'
  BY <1>1, <1>3, <1>4, <1>5 DEF MutexInv, Rules
<1>9. Stacked'
  BY <1>4, <1>5 DEF MutexInv, Stacked, Runs, RunLevel
<1> QED
  BY <1>6, <1>7, <1>8, <1>9 DEF MutexInv

\* When the running context of a processor moves on and the processor runs at
\* the level that belongs to its new place, the stack is still in order.
LEMMA StackedStep ==
    ASSUME MutexInv, NEW c \in Cpu, NEW l \in Level, Runs(c, l), MutexTypes',
           UNCHANGED base,
           \A a \in Cpu, b \in Level : ~(a = c /\ b = l) => pc'[a][b] = pc[a][b],
           pc'[c][l] # "off", InCode(c, l)' => l \in MtxLevel,
           \A a \in Cpu : a # c => cpl'[a] = cpl[a],
           cpl'[c] = RunLevel(c, l)'
    PROVE  Stacked'
<1> USE LevelNat, WantIpl
<1> SUFFICES ASSUME NEW a \in Cpu, NEW b \in Level
             PROVE  /\ pc'[a][b] # "off" => cpl'[a] >= RunLevel(a, b)'
                    /\ Runs(a, b)' => cpl'[a] = RunLevel(a, b)'
                    /\ \A k \in Level :
                        k > b /\ pc'[a][b] # "off" /\ pc'[a][k] # "off" =>
                            /\ base[a][k] >= RunLevel(a, b)'
                            /\ base[a][k] < k
                            /\ (\A j \in Level : b < j /\ j < k => pc'[a][j] = "off")
                                   => base[a][k] = RunLevel(a, b)'
  BY DEF Stacked
<1>1. CASE a # c
  <2>1. \A k \in Level : pc'[a][k] = pc[a][k]
    BY <1>1
  <2> QED
    BY <1>1, <2>1 DEF MutexInv, Stacked, Runs, RunLevel, InCode
<1>2. CASE a = c
  <2>1. \A k \in Level : k > l => pc'[c][k] = "off"
    BY DEF Runs
  <2>2. CASE b = l
    BY <1>2, <2>1, <2>2 DEF MutexInv, MutexTypes, PerContext, RunLevel
  <2>3. CASE b > l
    BY <1>2, <2>1, <2>3 DEF Runs
  <2>4. CASE b < l
    <3>1. pc[c][l] # "off"
      BY DEF Runs
    <3>2. RunLevel(c, b)' = RunLevel(c, b) /\ pc'[c][b] = pc[c][b]
      BY <2>4 DEF RunLevel, InCode
    <3>3. pc[c][b] # "off" => base[c][l] >= RunLevel(c, b) /\ base[c][l] < l
      BY <2>4, <3>1 DEF MutexInv, Stacked
    <3>4. l <= RunLevel(c, l)'
      BY DEF RunLevel
    <3>5. RunLevel(c, b) \in Nat /\ base[c][l] \in Nat /\ RunLevel(c, l)' \in Nat
      BY DEF RunLevel, MutexInv, MutexTypes, PerContext
    <3>6. pc'[c][b] # "off" => cpl'[c] >= RunLevel(c, b)'
      BY <3>2, <3>3, <3>4, <3>5
    <3>7. ~Runs(c, b)'
      BY <2>4 DEF Runs
    <3>8. \A k \in Level : pc'[c][k] = "off" <=> pc[c][k] = "off"
      BY <3>1
    <3>9. ASSUME NEW k \in Level, k > b, pc'[c][b] # "off", pc'[c][k] # "off"
          PROVE  /\ base[c][k] >= RunLevel(c, b)'
                 /\ base[c][k] < k
                 /\ (\A j \in Level : b < j /\ j < k => pc'[c][j] = "off")
                        => base[c][k] = RunLevel(c, b)'
      BY <3>2, <3>8, <3>9 DEF MutexInv, Stacked
    <3> QED
      BY <1>2, <3>6, <3>7, <3>9
  <2> QED
    BY <2>2, <2>3, <2>4
<1> QED
  BY <1>1, <1>2

\* mtx_enter() and mtx_enter_try() raise the level.
LEMMA MtxEnterStep ==
    ASSUME MutexInv, NEW c \in Cpu, NEW l \in Level, MtxEnter(c, l)
    PROVE  MutexInv'
<1> USE LevelNat, WantIpl, SpinLocksAssumption DEF IPL_NONE
<1>1. PICK w \in {"enter", "try"} : pc' = [pc EXCEPT ![c][l] = w]
  BY DEF MtxEnter, Go
<1>2. \A a \in Cpu, b \in Level :
          pc'[a][b] = IF a = c /\ b = l THEN w ELSE pc[a][b]
  BY <1>1, PairUpdate DEF MutexInv, MutexTypes, PerContext
<1>3. \A a \in Cpu, b \in Level :
          s'[a][b] = IF a = c /\ b = l THEN IF mtx_wantipl = 0 THEN 0 ELSE cpl[c] ELSE s[a][b]
  BY PairUpdate DEF MtxEnter, At, Go, Raise, mtxVars, MutexInv, MutexTypes,
       PerContext
<1>4. \A a \in Cpu, b \in Level :
          t'[a][b] = t[a][b]
  BY PairUpdate DEF MtxEnter, At, Go, Raise, mtxVars, MutexInv, MutexTypes,
       PerContext
<1>5. /\ \A a \in Cpu : cpl'[a] = IF a = c THEN IF mtx_wantipl > cpl[c] THEN mtx_wantipl ELSE cpl[c] ELSE cpl[a]
      /\ UNCHANGED base
  BY DEF MtxEnter, At, Go, Raise, mtxVars, MutexInv, MutexTypes, PerContext
<1>6. MutexTypes'
  BY <1>1 DEF MtxEnter, At, Go, Raise, mtxVars, MutexInv, MutexTypes, PerContext,
       Where
<1>7. Tickets'
  <2>1. UNCHANGED <<mtx_ticket, mtx_cur>>
    BY DEF MtxEnter, mtxVars
  <2>2. \A a \in Cpu, b \in Level :
          /\ InMutex(a, b)' => InMutex(a, b)
          /\ pc'[a][b] = "spin" => pc[a][b] = "spin"
          /\ pc'[a][b] = "cas" => pc[a][b] = "cas"
    BY <1>2 DEF InMutex
  <2> QED
    BY <1>4, <2>1, <2>2 DEF MutexInv, Tickets
<1>8. MutexExclusive'
  BY <1>2 DEF MtxEnter, At, Raise, mtxVars, MutexInv, Tickets, MutexExclusive,
       InMutex
<1>9. Owner'
  BY <1>2 DEF MtxEnter, At, Raise, mtxVars, MutexInv, Owner, MutexExclusive, InMutex
<1>10. Rules'
  BY <1>2, <1>3 DEF MtxEnter, At, Raise, mtxVars, MutexInv, Rules, InCode,
       Stacked, RunLevel, MutexExclusive, InMutex
<1>11. cpl'[c] = RunLevel(c, l)'
  BY <1>2, <1>5 DEF MtxEnter, At, Raise, mtxVars, MutexInv, MutexTypes, Rules,
       InCode, Stacked, RunLevel
<1>12. Stacked'
  BY <1>2, <1>5, <1>6, <1>10, <1>11, StackedStep DEF MtxEnter, At, Rules
<1> QED
  BY <1>6, <1>7, <1>8, <1>9, <1>10, <1>12 DEF MutexInv

\* Taking a ticket.
LEMMA MtxTicketStep ==
    ASSUME MutexInv, NEW c \in Cpu, NEW l \in Level, MtxTicket(c, l)
    PROVE  MutexInv'
<1> USE LevelNat, WantIpl, SpinLocksAssumption DEF IPL_NONE
<1>1. PICK w \in {"spin"} : pc' = [pc EXCEPT ![c][l] = w]
  BY DEF MtxTicket, Go
<1>2. \A a \in Cpu, b \in Level :
          pc'[a][b] = IF a = c /\ b = l THEN w ELSE pc[a][b]
  BY <1>1, PairUpdate DEF MutexInv, MutexTypes, PerContext
<1>3. \A a \in Cpu, b \in Level :
          s'[a][b] = s[a][b]
  BY PairUpdate DEF MtxTicket, At, Go, mtx_take, MutexInv, MutexTypes, PerContext
<1>4. \A a \in Cpu, b \in Level :
          t'[a][b] = IF a = c /\ b = l THEN mtx_ticket ELSE t[a][b]
  BY PairUpdate DEF MtxTicket, At, Go, mtx_take, MutexInv, MutexTypes, PerContext
<1>5. /\ \A a \in Cpu : cpl'[a] = cpl[a]
      /\ UNCHANGED base
  BY DEF MtxTicket, At, Go, mtx_take, MutexInv, MutexTypes, PerContext
<1>6. MutexTypes'
  BY <1>1 DEF MtxTicket, At, Go, mtx_take, MutexInv, MutexTypes, PerContext, Where
<1>7. Tickets'
  BY <1>2, <1>4 DEF MtxTicket, At, mtx_take, MutexInv, MutexTypes, PerContext,
       Tickets, MutexExclusive, InMutex
<1>8. MutexExclusive'
  BY <1>2 DEF MtxTicket, At, mtx_take, MutexInv, Tickets, MutexExclusive, InMutex
<1>9. Owner'
  BY <1>2 DEF MtxTicket, At, mtx_take, MutexInv, Owner, MutexExclusive, InMutex
<1>10. Rules'
  BY <1>2, <1>3 DEF MtxTicket, At, mtx_take, MutexInv, Rules, InCode, Stacked,
       RunLevel, MutexExclusive, InMutex
<1>11. cpl'[c] = RunLevel(c, l)'
  BY <1>2, <1>5 DEF MtxTicket, At, mtx_take, MutexInv, MutexTypes, Rules, InCode,
       Stacked, RunLevel
<1>12. Stacked'
  BY <1>2, <1>5, <1>6, <1>10, <1>11, StackedStep DEF MtxTicket, At, Rules
<1> QED
  BY <1>6, <1>7, <1>8, <1>9, <1>10, <1>12 DEF MutexInv

\* The end of the spin.
LEMMA MtxTurnStep ==
    ASSUME MutexInv, NEW c \in Cpu, NEW l \in Level, MtxTurn(c, l)
    PROVE  MutexInv'
<1> USE LevelNat, WantIpl, SpinLocksAssumption DEF IPL_NONE
<1>1. PICK w \in {"store"} : pc' = [pc EXCEPT ![c][l] = w]
  BY DEF MtxTurn, Go
<1>2. \A a \in Cpu, b \in Level :
          pc'[a][b] = IF a = c /\ b = l THEN w ELSE pc[a][b]
  BY <1>1, PairUpdate DEF MutexInv, MutexTypes, PerContext
<1>3. \A a \in Cpu, b \in Level :
          s'[a][b] = s[a][b]
  BY PairUpdate DEF MtxTurn, At, Go, mtxVars, MutexInv, MutexTypes, PerContext
<1>4. \A a \in Cpu, b \in Level :
          t'[a][b] = t[a][b]
  BY PairUpdate DEF MtxTurn, At, Go, mtxVars, MutexInv, MutexTypes, PerContext
<1>5. /\ \A a \in Cpu : cpl'[a] = cpl[a]
      /\ UNCHANGED base
  BY DEF MtxTurn, At, Go, mtxVars, MutexInv, MutexTypes, PerContext
<1>6. MutexTypes'
  BY <1>1 DEF MtxTurn, At, Go, mtxVars, MutexInv, MutexTypes, PerContext, Where
<1>7. Tickets'
  BY <1>2, <1>4 DEF MtxTurn, At, mtxVars, MutexInv, MutexTypes, PerContext,
       Tickets, MutexExclusive, InMutex
<1>8. MutexExclusive'
  <2>1. \A a \in Cpu, b \in Level : ~InMutex(a, b)
    BY DEF MtxTurn, At, MutexInv, Tickets
  <2>2. \A a \in Cpu, b \in Level : InMutex(a, b)' => a = c /\ b = l
    BY <1>2, <2>1 DEF InMutex
  <2> QED
    BY <2>2, Zenon DEF MutexExclusive
<1>9. Owner'
  BY <1>2 DEF MtxTurn, At, mtxVars, MutexInv, Owner, MutexExclusive, InMutex
<1>10. Rules'
  BY <1>2, <1>3 DEF MtxTurn, At, mtxVars, MutexInv, Rules, InCode, Stacked,
       RunLevel, MutexExclusive, InMutex
<1>11. cpl'[c] = RunLevel(c, l)'
  BY <1>2, <1>5 DEF MtxTurn, At, mtxVars, MutexInv, MutexTypes, Rules, InCode,
       Stacked, RunLevel
<1>12. Stacked'
  BY <1>2, <1>5, <1>6, <1>10, <1>11, StackedStep DEF MtxTurn, At, Rules
<1> QED
  BY <1>6, <1>7, <1>8, <1>9, <1>10, <1>12 DEF MutexInv

\* mtx_store().
LEMMA MtxStoreStep ==
    ASSUME MutexInv, NEW c \in Cpu, NEW l \in Level, MtxStore(c, l)
    PROVE  MutexInv'
<1> USE LevelNat, WantIpl, SpinLocksAssumption DEF IPL_NONE
<1>1. PICK w \in {"held"} : pc' = [pc EXCEPT ![c][l] = w]
  BY DEF MtxStore, Go
<1>2. \A a \in Cpu, b \in Level :
          pc'[a][b] = IF a = c /\ b = l THEN w ELSE pc[a][b]
  BY <1>1, PairUpdate DEF MutexInv, MutexTypes, PerContext
<1>3. \A a \in Cpu, b \in Level :
          s'[a][b] = IF a = c /\ b = l THEN 0 ELSE s[a][b]
  BY PairUpdate DEF MtxStore, At, Go, mtx_store, Forget, MutexInv, MutexTypes,
       PerContext
<1>4. \A a \in Cpu, b \in Level :
          t'[a][b] = IF a = c /\ b = l THEN 0 ELSE t[a][b]
  BY PairUpdate DEF MtxStore, At, Go, mtx_store, Forget, MutexInv, MutexTypes,
       PerContext
<1>5. /\ \A a \in Cpu : cpl'[a] = cpl[a]
      /\ UNCHANGED base
  BY DEF MtxStore, At, Go, mtx_store, Forget, MutexInv, MutexTypes, PerContext
<1>6. MutexTypes'
  BY <1>1 DEF MtxStore, At, Go, mtx_store, Forget, MutexInv, MutexTypes,
       PerContext, Where
<1>7. Tickets'
  BY <1>2, <1>4 DEF MtxStore, At, mtx_store, Forget, MutexInv, MutexTypes,
       PerContext, Tickets, MutexExclusive, InMutex
<1>8. MutexExclusive'
  BY <1>2 DEF MtxStore, At, mtx_store, Forget, MutexInv, Tickets, MutexExclusive,
       InMutex
<1>9. Owner'
  BY <1>2 DEF MtxStore, At, mtx_store, Forget, MutexInv, Owner, MutexExclusive,
       InMutex
<1>10. Rules'
  BY <1>2, <1>3 DEF MtxStore, At, mtx_store, Forget, MutexInv, Rules, InCode,
       Stacked, RunLevel, MutexExclusive, InMutex
<1>11. cpl'[c] = RunLevel(c, l)'
  BY <1>2, <1>5 DEF MtxStore, At, mtx_store, Forget, MutexInv, MutexTypes, Rules,
       InCode, Stacked, RunLevel
<1>12. Stacked'
  BY <1>2, <1>5, <1>6, <1>10, <1>11, StackedStep DEF MtxStore, At, Rules
<1> QED
  BY <1>6, <1>7, <1>8, <1>9, <1>10, <1>12 DEF MutexInv

\* mtx_enter_try() reads mtx_cur.
LEMMA TryLoadStep ==
    ASSUME MutexInv, NEW c \in Cpu, NEW l \in Level, TryLoad(c, l)
    PROVE  MutexInv'
<1> USE LevelNat, WantIpl, SpinLocksAssumption DEF IPL_NONE
<1>1. PICK w \in {"cas"} : pc' = [pc EXCEPT ![c][l] = w]
  BY DEF TryLoad, Go
<1>2. \A a \in Cpu, b \in Level :
          pc'[a][b] = IF a = c /\ b = l THEN w ELSE pc[a][b]
  BY <1>1, PairUpdate DEF MutexInv, MutexTypes, PerContext
<1>3. \A a \in Cpu, b \in Level :
          s'[a][b] = s[a][b]
  BY PairUpdate DEF TryLoad, At, Go, mtxVars, MutexInv, MutexTypes, PerContext
<1>4. \A a \in Cpu, b \in Level :
          t'[a][b] = IF a = c /\ b = l THEN mtx_cur ELSE t[a][b]
  BY PairUpdate DEF TryLoad, At, Go, mtxVars, MutexInv, MutexTypes, PerContext
<1>5. /\ \A a \in Cpu : cpl'[a] = cpl[a]
      /\ UNCHANGED base
  BY DEF TryLoad, At, Go, mtxVars, MutexInv, MutexTypes, PerContext
<1>6. MutexTypes'
  BY <1>1 DEF TryLoad, At, Go, mtxVars, MutexInv, MutexTypes, PerContext, Where
<1>7. Tickets'
  BY <1>2, <1>4 DEF TryLoad, At, mtxVars, MutexInv, MutexTypes, PerContext,
       Tickets, MutexExclusive, InMutex
<1>8. MutexExclusive'
  BY <1>2 DEF TryLoad, At, mtxVars, MutexInv, Tickets, MutexExclusive, InMutex
<1>9. Owner'
  BY <1>2 DEF TryLoad, At, mtxVars, MutexInv, Owner, MutexExclusive, InMutex
<1>10. Rules'
  BY <1>2, <1>3 DEF TryLoad, At, mtxVars, MutexInv, Rules, InCode, Stacked,
       RunLevel, MutexExclusive, InMutex
<1>11. cpl'[c] = RunLevel(c, l)'
  BY <1>2, <1>5 DEF TryLoad, At, mtxVars, MutexInv, MutexTypes, Rules, InCode,
       Stacked, RunLevel
<1>12. Stacked'
  BY <1>2, <1>5, <1>6, <1>10, <1>11, StackedStep DEF TryLoad, At, Rules
<1> QED
  BY <1>6, <1>7, <1>8, <1>9, <1>10, <1>12 DEF MutexInv

\* mtx_clear().
LEMMA MtxClearStep ==
    ASSUME MutexInv, NEW c \in Cpu, NEW l \in Level, MtxClear(c, l)
    PROVE  MutexInv'
<1> USE LevelNat, WantIpl, SpinLocksAssumption DEF IPL_NONE
<1>1. PICK w \in {"pass"} : pc' = [pc EXCEPT ![c][l] = w]
  BY DEF MtxClear, Go
<1>2. \A a \in Cpu, b \in Level :
          pc'[a][b] = IF a = c /\ b = l THEN w ELSE pc[a][b]
  BY <1>1, PairUpdate DEF MutexInv, MutexTypes, PerContext
<1>3. \A a \in Cpu, b \in Level :
          s'[a][b] = IF a = c /\ b = l THEN mtx_oldipl ELSE s[a][b]
  BY PairUpdate DEF MtxClear, At, Go, mtx_clear, MutexInv, MutexTypes, PerContext
<1>4. \A a \in Cpu, b \in Level :
          t'[a][b] = t[a][b]
  BY PairUpdate DEF MtxClear, At, Go, mtx_clear, MutexInv, MutexTypes, PerContext
<1>5. /\ \A a \in Cpu : cpl'[a] = cpl[a]
      /\ UNCHANGED base
  BY DEF MtxClear, At, Go, mtx_clear, MutexInv, MutexTypes, PerContext
<1>6. MutexTypes'
  BY <1>1 DEF MtxClear, At, Go, mtx_clear, MutexInv, MutexTypes, PerContext, Where
<1>7. Tickets'
  <2>1. pc[c][l] = "held" /\ UNCHANGED <<mtx_cur, mtx_ticket>>
    BY DEF MtxClear, At, mtx_clear
  <2>2. \A a \in Cpu, b \in Level :
          /\ InMutex(a, b)' <=> InMutex(a, b)
          /\ pc'[a][b] = "spin" <=> pc[a][b] = "spin"
          /\ pc'[a][b] = "cas" <=> pc[a][b] = "cas"
    BY <1>2, <2>1 DEF InMutex
  <2> QED
    BY <1>4, <2>1, <2>2 DEF MutexInv, Tickets
<1>8. MutexExclusive'
  BY <1>2 DEF MtxClear, At, mtx_clear, MutexInv, Tickets, MutexExclusive, InMutex
<1>9. Owner'
  BY <1>2 DEF MtxClear, At, mtx_clear, MutexInv, Owner, MutexExclusive, InMutex
<1>10. Rules'
  BY <1>2, <1>3 DEF MtxClear, At, mtx_clear, MutexInv, Rules, InCode, Stacked,
       RunLevel, MutexExclusive, InMutex
<1>11. cpl'[c] = RunLevel(c, l)'
  BY <1>2, <1>5 DEF MtxClear, At, mtx_clear, MutexInv, MutexTypes, Rules, InCode,
       Stacked, RunLevel
<1>12. Stacked'
  BY <1>2, <1>5, <1>6, <1>10, <1>11, StackedStep DEF MtxClear, At, Rules
<1> QED
  BY <1>6, <1>7, <1>8, <1>9, <1>10, <1>12 DEF MutexInv

\* Passing the mutex on.
LEMMA MtxPassStep ==
    ASSUME MutexInv, NEW c \in Cpu, NEW l \in Level, MtxPass(c, l)
    PROVE  MutexInv'
<1> USE LevelNat, WantIpl, SpinLocksAssumption DEF IPL_NONE
<1>1. PICK w \in {"splx"} : pc' = [pc EXCEPT ![c][l] = w]
  BY DEF MtxPass, Go
<1>2. \A a \in Cpu, b \in Level :
          pc'[a][b] = IF a = c /\ b = l THEN w ELSE pc[a][b]
  BY <1>1, PairUpdate DEF MutexInv, MutexTypes, PerContext
<1>3. \A a \in Cpu, b \in Level :
          s'[a][b] = s[a][b]
  BY PairUpdate DEF MtxPass, At, Go, mtx_pass, MutexInv, MutexTypes, PerContext
<1>4. \A a \in Cpu, b \in Level :
          t'[a][b] = t[a][b]
  BY PairUpdate DEF MtxPass, At, Go, mtx_pass, MutexInv, MutexTypes, PerContext
<1>5. /\ \A a \in Cpu : cpl'[a] = cpl[a]
      /\ UNCHANGED base
  BY DEF MtxPass, At, Go, mtx_pass, MutexInv, MutexTypes, PerContext
<1>6. MutexTypes'
  BY <1>1 DEF MtxPass, At, Go, mtx_pass, MutexInv, MutexTypes, PerContext, Where
<1>7. Tickets'
  <2>1. InMutex(c, l) /\ mtx_cur' = mtx_cur + 1 /\ mtx_ticket' = mtx_ticket
    BY DEF MtxPass, At, mtx_pass, InMutex
  <2>2. ASSUME NEW a \in Cpu, NEW b \in Level
        PROVE  /\ ~InMutex(a, b)'
               /\ pc'[a][b] = "spin" => pc[a][b] = "spin" /\ t[a][b] # mtx_cur
               /\ pc'[a][b] = "cas" => pc[a][b] = "cas"
    <3>1. InMutex(a, b) => a = c /\ b = l
      BY <2>1 DEF MutexInv, MutexExclusive
    <3>2. pc[a][b] = "spin" => t[a][b] # mtx_cur
      BY <2>1 DEF MutexInv, Tickets
    <3> QED
      BY <1>2, <3>1, <3>2 DEF InMutex
  <2>3. mtx_cur \in Nat /\ mtx_ticket \in Nat
    BY DEF MutexInv, MutexTypes
  <2>4. mtx_cur < mtx_ticket
    BY <2>1 DEF MutexInv, Tickets
  <2>5. ASSUME NEW a \in Cpu, NEW b \in Level
        PROVE  /\ pc'[a][b] = "spin" => mtx_cur' <= t'[a][b] /\ t'[a][b] < mtx_ticket'
               /\ pc'[a][b] = "cas" => t'[a][b] <= mtx_cur'
    <3>1. t[a][b] \in Nat /\ t'[a][b] = t[a][b]
      <4>1. t \in [Cpu -> [Level -> Nat]]
        BY DEF MutexInv, MutexTypes, PerContext
      <4>2. t[a][b] \in Nat
        BY <4>1
      <4> QED
        BY <1>4, <4>2
    <3>2. /\ pc[a][b] = "spin" => mtx_cur <= t[a][b] /\ t[a][b] < mtx_ticket
          /\ pc[a][b] = "cas" => t[a][b] <= mtx_cur
      BY DEF MutexInv, Tickets
    <3> QED
      BY <2>1, <2>2, <2>3, <3>1, <3>2
  <2>6. ASSUME NEW a \in Cpu, NEW b \in Level, NEW d \in Cpu, NEW e \in Level,
               pc'[a][b] = "spin", pc'[d][e] = "spin", t'[a][b] = t'[d][e]
        PROVE  a = d /\ b = e
    BY <1>4, <2>2, <2>6 DEF MutexInv, Tickets
  <2>7. mtx_cur' <= mtx_ticket'
    BY <2>1, <2>3, <2>4
  <2>8. \A a \in Cpu, b \in Level : ~InMutex(a, b)'
    BY <2>2
  <2>9. \A a \in Cpu, b \in Level :
          /\ InMutex(a, b)' => mtx_cur' < mtx_ticket'
          /\ pc'[a][b] = "spin" => mtx_cur' <= t'[a][b] /\ t'[a][b] < mtx_ticket'
          /\ pc'[a][b] = "cas" => t'[a][b] <= mtx_cur'
    BY <2>5, <2>8, Zenon
  <2>10. \A a, d \in Cpu, b, e \in Level :
          /\ pc'[a][b] = "spin" /\ pc'[d][e] = "spin" /\ t'[a][b] = t'[d][e]
                => a = d /\ b = e
          /\ pc'[a][b] = "spin" /\ InMutex(d, e)' => t'[a][b] # mtx_cur'
    <3> TAKE a, d \in Cpu, b, e \in Level
    <3> QED
      BY <2>6, <2>8
  <2> QED
    BY <2>7, <2>9, <2>10, Zenon DEF Tickets
<1>8. MutexExclusive'
  BY <1>2 DEF MtxPass, At, mtx_pass, MutexInv, Tickets, MutexExclusive, InMutex
<1>9. Owner'
  BY <1>2 DEF MtxPass, At, mtx_pass, MutexInv, Owner, MutexExclusive, InMutex
<1>10. Rules'
  BY <1>2, <1>3 DEF MtxPass, At, mtx_pass, MutexInv, Rules, InCode, Stacked,
       RunLevel, MutexExclusive, InMutex
<1>11. cpl'[c] = RunLevel(c, l)'
  BY <1>2, <1>5 DEF MtxPass, At, mtx_pass, MutexInv, MutexTypes, Rules, InCode,
       Stacked, RunLevel
<1>12. Stacked'
  BY <1>2, <1>5, <1>6, <1>10, <1>11, StackedStep DEF MtxPass, At, Rules
<1> QED
  BY <1>6, <1>7, <1>8, <1>9, <1>10, <1>12 DEF MutexInv

\* The splx() of mtx_leave().
LEMMA MtxSplxStep ==
    ASSUME MutexInv, NEW c \in Cpu, NEW l \in Level, MtxSplx(c, l)
    PROVE  MutexInv'
<1> USE LevelNat, WantIpl, SpinLocksAssumption DEF IPL_NONE
<1>1. PICK w \in {"run"} : pc' = [pc EXCEPT ![c][l] = w]
  BY DEF MtxSplx, Go
<1>2. \A a \in Cpu, b \in Level :
          pc'[a][b] = IF a = c /\ b = l THEN w ELSE pc[a][b]
  BY <1>1, PairUpdate DEF MutexInv, MutexTypes, PerContext
<1>3. \A a \in Cpu, b \in Level :
          s'[a][b] = IF a = c /\ b = l THEN 0 ELSE s[a][b]
  BY PairUpdate DEF MtxSplx, At, Go, Lower, Forget, mtxVars, MutexInv,
       MutexTypes, PerContext
<1>4. \A a \in Cpu, b \in Level :
          t'[a][b] = IF a = c /\ b = l THEN 0 ELSE t[a][b]
  BY PairUpdate DEF MtxSplx, At, Go, Lower, Forget, mtxVars, MutexInv,
       MutexTypes, PerContext
<1>5. /\ \A a \in Cpu : cpl'[a] = IF a = c THEN IF mtx_wantipl = 0 THEN cpl[c] ELSE s[c][l] ELSE cpl[a]
      /\ UNCHANGED base
  BY DEF MtxSplx, At, Go, Lower, Forget, mtxVars, MutexInv, MutexTypes, PerContext
<1>6. MutexTypes'
  BY <1>1 DEF MtxSplx, At, Go, Lower, Forget, mtxVars, MutexInv, MutexTypes,
       PerContext, Where
<1>7. Tickets'
  BY <1>2, <1>4 DEF MtxSplx, At, Lower, Forget, mtxVars, MutexInv, MutexTypes,
       PerContext, Tickets, MutexExclusive, InMutex
<1>8. MutexExclusive'
  BY <1>2 DEF MtxSplx, At, Lower, Forget, mtxVars, MutexInv, Tickets,
       MutexExclusive, InMutex
<1>9. Owner'
  BY <1>2 DEF MtxSplx, At, Lower, Forget, mtxVars, MutexInv, Owner,
       MutexExclusive, InMutex
<1>10. Rules'
  BY <1>2, <1>3 DEF MtxSplx, At, Lower, Forget, mtxVars, MutexInv, Rules, InCode,
       Stacked, RunLevel, MutexExclusive, InMutex
<1>11. cpl'[c] = RunLevel(c, l)'
  BY <1>2, <1>5 DEF MtxSplx, At, Lower, Forget, mtxVars, MutexInv, MutexTypes,
       Rules, InCode, Stacked, RunLevel
<1>12. Stacked'
  BY <1>2, <1>5, <1>6, <1>10, <1>11, StackedStep DEF MtxSplx, At, Rules
<1> QED
  BY <1>6, <1>7, <1>8, <1>9, <1>10, <1>12 DEF MutexInv

\* The compare and swap of mtx_enter_try(): if mtx_ticket is still the
\* mtx_cur read before, every ticket has been served and nobody is waiting.
LEMMA TryCasStep ==
    ASSUME MutexInv, NEW c \in Cpu, NEW l \in Level, TryCas(c, l)
    PROVE  MutexInv'
<1> USE LevelNat, WantIpl, SpinLocksAssumption DEF IPL_NONE
<1>0. Runs(c, l) /\ pc[c][l] = "cas" /\ l \in MtxLevel
  BY DEF TryCas, At, MutexInv, Rules, InCode
<1>1. CASE mtx_ticket = t[c][l]
  <2>1. /\ pc' = [pc EXCEPT ![c][l] = "store"]
        /\ mtx_ticket' = mtx_ticket + 1
        /\ UNCHANGED <<mtx_owner, mtx_oldipl, mtx_cur, cpl, base, s, t>>
    BY <1>1 DEF TryCas, mtx_take, Go
  <2>2. \A a \in Cpu, b \in Level :
          pc'[a][b] = IF a = c /\ b = l THEN "store" ELSE pc[a][b]
    BY <2>1, PairUpdate DEF MutexInv, MutexTypes, PerContext
  <2>3. mtx_cur = mtx_ticket /\ mtx_cur \in Nat
    BY <1>0, <1>1 DEF MutexInv, Tickets, MutexTypes
  <2>4. \A a \in Cpu, b \in Level : ~InMutex(a, b) /\ pc[a][b] # "spin"
    BY <2>3 DEF MutexInv, Tickets, MutexTypes, PerContext
  <2>5. MutexTypes'
    BY <2>1, <2>3 DEF MutexInv, MutexTypes, PerContext, Where
  <2>6. Tickets'
    BY <2>1, <2>2, <2>3, <2>4 DEF MutexInv, Tickets, InMutex
  <2>7. MutexExclusive'
    <3>1. ASSUME NEW a \in Cpu, NEW b \in Level, InMutex(a, b)'
          PROVE  a = c /\ b = l
      BY <2>2, <2>4, <3>1 DEF InMutex
    <3> QED
      BY <3>1 DEF MutexExclusive
  <2>8. Owner'
    BY <2>1, <2>2, <2>4 DEF MutexInv, Owner, InMutex
  <2>9. Rules'
    BY <1>0, <2>1, <2>2 DEF MutexInv, Rules, InCode
  <2>10. cpl'[c] = RunLevel(c, l)'
    BY <1>0, <2>1, <2>2 DEF MutexInv, Stacked, RunLevel, InCode
  <2>11. Stacked'
    BY <1>0, <2>1, <2>2, <2>5, <2>10, StackedStep
  <2> QED
    BY <2>5, <2>6, <2>7, <2>8, <2>9, <2>11 DEF MutexInv
<1>2. CASE mtx_ticket # t[c][l]
  <2>1. /\ pc' = [pc EXCEPT ![c][l] = "run"]
        /\ cpl' = [cpl EXCEPT ![c] = IF mtx_wantipl = 0 THEN @ ELSE s[c][l]]
        /\ s' = [s EXCEPT ![c][l] = 0]
        /\ t' = [t EXCEPT ![c][l] = 0]
        /\ UNCHANGED <<mtx_owner, mtx_oldipl, mtx_ticket, mtx_cur, base>>
    BY <1>2 DEF TryCas, Lower, Forget, Go, mtxVars
  <2>2. \A a \in Cpu, b \in Level :
          /\ pc'[a][b] = IF a = c /\ b = l THEN "run" ELSE pc[a][b]
          /\ s'[a][b] = IF a = c /\ b = l THEN 0 ELSE s[a][b]
          /\ t'[a][b] = IF a = c /\ b = l THEN 0 ELSE t[a][b]
    BY <2>1, PairUpdate DEF MutexInv, MutexTypes, PerContext
  <2>5. MutexTypes'
    BY <2>1 DEF MutexInv, MutexTypes, PerContext, Where
  <2>6. Tickets'
    BY <2>1, <2>2 DEF MutexInv, Tickets, InMutex
  <2>7. MutexExclusive'
    BY <2>2 DEF MutexInv, MutexExclusive, InMutex
  <2>8. Owner'
    BY <1>0, <2>1, <2>2 DEF MutexInv, Owner
  <2>9. Rules'
    BY <2>1, <2>2 DEF MutexInv, Rules, InCode
  <2>10. cpl'[c] = RunLevel(c, l)'
    <3>1. cpl[c] = mtx_wantipl
      BY <1>0 DEF MutexInv, Stacked, RunLevel, InCode
    <3>2. mtx_wantipl # 0 => s[c][l] = l
      BY <1>0 DEF MutexInv, Rules, InCode
    <3>3. cpl'[c] = IF mtx_wantipl = 0 THEN cpl[c] ELSE s[c][l]
      BY <2>1 DEF MutexInv, MutexTypes
    <3>4. l <= mtx_wantipl
      BY <1>0
    <3> QED
      BY <2>2, <3>1, <3>2, <3>3, <3>4 DEF RunLevel, InCode
  <2>11. Stacked'
    <3>1. \A a \in Cpu : a # c => cpl'[a] = cpl[a]
      BY <2>1 DEF MutexInv, MutexTypes
    <3> QED
      BY <1>0, <2>1, <2>2, <2>5, <2>10, <3>1, StackedStep
  <2> QED
    BY <2>5, <2>6, <2>7, <2>8, <2>9, <2>11 DEF MutexInv
<1> QED
  BY <1>1, <1>2

\* An interrupt goes on top of the stack of its processor.
LEMMA InterruptStep ==
    ASSUME MutexInv, NEW c \in Cpu, NEW l \in Level, Interrupt(c, l)
    PROVE  MutexInv'
<1> USE LevelNat, WantIpl, SpinLocksAssumption DEF IPL_NONE
<1>1. /\ l \in Intr /\ cpl[c] < l /\ pc[c][l] = "off"
      /\ pc' = [pc EXCEPT ![c][l] = "run"]
      /\ base' = [base EXCEPT ![c][l] = cpl[c]]
      /\ cpl' = [cpl EXCEPT ![c] = l]
      /\ UNCHANGED <<mtx_owner, mtx_oldipl, mtx_ticket, mtx_cur, s, t>>
  BY DEF Interrupt, Go, mtxVars
<1>2. \A a \in Cpu, b \in Level :
        /\ pc'[a][b] = IF a = c /\ b = l THEN "run" ELSE pc[a][b]
        /\ base'[a][b] = IF a = c /\ b = l THEN cpl[c] ELSE base[a][b]
  BY <1>1, PairUpdate DEF MutexInv, MutexTypes, PerContext
<1>3. \A a \in Cpu : cpl'[a] = IF a = c THEN l ELSE cpl[a]
  BY <1>1 DEF MutexInv, MutexTypes
<1>4. MutexTypes'
  BY <1>1 DEF MutexInv, MutexTypes, PerContext, Where
<1>5. \A a \in Cpu, b \in Level :
        /\ InMutex(a, b)' <=> InMutex(a, b)
        /\ InCode(a, b)' <=> InCode(a, b)
        /\ \A w \in {"spin", "cas", "held", "mp"} : pc'[a][b] = w <=> pc[a][b] = w
  BY <1>1, <1>2 DEF InMutex, InCode
<1>6. Tickets' /\ MutexExclusive' /\ Owner' /\ Rules'
  BY <1>1, <1>5 DEF MutexInv, Tickets, MutexExclusive, Owner, Rules
<1>7. \A b \in Level : pc[c][b] # "off" =>
         b < l /\ RunLevel(c, b) <= cpl[c] /\ RunLevel(c, b) \in Nat
  BY <1>1 DEF MutexInv, MutexTypes, Stacked, RunLevel, Rules
<1>8. \A a \in Cpu, b \in Level : RunLevel(a, b)' = RunLevel(a, b)
  BY <1>5 DEF RunLevel
<1>9. ASSUME NEW a \in Cpu, NEW b \in Level
      PROVE  /\ pc'[a][b] # "off" => cpl'[a] >= RunLevel(a, b)'
             /\ Runs(a, b)' => cpl'[a] = RunLevel(a, b)'
  <2>1. CASE a # c
    BY <1>2, <1>3, <1>8, <2>1 DEF MutexInv, Stacked, Runs
  <2>2. CASE a = c /\ b = l
    BY <1>1, <1>3, <1>8, <2>2 DEF RunLevel, InCode
  <2>3. CASE a = c /\ b # l
    <3>1. cpl[c] \in Nat
      BY DEF MutexInv, MutexTypes
    <3> QED
      BY <1>1, <1>2, <1>3, <1>7, <1>8, <2>3, <3>1 DEF Runs
  <2> QED
    BY <2>1, <2>2, <2>3
<1>10. ASSUME NEW a \in Cpu, NEW b \in Level, NEW k \in Level,
              k > b, pc'[a][b] # "off", pc'[a][k] # "off"
       PROVE  /\ base'[a][k] >= RunLevel(a, b)'
              /\ base'[a][k] < k
              /\ (\A j \in Level : b < j /\ j < k => pc'[a][j] = "off")
                    => base'[a][k] = RunLevel(a, b)'
  <2>1. CASE a = c /\ k = l
    <3>1. b # l /\ pc[c][b] # "off"
      BY <1>2, <1>10, <2>1
    <3>2. base'[c][l] = cpl[c] /\ cpl[c] \in Nat
      BY <1>2 DEF MutexInv, MutexTypes
    <3>3. (\A j \in Level : b < j /\ j < l => pc'[c][j] = "off") => Runs(c, b)
      <4> SUFFICES ASSUME \A j \in Level : b < j /\ j < l => pc'[c][j] = "off",
                          NEW j \in Level, j > b, pc[c][j] # "off"
                   PROVE  FALSE
        BY <3>1 DEF Runs
      <4> QED
        BY <1>2, <1>7
    <3>4. Runs(c, b) => cpl[c] = RunLevel(c, b)
      BY DEF MutexInv, Stacked
    <3> QED
      BY <1>1, <1>7, <1>8, <2>1, <3>1, <3>2, <3>3, <3>4
  <2>2. CASE ~(a = c /\ k = l)
    <3>1. pc[a][k] # "off" /\ base'[a][k] = base[a][k]
      BY <1>2, <1>10, <2>2
    <3>2. pc[a][b] # "off"
      <4>1. CASE a = c /\ b = l
        <5>1. k < l
          BY <1>7, <3>1, <4>1
        <5> QED
          BY <1>10, <4>1, <5>1
      <4>2. CASE ~(a = c /\ b = l)
        BY <1>2, <1>10, <4>2
      <4> QED
        BY <4>1, <4>2
    <3>3. (\A j \in Level : b < j /\ j < k => pc'[a][j] = "off")
             => \A j \in Level : b < j /\ j < k => pc[a][j] = "off"
      BY <1>1, <1>2
    <3> QED
      BY <1>8, <1>10, <3>1, <3>2, <3>3 DEF MutexInv, Stacked
  <2> QED
    BY <2>1, <2>2
<1>11. Stacked'
  BY <1>9, <1>10 DEF Stacked
<1> QED
  BY <1>4, <1>6, <1>11 DEF MutexInv

\* The handler returns to the code it interrupted.
LEMMA IntrReturnStep ==
    ASSUME MutexInv, NEW c \in Cpu, NEW l \in Level, IntrReturn(c, l)
    PROVE  MutexInv'
<1> USE LevelNat, WantIpl, SpinLocksAssumption DEF IPL_NONE
<1>1. /\ Runs(c, l) /\ pc[c][l] = "run"
      /\ pc' = [pc EXCEPT ![c][l] = "off"]
      /\ base' = [base EXCEPT ![c][l] = 0]
      /\ cpl' = [cpl EXCEPT ![c] = base[c][l]]
      /\ UNCHANGED <<mtx_owner, mtx_oldipl, mtx_ticket, mtx_cur, s, t>>
  BY DEF IntrReturn, Go, At, mtxVars
<1>2. \A a \in Cpu, b \in Level :
        /\ pc'[a][b] = IF a = c /\ b = l THEN "off" ELSE pc[a][b]
        /\ base'[a][b] = IF a = c /\ b = l THEN 0 ELSE base[a][b]
  BY <1>1, PairUpdate DEF MutexInv, MutexTypes, PerContext
<1>3. \A a \in Cpu : cpl'[a] = IF a = c THEN base[c][l] ELSE cpl[a]
  BY <1>1 DEF MutexInv, MutexTypes
<1>4. MutexTypes'
  BY <1>1 DEF MutexInv, MutexTypes, PerContext, Where
<1>5. \A a \in Cpu, b \in Level :
        /\ InMutex(a, b)' <=> InMutex(a, b)
        /\ InCode(a, b)' <=> InCode(a, b)
        /\ \A w \in {"spin", "cas", "held", "mp"} : pc'[a][b] = w <=> pc[a][b] = w
  BY <1>1, <1>2 DEF InMutex, InCode
<1>6. Tickets' /\ MutexExclusive' /\ Owner' /\ Rules'
  BY <1>1, <1>5 DEF MutexInv, Tickets, MutexExclusive, Owner, Rules
<1>8. \A a \in Cpu, b \in Level : RunLevel(a, b)' = RunLevel(a, b)
  BY <1>5 DEF RunLevel
<1>9. ASSUME NEW a \in Cpu, NEW b \in Level, pc'[a][b] # "off"
      PROVE  /\ cpl'[a] >= RunLevel(a, b)'
             /\ Runs(a, b)' => cpl'[a] = RunLevel(a, b)'
  <2>1. CASE a # c
    BY <1>2, <1>3, <1>8, <1>9, <2>1 DEF MutexInv, Stacked, Runs
  <2>2. CASE a = c
    <3>1. b < l /\ pc[c][b] # "off"
      BY <1>1, <1>2, <1>9, <2>2 DEF Runs
    <3>2. base[c][l] >= RunLevel(c, b)
      BY <1>1, <3>1 DEF MutexInv, Stacked
    <3>3. ASSUME Runs(c, b)', NEW j \in Level, b < j, j < l
          PROVE  pc[c][j] = "off"
      <4>1. pc'[c][j] = "off"
        BY <3>3 DEF Runs
      <4> QED
        BY <1>2, <3>3, <4>1
    <3>4. Runs(c, b)' => base[c][l] = RunLevel(c, b)
      BY <1>1, <3>1, <3>3 DEF MutexInv, Stacked
    <3> QED
      BY <1>3, <1>8, <2>2, <3>2, <3>4
  <2> QED
    BY <2>1, <2>2
<1>10. ASSUME NEW a \in Cpu, NEW b \in Level, NEW k \in Level,
              k > b, pc'[a][b] # "off", pc'[a][k] # "off"
       PROVE  /\ base'[a][k] >= RunLevel(a, b)'
              /\ base'[a][k] < k
              /\ (\A j \in Level : b < j /\ j < k => pc'[a][j] = "off")
                    => base'[a][k] = RunLevel(a, b)'
  <2>1. /\ pc[a][k] # "off" /\ base'[a][k] = base[a][k]
        /\ pc[a][b] # "off" /\ ~(a = c /\ k >= l)
    BY <1>1, <1>2, <1>10 DEF Runs
  <2>2. (\A j \in Level : b < j /\ j < k => pc'[a][j] = "off")
           => \A j \in Level : b < j /\ j < k => pc[a][j] = "off"
    <3> SUFFICES ASSUME NEW j \in Level, b < j, j < k, pc'[a][j] = "off"
                 PROVE  pc[a][j] = "off"
      OBVIOUS
    <3>1. ~(a = c /\ j = l)
      BY <2>1
    <3> QED
      BY <1>2, <3>1
  <2> QED
    BY <1>8, <1>10, <2>1, <2>2 DEF MutexInv, Stacked
<1>11. Stacked'
  BY <1>9, <1>10 DEF Stacked, Runs
<1> QED
  BY <1>4, <1>6, <1>11 DEF MutexInv

-----------------------------------------------------------------------------
\* The steps that have to do with the __mp_lock are quiet.
LEMMA MpStepsAreQuiet ==
    ASSUME MutexInv, NEW c \in Cpu, NEW l \in Level,
           \/ MpLock(c, l) \/ MpGranted(c, l) \/ MpUnlock(c, l)
           \/ ReleaseAll(c) \/ ReleaseAllButOne(c)
           \/ HandOver(c) \/ AcquireCount(c)
    PROVE  Quiet
<1>0. 0 \in Level
  BY DEF Level
<1>1. CASE MpLock(c, l)
  BY <1>1 DEF MpLock, At, Go, Quiet
<1>2. CASE MpGranted(c, l)
  BY <1>2 DEF MpGranted, At, Go, Quiet
<1>3. CASE MpUnlock(c, l)
  <2>1. pc[c][l] = "run" /\ pc' = [pc EXCEPT ![c][l] = "run"]
    BY <1>3 DEF MpUnlock, At, MutexInv, MutexTypes, PerContext
  <2> QED
    BY <1>3, <2>1 DEF MpUnlock, Quiet
<1>4. CASE ReleaseAll(c)
  BY <1>0, <1>4 DEF ReleaseAll, At, Go, Quiet
<1>5. CASE ReleaseAllButOne(c)
  BY <1>0, <1>5 DEF ReleaseAllButOne, At, Go, Quiet
<1>6. CASE HandOver(c)
  BY <1>0, <1>6 DEF HandOver, At, Go, Quiet
<1>7. CASE AcquireCount(c)
  BY <1>0, <1>7 DEF AcquireCount, At, Go, Quiet
<1> QED
  BY <1>1, <1>2, <1>3, <1>4, <1>5, <1>6, <1>7

\* The invariant holds initially.
LEMMA InitMutexInv == Init => MutexInv
<1> SUFFICES ASSUME Init PROVE MutexInv
  OBVIOUS
<1> USE LevelNat, WantIpl, SpinLocksAssumption DEF IPL_NONE
<1>1. \A c \in Cpu, l \in Level :
        /\ pc[c][l] = IF l = 0 THEN "run" ELSE "off"
        /\ cpl[c] = 0
  BY DEF Init
<1>2. MutexTypes
  BY DEF Init, mtx_init, MutexTypes, PerContext, Where
<1>3. Tickets /\ MutexExclusive /\ Owner /\ Rules
  BY <1>1 DEF Init, mtx_init, Tickets, MutexExclusive, Owner, Rules, InMutex, InCode
<1>4. Stacked
  <2>1. \A c \in Cpu, l \in Level :
          cpl[c] = 0 /\ RunLevel(c, l) = l /\ (pc[c][l] # "off" => l = 0)
    BY <1>1 DEF RunLevel, InCode
  <2>2. \A c \in Cpu, l \in Level : Runs(c, l) => l = 0
    BY <2>1 DEF Runs
  <2>3. \A c \in Cpu, k, l \in Level :
          k > l => ~(pc[c][l] # "off" /\ pc[c][k] # "off")
    BY <2>1
  <2>4. \A c \in Cpu, l \in Level :
          /\ pc[c][l] # "off" => cpl[c] >= RunLevel(c, l)
          /\ Runs(c, l) => cpl[c] = RunLevel(c, l)
    <3> TAKE c \in Cpu, l \in Level
    <3>1. l \in Nat /\ cpl[c] = 0 /\ RunLevel(c, l) = l
      BY <2>1
    <3>2. (pc[c][l] # "off" => l = 0) /\ (Runs(c, l) => l = 0)
      BY <2>1, <2>2
    <3> QED
      BY <3>1, <3>2
  <2> QED
    BY <2>3, <2>4, Zenon DEF Stacked
<1> QED
  BY <1>2, <1>3, <1>4 DEF MutexInv

\* Every step preserves the invariant.
LEMMA NextMutexInv == MutexInv /\ [Next]_vars => MutexInv'
<1> SUFFICES ASSUME MutexInv, [Next]_vars PROVE MutexInv'
  OBVIOUS
<1>1. CASE UNCHANGED vars
  BY <1>1 DEF vars, mtxVars, ctxVars, MutexInv, MutexTypes, Tickets,
     MutexExclusive, Owner, Rules, Stacked, RunLevel, Runs, InMutex, InCode
<1>2. CASE Next
  <2>0. 0 \in Level
    BY DEF Level
  <2>1. PICK c \in Cpu :
          \/ ReleaseAll(c) \/ ReleaseAllButOne(c)
          \/ \E l \in Level :
              \/ Work(c, l)
              \/ Interrupt(c, l) \/ IntrReturn(c, l)
              \/ MpLock(c, l) \/ MpUnlock(c, l)
              \/ MtxEnter(c, l)
    BY <1>2 DEF Next
  <2>2. CASE ReleaseAll(c) \/ ReleaseAllButOne(c)
    BY <2>0, <2>2, MpStepsAreQuiet, QuietStep
  <2>3. ASSUME NEW l \in Level, Work(c, l)
        PROVE  MutexInv'
    <3>1. CASE MpGranted(c, l) \/ HandOver(c) \/ AcquireCount(c)
      BY <3>1, MpStepsAreQuiet, QuietStep
    <3>2. CASE \/ MtxTicket(c, l) \/ MtxTurn(c, l) \/ MtxStore(c, l)
               \/ TryLoad(c, l) \/ TryCas(c, l)
               \/ MtxClear(c, l) \/ MtxPass(c, l) \/ MtxSplx(c, l)
      BY <3>2, MtxTicketStep, MtxTurnStep, MtxStoreStep, TryLoadStep,
         TryCasStep, MtxClearStep, MtxPassStep, MtxSplxStep
    <3> QED
      BY <2>3, <3>1, <3>2 DEF Work
  <2>4. ASSUME NEW l \in Level,
               \/ Interrupt(c, l) \/ IntrReturn(c, l)
               \/ MpLock(c, l) \/ MpUnlock(c, l) \/ MtxEnter(c, l)
        PROVE  MutexInv'
    BY <2>4, InterruptStep, IntrReturnStep, MtxEnterStep, MpStepsAreQuiet, QuietStep
  <2> QED
    BY <2>1, <2>2, <2>3, <2>4
<1> QED
  BY <1>1, <1>2

\* MutexInv is an invariant, for all values of the constants.
THEOREM MutexInvariance == Spec => []MutexInv
  BY InitMutexInv, NextMutexInv, PTL DEF Spec

\* At most one context of one processor is in the mutex of kern_mutex.c.
THEOREM MutualExclusion == Spec => []MutexExclusive
<1>1. MutexInv => MutexExclusive
  BY DEF MutexInv
<1> QED
  BY <1>1, MutexInvariance, PTL

\* No KASSERT of kern_mutex.c fires: in particular no handler enters the mutex
\* on a processor whose interrupted code owns it.
THEOREM AssertionsHold == Spec => []NoPanic
<1>1. MutexInv => NoPanic
  <2> SUFFICES ASSUME MutexInv, NEW c \in Cpu, NEW l \in Level
               PROVE  /\ pc[c][l] = "store" => mtx_owner = NoCpu /\ mtx_oldipl = IPL_NONE
                      /\ pc[c][l] = "held" => mtx_owner = c
                      /\ pc[c][l] \in {"enter", "try"} => mtx_owner # c
    BY DEF NoPanic
  <2>1. pc[c][l] = "store" => mtx_owner = NoCpu /\ mtx_oldipl = IPL_NONE
    BY DEF MutexInv, Owner, MutexExclusive, InMutex
  <2>2. pc[c][l] = "held" => mtx_owner = c
    BY DEF MutexInv, Owner
  <2>3. ASSUME pc[c][l] \in {"enter", "try"}, mtx_owner = c
        PROVE  FALSE
    <3>1. PICK d \in Cpu, k \in Level : pc[d][k] = "held"
      BY <2>3, SpinLocksAssumption DEF MutexInv, Owner
    <3>2. d = c /\ pc[c][k] = "held"
      BY <2>3, <3>1 DEF MutexInv, Owner
    <3>3. InCode(c, l) /\ InCode(c, k) /\ l # k
      BY <2>3, <3>2 DEF InCode
    <3>4. l <= mtx_wantipl /\ k <= mtx_wantipl
      BY <3>3, WantIpl DEF MutexInv, Rules
    <3>5. RunLevel(c, l) = mtx_wantipl /\ RunLevel(c, k) = mtx_wantipl
      BY <3>3 DEF RunLevel
    <3>6. base[c][l] \in Nat /\ base[c][k] \in Nat
      BY DEF MutexInv, MutexTypes, PerContext
    <3>7. CASE k > l
      BY <2>3, <3>2, <3>4, <3>5, <3>6, <3>7, WantIpl, LevelNat DEF MutexInv, Stacked
    <3>8. CASE l > k
      BY <2>3, <3>2, <3>4, <3>5, <3>6, <3>8, WantIpl, LevelNat DEF MutexInv, Stacked
    <3> QED
      BY <3>3, <3>7, <3>8, LevelNat
  <2> QED
    BY <2>1, <2>2, <2>3
<1> QED
  BY <1>1, MutexInvariance, PTL

\* splx() restores the level that splraise() found, although mtx_oldipl may
\* belong to another processor by then.
THEOREM LevelRestored == Spec => []IplRestored
<1>1. MutexInv => IplRestored
  BY DEF MutexInv, Stacked, RunLevel, IplRestored
<1> QED
  BY <1>1, MutexInvariance, PTL

\* A mutex with a level other than IPL_NONE keeps all handlers that take the
\* __mp_lock, or the mutex itself, from interrupting the code that holds it or
\* spins for it.
THEOREM OrderOfLocks == ASSUME ipl # IPL_NONE PROVE Spec => []LockOrder
<1>1. MutexInv => LockOrder
  <2> SUFFICES ASSUME MutexInv, NEW c \in Cpu, NEW k \in Level, NEW l \in Level,
                      k > l, pc[c][k] \in {"mp", "spin"},
                      pc[c][l] = "spin" \/ InMutex(c, l)
               PROVE  FALSE
    BY DEF LockOrder
  <2>1. InCode(c, l) /\ pc[c][l] # "off" /\ RunLevel(c, l) = mtx_wantipl
    BY DEF InCode, InMutex, RunLevel
  <2>2. base[c][k] >= mtx_wantipl /\ base[c][k] < k /\ base[c][k] \in Nat
    BY <2>1 DEF MutexInv, Stacked, MutexTypes, PerContext
  <2>3. pc[c][k] = "mp" => k <= IPL_TTY
    BY LevelNat, SpinLocksAssumption, MutexAssumption DEF MutexInv, Rules
  <2>4. pc[c][k] = "spin" => k <= mtx_wantipl
    BY WantIpl DEF MutexInv, Rules, InCode
  <2> QED
    BY <2>2, <2>3, <2>4, LevelNat, WantIpl, MutexAssumption DEF IPL_NONE
<1> QED
  BY <1>1, MutexInvariance, PTL

-----------------------------------------------------------------------------
(***************************************************************************)
(* The __mp_lock.                                                           *)
(***************************************************************************)


\* Remainders of numbers below twice the modulus: once around, at most.
LEMMA Remainder ==
    ASSUME NEW x \in Nat, x < TICKETS + TICKETS
    PROVE  x % TICKETS = IF x < TICKETS THEN x ELSE x - TICKETS
  BY MPLockAssumption

\* The distance from ticket b to ticket a, around the end of the range.
LEMMA Distance ==
    ASSUME NEW a \in Nat, NEW b \in Nat, a < TICKETS, b < TICKETS
    PROVE  (a + TICKETS - b) % TICKETS = IF a < b THEN a + TICKETS - b ELSE a - b
<1> DEFINE x == a + TICKETS - b
<1>1. x \in Nat /\ x < TICKETS + TICKETS /\ TICKETS \in Nat
  BY MPLockAssumption
<1> HIDE DEF x
<1>2. x % TICKETS = IF x < TICKETS THEN x ELSE x - TICKETS
  BY <1>1, Remainder, Zenon
<1>3. (IF x < TICKETS THEN x ELSE x - TICKETS) =
         IF a < b THEN a + TICKETS - b ELSE a - b
  BY <1>1 DEF x
<1> QED
  BY <1>2, <1>3, Zenon DEF x

\* There are finitely many levels, 0 among them.
LEMMA LevelFinite == IsFiniteSet(Level) /\ 0 \in Level
<1>1. Level = Intr \cup {0}
  BY DEF Level
<1> QED
  BY <1>1, FS_AddElement, SpinLocksAssumption

\* There are at most as many processors at the lock as there are tickets, and
\* fewer if one of all the processors is not.
LEMMA ActiveBound ==
    /\ IsFiniteSet(Active)
    /\ Cardinality(Active) \in Nat
    /\ Cardinality(Active) <= TICKETS
    /\ (\E c \in Cpu : c \notin Active) => Cardinality(Active) < TICKETS
<1>1. Active \subseteq Cpu
  BY DEF Active
<1>2. IsFiniteSet(Active) /\ Cardinality(Active) <= Cardinality(Cpu)
      /\ (Cardinality(Cpu) = Cardinality(Active) => Cpu = Active)
  BY <1>1, FS_Subset, MPLockAssumption
<1>3. Cardinality(Active) \in Nat /\ Cardinality(Cpu) \in Nat
  BY <1>2, FS_CardinalityType, MPLockAssumption
<1> QED
  BY <1>2, <1>3, MPLockAssumption

\* A processor that is not at the lock takes the next ticket.
LEMMA TakeTicket ==
    ASSUME MplTypeOK, MpTickets, NEW c \in Cpu, c \notin Active,
           mplc_ticket' = [mplc_ticket EXCEPT ![c] = mpl_users],
           mpl_users' = (mpl_users + 1) % TICKETS,
           mpl_ticket' = mpl_ticket, Active' = Active \cup {c}
    PROVE  MpTickets'
<1> DEFINE k == Cardinality(Active)
<1>1. k \in Nat /\ k < TICKETS /\ Cardinality(Active') = k + 1
  BY ActiveBound, FS_AddElement
<1>2. /\ TICKETS \in Nat /\ mpl_users \in Nat /\ mpl_users < TICKETS
      /\ mpl_ticket \in Nat /\ mpl_ticket < TICKETS
      /\ \A d \in Cpu : mplc_ticket[d] \in Nat /\ mplc_ticket[d] < TICKETS
  BY MPLockAssumption DEF MplTypeOK
<1>3. mpl_users = IF mpl_ticket + k < TICKETS THEN mpl_ticket + k
                  ELSE mpl_ticket + k - TICKETS
  <2> DEFINE u == mpl_ticket + k
  <2>1. u \in Nat /\ u < TICKETS + TICKETS
    BY <1>1, <1>2
  <2>2. mpl_users = u % TICKETS
    BY Zenon DEF MpTickets
  <2> HIDE DEF u
  <2>3. mpl_users = IF u < TICKETS THEN u ELSE u - TICKETS
    BY <2>1, <2>2, Remainder, Zenon
  <2> QED
    BY <1>1, <1>2, <2>3 DEF u
<1>4. \A d \in Cpu : Ahead(d) = IF mplc_ticket[d] < mpl_ticket
                                THEN mplc_ticket[d] + TICKETS - mpl_ticket
                                ELSE mplc_ticket[d] - mpl_ticket
  BY <1>2, Distance, Zenon DEF Ahead
<1>5. \A d \in Cpu : mplc_ticket'[d] = IF d = c THEN mpl_users ELSE mplc_ticket[d]
  BY DEF MplTypeOK
<1>6. \A d \in Cpu : Ahead(d)' = IF mplc_ticket'[d] < mpl_ticket
                                THEN mplc_ticket'[d] + TICKETS - mpl_ticket
                                ELSE mplc_ticket'[d] - mpl_ticket
  <2> TAKE d \in Cpu
  <2> DEFINE a == mplc_ticket'[d]
  <2>1. a \in Nat /\ a < TICKETS /\ mpl_ticket \in Nat /\ mpl_ticket < TICKETS
    BY <1>2, <1>5
  <2>2. Ahead(d)' = (a + TICKETS - mpl_ticket) % TICKETS
    BY Zenon DEF Ahead
  <2> HIDE DEF a
  <2>3. Ahead(d)' = IF a < mpl_ticket THEN a + TICKETS - mpl_ticket ELSE a - mpl_ticket
    BY <2>1, <2>2, Distance, Zenon
  <2> QED
    BY <2>3, Zenon DEF a
<1>7. \A d \in Active : d \in Cpu /\ d # c /\ Ahead(d) < k
  BY DEF Active, MpTickets
<1>8. mpl_users' = (mpl_ticket' + Cardinality(Active')) % TICKETS
  <2> DEFINE u == mpl_users + 1
             v == mpl_ticket + (k + 1)
  <2>1. /\ u \in Nat /\ u < TICKETS + TICKETS
        /\ v \in Nat /\ v < TICKETS + TICKETS
    BY <1>1, <1>2
  <2>2. (IF u < TICKETS THEN u ELSE u - TICKETS) = IF v < TICKETS THEN v ELSE v - TICKETS
    BY <1>1, <1>2, <1>3
  <2>3. mpl_users' = u % TICKETS /\ mpl_ticket' + Cardinality(Active') = v
    BY <1>1, Zenon
  <2> HIDE DEF u, v
  <2>4. u % TICKETS = v % TICKETS
    BY <2>1, <2>2, Remainder, Zenon
  <2> QED
    BY <2>3, <2>4, Zenon
<1> HIDE DEF k
<1>9. \A d \in Active' : Ahead(d)' < Cardinality(Active')
  <2>1. ASSUME NEW d \in Active PROVE Ahead(d)' < k + 1
    <3>1. Ahead(d)' = Ahead(d)
      BY <1>4, <1>5, <1>6, <1>7
    <3> QED
      BY <1>1, <1>2, <1>4, <1>7, <3>1
  <2>2. Ahead(c)' = k
    BY <1>1, <1>2, <1>3, <1>5, <1>6
  <2> QED
    BY <1>1, <2>1, <2>2
<1>10. ASSUME NEW d \in Active PROVE mplc_ticket[d] # mpl_users
  BY <1>1, <1>2, <1>3, <1>4, <1>7
<1>11. \A d, e \in Active' : mplc_ticket'[d] = mplc_ticket'[e] => d = e
  BY <1>5, <1>7, <1>10 DEF MpTickets
<1> QED
  BY <1>8, <1>9, <1>11, Zenon DEF MpTickets

\* The processor whose ticket is being served passes the lock on.
LEMMA PassTicket ==
    ASSUME MplTypeOK, MpTickets, NEW c \in Active, mplc_ticket[c] = mpl_ticket,
           mpl_ticket' = (mpl_ticket + 1) % TICKETS,
           UNCHANGED <<mpl_users, mplc_ticket>>, Active' = Active \ {c}
    PROVE  MpTickets'
<1> DEFINE k == Cardinality(Active)
<1>1. k \in Nat /\ k <= TICKETS /\ Cardinality(Active') = k - 1 /\ k # 0
  BY ActiveBound, FS_RemoveElement, FS_EmptySet
<1>2. /\ TICKETS \in Nat \ {0} /\ mpl_users \in Nat /\ mpl_users < TICKETS
      /\ mpl_ticket \in Nat /\ mpl_ticket < TICKETS
      /\ \A d \in Cpu : mplc_ticket[d] \in Nat /\ mplc_ticket[d] < TICKETS
  BY MPLockAssumption DEF MplTypeOK
<1>3. mpl_users = IF mpl_ticket + k < TICKETS THEN mpl_ticket + k
                  ELSE mpl_ticket + k - TICKETS
  <2> DEFINE u == mpl_ticket + k
  <2>1. u \in Nat /\ u < TICKETS + TICKETS
    BY <1>1, <1>2
  <2>2. mpl_users = u % TICKETS
    BY Zenon DEF MpTickets
  <2> HIDE DEF u
  <2>3. mpl_users = IF u < TICKETS THEN u ELSE u - TICKETS
    BY <2>1, <2>2, Remainder, Zenon
  <2> QED
    BY <1>1, <1>2, <2>3 DEF u
<1>4. mpl_ticket' = IF mpl_ticket + 1 < TICKETS THEN mpl_ticket + 1 ELSE 0
  <2> DEFINE u == mpl_ticket + 1
  <2>1. u \in Nat /\ u < TICKETS + TICKETS
    BY <1>2
  <2>2. (IF u < TICKETS THEN u ELSE u - TICKETS) = IF u < TICKETS THEN u ELSE 0
    BY <1>2
  <2>3. mpl_ticket' = u % TICKETS
    BY Zenon
  <2> HIDE DEF u
  <2>4. mpl_ticket' = IF u < TICKETS THEN u ELSE 0
    BY <2>1, <2>2, <2>3, Remainder, Zenon
  <2> QED
    BY <2>4, Zenon DEF u
<1>5. \A d \in Cpu : Ahead(d) = IF mplc_ticket[d] < mpl_ticket
                                THEN mplc_ticket[d] + TICKETS - mpl_ticket
                                ELSE mplc_ticket[d] - mpl_ticket
  BY <1>2, Distance, Zenon DEF Ahead
<1>6. \A d \in Cpu : Ahead(d)' = IF mplc_ticket[d] < mpl_ticket'
                                THEN mplc_ticket[d] + TICKETS - mpl_ticket'
                                ELSE mplc_ticket[d] - mpl_ticket'
  <2>1. mpl_ticket' \in Nat /\ mpl_ticket' < TICKETS
    BY <1>2, <1>4
  <2>2. \A d \in Cpu : Ahead(d)' = (mplc_ticket[d] + TICKETS - mpl_ticket') % TICKETS
    BY Zenon DEF Ahead
  <2> QED
    BY <1>2, <2>1, <2>2, Distance, ZenonT(40)
<1>7. \A d \in Active : d \in Cpu /\ Ahead(d) < k
  BY DEF Active, MpTickets
<1>8. \A d \in Active' : d \in Active /\ mplc_ticket[d] # mpl_ticket
  BY DEF MpTickets
<1>9. mpl_users' = (mpl_ticket' + Cardinality(Active')) % TICKETS
  <2> DEFINE v == mpl_ticket' + (k - 1)
  <2>1. v \in Nat /\ v < TICKETS + TICKETS
    BY <1>1, <1>2, <1>4
  <2>2. mpl_users = IF v < TICKETS THEN v ELSE v - TICKETS
    BY <1>1, <1>2, <1>3, <1>4
  <2>3. mpl_users' = mpl_users /\ mpl_ticket' + Cardinality(Active') = v
    BY <1>1, Zenon
  <2> HIDE DEF v
  <2> QED
    BY <2>1, <2>2, <2>3, Remainder, Zenon
<1> HIDE DEF k
<1>10. ASSUME NEW d \in Active' PROVE Ahead(d)' < Cardinality(Active')
  <2>1. d \in Active /\ d \in Cpu /\ mplc_ticket[d] # mpl_ticket
    BY <1>7, <1>8
  <2>2. Ahead(d)' = Ahead(d) - 1
    BY <1>2, <1>4, <1>5, <1>6, <2>1
  <2> QED
    BY <1>1, <1>2, <1>5, <1>7, <2>1, <2>2
<1>11. \A d, e \in Active' : mplc_ticket'[d] = mplc_ticket'[e] => d = e
  BY <1>8 DEF MpTickets
<1> QED
  BY <1>9, <1>10, <1>11, Zenon DEF MpTickets

\* The locks of the contexts of a processor are natural numbers.
LEMMA LocksType == TypeOK => \A c \in Cpu : Locks(c) \in [Level -> Nat]
  BY DEF TypeOK, Locks, PerContext

\* A context that has the lock or spins for it makes its processor active.
LEMMA LocksActive ==
    ASSUME MpInv, NEW c \in Cpu, NEW l \in Level, n[c][l] > 0 \/ pc[c][l] = "mp"
    PROVE  c \in Active
<1>1. Locks(c) \in [Level -> Nat] /\ n[c][l] \in Nat
  BY LocksType DEF MpInv, TypeOK, PerContext
<1>2. Locks(c)[l] > 0
  BY <1>1 DEF Locks
<1>3. Locks(c)[l] <= mplc_depth[c] /\ mplc_depth[c] \in Nat
  BY <1>1, SumNat, LevelFinite DEF MpInv, DepthIsNesting
<1> QED
  BY <1>1, <1>2, <1>3 DEF Active

\* Only one processor has the lock, and it has the ticket being served.
LEMMA OneHolder == MpInv => KernelLockExclusive
  BY LocksActive DEF MpInv, KernelLockExclusive, MpHolder, MpTickets

\* When the process context of a processor runs, all its locks are that one's.
LEMMA AloneDepth ==
    ASSUME MpInv, NEW c \in Cpu, Runs(c, 0), pc[c][0] # "mp"
    PROVE  mplc_depth[c] = n[c][0]
<1> DEFINE f == Locks(c)
           z == [l \in Level |-> 0]
<1>1. f \in [Level -> Nat] /\ z \in [Level -> Nat] /\ 0 \in Level
  BY LocksType, LevelFinite DEF MpInv
<1>2. \A l \in Level : l # 0 => f[l] = 0
  <2>1. \A l \in Level : l # 0 => l > 0
    BY LevelNat
  <2>2. \A l \in Level : l # 0 => pc[c][l] = "off"
    BY <2>1 DEF Runs
  <2> QED
    BY <2>2 DEF MpInv, MpControl, Locks
<1>3. SumFunction(z) = 0
  BY <1>1, SumZero, LevelFinite
<1>4. SumFunction(f) = SumFunction(z) + f[0] - z[0]
  <2> HIDE DEF f
  <2>1. \A y \in Level : y # 0 => f[y] = z[y]
    BY <1>2
  <2> HIDE DEF z
  <2> QED
    BY <1>1, <2>1, SumChange, LevelFinite
<1>5. f[0] = n[c][0] /\ n[c][0] \in Nat
  BY <1>1 DEF Locks, MpInv, TypeOK, PerContext
<1> QED
  BY <1>3, <1>4, <1>5, LevelFinite DEF MpInv, DepthIsNesting

\* A context moves to w, has v locks from then on, and the depth of its
\* processor becomes e, which changes as the locks and the spinning do.
Spins(w) == IF w = "mp" THEN 1 ELSE 0
LockStep(c, l, w, v, e) ==
    /\ pc' = [pc EXCEPT ![c][l] = w]
    /\ n' = [n EXCEPT ![c][l] = v]
    /\ mplc_depth' = [mplc_depth EXCEPT ![c] = e]
    /\ e + n[c][l] + Spins(pc[c][l]) = mplc_depth[c] + v + Spins(w)

\* Such a step keeps the depth right.
LEMMA DepthStep ==
    ASSUME MpInv, NEW c \in Cpu, NEW l \in Level, NEW w \in Where,
           NEW v \in Nat, NEW e \in Nat, LockStep(c, l, w, v, e)
    PROVE  /\ DepthIsNesting' /\ n' \in PerContext(Nat)
           /\ pc' \in PerContext(Where) /\ mplc_depth' \in [Cpu -> Nat]
           /\ \A a \in Cpu, b \in Level :
                /\ pc'[a][b] = IF a = c /\ b = l THEN w ELSE pc[a][b]
                /\ n'[a][b] = IF a = c /\ b = l THEN v ELSE n[a][b]
           /\ \A a \in Cpu : mplc_depth'[a] = IF a = c THEN e ELSE mplc_depth[a]
<1> USE DEF LockStep, Spins
<1>1. pc \in PerContext(Where) /\ n \in PerContext(Nat) /\ mplc_depth \in [Cpu -> Nat]
  BY DEF MpInv, TypeOK, MutexTypes, MplTypeOK
<1>2. /\ n' \in PerContext(Nat) /\ pc' \in PerContext(Where)
      /\ mplc_depth' \in [Cpu -> Nat]
  BY <1>1 DEF PerContext
<1>3. \A a \in Cpu, b \in Level :
        /\ pc'[a][b] = IF a = c /\ b = l THEN w ELSE pc[a][b]
        /\ n'[a][b] = IF a = c /\ b = l THEN v ELSE n[a][b]
  BY <1>1, PairUpdate DEF PerContext
<1>4. ASSUME NEW a \in Cpu, a # c
      PROVE  mplc_depth'[a] = SumFunction(Locks(a)')
  <2>1. Locks(a)' = Locks(a)
    BY <1>3, <1>4 DEF Locks
  <2>2. mplc_depth'[a] = mplc_depth[a]
    BY <1>1, <1>4
  <2> QED
    BY <2>1, <2>2 DEF MpInv, DepthIsNesting
<1>5. mplc_depth'[c] = SumFunction(Locks(c)')
  <2> DEFINE f == Locks(c)
             g == Locks(c)'
  <2>1. f \in [Level -> Nat]
    BY LocksType DEF MpInv
  <2>2. g \in [Level -> Nat]
    BY <1>2 DEF Locks, PerContext
  <2>3. \A y \in Level : y # l => g[y] = f[y]
    BY <1>3 DEF Locks
  <2>4. g[l] = v + (IF w = "mp" THEN 1 ELSE 0)
        /\ f[l] = n[c][l] + (IF pc[c][l] = "mp" THEN 1 ELSE 0)
    BY <1>3 DEF Locks
  <2>5. mplc_depth[c] = SumFunction(f) /\ mplc_depth'[c] = e
    BY <1>1 DEF MpInv, DepthIsNesting
  <2> HIDE DEF f, g
  <2>6. SumFunction(g) = SumFunction(f) + g[l] - f[l]
    BY <2>1, <2>2, <2>3, SumChange, LevelFinite
  <2>7. n[c][l] \in Nat /\ mplc_depth[c] \in Nat
    BY <1>1 DEF PerContext
  <2>8. SumFunction(g) = e
    BY <2>4, <2>5, <2>6, <2>7
  <2> QED
    BY <2>5, <2>8 DEF g
<1> QED
  BY <1>1, <1>2, <1>3, <1>4, <1>5, Zenon DEF DepthIsNesting

\* A step that takes no lock and releases none.
LEMMA MpUntouched ==
    ASSUME MpInv, MutexTypes', NEW c \in Cpu, NEW l \in Level, NEW w \in Where,
           UNCHANGED <<mplVars, n, count>>, pc' = [pc EXCEPT ![c][l] = w],
           pc[c][l] # "mp", w \notin {"mp", "acquire", "handover"},
           w = "off" => n[c][l] = 0
    PROVE  MpInv'
<1>1. n \in PerContext(Nat) /\ mplc_depth \in [Cpu -> Nat]
  BY DEF MpInv, TypeOK, MplTypeOK
<1>2. PICK v \in Nat, e \in Nat : v = n[c][l] /\ e = mplc_depth[c]
  BY <1>1 DEF PerContext
<1>3. n' = [n EXCEPT ![c][l] = v] /\ mplc_depth' = [mplc_depth EXCEPT ![c] = e]
  BY <1>1, <1>2 DEF PerContext, mplVars
<1>4. LockStep(c, l, w, v, e)
  BY <1>1, <1>2, <1>3 DEF LockStep, Spins
<1>5. DepthIsNesting'
  BY <1>4, DepthStep, Zenon
<1>6. \A a \in Cpu, b \in Level : pc'[a][b] = IF a = c /\ b = l THEN w ELSE pc[a][b]
  BY <1>4, DepthStep
<1>7. TypeOK'
  BY DEF MpInv, TypeOK, MplTypeOK, mplVars
<1>8. MpTickets' /\ MpHolder'
  BY DEF MpInv, MpTickets, MpHolder, Ahead, Active, mplVars
<1>9. MpControl'
  BY <1>6, LevelFinite DEF MpInv, MpControl
<1> QED
  BY <1>5, <1>7, <1>8, <1>9 DEF MpInv

-----------------------------------------------------------------------------
\* Takes one more lock: __mp_lock() up to its spin, by itself or in a round of
\* __mp_acquire_count().
LEMMA LockTaken ==
    ASSUME MpInv, MutexTypes', NEW c \in Cpu, NEW l \in Level,
           Go(c, l, "mp"), mp_lock(c), UNCHANGED n, pc[c][l] \in {"run", "acquire"},
           count' \in [Cpu -> Nat], \A d \in Cpu : (d = c /\ l = 0) \/ count'[d] = count[d]
    PROVE  MpInv'
<1>1. /\ n \in PerContext(Nat) /\ mplc_depth \in [Cpu -> Nat]
      /\ mplc_ticket \in [Cpu -> 0 .. TICKETS - 1]
      /\ mpl_users \in 0 .. TICKETS - 1 /\ mpl_ticket \in 0 .. TICKETS - 1
  BY DEF MpInv, TypeOK, MplTypeOK
<1>2. PICK v \in Nat, e \in Nat : v = n[c][l] /\ e = mplc_depth[c] + 1
  BY <1>1 DEF PerContext
<1>3. n' = [n EXCEPT ![c][l] = v] /\ mplc_depth' = [mplc_depth EXCEPT ![c] = e]
  BY <1>1, <1>2 DEF PerContext, mp_lock
<1>4. LockStep(c, l, "mp", v, e)
  <2>1. Spins(pc[c][l]) = 0 /\ Spins("mp") = 1
    BY DEF Spins
  <2>2. e + n[c][l] + Spins(pc[c][l]) = mplc_depth[c] + v + Spins("mp")
    BY <1>1, <1>2, <2>1 DEF PerContext
  <2> QED
    BY <1>3, <2>2, Zenon DEF LockStep, Go
<1>w. "mp" \in Where
  BY DEF Where
<1>5. DepthIsNesting'
  BY <1>4, <1>w, DepthStep, Zenon
<1>6. /\ \A a \in Cpu, b \in Level :
            pc'[a][b] = IF a = c /\ b = l THEN "mp" ELSE pc[a][b]
      /\ \A a \in Cpu : mplc_depth'[a] = IF a = c THEN mplc_depth[c] + 1 ELSE mplc_depth[a]
  BY <1>2, <1>4, <1>w, DepthStep
<1>7. MpTickets' /\ MpHolder' /\ mplc_ticket' \in [Cpu -> 0 .. TICKETS - 1]
      /\ mpl_users' \in 0 .. TICKETS - 1
  <2>1. CASE mplc_depth[c] = 0
    <3>1. c \notin Active /\ Active' = Active \cup {c}
      BY <1>1, <1>6, <2>1 DEF Active
    <3>2. /\ mplc_ticket' = [mplc_ticket EXCEPT ![c] = mpl_users]
          /\ mpl_users' = (mpl_users + 1) % TICKETS
          /\ mpl_ticket' = mpl_ticket
      BY <2>1 DEF mp_lock
    <3>3. MplTypeOK /\ MpTickets
      BY DEF MpInv, TypeOK
    <3>4. MpTickets'
      BY <3>1, <3>2, <3>3, TakeTicket, Zenon
    <3>5. mplc_ticket' \in [Cpu -> 0 .. TICKETS - 1] /\ mpl_users' \in 0 .. TICKETS - 1
      BY <1>1, <3>2, MPLockAssumption
    <3>6. \A d \in Cpu, k \in Level : n[d][k] > 0 => d # c
      BY <3>1, LocksActive
    <3>7. MpHolder'
      BY <1>1, <3>2, <3>6 DEF MpInv, MpHolder
    <3> QED
      BY <3>4, <3>5, <3>7
  <2>2. CASE mplc_depth[c] # 0
    <3>1. UNCHANGED <<mplc_ticket, mpl_users, mpl_ticket>>
      BY <2>2 DEF mp_lock
    <3>2. Active' = Active
      BY <1>1, <1>6, <2>2 DEF Active
    <3> QED
      BY <1>1, <3>1, <3>2 DEF MpInv, MpTickets, MpHolder, Ahead
  <2> QED
    BY <2>1, <2>2
<1>8. TypeOK'
  <2>1. n' \in PerContext(Nat) /\ mplc_depth' \in [Cpu -> Nat]
    BY <1>1, <1>2, <1>3
  <2>2. mpl_ticket' = mpl_ticket
    BY DEF mp_lock
  <2> QED
    BY <1>1, <1>7, <2>1, <2>2 DEF TypeOK, MplTypeOK
<1>9. MpControl'
  BY <1>6, LevelFinite DEF MpInv, MpControl
<1> QED
  BY <1>5, <1>7, <1>8, <1>9, Zenon DEF MpInv

\* The spin of __mp_lock() ends.
LEMMA MpGrantedStep ==
    ASSUME MpInv, MutexTypes', NEW c \in Cpu, NEW l \in Level, MpGranted(c, l)
    PROVE  MpInv'
<1>1. /\ n \in PerContext(Nat) /\ mplc_depth \in [Cpu -> Nat]
      /\ count \in [Cpu -> Nat] /\ MplTypeOK
  BY DEF MpInv, TypeOK, MplTypeOK
<1>2. PICK v \in Nat, e \in Nat, w \in {"acquire", "run"} :
        /\ v = n[c][l] + 1 /\ e = mplc_depth[c]
        /\ w = IF l = 0 /\ count[c] > 0 THEN "acquire" ELSE "run"
  BY <1>1 DEF PerContext
<1>3. /\ n' = [n EXCEPT ![c][l] = v] /\ mplc_depth' = [mplc_depth EXCEPT ![c] = e]
      /\ pc' = [pc EXCEPT ![c][l] = w] /\ pc[c][l] = "mp"
      /\ UNCHANGED <<mplVars, count>> /\ mplc_ticket[c] = mpl_ticket
  BY <1>1, <1>2 DEF PerContext, MpGranted, mplVars, Go, At, mp_lock_turn
<1>4. LockStep(c, l, w, v, e)
  BY <1>1, <1>2, <1>3 DEF LockStep, Spins, PerContext
<1>w. w \in Where
  BY DEF Where
<1>5. DepthIsNesting'
  BY <1>4, <1>w, DepthStep, Zenon
<1>6. \A a \in Cpu, b \in Level :
        /\ pc'[a][b] = IF a = c /\ b = l THEN w ELSE pc[a][b]
        /\ n'[a][b] = IF a = c /\ b = l THEN v ELSE n[a][b]
  BY <1>4, <1>w, DepthStep
<1>7. n' \in PerContext(Nat)
  BY <1>4, <1>w, DepthStep
<1>8. TypeOK'
  BY <1>1, <1>3, <1>7 DEF TypeOK, MplTypeOK, mplVars
<1>9. MpTickets'
  BY <1>3 DEF MpInv, MpTickets, Ahead, Active, mplVars
<1>10. MpHolder'
  BY <1>3, <1>6 DEF MpInv, MpHolder, mplVars
<1>11. MpControl'
  BY <1>2, <1>3, <1>6, LevelFinite DEF MpInv, MpControl
<1> QED
  BY <1>5, <1>8, <1>9, <1>10, <1>11, Zenon DEF MpInv

\* Releases locks, all or some: the depth says whether the ticket is passed on.
Released(c, l, w, v, e) ==
    /\ LockStep(c, l, w, v, e)
    /\ n[c][l] > 0 /\ v < n[c][l] + 1
    /\ pc[c][l] # "mp" /\ w \in {"run", "acquire", "handover"}
    /\ mpl_ticket' = IF e = 0 THEN (mpl_ticket + 1) % TICKETS ELSE mpl_ticket
    /\ UNCHANGED <<mpl_users, mplc_ticket>>
    /\ count' \in [Cpu -> Nat]
    /\ \A d \in Cpu : (d = c /\ l = 0) \/ count'[d] = count[d]
    /\ l = 0 /\ w = "acquire" => count'[c] > 0
    /\ l = 0 /\ w = "handover" => v = 1

\* Steps that release locks preserve the invariant.
LEMMA LockReleased ==
    ASSUME MpInv, MutexTypes', NEW c \in Cpu, NEW l \in Level, NEW w \in Where,
           NEW v \in Nat, NEW e \in Nat, Released(c, l, w, v, e)
    PROVE  MpInv'
<1>1. /\ n \in PerContext(Nat) /\ mplc_depth \in [Cpu -> Nat]
      /\ count \in [Cpu -> Nat] /\ MplTypeOK /\ MpTickets
  BY DEF MpInv, TypeOK, MplTypeOK
<1>2. LockStep(c, l, w, v, e)
  BY DEF Released
<1>3. DepthIsNesting'
  BY <1>2, DepthStep, Zenon
<1>4. /\ \A a \in Cpu, b \in Level :
            /\ pc'[a][b] = IF a = c /\ b = l THEN w ELSE pc[a][b]
            /\ n'[a][b] = IF a = c /\ b = l THEN v ELSE n[a][b]
      /\ \A a \in Cpu : mplc_depth'[a] = IF a = c THEN e ELSE mplc_depth[a]
  BY <1>2, DepthStep
<1>5. n' \in PerContext(Nat) /\ mplc_depth' \in [Cpu -> Nat]
  BY <1>2, DepthStep
<1>6. mplc_ticket[c] = mpl_ticket /\ c \in Active
  BY LocksActive DEF Released, MpInv, MpHolder
<1>7. MpTickets' /\ MpHolder' /\ mpl_ticket' \in 0 .. TICKETS - 1
  <2>1. CASE e = 0
    <3>1. /\ mpl_ticket' = (mpl_ticket + 1) % TICKETS
          /\ UNCHANGED <<mpl_users, mplc_ticket>>
      BY <2>1 DEF Released
    <3>2. Active' = Active \ {c}
      BY <1>1, <1>4, <2>1 DEF Active
    <3>3. MpTickets'
      BY <1>1, <1>6, <3>1, <3>2, PassTicket, Zenon
    <3>4. mpl_ticket' \in 0 .. TICKETS - 1
      BY <1>1, <3>1, MPLockAssumption DEF MplTypeOK
    <3>5. \A d \in Cpu, k \in Level : n[d][k] > 0 => d = c
      BY OneHolder DEF KernelLockExclusive, Released
    <3>6. \A k \in Level : n'[c][k] = 0
      <4> DEFINE g == Locks(c)'
      <4>1. g \in [Level -> Nat]
        BY <1>5 DEF Locks, PerContext
      <4>2. \A k \in Level : g[k] >= n'[c][k] /\ n'[c][k] \in Nat
        BY <1>5 DEF Locks, PerContext
      <4>3. SumFunction(g) = 0
        BY <1>3, <1>4, <2>1 DEF DepthIsNesting
      <4> HIDE DEF g
      <4>4. \A k \in Level : g[k] <= SumFunction(g)
        BY <4>1, SumNat, LevelFinite
      <4> QED
        BY <4>1, <4>2, <4>3, <4>4
    <3>7. \A d \in Cpu, k \in Level : ~(n'[d][k] > 0)
      BY <1>4, <1>5, <3>5, <3>6 DEF PerContext
    <3> QED
      BY <3>3, <3>4, <3>7, Zenon DEF MpHolder
  <2>2. CASE e # 0
    <3>1. UNCHANGED <<mplc_ticket, mpl_users, mpl_ticket>>
      BY <2>2 DEF Released
    <3>2. Active' = Active
      BY <1>1, <1>4, <1>6, <2>2 DEF Active
    <3>3. MpTickets' /\ mpl_ticket' \in 0 .. TICKETS - 1
      BY <1>1, <3>1, <3>2 DEF MpTickets, Ahead, MplTypeOK
    <3>4. MpHolder'
      BY <1>1, <1>4, <1>6, <3>1 DEF MpInv, MpHolder, PerContext
    <3> QED
      BY <3>3, <3>4
  <2> QED
    BY <2>1, <2>2
<1>8. TypeOK'
  BY <1>1, <1>5, <1>7 DEF TypeOK, MplTypeOK, Released
<1>9. MpControl'
  BY <1>4, LevelFinite DEF MpInv, MpControl, Released
<1> QED
  BY <1>3, <1>7, <1>8, <1>9, Zenon DEF MpInv

\* The operations that release the lock do just that.
LEMMA MpReleaseStep ==
    ASSUME MpInv, MutexTypes', NEW c \in Cpu, NEW l \in Level,
           \/ MpUnlock(c, l) \/ ReleaseAll(c) \/ ReleaseAllButOne(c) \/ HandOver(c)
    PROVE  MpInv'
<1>1. /\ n \in PerContext(Nat) /\ mplc_depth \in [Cpu -> Nat]
      /\ count \in [Cpu -> Nat] /\ pc \in PerContext(Where) /\ 0 \in Level
  BY LevelFinite DEF MpInv, TypeOK, MplTypeOK, MutexTypes
<1>2. \A k \in Level : n[c][k] \in Nat /\ n[c][k] <= mplc_depth[c] /\ mplc_depth[c] \in Nat
  <2> TAKE k \in Level
  <2>1. Locks(c) \in [Level -> Nat] /\ n[c][k] \in Nat
    BY <1>1, LocksType DEF MpInv, PerContext
  <2>2. Locks(c)[k] <= mplc_depth[c]
    BY <1>1, <2>1, SumNat, LevelFinite DEF MpInv, DepthIsNesting
  <2> QED
    BY <1>1, <2>1, <2>2 DEF Locks
<1> USE DEF Released, LockStep, Spins, Go, At
<1>3. CASE MpUnlock(c, l)
  <2>1. PICK v \in Nat, e \in Nat : v = n[c][l] - 1 /\ e = mplc_depth[c] - 1
    BY <1>2, <1>3 DEF MpUnlock
  <2>2. pc' = [pc EXCEPT ![c][l] = "run"] /\ pc[c][l] = "run" /\ "run" \in Where
    BY <1>1, <1>3 DEF MpUnlock, PerContext, Where
  <2>3. mpl_ticket' = IF e = 0 THEN (mpl_ticket + 1) % TICKETS ELSE mpl_ticket
    BY <1>1, <1>3, <2>1 DEF MpUnlock, mp_unlock
  <2>4. LockStep(c, l, "run", v, e)
    <3>1. n' = [n EXCEPT ![c][l] = v] /\ mplc_depth' = [mplc_depth EXCEPT ![c] = e]
      BY <1>1, <1>3, <2>1 DEF MpUnlock, mp_unlock
    <3>2. e + n[c][l] = mplc_depth[c] + v /\ Spins("run") = 0
      BY <1>2, <2>1
    <3>3. e + n[c][l] + Spins(pc[c][l]) = mplc_depth[c] + v + Spins("run")
      BY <1>2, <2>1, <2>2, <3>2
    <3> QED
      BY <2>2, <3>1, <3>3
  <2>5. Released(c, l, "run", v, e)
    <3> HIDE DEF LockStep
    <3> QED
      BY <1>1, <1>2, <1>3, <2>1, <2>2, <2>3, <2>4 DEF MpUnlock, mp_unlock
  <2> HIDE DEF Released
  <2> QED
    BY <2>2, <2>5, LockReleased
<1>4. CASE ReleaseAll(c)
  <2>1. mplc_depth[c] = n[c][0]
    BY <1>4, AloneDepth DEF ReleaseAll
  <2>2. Released(c, 0, "acquire", 0, 0)
    BY <1>1, <1>2, <1>4, <2>1 DEF ReleaseAll, mp_release_all, mp_lock_held
  <2>3. "acquire" \in Where
    BY DEF Where
  <2> HIDE DEF Released
  <2> QED
    BY <1>1, <2>2, <2>3, LockReleased
<1>5. CASE ReleaseAllButOne(c)
  <2>1. mplc_depth[c] = n[c][0]
    BY <1>5, AloneDepth DEF ReleaseAllButOne
  <2>2. Released(c, 0, "handover", 1, 1)
    BY <1>1, <1>2, <1>5, <2>1 DEF ReleaseAllButOne, mp_release_all_but_one, mp_lock_held
  <2>3. "handover" \in Where
    BY DEF Where
  <2> HIDE DEF Released
  <2> QED
    BY <1>1, <2>2, <2>3, LockReleased
<1>6. CASE HandOver(c)
  <2>1. mplc_depth[c] = 1 /\ n[c][0] = 1
    BY <1>6, AloneDepth DEF HandOver, MpInv, MpControl
  <2>2. Released(c, 0, "acquire", 0, 0)
    BY <1>1, <1>2, <1>6, <2>1 DEF HandOver, mp_unlock
  <2>3. "acquire" \in Where
    BY DEF Where
  <2> HIDE DEF Released
  <2> QED
    BY <1>1, <2>2, <2>3, LockReleased
<1> QED
  BY <1>3, <1>4, <1>5, <1>6

\* The operations that take the lock.
LEMMA MpTakeStep ==
    ASSUME MpInv, MutexTypes', NEW c \in Cpu, NEW l \in Level,
           MpLock(c, l) \/ AcquireCount(c)
    PROVE  MpInv'
<1>1. count \in [Cpu -> Nat] /\ 0 \in Level
  BY LevelFinite DEF MpInv, TypeOK
<1>2. CASE MpLock(c, l)
  BY <1>1, <1>2, LockTaken DEF MpLock, At
<1>3. CASE AcquireCount(c)
  <2>1. /\ Go(c, 0, "mp") /\ mp_lock(c) /\ UNCHANGED n /\ pc[c][0] = "acquire"
        /\ count' = [count EXCEPT ![c] = count[c] - 1] /\ count[c] > 0
    BY <1>1, <1>3 DEF AcquireCount, At, MpInv, MpControl
  <2>2. count' \in [Cpu -> Nat] /\ \A d \in Cpu : d = c \/ count'[d] = count[d]
    BY <1>1, <2>1
  <2> QED
    BY <1>1, <2>1, <2>2, LockTaken
<1> QED
  BY <1>2, <1>3

\* The mutex and the interrupts leave the __mp_lock alone.
LEMMA MpOtherStep ==
    ASSUME MpInv, MutexTypes', NEW c \in Cpu, NEW l \in Level,
           \/ Interrupt(c, l) \/ IntrReturn(c, l) \/ MtxEnter(c, l)
           \/ MtxTicket(c, l) \/ MtxTurn(c, l) \/ MtxStore(c, l)
           \/ TryLoad(c, l) \/ TryCas(c, l)
           \/ MtxClear(c, l) \/ MtxPass(c, l) \/ MtxSplx(c, l)
    PROVE  MpInv'
<1>1. \E w \in Where :
        /\ UNCHANGED <<mplVars, n, count>> /\ pc' = [pc EXCEPT ![c][l] = w]
        /\ pc[c][l] # "mp" /\ w \notin {"mp", "acquire", "handover"}
        /\ w = "off" => n[c][l] = 0
  BY DEF Interrupt, IntrReturn, MtxEnter, MtxTicket, MtxTurn, MtxStore, TryLoad,
     TryCas, MtxClear, MtxPass, MtxSplx, At, Go, Where
<1> QED
  BY <1>1, MpUntouched

\* The invariant holds initially: no locks, and their sum is 0.
LEMMA InitMpInv == Init => MpInv
<1> SUFFICES ASSUME Init PROVE MpInv
  OBVIOUS
<1>1. TypeOK
  BY InitMutexInv, MPLockAssumption
     DEF Init, TypeOK, MutexInv, MplTypeOK, MplInit, PerContext
<1>2. \A c \in Cpu, l \in Level :
        n[c][l] = 0 /\ pc[c][l] = (IF l = 0 THEN "run" ELSE "off") /\ mplc_depth[c] = 0
  BY DEF Init, MplInit
<1>3. Active = {} /\ Cardinality(Active) = 0
  <2>1. \A c \in Cpu : mplc_depth[c] = 0
    BY <1>2, LevelFinite
  <2>2. Active = {}
    BY <2>1 DEF Active
  <2> QED
    BY <2>2, FS_EmptySet
<1>4. MpTickets
  BY <1>3, MPLockAssumption DEF MpTickets, Init, MplInit
<1>5. MpHolder /\ MpControl
  BY <1>2, LevelFinite DEF MpHolder, MpControl
<1>6. DepthIsNesting
  <2>1. \A c \in Cpu : Locks(c) = [l \in Level |-> 0]
    BY <1>2 DEF Locks
  <2>2. SumFunction([l \in Level |-> 0]) = 0
    BY SumZero, LevelFinite
  <2> QED
    BY <1>2, <2>1, <2>2, LevelFinite DEF DepthIsNesting
<1> QED
  BY <1>1, <1>4, <1>5, <1>6 DEF MpInv

\* Every step preserves it, with that of the mutex for the types.
LEMMA NextMpInv == MutexInv /\ MpInv /\ [Next]_vars => MpInv'
<1> SUFFICES ASSUME MutexInv, MpInv, [Next]_vars PROVE MpInv'
  OBVIOUS
<1>1. MutexTypes'
  BY NextMutexInv DEF MutexInv
<1>2. CASE UNCHANGED vars
  BY <1>2 DEF vars, mplVars, mtxVars, ctxVars, MpInv, TypeOK, MutexTypes, MplTypeOK,
     MpTickets, Ahead, Active, MpHolder, MpControl, DepthIsNesting, Locks
<1>3. CASE Next
  <2>1. PICK c \in Cpu :
          \/ ReleaseAll(c) \/ ReleaseAllButOne(c)
          \/ \E l \in Level :
              \/ Work(c, l)
              \/ Interrupt(c, l) \/ IntrReturn(c, l)
              \/ MpLock(c, l) \/ MpUnlock(c, l)
              \/ MtxEnter(c, l)
    BY <1>3 DEF Next
  <2>2. CASE ReleaseAll(c) \/ ReleaseAllButOne(c)
    BY <1>1, <2>2, MpReleaseStep, LevelFinite
  <2>3. ASSUME NEW l \in Level,
               \/ Work(c, l) \/ Interrupt(c, l) \/ IntrReturn(c, l)
               \/ MpLock(c, l) \/ MpUnlock(c, l) \/ MtxEnter(c, l)
        PROVE  MpInv'
    <3>1. CASE MpUnlock(c, l) \/ HandOver(c)
      BY <1>1, <3>1, MpReleaseStep
    <3>2. CASE MpLock(c, l) \/ AcquireCount(c)
      BY <1>1, <3>2, MpTakeStep
    <3>3. CASE MpGranted(c, l)
      BY <1>1, <3>3, MpGrantedStep
    <3>4. CASE \/ Interrupt(c, l) \/ IntrReturn(c, l) \/ MtxEnter(c, l)
               \/ MtxTicket(c, l) \/ MtxTurn(c, l) \/ MtxStore(c, l)
               \/ TryLoad(c, l) \/ TryCas(c, l)
               \/ MtxClear(c, l) \/ MtxPass(c, l) \/ MtxSplx(c, l)
      BY <1>1, <3>4, MpOtherStep
    <3> QED
      BY <2>3, <3>1, <3>2, <3>3, <3>4 DEF Work
  <2> QED
    BY <2>1, <2>2, <2>3
<1> QED
  BY <1>2, <1>3

-----------------------------------------------------------------------------
\* MpInv is an invariant, for all values of the constants.
THEOREM MpInvariance == Spec => []MpInv
<1>1. Init => MutexInv /\ MpInv
  BY InitMutexInv, InitMpInv
<1>2. MutexInv /\ MpInv /\ [Next]_vars => (MutexInv /\ MpInv)'
  BY NextMutexInv, NextMpInv
<1> QED
  BY <1>1, <1>2, PTL DEF Spec

\* Every variable keeps its type, among them the depth, which no operation on
\* the __mp_lock takes below 0, and the tickets, which wrap.
THEOREM TypesCorrect == Spec => []TypeOK
<1>1. MpInv => TypeOK
  BY DEF MpInv
<1> QED
  BY <1>1, MpInvariance, PTL

\* The __mp_lock excludes, and its depth is what the contexts of the processor
\* have locked: with any number of processors up to the range of the tickets,
\* which wrap, any levels of interrupts and any nesting.
THEOREM KernelLock == Spec => []KernelLockSound
<1>1. MpInv => KernelLockSound
  BY OneHolder DEF MpInv, KernelLockSound
<1> QED
  BY <1>1, MpInvariance, PTL

=============================================================================
