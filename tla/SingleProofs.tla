---------------------------- MODULE SingleProofs ----------------------------
(***************************************************************************)
(* Proofs about Single, for any threads and workloads: StopSurvives holds   *)
(* always; TypeOK, CountExact and SingleSound hold as long as every step is *)
(* Orderly, which in Tame workloads every step is.                          *)
(*                                                                         *)
(* The actions are brought down to a few kinds of steps first: a thread     *)
(* begins to single-thread (SetStep), it checks in (CheckStep) or goes on   *)
(* (GoStep); the others are kinds of their own.  Each part of the inductive *)
(* invariant SingleInv is then shown to be kept by each kind.               *)
(***************************************************************************)
EXTENDS Single, FiniteSetTheorems, TLAPS

-----------------------------------------------------------------------------
\* A leaving thread that was suspended, was released and has not run yet is
\* passed over when another begins to single-thread: it is not counted, and
\* checks in all the same.
PassesOver ==
    /\ ps_single = NoThread /\ ps_single' # NoThread
    /\ \E q \in ps_threads \ {ps_single'} : q \in wexit /\ At(q, "suspended")

\* A step is no such thing, nor a SIGCONT in the midst of single threading.
Orderly == ~PassesOver /\ ~work.cont

\* In these workloads every step is orderly: no SIGCONT interferes, and either
\* every execve() succeeds or no thread leaves by itself.
Leaving == {"exit", "threxit", "core"}
Tame(w) ==
    /\ ~w.cont
    /\ \/ \A t \in Thread : w.calls[t] \cap {"execfail", "execonce"} = {}
       \/ \A t \in Thread : w.calls[t] \cap Leaving = {}

-----------------------------------------------------------------------------
Stat == {"SRUN", "SSLEEP", "SSTOP", "SDEAD"}
Chan == {"event", "count", "threads", "none"}
Where == {"user", "kernel", "catch", "cursig", "slept", "suspended", "wait", "alone", "exit",
          "thrdeath", "unlinked", "dead"}
SetModes == {"unwind", "exit", "suspend"}
Purposes == {"user", "deep", "exec", "exit", "threxit", "core"}

Types ==
    /\ ps_threads \subseteq Thread /\ ps_single \in Thread \cup {NoThread}
    /\ ps_mode \in {"none", "unwind", "exit"}
    /\ p_stat \in [Thread -> Stat] /\ p_wchan \in [Thread -> Chan]
    /\ p_sintr \in [Thread -> BOOLEAN]
    /\ suspsingle \subseteq Thread /\ suspsig \subseteq Thread
    /\ wexit \subseteq Thread /\ stopsig \subseteq Thread
    /\ pc \in [Thread -> Where]
    /\ mode \in [Thread -> SetModes \cup {"none"}]
    /\ cont \in [Thread -> Purposes \cup {"none"}]

\* What t sleeps on goes with where it is.
Sleep(t) ==
    /\ p_stat[t] \in {"SRUN", "SDEAD"} => p_wchan[t] = "none"
    /\ p_stat[t] = "SSLEEP" =>
          \/ pc[t] \in {"catch", "cursig"} /\ p_wchan[t] = "event" /\ p_sintr[t]
          \/ pc[t] = "slept" /\ p_wchan[t] = "event"
          \/ pc[t] = "wait" /\ p_wchan[t] = "count"
          \/ pc[t] = "thrdeath" /\ p_wchan[t] = "threads"
    /\ p_stat[t] = "SSTOP" =>
          /\ pc[t] \in {"user", "kernel", "catch", "cursig", "suspended"}
          /\ \/ p_wchan[t] = "none"
             \/ p_wchan[t] = "event" /\ pc[t] \in {"catch", "cursig"} /\ p_sintr[t]
    /\ p_sintr[t] => pc[t] \in {"catch", "cursig"}

\* Where t is goes with what it is doing.
Place(t) ==
    /\ pc[t] = "dead" <=> p_stat[t] = "SDEAD"
    /\ pc[t] \in {"dead", "thrdeath", "unlinked"} <=> t \notin ps_threads
    /\ pc[t] = "thrdeath" => t = Main
    /\ pc[t] = "unlinked" => t # Main
    /\ pc[t] = "suspended" <=> cont[t] # "none"
    /\ pc[t] = "exit" \/ cont[t] \in Leaving => t \in wexit
    /\ t \in wexit => \/ pc[t] \in {"wait", "alone", "exit", "thrdeath", "unlinked", "dead"}
                      \/ cont[t] \in Leaving
    /\ pc[t] \in {"wait", "alone"} =>
          /\ ps_single = t
          /\ mode[t] # "none" /\ (mode[t] = "suspend" => t \in wexit)
          /\ mode[t] = "unwind" => t \notin wexit

Control == \A t \in Thread : Sleep(t) /\ Place(t)

\* The thread that single-threads is in single_thread_set() or alone, or it and
\* all others have come to the end of exit1().
Owner ==
    \/ ps_single = NoThread
    \/ pc[ps_single] \in {"wait", "alone"}
    \/ \A q \in ps_threads : pc[q] = "exit"

\* The flags of the process are those that its owner has asked for.
Flags ==
    /\ ps_single = NoThread => ps_mode = "none"
    /\ ps_single # NoThread /\ pc[ps_single] \in {"wait", "alone"} =>
          ps_mode = IF mode[ps_single] = "suspend" THEN "none" ELSE mode[ps_single]

\* Who is stopped is stopped by a signal or by single threading.
Halt(q) ==
    /\ p_stat[q] = "SSTOP" => q \in suspsig \/ (ps_single # NoThread /\ ps_mode # "exit")
    /\ q \in suspsig => p_stat[q] = "SSTOP" \/ ps_mode = "exit" \/ pc[q] = "exit"
    /\ pc[q] \in {"suspended", "wait", "alone"} => q \notin suspsig

Stopped == \A q \in ps_threads : Halt(q)

\* The others have P_SUSPSINGLE until they exit.
Marked ==
    ps_single # NoThread =>
        \A q \in ps_threads \ {ps_single} : pc[q] = "exit" \/ q \in suspsingle

\* The threads that have not come to the end of exit1(), those of them that
\* are still to check in, and those that may be.
Remaining == {q \in ps_threads \ {ps_single} : pc[q] # "exit"}
Due == {q \in Remaining : p_stat[q] # "SSTOP"}
Held == {q \in Remaining : p_stat[q] # "SSTOP" \/ q \in suspsig}

Waited == ps_single # NoThread /\ pc[ps_single] = "wait"

Counts ==
    /\ Waited => ps_singlecount \in Cardinality(Due) .. Cardinality(Held)
    /\ Waited /\ ps_mode = "exit" => ps_singlecount = Cardinality(Remaining)
    /\ ~Waited => ps_singlecount = 0

\* The main thread is counted until it has waited for the others.
Living == {t \in Thread : t = Main \/ pc[t] # "dead"}
RefCount == ps_refcnt = Cardinality(Living)

Safe == Owner /\ Flags /\ Stopped /\ Marked /\ SingleAlone

Static == tried \subseteq Thread /\ work \in Workloads

SingleInv == Types /\ Control /\ Safe /\ Counts /\ RefCount /\ Static

-----------------------------------------------------------------------------
(***************************************************************************)
(* The kinds of steps.                                                      *)
(***************************************************************************)

\* t, which runs and may, begins to single-thread.
SetStep(t, m, wx) ==
    /\ p_stat[t] = "SRUN" /\ ps_single \in {NoThread, t} /\ t \in ps_threads
    /\ \/ pc[t] \in {"user", "kernel", "suspended"}
       \/ pc[t] = "alone" /\ m = "exit" /\ mode[t] # "exit"
    /\ m = "suspend" => t \in wx
    /\ m = "unwind" => t \notin wx
    /\ SingleThreadSet(t, m)
    /\ wexit \subseteq wx /\ wx \subseteq wexit \cup {t} /\ wexit' = wx

\* t, for which another waits, checks in.
CheckStep(t, then, wx) ==
    /\ p_stat[t] = "SRUN" /\ ps_single # NoThread /\ t \in ps_threads
    /\ pc[t] \in {"user", "kernel", "catch", "suspended"}
    /\ t \in wx <=> then \in Leaving
    /\ wexit \subseteq wx /\ wx \subseteq wexit \cup {t}
    /\ CheckIn(t, then, wx)
    /\ p_sintr' = [p_sintr EXCEPT ![t] = FALSE]
    /\ UNCHANGED <<procVars, suspsingle, suspsig, stopsig, mode>>

\* t goes on, in the kernel, in user mode or in exit1().
GoStep(t, where, wx) ==
    /\ p_stat[t] = "SRUN" /\ t \in ps_threads
    /\ pc[t] \in {"user", "kernel", "catch", "cursig", "slept", "suspended", "alone"}
    /\ \/ where \in {"user", "kernel"} /\ pc[t] # "alone" /\ t \notin wexit /\ wx = wexit
       \/ /\ where = "exit" /\ wx = wexit \cup {t}
          /\ ~Others(t) \/ LastThread(t)
          /\ pc[t] = "alone" => LastThread(t) \/ mode[t] = "exit"
    /\ Goto(t, where) /\ wexit' = wx
    /\ p_sintr' = [p_sintr EXCEPT ![t] = FALSE]
    /\ UNCHANGED <<singleVars, p_stat, p_wchan, procVars, suspsingle, suspsig, stopsig, mode>>

Steps ==
    \/ \E t \in Thread, m \in SetModes, wx \in SUBSET Thread : SetStep(t, m, wx)
    \/ \E t \in Thread, then \in Purposes, wx \in SUBSET Thread : CheckStep(t, then, wx)
    \/ \E t \in Thread, where \in Where, wx \in SUBSET Thread : GoStep(t, where, wx)
    \/ \E t \in Thread :
          \/ SingleThreadWait(t) \/ ExecReturns(t) \/ ExitUnlink(t) \/ ThreadDies(t) \/ MainDies(t)
          \/ ProcStop(t) \/ TsleepCatch(t) \/ Tsleep(t) \/ fork1(t) \/ Event(t)
    \/ SIGSTOP \/ SIGCONT

\* Where t is when it runs: p_sintr of a thread that is not in an interruptible
\* sleep is clear, which the kinds of steps write as an assignment.
LEMMA RunningFacts ==
    ASSUME Types, Control, NEW t \in Thread
    PROVE  /\ pc[t] \in {"user", "kernel"} => t \notin wexit
           /\ pc[t] \notin {"dead", "thrdeath", "unlinked"} => t \in ps_threads
           /\ pc[t] \notin {"catch", "cursig"} => p_sintr = [p_sintr EXCEPT ![t] = FALSE]
           /\ pc[t] \in {"wait", "alone"} => ps_single = t
           /\ pc[t] = "suspended" => /\ cont[t] \in Purposes
                                     /\ t \in wexit <=> cont[t] \in Leaving
<1>1. Sleep(t) /\ Place(t)
  BY DEF Control
<1>2. pc[t] \notin {"catch", "cursig"} => p_sintr[t] = FALSE
  BY <1>1, Zenon DEF Sleep, Types
<1>3. pc[t] \notin {"catch", "cursig"} => p_sintr = [p_sintr EXCEPT ![t] = FALSE]
  BY <1>2 DEF Types
<1>4. pc[t] \in {"user", "kernel"} => t \notin wexit
  BY <1>1 DEF Place, Leaving
<1>5. pc[t] = "suspended" => /\ cont[t] \in Purposes
                             /\ t \in wexit <=> cont[t] \in Leaving
  BY <1>1 DEF Place, Leaving, Types, Purposes
<1> QED
  BY <1>1, <1>3, <1>4, <1>5 DEF Place, Types

Rest == <<procVars, suspsingle, suspsig, stopsig, mode>>

\* single_thread_check() of t, when another single-threads
LEMMA CheckOtherStep ==
    ASSUME NEW t \in Thread, NEW deep \in BOOLEAN, NEW then \in Purposes,
           NEW wx \in SUBSET Thread,
           p_stat[t] = "SRUN", ps_single # NoThread, t \in ps_threads,
           pc[t] \in {"user", "kernel", "catch", "suspended"},
           t \in wx <=> then \in Leaving, wexit \subseteq wx, wx \subseteq wexit \cup {t},
           deep => then \notin Leaving,
           CheckOther(t, deep, then, wx), p_sintr' = [p_sintr EXCEPT ![t] = FALSE],
           UNCHANGED Rest
    PROVE  CheckStep(t, then, wx) \/ GoStep(t, "kernel", wx)
<1>1. CASE Unwinds(deep)
  <2>1. t \notin wexit /\ wx = wexit
    BY <1>1 DEF Unwinds
  <2> QED
    BY <1>1, <2>1 DEF CheckOther, GoStep, Rest
<1>2. CASE ~Unwinds(deep)
  BY <1>2 DEF CheckOther, CheckStep, Rest
<1> QED
  BY <1>1, <1>2

\* ... or nobody does.
LEMMA CheckSteps ==
    ASSUME NEW t \in Thread, NEW deep \in BOOLEAN, NEW then \in Purposes,
           NEW wx \in SUBSET Thread, NEW here \in {"user", "kernel", "exit"},
           p_stat[t] = "SRUN", t \in ps_threads,
           pc[t] \in {"user", "kernel", "catch", "suspended"},
           t \in wx <=> then \in Leaving, wexit \subseteq wx, wx \subseteq wexit \cup {t},
           deep => then \notin Leaving, here = "exit" <=> then \in Leaving,
           Check(t, deep, then, wx, here), p_sintr' = [p_sintr EXCEPT ![t] = FALSE],
           UNCHANGED Rest
    PROVE  \E where \in Where : CheckStep(t, then, wx) \/ GoStep(t, where, wx)
<1> "kernel" \in Where /\ here \in Where
  BY DEF Where
<1>1. CASE Others(t)
  BY <1>1, CheckOtherStep DEF Check, Others
<1>2. CASE ~Others(t)
  <2>1. here # "exit" => t \notin wexit /\ wx = wexit
    OBVIOUS
  <2>2. here = "exit" => wx = wexit \cup {t}
    OBVIOUS
  <2>3. GoStep(t, here, wx)
    BY <1>2, <2>1, <2>2 DEF Check, GoStep, Rest
  <2> QED
    BY <2>3
<1> QED
  BY <1>1, <1>2

\* A single_thread_set() is one kind of step or another.
LEMMA SetSteps ==
    ASSUME NEW t \in Thread, NEW m \in SetModes, NEW deep \in BOOLEAN, NEW then \in Purposes,
           NEW wx \in SUBSET Thread,
           p_stat[t] = "SRUN", t \in ps_threads, pc[t] \in {"user", "kernel"},
           t \in wx <=> then \in Leaving, wexit \subseteq wx, wx \subseteq wexit \cup {t},
           deep => then \notin Leaving,
           m = "suspend" => t \in wx, m = "unwind" => t \notin wx,
           p_sintr = [p_sintr EXCEPT ![t] = FALSE],
           Set(t, m, deep, then, wx)
    PROVE  Steps
<1>1. CASE Others(t) /\ CheckOther(t, deep, then, wx) /\ UNCHANGED Untouched
  <2>1. UNCHANGED Rest /\ p_sintr' = [p_sintr EXCEPT ![t] = FALSE]
    BY <1>1 DEF Untouched, Rest
  <2>2. CheckStep(t, then, wx) \/ GoStep(t, "kernel", wx)
    BY <1>1, <2>1, CheckOtherStep DEF Others
  <2> QED
    BY <2>2 DEF Steps, Where
<1>2. CASE ~Others(t) /\ SingleThreadSet(t, m) /\ wexit' = wx
  <2>1. SetStep(t, m, wx)
    BY <1>2 DEF SetStep, Others
  <2> QED
    BY <2>1 DEF Steps
<1> QED
  BY <1>1, <1>2 DEF Set

\* Exiting at once is a step to exit1().
LEMMA ExitStep ==
    ASSUME NEW t \in Thread, p_stat[t] = "SRUN", t \in ps_threads, wexit \in SUBSET Thread,
           pc[t] \in {"user", "kernel", "alone"},
           p_sintr = [p_sintr EXCEPT ![t] = FALSE],
           LastThread(t) \/ (~Others(t) /\ pc[t] = "alone" /\ mode[t] = "exit"),
           ExitAtOnce(t)
    PROVE  Steps
<1>1. GoStep(t, "exit", wexit \cup {t})
  BY DEF ExitAtOnce, GoStep, Untouched
<1> QED
  BY <1>1 DEF Steps, Where

\* Every action is one kind of step or another.
LEMMA NextSteps ==
    ASSUME Types, Control, Next
    PROVE  Steps
<1> wexit \in SUBSET Thread
  BY DEF Types
<1>1. ASSUME NEW t \in Thread, execve(t)
      PROVE  Steps
  BY <1>1, RunningFacts, SetSteps DEF execve, At, SetModes, Purposes, Leaving
<1>2. ASSUME NEW t \in Thread, ExecCommits(t)
      PROVE  Steps
  <2>1. SetStep(t, "exit", wexit)
    BY <1>2, RunningFacts DEF ExecCommits, SetStep, At
  <2> QED
    BY <2>1 DEF Steps, SetModes
<1>3. ASSUME NEW t \in Thread, ExitProcess(t)
      PROVE  Steps
  <2>1. CASE LastThread(t)
    BY <1>3, <2>1, RunningFacts, ExitStep DEF ExitProcess, At
  <2>2. CASE ~LastThread(t)
    <3>1. Set(t, "exit", FALSE, "exit", wexit \cup {t}) /\ At(t, "user")
      BY <1>3, <2>2 DEF ExitProcess
    <3>2. /\ p_stat[t] = "SRUN" /\ pc[t] \in {"user", "kernel"} /\ t \in ps_threads
          /\ p_sintr = [p_sintr EXCEPT ![t] = FALSE]
      BY <3>1, RunningFacts DEF At
    <3>3. PICK wx \in SUBSET Thread : wx = wexit \cup {t}
      OBVIOUS
    <3>4. Set(t, "exit", FALSE, "exit", wx)
      BY <3>1, <3>3
    <3>5. "exit" \in SetModes /\ "exit" \in Purposes /\ "exit" \in Leaving
      BY DEF SetModes, Purposes, Leaving
    <3> QED
      BY <3>2, <3>3, <3>4, <3>5, SetSteps
  <2> QED
    BY <2>1, <2>2
<1>4. ASSUME NEW t \in Thread, ExitThread(t)
      PROVE  Steps
  <2>1. CASE LastThread(t)
    BY <1>4, <2>1, RunningFacts, ExitStep DEF ExitThread, At
  <2>2. CASE ~LastThread(t)
    <3>1. /\ Check(t, FALSE, "threxit", wexit \cup {t}, "exit")
          /\ UNCHANGED Untouched /\ At(t, "user")
      BY <1>4, <2>2 DEF ExitThread
    <3>2. p_sintr' = [p_sintr EXCEPT ![t] = FALSE] /\ UNCHANGED Rest
      BY <3>1, RunningFacts DEF Untouched, Rest, At
    <3>3. \E where \in Where : \/ CheckStep(t, "threxit", wexit \cup {t})
                               \/ GoStep(t, where, wexit \cup {t})
      BY <3>1, <3>2, RunningFacts, CheckSteps DEF At, Purposes, Leaving
    <3> QED
      BY <3>3 DEF Steps, Purposes
  <2> QED
    BY <2>1, <2>2
<1>5. ASSUME NEW t \in Thread, SigExit(t)
      PROVE  Steps
  <2>1. CASE LastThread(t)
    BY <1>5, <2>1, RunningFacts, ExitStep DEF SigExit, At, AtUserret
  <2>2. CASE ~LastThread(t)
    <3>1. Set(t, "suspend", FALSE, "core", wexit \cup {t}) /\ AtUserret(t)
      BY <1>5, <2>2 DEF SigExit
    <3>2. /\ p_stat[t] = "SRUN" /\ pc[t] \in {"user", "kernel"} /\ t \in ps_threads
          /\ p_sintr = [p_sintr EXCEPT ![t] = FALSE]
      BY <3>1, RunningFacts DEF At, AtUserret
    <3>3. PICK wx \in SUBSET Thread : wx = wexit \cup {t}
      OBVIOUS
    <3>4. Set(t, "suspend", FALSE, "core", wx)
      BY <3>1, <3>3
    <3>5. "suspend" \in SetModes /\ "core" \in Purposes /\ "core" \in Leaving
      BY DEF SetModes, Purposes, Leaving
    <3> QED
      BY <3>2, <3>3, <3>4, <3>5, SetSteps
  <2> QED
    BY <2>1, <2>2
<1>6. ASSUME NEW t \in Thread, CoreDumped(t)
      PROVE  Steps
  <2>1. CASE LastThread(t)
    BY <1>6, <2>1, RunningFacts, ExitStep DEF CoreDumped, At
  <2>2. CASE ~LastThread(t)
    <3>1. SetStep(t, "exit", wexit)
      BY <1>6, <2>2, RunningFacts DEF CoreDumped, SetStep, At
    <3> QED
      BY <3>1 DEF Steps, SetModes
  <2> QED
    BY <2>1, <2>2
<1>7. ASSUME NEW t \in Thread, ExitAlone(t)
      PROVE  Steps
  BY <1>7, RunningFacts, ExitStep DEF ExitAlone, At, Others
<1>8. ASSUME NEW t \in Thread, Resume(t)
      PROVE  Steps
  <2>0. /\ At(t, "suspended") /\ cont[t] \in Purposes /\ t \in ps_threads
        /\ t \in wexit <=> cont[t] \in Leaving
        /\ p_sintr = [p_sintr EXCEPT ![t] = FALSE]
    BY <1>8, RunningFacts DEF Resume, At
  <2>1. CASE /\ ps_single # NoThread
             /\ CheckOther(t, cont[t] \in {"deep", "exec"}, cont[t], wexit)
             /\ UNCHANGED Untouched
    <3> DEFINE deep == cont[t] \in {"deep", "exec"}
    <3>1. UNCHANGED Rest /\ p_sintr' = [p_sintr EXCEPT ![t] = FALSE]
      BY <2>0, <2>1 DEF Untouched, Rest
    <3>2. deep \in BOOLEAN /\ (deep => cont[t] \notin Leaving)
      BY DEF Leaving
    <3>3. CheckOther(t, deep, cont[t], wexit)
      BY <2>1
    <3> HIDE DEF deep
    <3>4. CheckStep(t, cont[t], wexit) \/ GoStep(t, "kernel", wexit)
      BY <2>0, <2>1, <3>1, <3>2, <3>3, CheckOtherStep DEF At
    <3> QED
      BY <2>0, <3>4 DEF Steps, Where
  <2>2. CASE /\ ps_single = NoThread /\ cont[t] \in {"exec", "exit", "core"}
             /\ SingleThreadSet(t, [exec |-> "unwind", exit |-> "exit",
                                    core |-> "suspend"][cont[t]])
             /\ UNCHANGED wexit
    <3> DEFINE m == [exec |-> "unwind", exit |-> "exit", core |-> "suspend"][cont[t]]
    <3>1. /\ m \in SetModes
          /\ (m = "suspend" => cont[t] = "core") /\ (m = "unwind" => cont[t] = "exec")
      BY <2>2 DEF SetModes
    <3> HIDE DEF m
    <3>2. SetStep(t, m, wexit)
      BY <2>0, <2>2, <3>1 DEF SetStep, At, Leaving, m
    <3> QED
      BY <3>1, <3>2 DEF Steps
  <2>3. CASE /\ ps_single = NoThread /\ cont[t] \in {"threxit", "user", "deep"}
             /\ Continue(t, IF cont[t] = "threxit" THEN "exit" ELSE "kernel")
             /\ UNCHANGED Untouched
    <3> DEFINE where == IF cont[t] = "threxit" THEN "exit" ELSE "kernel"
    <3>1. GoStep(t, where, wexit)
      BY <2>0, <2>3 DEF GoStep, Continue, Untouched, At, Others, Leaving
    <3> QED
      BY <3>1 DEF Steps, Where
  <2> QED
    BY <1>8, <2>1, <2>2, <2>3 DEF Resume
<1>9. ASSUME NEW t \in Thread, userret(t)
      PROVE  Steps
  <2>0. /\ p_stat[t] = "SRUN" /\ pc[t] \in {"user", "kernel"} /\ t \in ps_threads
        /\ t \notin wexit /\ p_sintr' = [p_sintr EXCEPT ![t] = FALSE] /\ UNCHANGED Rest
    BY <1>9, RunningFacts DEF userret, AtUserret, At, Untouched, Rest
  <2>1. CASE t \in suspsingle
    <3>1. Check(t, FALSE, "user", wexit, "user")
      BY <1>9, <2>1 DEF userret
    <3>2. \E where \in Where : CheckStep(t, "user", wexit) \/ GoStep(t, where, wexit)
      BY <2>0, <3>1, CheckSteps DEF Purposes, Leaving
    <3> QED
      BY <3>2 DEF Steps, Purposes
  <2>2. CASE t \notin suspsingle
    <3>1. GoStep(t, "user", wexit)
      BY <1>9, <2>0, <2>2 DEF userret, GoStep, Continue, Rest
    <3> QED
      BY <3>1 DEF Steps, Where
  <2> QED
    BY <2>1, <2>2
<1>10. ASSUME NEW t \in Thread, SleepFinishSignal(t)
       PROVE  Steps
  <2>1. /\ p_stat[t] = "SRUN" /\ pc[t] = "catch" /\ t \in ps_threads /\ t \notin wexit
        /\ p_sintr' = [p_sintr EXCEPT ![t] = FALSE] /\ UNCHANGED Rest
        /\ Check(t, TRUE, "deep", wexit, "kernel")
    BY <1>10, RunningFacts DEF SleepFinishSignal, At, Rest, Control, Place, Leaving
  <2>2. \E where \in Where : CheckStep(t, "deep", wexit) \/ GoStep(t, where, wexit)
    BY <2>1, CheckSteps DEF Purposes, Leaving
  <2> QED
    BY <2>2 DEF Steps, Purposes
<1>11. ASSUME NEW t \in Thread, SleepFinishStopped(t) \/ Slept(t)
       PROVE  Steps
  <2>1. GoStep(t, "kernel", wexit)
    BY <1>11, RunningFacts DEF SleepFinishStopped, Slept, Continue, GoStep, At, Untouched, Control,
                               Place, Leaving
  <2> QED
    BY <2>1 DEF Steps, Where
<1> HIDE DEF Steps
<1>12. ASSUME NEW t \in Thread, Runs(t) \/ Call(t) \/ Event(t)
       PROVE  Steps
  <2>1. ASSUME \/ SingleThreadWait(t) \/ ExecReturns(t) \/ ExitUnlink(t) \/ ThreadDies(t) \/ MainDies(t)
               \/ ProcStop(t) \/ TsleepCatch(t) \/ Tsleep(t) \/ fork1(t) \/ Event(t)
        PROVE  Steps
    BY <2>1 DEF Steps
  <2> QED
    BY <1>1, <1>2, <1>3, <1>4, <1>5, <1>6, <1>7, <1>8, <1>9, <1>10, <1>11, <1>12, <2>1, Zenon
       DEF Runs, Call
<1>13. SIGSTOP \/ SIGCONT => Steps
  BY DEF Steps
<1> QED
  BY <1>12, <1>13, Zenon DEF Next

-----------------------------------------------------------------------------
(***************************************************************************)
(* Types and Control, which every step keeps.                               *)
(***************************************************************************)

\* What single_thread_set() does to t itself and to the others
SetSelf(t, m) ==
    /\ pc'[t] = IF Counted(t, m) = {} THEN "alone" ELSE "wait"
    /\ p_stat'[t] = IF Counted(t, m) = {} THEN "SRUN" ELSE "SSLEEP"
    /\ p_wchan'[t] = IF Counted(t, m) = {} THEN p_wchan[t] ELSE "count"
    /\ Counted(t, m) = {} => p_sintr'[t] = p_sintr[t]
    /\ Counted(t, m) # {} => p_sintr'[t] = FALSE
    /\ mode'[t] = m /\ cont'[t] = "none"

SetOther(t, m, q) ==
    /\ pc'[q] = pc[q] /\ mode'[q] = mode[q] /\ cont'[q] = cont[q] /\ p_sintr'[q] = p_sintr[q]
    /\ p_stat'[q] = IF q \in Frozen(t, m) THEN "SSTOP"
                    ELSE IF q \in Roused(t, m) THEN "SRUN" ELSE p_stat[q]
    /\ p_wchan'[q] = IF q \in Roused(t, m) THEN "none" ELSE p_wchan[q]

\* single_thread_set(), thread by thread
LEMMA SetEffect ==
    ASSUME Types, NEW t \in Thread, NEW m \in SetModes, NEW wx \in SUBSET Thread,
           SetStep(t, m, wx)
    PROVE  /\ SetSelf(t, m)
           /\ \A q \in Thread \ {t} : SetOther(t, m, q)
           /\ p_stat' \in [Thread -> Stat] /\ p_wchan' \in [Thread -> Chan]
           /\ p_sintr' \in [Thread -> BOOLEAN]
<1>1. t \notin Frozen(t, m) /\ t \notin Roused(t, m)
  BY DEF Frozen, Roused, Counted
<1>2. Counted(t, m) = {} => Roused(t, m) = {}
  BY DEF Roused
<1>3. SetStat(t, m) \in [Thread -> Stat]
  BY DEF SetStat, Types, Stat
<1>4. SetStat(t, m)[t] = "SRUN"
  BY <1>1 DEF SetStat, SetStep
<1>5. /\ SingleThreadSet(t, m) /\ p_stat[t] = "SRUN"
  BY DEF SetStep
<1>6. Unsleep(Roused(t, m)) \in [Thread -> Chan]
  BY DEF Unsleep, Types, Chan
<1>7. p_stat' \in [Thread -> Stat]
  BY <1>3, <1>5 DEF SingleThreadSet, Stat
<1>8. p_wchan' \in [Thread -> Chan]
  BY <1>5, <1>6 DEF SingleThreadSet, Chan, Types
<1>9. p_sintr' \in [Thread -> BOOLEAN]
  BY <1>5 DEF SingleThreadSet, Types
<1>10. SetSelf(t, m)
  <2>1. mode'[t] = m /\ cont'[t] = "none"
    BY <1>5 DEF SingleThreadSet, Types
  <2>2. CASE Counted(t, m) = {}
    BY <1>4, <1>5, <2>1, <2>2 DEF SingleThreadSet, SetSelf, Types
  <2>3. CASE Counted(t, m) # {}
    <3>1. pc'[t] = "wait" /\ p_stat'[t] = "SSLEEP"
      BY <1>3, <1>5, <2>3 DEF SingleThreadSet, Types
    <3>2. p_wchan'[t] = "count"
      BY <1>5, <1>6, <2>3 DEF SingleThreadSet
    <3>3. p_sintr' = [p_sintr EXCEPT ![t] = FALSE]
      BY <1>5, <2>3 DEF SingleThreadSet
    <3>4. p_sintr'[t] = FALSE
      BY <3>3 DEF Types
    <3> QED
      BY <2>1, <2>3, <3>1, <3>2, <3>4 DEF SetSelf
  <2> QED
    BY <2>2, <2>3
<1>11. ASSUME NEW q \in Thread \ {t}
       PROVE  SetOther(t, m, q)
  <2>1. SetStat(t, m)[q] = IF q \in Frozen(t, m) THEN "SSTOP"
                           ELSE IF q \in Roused(t, m) THEN "SRUN" ELSE p_stat[q]
    BY DEF SetStat
  <2>2. Unsleep(Roused(t, m))[q] = IF q \in Roused(t, m) THEN "none" ELSE p_wchan[q]
    BY DEF Unsleep
  <2>3. /\ pc'[q] = pc[q] /\ mode'[q] = mode[q] /\ cont'[q] = cont[q]
        /\ p_sintr'[q] = p_sintr[q]
    BY <1>5 DEF SingleThreadSet, Types
  <2>4. p_stat'[q] = SetStat(t, m)[q]
    BY <1>3, <1>5 DEF SingleThreadSet
  <2>5. p_wchan'[q] = Unsleep(Roused(t, m))[q]
    BY <1>2, <1>5, <1>6, <2>2 DEF SingleThreadSet
  <2> QED
    BY <2>1, <2>2, <2>3, <2>4, <2>5 DEF SetOther
<1> QED
  BY <1>7, <1>8, <1>9, <1>10, <1>11

\* The end of exit1(), thread by thread
DiesOther(q) ==
    \/ p_stat'[q] = p_stat[q] /\ p_wchan'[q] = p_wchan[q]
    \/ p_wchan[q] = "threads" /\ p_stat'[q] = "SRUN" /\ p_wchan'[q] = "none"

LEMMA DiesEffect ==
    ASSUME Types, Control, NEW t \in Thread, ThreadDies(t)
    PROVE  /\ p_stat' \in [Thread -> Stat] /\ p_wchan' \in [Thread -> Chan]
           /\ \A q \in Thread \ {t} : DiesOther(q) /\ pc'[q] = pc[q]
           /\ pc'[t] = "dead" /\ p_stat'[t] = "SDEAD" /\ p_wchan'[t] = "none"
           /\ t \notin ps_threads /\ t # Main /\ pc[t] = "unlinked"
<1>0. p_wchan[t] = "none" /\ t \notin ps_threads /\ t # Main /\ pc[t] = "unlinked"
  BY DEF ThreadDies, At, Control, Sleep, Place
<1>1. PICK W : /\ W \subseteq Sleepers("threads")
               /\ p_stat' = [SetRunnable(p_stat, W) EXCEPT ![t] = "SDEAD"]
               /\ p_wchan' = Unsleep(W)
  BY DEF ThreadDies
<1>2. SetRunnable(p_stat, W) \in [Thread -> Stat]
  BY DEF SetRunnable, Types, Stat
<1>3. p_stat' \in [Thread -> Stat] /\ p_wchan' \in [Thread -> Chan] /\ p_stat'[t] = "SDEAD"
  BY <1>1, <1>2 DEF Unsleep, Types, Stat, Chan
<1>4. p_wchan'[t] = "none"
  BY <1>0, <1>1 DEF Unsleep
<1>5. pc' = [pc EXCEPT ![t] = "dead"]
  BY DEF ThreadDies
<1>6. ASSUME NEW q \in Thread \ {t}
      PROVE  DiesOther(q)
  <2>1. p_stat'[q] = SetRunnable(p_stat, W)[q] /\ p_wchan'[q] = Unsleep(W)[q]
    BY <1>1, <1>2
  <2>2. CASE q \in W
    BY <1>1, <2>1, <2>2 DEF SetRunnable, Unsleep, Sleepers, DiesOther
  <2>3. CASE q \notin W
    BY <2>1, <2>3 DEF SetRunnable, Unsleep, DiesOther
  <2> QED
    BY <2>2, <2>3
<1> QED
  BY <1>0, <1>3, <1>4, <1>5, <1>6 DEF Types

\* The variables keep their types.
LEMMA TypesKept ==
    ASSUME Types, Control, Steps
    PROVE  Types'
<1> USE DEF Types, Stat, Chan, Where, SetModes, Purposes, procVars, singleVars, statVars,
            flagVars, codeVars
<1>1. ASSUME NEW t \in Thread, NEW m \in SetModes, NEW wx \in SUBSET Thread, SetStep(t, m, wx)
      PROVE  Types'
  <2>1. ps_threads' = ps_threads /\ suspsig' = suspsig /\ stopsig' = stopsig /\ wexit' = wx
    BY <1>1 DEF SetStep, SingleThreadSet
  <2>2. ps_single' = t /\ ps_mode' \in {"none", "unwind", "exit"}
    BY <1>1 DEF SetStep, SingleThreadSet
  <2>3. /\ suspsingle' \subseteq Thread
        /\ mode' \in [Thread -> SetModes \cup {"none"}]
        /\ cont' \in [Thread -> Purposes \cup {"none"}]
    BY <1>1 DEF SetStep, SingleThreadSet
  <2>4. pc' \in [Thread -> Where]
    BY <1>1 DEF SetStep, SingleThreadSet
  <2>5. /\ p_stat' \in [Thread -> Stat] /\ p_wchan' \in [Thread -> Chan]
        /\ p_sintr' \in [Thread -> BOOLEAN]
    BY <1>1, SetEffect
  <2> QED
    BY <2>1, <2>2, <2>3, <2>4, <2>5
<1>2. ASSUME NEW t \in Thread, NEW then \in Purposes, NEW wx \in SUBSET Thread,
             CheckStep(t, then, wx)
      PROVE  Types'
  BY <1>2 DEF CheckStep, CheckIn, SetRunnable, Unsleep
<1>3. ASSUME NEW t \in Thread, NEW where \in Where, NEW wx \in SUBSET Thread,
             GoStep(t, where, wx)
      PROVE  Types'
  BY <1>3 DEF GoStep, Goto
<1>4. ASSUME NEW t \in Thread, SingleThreadWait(t)
      PROVE  Types'
  <2>1. UNCHANGED <<procVars, singleVars, flagVars, mode, cont>>
    BY <1>4 DEF SingleThreadWait
  <2>2. CASE ps_singlecount > 0
    <3>1. TSleep(t, "count", FALSE, "wait")
      BY <1>4, <2>2 DEF SingleThreadWait
    <3>2. pc' \in [Thread -> Where] /\ p_stat' \in [Thread -> Stat]
      BY <3>1 DEF TSleep
    <3>3. p_wchan' \in [Thread -> Chan] /\ p_sintr' \in [Thread -> BOOLEAN]
      BY <3>1 DEF TSleep
    <3> QED
      BY <2>1, <3>2, <3>3
  <2>3. CASE ~(ps_singlecount > 0)
    BY <1>4, <2>1, <2>3 DEF SingleThreadWait
  <2> QED
    BY <2>2, <2>3
<1>5. ASSUME NEW t \in Thread, ExecReturns(t)
      PROVE  Types'
  BY <1>5 DEF ExecReturns, SingleThreadClear
<1>6. ASSUME NEW t \in Thread, ExitUnlink(t)
      PROVE  Types'
  BY <1>6 DEF ExitUnlink
<1>6a. ASSUME NEW t \in Thread, ThreadDies(t)
       PROVE  Types'
  <2>1. p_stat' \in [Thread -> Stat] /\ p_wchan' \in [Thread -> Chan]
    BY <1>6a, DiesEffect
  <2>2. pc' \in [Thread -> Where]
    BY <1>6a DEF ThreadDies
  <2> QED
    BY <1>6a, <2>1, <2>2 DEF ThreadDies
<1>7. ASSUME NEW t \in Thread, MainDies(t)
      PROVE  Types'
  BY <1>7 DEF MainDies, TSleep
<1>8. ASSUME NEW t \in Thread, ProcStop(t) \/ Tsleep(t)
      PROVE  Types'
  BY <1>8 DEF ProcStop, Tsleep, TSleep
<1>9. ASSUME NEW t \in Thread, TsleepCatch(t)
      PROVE  Types'
  BY <1>9 DEF TsleepCatch, TSleep
<1>10. ASSUME NEW t \in Thread, fork1(t)
       PROVE  Types'
  BY <1>10 DEF fork1
<1>11. ASSUME NEW t \in Thread, Event(t)
       PROVE  Types'
  BY <1>11 DEF Event
<1>12. ASSUME SIGSTOP \/ SIGCONT
       PROVE  Types'
  BY <1>12 DEF SIGSTOP, SIGCONT
<1> HIDE DEF Types, Stat, Chan, Where, SetModes, Purposes
<1> QED
  BY <1>1, <1>2, <1>3, <1>4, <1>5, <1>6, <1>6a, <1>7, <1>8, <1>9, <1>10, <1>11, <1>12, Zenon DEF Steps

\* So does the relation of where a thread is to what it does.
LEMMA ControlKept ==
    ASSUME Types, Control, Steps
    PROVE  Control'
<1> SUFFICES ASSUME NEW q \in Thread
             PROVE  Sleep(q)' /\ Place(q)'
  BY DEF Control
<1>0. Sleep(q) /\ Place(q)
  BY DEF Control
<1> USE DEF Types, Stat, Chan, Where, SetModes, Purposes, procVars, singleVars, statVars,
            flagVars, codeVars, Leaving
<1>1. ASSUME NEW t \in Thread, NEW m \in SetModes, NEW wx \in SUBSET Thread, SetStep(t, m, wx)
      PROVE  Sleep(q)' /\ Place(q)'
  <2>0. Sleep(t) /\ Place(t)
    BY DEF Control
  <2>1. SetSelf(t, m) /\ (q # t => SetOther(t, m, q))
    BY <1>1, SetEffect
  <2>2. ps_threads' = ps_threads /\ ps_single' = t /\ wexit' = wx
    BY <1>1 DEF SetStep, SingleThreadSet
  <2>3. /\ p_stat[t] = "SRUN" /\ t \in ps_threads /\ ps_single \in {NoThread, t}
        /\ pc[t] \in {"user", "kernel", "suspended", "alone"}
        /\ m = "suspend" => t \in wx
        /\ m = "unwind" => t \notin wx
        /\ wexit \subseteq wx /\ wx \subseteq wexit \cup {t}
    BY <1>1 DEF SetStep
  <2>4. q = t => Sleep(q)' /\ Place(q)'
    BY <1>0, <2>1, <2>2, <2>3 DEF SetSelf, Sleep, Place
  <2>5. /\ q \in Frozen(t, m) => p_stat[q] = "SSLEEP" /\ p_sintr[q]
        /\ q \in Roused(t, m) => \/ p_stat[q] = "SSLEEP" /\ p_sintr[q]
                                 \/ p_stat[q] = "SSTOP"
    BY DEF Frozen, Roused
  <2>6. q # t => Sleep(q)'
    BY <1>0, <2>1, <2>2, <2>5 DEF SetOther, Sleep, Place
  <2>7. q # t => Place(q)'
    BY <1>0, <2>1, <2>2, <2>3, <2>5, SingleAssumption DEF SetOther, Sleep, Place
  <2> QED
    BY <2>4, <2>6, <2>7
<1>2. ASSUME NEW t \in Thread, NEW then \in Purposes, NEW wx \in SUBSET Thread,
             CheckStep(t, then, wx)
      PROVE  Sleep(q)' /\ Place(q)'
  <2>1. Sleep(q)'
    BY <1>0, <1>2 DEF CheckStep, CheckIn, SetRunnable, Unsleep, Sleepers, Sleep, Place
  <2>2. Place(q)'
    BY <1>0, <1>2 DEF CheckStep, CheckIn, SetRunnable, Sleepers, Sleep, Place
  <2> QED
    BY <2>1, <2>2
<1>3. ASSUME NEW t \in Thread, NEW where \in Where, NEW wx \in SUBSET Thread,
             GoStep(t, where, wx)
      PROVE  Sleep(q)' /\ Place(q)'
  <2>1. Sleep(q)'
    BY <1>0, <1>3 DEF GoStep, Goto, Sleep, Place
  <2>2. Place(q)'
    BY <1>0, <1>3 DEF GoStep, Goto, Sleep, Place
  <2> QED
    BY <2>1, <2>2
<1>4. ASSUME NEW t \in Thread, SingleThreadWait(t)
      PROVE  Sleep(q)' /\ Place(q)'
  BY <1>0, <1>4 DEF SingleThreadWait, TSleep, Sleep, Place, At
<1>5. ASSUME NEW t \in Thread, ExecReturns(t)
      PROVE  Sleep(q)' /\ Place(q)'
  <2>0. Sleep(t) /\ Place(t)
    BY DEF Control
  <2>1. Sleep(q)'
    BY <1>0, <1>5 DEF ExecReturns, SingleThreadClear, Released, Sleep, Place, At
  <2>2. Place(q)'
    BY <1>0, <1>5, <2>0 DEF ExecReturns, SingleThreadClear, Released, Sleep, Place, At
  <2> QED
    BY <2>1, <2>2
<1>6. ASSUME NEW t \in Thread, ExitUnlink(t)
      PROVE  Sleep(q)' /\ Place(q)'
  BY <1>0, <1>6 DEF ExitUnlink, Sleep, Place, At
<1>6a. ASSUME NEW t \in Thread, ThreadDies(t)
       PROVE  Sleep(q)' /\ Place(q)'
  <2>1. /\ q # t => DiesOther(q) /\ pc'[q] = pc[q]
        /\ q = t => p_wchan'[q] = "none" /\ pc'[q] = "dead" /\ p_stat'[q] = "SDEAD"
        /\ t \notin ps_threads /\ pc[t] = "unlinked"
    BY <1>6a, DiesEffect
  <2>2. UNCHANGED <<ps_threads, ps_single, p_sintr, wexit, mode, cont>>
    BY <1>6a DEF ThreadDies
  <2>3. Sleep(q)'
    BY <1>0, <2>1, <2>2 DEF DiesOther, Sleep, Place
  <2>4. Place(q)'
    BY <1>0, <2>1, <2>2 DEF DiesOther, Sleep, Place
  <2> QED
    BY <2>3, <2>4
<1>7. ASSUME NEW t \in Thread, MainDies(t)
      PROVE  Sleep(q)' /\ Place(q)'
  BY <1>0, <1>7 DEF MainDies, TSleep, Sleep, Place, At
<1>8. ASSUME NEW t \in Thread, ProcStop(t) \/ Tsleep(t)
      PROVE  Sleep(q)' /\ Place(q)'
  BY <1>0, <1>8 DEF ProcStop, Tsleep, TSleep, Sleep, Place, At, AtUserret
<1>9. ASSUME NEW t \in Thread, TsleepCatch(t)
      PROVE  Sleep(q)' /\ Place(q)'
  BY <1>0, <1>9 DEF TsleepCatch, TSleep, Sleep, Place, At
<1>10. ASSUME NEW t \in Thread, fork1(t)
       PROVE  Sleep(q)' /\ Place(q)'
  BY <1>0, <1>10 DEF fork1, Sleep, Place, At
<1>11. ASSUME NEW t \in Thread, Event(t)
       PROVE  Sleep(q)' /\ Place(q)'
  BY <1>0, <1>11 DEF Event, Sleep, Place
<1>12. ASSUME SIGSTOP \/ SIGCONT
       PROVE  Sleep(q)' /\ Place(q)'
  BY <1>0, <1>12 DEF SIGSTOP, SIGCONT, Sleep, Place
<1> HIDE DEF Types, Stat, Chan, Where, SetModes, Purposes
<1> QED
  BY <1>1, <1>2, <1>3, <1>4, <1>5, <1>6, <1>6a, <1>7, <1>8, <1>9, <1>10, <1>11, <1>12, Zenon DEF Steps

-----------------------------------------------------------------------------
(***************************************************************************)
(* StopSurvives.                                                            *)
(***************************************************************************)

\* Types and Control hold at first.
LEMMA ControlInit ==
    ASSUME Init
    PROVE  Types /\ Control
<1> work.threads \subseteq Thread /\ Main \in work.threads
  BY SingleAssumption DEF Init
<1>1. Types
  BY DEF Init, Types, Stat, Chan, Where, SetModes, Purposes
<1>2. ASSUME NEW t \in Thread
      PROVE  Sleep(t) /\ Place(t)
  <2>1. Sleep(t)
    BY DEF Init, Sleep
  <2>2. Place(t)
    BY DEF Init, Place, Leaving
  <2> QED
    BY <2>1, <2>2
<1> QED
  BY <1>1, <1>2 DEF Control

\* Every step, and stuttering, keeps them.
LEMMA ControlNext ==
    ASSUME Types, Control, [Next]_vars
    PROVE  Types' /\ Control'
<1>1. CASE Next
  BY <1>1, NextSteps, TypesKept, ControlKept
<1>2. CASE UNCHANGED vars
  <2>1. Types'
    BY <1>2 DEF Types, vars, procVars, singleVars, statVars, flagVars, codeVars
  <2>2. ASSUME NEW t \in Thread
        PROVE  (Sleep(t) /\ Place(t))'
    BY <1>2 DEF Control, Sleep, Place, vars, procVars, singleVars, statVars, flagVars, codeVars
  <2> QED
    BY <2>1, <2>2 DEF Control
<1> QED
  BY <1>1, <1>2

\* A step that sets running a thread that SIGSTOP stopped
Resumes(q) == q \in suspsig /\ p_stat[q] = "SSTOP" /\ p_stat'[q] # "SSTOP"

\* is a SIGCONT, or a single_thread_set() for exit.
LEMMA StopStep ==
    ASSUME Types, Control, Steps, NEW q \in ps_threads, Resumes(q)
    PROVE  q \notin suspsig' \/ ps_mode' = "exit"
<1> DEFINE G == q \notin suspsig' \/ ps_mode' = "exit"
<1>0. q \in Thread /\ Sleep(q) /\ Place(q)
  BY DEF Control, Types
<1> USE DEF Types, procVars, singleVars, statVars, flagVars, codeVars
<1>1. ASSUME NEW t \in Thread, NEW m \in SetModes, NEW wx \in SUBSET Thread, SetStep(t, m, wx)
      PROVE  G
  <2>1. q # t
    BY <1>1 DEF SetStep, Resumes
  <2>2. SetOther(t, m, q)
    BY <1>0, <1>1, <2>1, SetEffect
  <2>3. q \in Roused(t, m)
    BY <2>2 DEF SetOther, Resumes
  <2>4. m = "exit"
    BY <2>3 DEF Roused, Counted, Exiting, Resumes
  <2> QED
    BY <1>1, <2>4 DEF SetStep, SingleThreadSet
<1>2. ASSUME NEW t \in Thread, NEW then \in Purposes, NEW wx \in SUBSET Thread,
             CheckStep(t, then, wx)
      PROVE  G
  BY <1>0, <1>2 DEF CheckStep, CheckIn, SetRunnable, Sleepers, Sleep, Resumes
<1>3. ASSUME NEW t \in Thread, NEW where \in Where, NEW wx \in SUBSET Thread,
             GoStep(t, where, wx)
      PROVE  G
  BY <1>3 DEF GoStep, Resumes
<1>4. ASSUME NEW t \in Thread, SingleThreadWait(t)
      PROVE  G
  BY <1>4 DEF SingleThreadWait, TSleep, At, Resumes
<1>5. ASSUME NEW t \in Thread, ExecReturns(t)
      PROVE  G
  BY <1>0, <1>5 DEF ExecReturns, SingleThreadClear, Released, Resumes
<1>6. ASSUME NEW t \in Thread, ExitUnlink(t)
      PROVE  G
  BY <1>0, <1>6 DEF ExitUnlink, Resumes
<1>6a. ASSUME NEW t \in Thread, ThreadDies(t)
       PROVE  G
  <2>1. q # t
    BY <1>0, <1>6a, DiesEffect DEF Place, Sleep, Resumes
  <2>2. DiesOther(q)
    BY <1>0, <1>6a, <2>1, DiesEffect
  <2> QED
    BY <1>0, <2>2 DEF DiesOther, Sleep, Resumes
<1>7. ASSUME NEW t \in Thread, MainDies(t)
      PROVE  G
  BY <1>0, <1>7 DEF MainDies, TSleep, At, Resumes
<1>8. ASSUME NEW t \in Thread, ProcStop(t) \/ Tsleep(t)
      PROVE  G
  BY <1>0, <1>8 DEF ProcStop, Tsleep, TSleep, At, AtUserret, Resumes
<1>9. ASSUME NEW t \in Thread, TsleepCatch(t)
      PROVE  G
  BY <1>0, <1>9 DEF TsleepCatch, TSleep, At, Resumes
<1>10. ASSUME NEW t \in Thread, fork1(t)
       PROVE  G
  BY <1>0, <1>10 DEF fork1, Place, Resumes
<1>11. ASSUME NEW t \in Thread, Event(t)
       PROVE  G
  BY <1>0, <1>11 DEF Event, Resumes
<1>12. ASSUME SIGSTOP \/ SIGCONT
       PROVE  G
  BY <1>0, <1>12 DEF SIGSTOP, SIGCONT, Resumes
<1> HIDE DEF Types, G
<1>13. G
  BY <1>1, <1>2, <1>3, <1>4, <1>5, <1>6, <1>6a, <1>7, <1>8, <1>9, <1>10, <1>11, <1>12, Zenon DEF Steps
<1> QED
  BY <1>13 DEF G

\* Whatever the threads do, a thread that SIGSTOP stopped is resumed only by
\* SIGCONT or to exit: single_thread_clear(p, P_SUSPSIG) and wakeup() leave it
\* stopped.
THEOREM StopsSurvive ==
    Spec => StopSurvives
<1> DEFINE A == \A t \in ps_threads :
                   t \in suspsig /\ p_stat[t] = "SSTOP" /\ p_stat'[t] # "SSTOP"
                       => t \notin suspsig' \/ ps_mode' = "exit"
<1>1. Init => Types /\ Control
  BY ControlInit
<1>2. Types /\ Control /\ [Next]_vars => (Types /\ Control)'
  BY ControlNext
<1>3. Types /\ Control /\ [Next]_vars => [A]_vars
  <2> SUFFICES ASSUME Types, Control, Next
               PROVE  A
    OBVIOUS
  <2>1. Steps
    BY NextSteps
  <2> QED
    BY <2>1, StopStep DEF Resumes
<1>4. Spec => [][A]_vars
  BY <1>1, <1>2, <1>3, PTL DEF Spec
<1> QED
  BY <1>4 DEF StopSurvives

-----------------------------------------------------------------------------
(***************************************************************************)
(* Who single-threads, and in what state the others are.                    *)
(***************************************************************************)

\* A thread that runs and has not come to the end of exit1() is no owner that
\* has left, and nobody else is alone.
LEMMA RunnerFacts ==
    ASSUME Types, Control, Safe, NEW t \in ps_threads, p_stat[t] = "SRUN", pc[t] # "exit"
    PROVE  /\ t \in Thread
           /\ ps_single = t => pc[t] \in {"wait", "alone"}
           /\ ps_single \notin {NoThread, t} => Waited /\ ps_single \in ps_threads
           /\ \A a \in Thread \ {t} : pc[a] # "alone"
<1>1. \A a \in Thread \ {t} : pc[a] # "alone"
  BY DEF Safe, SingleAlone
<1>2. t \in Thread /\ (ps_single # NoThread => ps_single \in Thread)
  BY DEF Types
<1>3. ps_single = t => pc[t] \in {"wait", "alone"}
  BY <1>2, SingleAssumption DEF Safe, Owner
<1>4. ASSUME ps_single \notin {NoThread, t}
      PROVE  Waited /\ ps_single \in ps_threads
  <2>1. pc[ps_single] \in {"wait", "alone"} /\ ps_single \in Thread
    BY <1>2, <1>4 DEF Safe, Owner
  <2>2. pc[ps_single] = "wait"
    BY <1>1, <1>4, <2>1
  <2>3. ps_single \in ps_threads
    BY <2>1 DEF Control, Place
  <2> QED
    BY <1>4, <2>2, <2>3 DEF Waited
<1> QED
  BY <1>1, <1>2, <1>3, <1>4

\* Who checks in is not the owner, which is waiting, and is not yet counted as
\* stopped by a signal.
LEMMA CheckFacts ==
    ASSUME Types, Control, Safe, NEW t \in Thread, NEW then, NEW wx, CheckStep(t, then, wx)
    PROVE  /\ t # ps_single /\ Waited /\ ps_single \in ps_threads
           /\ ps_mode # "exit" => t \notin suspsig
<1>1. /\ t \in ps_threads /\ p_stat[t] = "SRUN" /\ pc[t] \notin {"exit", "wait", "alone"}
      /\ ps_single # NoThread
  BY DEF CheckStep
<1>2. t # ps_single /\ Waited /\ ps_single \in ps_threads
  BY <1>1, RunnerFacts
<1>3. ps_mode # "exit" => t \notin suspsig
  BY <1>1 DEF Safe, Stopped, Halt
<1> QED
  BY <1>2, <1>3

\* Who goes on to exit while it single-threads is alone.
LEMMA GoFacts ==
    ASSUME Types, Control, Safe, NEW t \in Thread, NEW where, NEW wx, GoStep(t, where, wx)
    PROVE  /\ ps_single = t => pc[t] = "alone" /\ where = "exit"
           /\ where = "exit" => ps_single \in {NoThread, t}
           /\ ps_single = t => \A q \in ps_threads \ {t} : pc[q] = "exit"
<1>1. t \in ps_threads /\ p_stat[t] = "SRUN" /\ pc[t] \notin {"exit", "wait"}
  BY DEF GoStep
<1>2. ps_single = t => pc[t] = "alone" /\ where = "exit"
  BY <1>1, RunnerFacts DEF GoStep
<1>3. where = "exit" => ps_single \in {NoThread, t}
  BY <1>1, RunnerFacts DEF GoStep, Others, LastThread
<1>4. ASSUME ps_single = t, NEW q \in ps_threads \ {t}
      PROVE  pc[q] = "exit"
  BY <1>2, <1>4 DEF GoStep, LastThread, Safe, SingleAlone
<1> QED
  BY <1>2, <1>3, <1>4

\* When a thread begins to single-thread, the others that are leaving have come
\* to the end of exit1(): that is where Orderly is needed.  A thread that goes
\* on to make the others exit is alone.
LEMMA SetFacts ==
    ASSUME Types, Control, Safe, Orderly, NEW t \in Thread, NEW m \in SetModes,
           NEW wx \in SUBSET Thread, SetStep(t, m, wx)
    PROVE  /\ t \notin suspsig
           /\ ps_single = NoThread => \A q \in (ps_threads \ {t}) \cap wexit : pc[q] = "exit"
           /\ ps_single # NoThread => /\ ps_single = t /\ pc[t] = "alone" /\ m = "exit"
                                      /\ \A q \in ps_threads \ {t} :
                                            p_stat[q] = "SSTOP" \/ pc[q] = "exit"
           /\ m = "suspend" => ps_mode = "none"
           /\ \A q \in ps_threads \ {t} : pc[q] \notin {"wait", "alone"}
<1>1. /\ t \in ps_threads /\ p_stat[t] = "SRUN" /\ pc[t] \notin {"exit", "wait"}
      /\ ps_single \in {NoThread, t} /\ ps_single' = t /\ t # NoThread
      /\ pc[t] = "alone" => m = "exit" /\ mode[t] # "exit"
  BY SingleAssumption DEF SetStep, SingleThreadSet
<1>2. ps_single = t => pc[t] = "alone"
  BY <1>1, RunnerFacts
<1>3. ps_single # NoThread => \A q \in ps_threads \ {t} : p_stat[q] = "SSTOP" \/ pc[q] = "exit"
  BY <1>1, <1>2 DEF Safe, SingleAlone
<1>4. ps_mode # "exit" /\ (ps_single = NoThread => ps_mode = "none")
  BY <1>1, <1>2 DEF Safe, Flags
<1>5. t \notin suspsig
  BY <1>1, <1>4 DEF Safe, Stopped, Halt
<1>6. ASSUME ps_single = NoThread, NEW q \in (ps_threads \ {t}) \cap wexit
      PROVE  pc[q] = "exit"
  <2>1. q \in Thread /\ Sleep(q) /\ Place(q)
    BY DEF Control, Types
  <2>2. pc[q] \notin {"wait", "alone", "dead", "thrdeath", "unlinked"}
    BY <1>6, <2>1, SingleAssumption DEF Place
  <2>3. pc[q] = "exit" \/ (pc[q] = "suspended" /\ cont[q] \in Leaving)
    BY <2>1, <2>2 DEF Place, Leaving
  <2>4. ~At(q, "suspended")
    BY <1>1, <1>6 DEF Orderly, PassesOver
  <2>5. pc[q] = "suspended" => p_stat[q] = "SSTOP"
    BY <2>1, <2>4 DEF At, Sleep, Place, Types, Stat
  <2>6. pc[q] # "suspended"
    BY <1>6, <2>5 DEF Safe, Stopped, Halt
  <2> QED
    BY <2>3, <2>6
<1>7. \A q \in ps_threads \ {t} : pc[q] \notin {"wait", "alone"}
  BY <1>1, SingleAssumption DEF Control, Place, Types
<1>8. m = "suspend" => ps_mode = "none"
  BY <1>1, <1>2, <1>4
<1> QED
  BY <1>1, <1>2, <1>3, <1>5, <1>6, <1>7, <1>8

\* The owner stays in single_thread_set() or alone until it clears or exits.
LEMMA OwnerKept ==
    ASSUME Types, Control, Safe, Orderly, Steps
    PROVE  Owner'
<1> USE DEF Types, procVars, singleVars, statVars, flagVars, codeVars
<1>1. ASSUME NEW t \in Thread, NEW m \in SetModes, NEW wx \in SUBSET Thread, SetStep(t, m, wx)
      PROVE  Owner'
  BY <1>1, SingleAssumption, SetEffect, SetFacts DEF SetStep, SingleThreadSet, SetSelf, Owner, Safe
<1>2. ASSUME NEW t \in Thread, NEW then \in Purposes, NEW wx \in SUBSET Thread,
             CheckStep(t, then, wx)
      PROVE  Owner'
  BY <1>2, SingleAssumption, CheckFacts DEF CheckStep, CheckIn, Owner, Safe
<1>3. ASSUME NEW t \in Thread, NEW where \in Where, NEW wx \in SUBSET Thread,
             GoStep(t, where, wx)
      PROVE  Owner'
  BY <1>3, SingleAssumption, GoFacts DEF GoStep, Goto, Owner, Safe
<1>4. ASSUME NEW t \in Thread, SingleThreadWait(t)
      PROVE  Owner'
  BY <1>4, SingleAssumption DEF SingleThreadWait, TSleep, At, Owner, Safe
<1>5. ASSUME NEW t \in Thread, ExecReturns(t)
      PROVE  Owner'
  BY <1>5, SingleAssumption DEF ExecReturns, SingleThreadClear, At, Owner, Safe
<1>6. ASSUME NEW t \in Thread, ExitUnlink(t)
      PROVE  Owner'
  <2>1. /\ pc[t] = "exit" /\ ps_threads' = ps_threads \ {t} /\ ps_single' = ps_single
        /\ \A q \in Thread \ {t} : pc'[q] = pc[q]
    BY <1>6 DEF ExitUnlink, At
  <2> QED
    BY <2>1 DEF Safe, Owner
<1>6a. ASSUME NEW t \in Thread, ThreadDies(t)
       PROVE  Owner'
  <2>1. /\ UNCHANGED <<ps_threads, ps_single>> /\ t \notin ps_threads /\ pc[t] = "unlinked"
        /\ \A q \in Thread \ {t} : pc'[q] = pc[q]
    BY <1>6a, DiesEffect DEF ThreadDies
  <2> QED
    BY <2>1 DEF Safe, Owner
<1>7. ASSUME NEW t \in Thread, MainDies(t)
      PROVE  Owner'
  BY <1>7, SingleAssumption DEF MainDies, TSleep, At, Owner, Safe
<1>8. ASSUME NEW t \in Thread, ProcStop(t)
      PROVE  Owner'
  BY <1>8, SingleAssumption DEF ProcStop, At, AtUserret, Owner, Safe
<1>9. ASSUME NEW t \in Thread, Tsleep(t)
      PROVE  Owner'
  BY <1>9, SingleAssumption DEF Tsleep, TSleep, At, Owner, Safe
<1>10. ASSUME NEW t \in Thread, TsleepCatch(t)
       PROVE  Owner'
  BY <1>10, SingleAssumption DEF TsleepCatch, TSleep, At, Owner, Safe
<1>11. ASSUME NEW t \in Thread, fork1(t)
       PROVE  Owner'
  <2>1. t \in ps_threads /\ pc[t] = "user" /\ p_stat[t] = "SRUN"
    BY <1>11, RunningFacts DEF fork1, At
  <2>2. PICK u \in Thread : /\ pc[u] = "dead" /\ pc' = [pc EXCEPT ![t] = "kernel", ![u] = "kernel"]
                            /\ ps_single' = ps_single
    BY <1>11 DEF fork1
  <2>3. ps_single = NoThread \/ pc[ps_single] \in {"wait", "alone"}
    BY <2>1 DEF Safe, Owner
  <2> QED
    BY <2>1, <2>2, <2>3, SingleAssumption DEF Owner
<1>12. ASSUME NEW t \in Thread, Event(t)
       PROVE  Owner'
  BY <1>12, SingleAssumption DEF Event, Owner, Safe
<1>13. ASSUME SIGSTOP
       PROVE  Owner'
  BY <1>13, SingleAssumption DEF SIGSTOP, Owner, Safe
<1>14. ASSUME SIGCONT
       PROVE  Owner'
  BY <1>14, SingleAssumption DEF SIGCONT, Owner, Safe
<1> HIDE DEF Types
<1> QED
  BY <1>1, <1>2, <1>3, <1>4, <1>5, <1>6, <1>6a, <1>7, <1>8, <1>9, <1>10, <1>11, <1>12, <1>13, <1>14,
     Zenon DEF Steps

\* PS_SINGLEUNWIND and PS_SINGLEEXIT remain what the owner has set.
LEMMA FlagsKept ==
    ASSUME Types, Control, Safe, Orderly, Steps
    PROVE  Flags'
<1> USE DEF Types, procVars, singleVars, statVars, flagVars, codeVars
<1>1. ASSUME NEW t \in Thread, NEW m \in SetModes, NEW wx \in SUBSET Thread, SetStep(t, m, wx)
      PROVE  Flags'
  <2>1. ps_single' = t /\ t # NoThread /\ ps_mode' = IF m = "suspend" THEN ps_mode ELSE m
    BY <1>1, SingleAssumption DEF SetStep, SingleThreadSet
  <2>2. mode'[t] = m
    BY <1>1, SetEffect DEF SetSelf
  <2>3. m = "suspend" => ps_mode = "none"
    BY <1>1, SetFacts
  <2> QED
    BY <2>1, <2>2, <2>3 DEF Flags
<1>2. ASSUME NEW t \in Thread, NEW then \in Purposes, NEW wx \in SUBSET Thread,
             CheckStep(t, then, wx)
      PROVE  Flags'
  BY <1>2, SingleAssumption, CheckFacts DEF CheckStep, CheckIn, Flags, Safe
<1>3. ASSUME NEW t \in Thread, NEW where \in Where, NEW wx \in SUBSET Thread,
             GoStep(t, where, wx)
      PROVE  Flags'
  BY <1>3, SingleAssumption, GoFacts DEF GoStep, Goto, Flags, Safe
<1>4. ASSUME NEW t \in Thread, SingleThreadWait(t)
      PROVE  Flags'
  BY <1>4, SingleAssumption DEF SingleThreadWait, TSleep, At, Flags, Safe
<1>5. ASSUME NEW t \in Thread, ExecReturns(t)
      PROVE  Flags'
  BY <1>5, SingleAssumption DEF ExecReturns, SingleThreadClear, At, Flags, Safe
<1>6. ASSUME NEW t \in Thread, ExitUnlink(t)
      PROVE  Flags'
  <2>1. /\ UNCHANGED <<ps_single, ps_mode, mode>> /\ pc'[t] \notin {"wait", "alone"}
        /\ \A q \in Thread \ {t} : pc'[q] = pc[q]
    BY <1>6 DEF ExitUnlink, At
  <2> QED
    BY <2>1 DEF Safe, Flags
<1>6a. ASSUME NEW t \in Thread, ThreadDies(t)
       PROVE  Flags'
  <2>1. /\ UNCHANGED <<ps_single, ps_mode, mode>> /\ pc'[t] \notin {"wait", "alone"}
        /\ \A q \in Thread \ {t} : pc'[q] = pc[q]
    BY <1>6a, DiesEffect DEF ThreadDies
  <2> QED
    BY <2>1 DEF Safe, Flags
<1>7. ASSUME NEW t \in Thread, MainDies(t)
      PROVE  Flags'
  BY <1>7, SingleAssumption DEF MainDies, TSleep, At, Flags, Safe
<1>8. ASSUME NEW t \in Thread, ProcStop(t)
      PROVE  Flags'
  BY <1>8, SingleAssumption DEF ProcStop, At, AtUserret, Flags, Safe
<1>9. ASSUME NEW t \in Thread, Tsleep(t)
      PROVE  Flags'
  BY <1>9, SingleAssumption DEF Tsleep, TSleep, At, Flags, Safe
<1>10. ASSUME NEW t \in Thread, TsleepCatch(t)
       PROVE  Flags'
  BY <1>10, SingleAssumption DEF TsleepCatch, TSleep, At, Flags, Safe
<1>11. ASSUME NEW t \in Thread, fork1(t)
       PROVE  Flags'
  BY <1>11, SingleAssumption DEF fork1, At, Flags, Safe
<1>12. ASSUME NEW t \in Thread, Event(t)
       PROVE  Flags'
  BY <1>12, SingleAssumption DEF Event, Flags, Safe
<1>13. ASSUME SIGSTOP
       PROVE  Flags'
  BY <1>13, SingleAssumption DEF SIGSTOP, Flags, Safe
<1>14. ASSUME SIGCONT
       PROVE  Flags'
  BY <1>14, SingleAssumption DEF SIGCONT, Flags, Safe
<1> HIDE DEF Types
<1> QED
  BY <1>1, <1>2, <1>3, <1>4, <1>5, <1>6, <1>6a, <1>7, <1>8, <1>9, <1>10, <1>11, <1>12, <1>13, <1>14,
     Zenon DEF Steps

\* P_SUSPSINGLE stays set in the others while somebody single-threads.
LEMMA MarkedKept ==
    ASSUME Types, Control, Safe, Orderly, Steps
    PROVE  Marked'
<1> USE DEF Types, procVars, singleVars, statVars, flagVars, codeVars
<1>1. ASSUME NEW t \in Thread, NEW m \in SetModes, NEW wx \in SUBSET Thread, SetStep(t, m, wx)
      PROVE  Marked'
  <2>1. /\ ps_single' = t /\ ps_threads' = ps_threads
        /\ suspsingle' = suspsingle \cup (ps_threads \ ({t} \cup wexit))
    BY <1>1 DEF SetStep, SingleThreadSet
  <2>2. ASSUME NEW q \in ps_threads \ {t}
        PROVE  pc'[q] = "exit" \/ q \in suspsingle'
    <3>1. pc'[q] = pc[q]
      BY <1>1, SetEffect DEF SetOther
    <3>2. CASE q \notin wexit
      BY <2>1, <3>2
    <3>3. CASE q \in wexit /\ ps_single = NoThread
      BY <1>1, <3>1, <3>3, SetFacts
    <3>4. CASE ps_single # NoThread
      <4>1. ps_single = t
        BY <1>1, <3>4, SetFacts
      <4>2. pc[q] = "exit" \/ q \in suspsingle
        BY <3>4, <4>1 DEF Safe, Marked
      <4> QED
        BY <2>1, <3>1, <4>2
    <3> QED
      BY <3>2, <3>3, <3>4
  <2> QED
    BY <2>1, <2>2 DEF Marked
<1>2. ASSUME NEW t \in Thread, NEW then \in Purposes, NEW wx \in SUBSET Thread,
             CheckStep(t, then, wx)
      PROVE  Marked'
  BY <1>2, SingleAssumption, CheckFacts DEF CheckStep, CheckIn, Marked, Safe
<1>3. ASSUME NEW t \in Thread, NEW where \in Where, NEW wx \in SUBSET Thread,
             GoStep(t, where, wx)
      PROVE  Marked'
  BY <1>3, SingleAssumption, GoFacts DEF GoStep, Goto, Marked, Safe
<1>4. ASSUME NEW t \in Thread, SingleThreadWait(t)
      PROVE  Marked'
  BY <1>4, SingleAssumption DEF SingleThreadWait, TSleep, At, Marked, Safe
<1>5. ASSUME NEW t \in Thread, ExecReturns(t)
      PROVE  Marked'
  BY <1>5, SingleAssumption DEF ExecReturns, SingleThreadClear, At, Marked, Safe
<1>6. ASSUME NEW t \in Thread, ExitUnlink(t)
      PROVE  Marked'
  <2>1. /\ ps_threads' = ps_threads \ {t} /\ UNCHANGED <<ps_single, suspsingle>>
        /\ \A q \in Thread \ {t} : pc'[q] = pc[q]
    BY <1>6 DEF ExitUnlink
  <2> QED
    BY <2>1 DEF Safe, Marked
<1>6a. ASSUME NEW t \in Thread, ThreadDies(t)
       PROVE  Marked'
  <2>1. /\ UNCHANGED <<ps_threads, ps_single, suspsingle>> /\ t \notin ps_threads
        /\ \A q \in Thread \ {t} : pc'[q] = pc[q]
    BY <1>6a, DiesEffect DEF ThreadDies
  <2> QED
    BY <2>1 DEF Safe, Marked
<1>7. ASSUME NEW t \in Thread, MainDies(t)
      PROVE  Marked'
  BY <1>7, SingleAssumption DEF MainDies, TSleep, At, Marked, Safe
<1>8. ASSUME NEW t \in Thread, ProcStop(t)
      PROVE  Marked'
  BY <1>8, SingleAssumption DEF ProcStop, At, AtUserret, Marked, Safe
<1>9. ASSUME NEW t \in Thread, Tsleep(t)
      PROVE  Marked'
  BY <1>9, SingleAssumption DEF Tsleep, TSleep, At, Marked, Safe
<1>10. ASSUME NEW t \in Thread, TsleepCatch(t)
       PROVE  Marked'
  BY <1>10, SingleAssumption DEF TsleepCatch, TSleep, At, Marked, Safe
<1>11. ASSUME NEW t \in Thread, fork1(t)
       PROVE  Marked'
  BY <1>11, SingleAssumption DEF fork1, At, Marked, Safe
<1>12. ASSUME NEW t \in Thread, Event(t)
       PROVE  Marked'
  BY <1>12, SingleAssumption DEF Event, Marked, Safe
<1>13. ASSUME SIGSTOP
       PROVE  Marked'
  BY <1>13, SingleAssumption DEF SIGSTOP, Marked, Safe
<1>14. ASSUME SIGCONT
       PROVE  Marked'
  BY <1>14, SingleAssumption DEF SIGCONT, Marked, Safe
<1> HIDE DEF Types
<1> QED
  BY <1>1, <1>2, <1>3, <1>4, <1>5, <1>6, <1>6a, <1>7, <1>8, <1>9, <1>10, <1>11, <1>12, <1>13, <1>14,
     Zenon DEF Steps

\* A thread that stops, or stays stopped, is stopped by a signal or by single
\* threading, also when that ends or a signal goes.
LEMMA StoppedKept ==
    ASSUME Types, Control, Safe, Orderly, Steps
    PROVE  Stopped'
<1> SUFFICES ASSUME NEW q \in ps_threads'
             PROVE  Halt(q)'
  BY DEF Stopped
<1>0. q \in ps_threads => q \in Thread /\ Sleep(q) /\ Place(q) /\ Halt(q)
  BY DEF Types, Control, Safe, Stopped
<1> USE DEF Types, procVars, singleVars, statVars, flagVars, codeVars
<1>1. ASSUME NEW t \in Thread, NEW m \in SetModes, NEW wx \in SUBSET Thread, SetStep(t, m, wx)
      PROVE  Halt(q)'
  <2>0. /\ q \in ps_threads /\ ps_single' = t /\ suspsig' = suspsig
        /\ p_stat[t] = "SRUN" /\ t # NoThread
    BY <1>1, SingleAssumption DEF SetStep, SingleThreadSet
  <2>1. CASE q = t
    BY <1>1, <2>0, <2>1, SetEffect, SetFacts DEF SetSelf, Halt
  <2>2. CASE q # t
    <3>1. SetOther(t, m, q) /\ pc[q] \notin {"wait", "alone"}
      BY <1>0, <1>1, <2>0, <2>2, SetEffect, SetFacts
    <3>2. CASE m = "exit"
      <4>1. p_stat[q] = "SSTOP" => q \in Roused(t, m)
        BY <2>0, <2>2, <3>2 DEF Roused, Counted, Exiting
      <4>2. q \notin Frozen(t, m)
        BY <3>2 DEF Frozen
      <4>3. p_stat'[q] # "SSTOP"
        BY <3>1, <4>1, <4>2 DEF SetOther
      <4>4. ps_mode' = "exit"
        BY <1>1, <3>2 DEF SetStep, SingleThreadSet
      <4> QED
        BY <1>0, <2>0, <3>1, <4>3, <4>4 DEF SetOther, Halt
    <3>3. CASE m # "exit"
      <4>1. p_stat[q] = "SSTOP" => q \notin Roused(t, m) /\ p_stat'[q] = "SSTOP"
        BY <3>1, <3>3 DEF Roused, Counted, Exiting, SetOther
      <4>2. ps_mode' # "exit"
        BY <1>1, <3>3, SetFacts DEF SetStep, SingleThreadSet
      <4>3. ps_single = NoThread
        BY <1>1, <3>3, SetFacts
      <4>4. ps_mode = "none"
        BY <4>3 DEF Safe, Flags
      <4> QED
        BY <1>0, <2>0, <3>1, <4>1, <4>2, <4>4 DEF SetOther, Halt
    <3> QED
      BY <3>2, <3>3
  <2> QED
    BY <2>1, <2>2
<1>2. ASSUME NEW t \in Thread, NEW then \in Purposes, NEW wx \in SUBSET Thread,
             CheckStep(t, then, wx)
      PROVE  Halt(q)'
  <2>1. /\ q \in ps_threads /\ ps_single # NoThread
        /\ UNCHANGED <<ps_single, ps_mode, suspsig>>
        /\ pc' = [pc EXCEPT ![t] = IF ps_mode = "exit" THEN "exit" ELSE "suspended"]
    BY <1>2 DEF CheckStep, CheckIn
  <2>2. CASE q = t
    <3>1. p_stat'[q] = IF ps_mode = "exit" THEN "SRUN" ELSE "SSTOP"
      BY <1>2, <2>2 DEF CheckStep, CheckIn, SetRunnable
    <3> QED
      BY <1>2, <2>1, <2>2, <3>1, CheckFacts DEF Halt
  <2>3. CASE q # t
    <3>1. p_stat'[q] = p_stat[q] \/ (p_stat'[q] = "SRUN" /\ p_wchan[q] = "count")
      BY <1>0, <1>2, <2>1, <2>3 DEF CheckStep, CheckIn, SetRunnable, Sleepers
    <3> QED
      BY <1>0, <2>1, <2>3, <3>1 DEF Halt, Sleep
  <2> QED
    BY <2>2, <2>3
<1>3. ASSUME NEW t \in Thread, NEW where \in Where, NEW wx \in SUBSET Thread,
             GoStep(t, where, wx)
      PROVE  Halt(q)'
  BY <1>3, <1>0, GoFacts DEF GoStep, Goto, Halt, Safe, Flags, Sleep, Place
<1>4. ASSUME NEW t \in Thread, SingleThreadWait(t)
      PROVE  Halt(q)'
  BY <1>4, <1>0 DEF SingleThreadWait, TSleep, At, Halt, Safe, Flags, Sleep, Place
<1>5. ASSUME NEW t \in Thread, ExecReturns(t)
      PROVE  Halt(q)'
  <2>0. /\ q \in ps_threads /\ UNCHANGED <<ps_threads, suspsig>> /\ t # NoThread
        /\ pc[t] = "alone" /\ p_stat[t] = "SRUN" /\ pc'[t] = "kernel" /\ t \in ps_threads
        /\ p_stat' = [z \in Thread |->
                         IF z \notin Released(t) \cap ps_threads THEN p_stat[z]
                         ELSE IF p_wchan[z] = "none" THEN "SRUN" ELSE "SSLEEP"]
    BY <1>5, RunningFacts, SingleAssumption DEF ExecReturns, SingleThreadClear, At
  <2>1. CASE q = t
    BY <1>0, <2>0, <2>1 DEF Halt, Released
  <2>2. CASE q # t
    <3>1. pc'[q] = pc[q]
      BY <1>5, <2>2 DEF ExecReturns, SingleThreadClear
    <3>2. ps_single = t /\ (pc[q] = "exit" \/ (p_stat[q] = "SSTOP" /\ mode[t] # "exit"))
      BY <2>0, <2>2 DEF Safe, SingleAlone
    <3>3. pc[q] = "exit" \/ q \in suspsingle
      BY <2>0, <2>2, <3>2 DEF Safe, Marked
    <3>4. CASE pc[q] = "exit"
      BY <1>0, <2>0, <3>1, <3>4 DEF Halt, Sleep, Released
    <3>5. CASE pc[q] # "exit"
      BY <1>0, <2>0, <2>2, <3>1, <3>2, <3>3, <3>5 DEF Halt, Released
    <3> QED
      BY <3>4, <3>5
  <2> QED
    BY <2>1, <2>2
<1>6. ASSUME NEW t \in Thread, ExitUnlink(t)
      PROVE  Halt(q)'
  <2>1. /\ q \in ps_threads \ {t} /\ UNCHANGED <<ps_single, ps_mode, suspsig, p_stat>>
        /\ pc'[q] = pc[q]
    BY <1>6 DEF ExitUnlink
  <2> QED
    BY <1>0, <2>1 DEF Halt
<1>6a. ASSUME NEW t \in Thread, ThreadDies(t)
       PROVE  Halt(q)'
  <2>1. /\ UNCHANGED <<ps_threads, ps_single, ps_mode, suspsig>>
        /\ DiesOther(q) /\ pc'[q] = pc[q]
    BY <1>0, <1>6a, DiesEffect DEF ThreadDies
  <2> QED
    BY <1>0, <2>1 DEF Halt, DiesOther, Sleep
<1>7. ASSUME NEW t \in Thread, MainDies(t)
      PROVE  Halt(q)'
  BY <1>7, <1>0 DEF MainDies, TSleep, At, Halt, Safe, Flags, Sleep, Place
<1>8. ASSUME NEW t \in Thread, ProcStop(t)
      PROVE  Halt(q)'
  BY <1>8, <1>0 DEF ProcStop, At, AtUserret, Halt, Safe, Flags, Sleep, Place
<1>9. ASSUME NEW t \in Thread, Tsleep(t)
      PROVE  Halt(q)'
  BY <1>9, <1>0 DEF Tsleep, TSleep, At, Halt, Safe, Flags, Sleep, Place
<1>10. ASSUME NEW t \in Thread, TsleepCatch(t)
       PROVE  Halt(q)'
  BY <1>10, <1>0 DEF TsleepCatch, TSleep, At, Halt, Safe, Flags, Sleep, Place
<1>11. ASSUME NEW t \in Thread, fork1(t)
       PROVE  Halt(q)'
  BY <1>11, <1>0 DEF fork1, At, Halt, Safe, Flags, Sleep, Place
<1>12. ASSUME NEW t \in Thread, Event(t)
       PROVE  Halt(q)'
  BY <1>12, <1>0 DEF Event, Halt, Safe, Flags, Sleep, Place
<1>13. ASSUME SIGSTOP
       PROVE  Halt(q)'
  BY <1>13, <1>0 DEF SIGSTOP, Halt, Safe, Flags, Sleep, Place
<1>14. ASSUME SIGCONT
       PROVE  Halt(q)'
  BY <1>14, <1>0 DEF SIGCONT, Halt, Safe, Flags, Sleep, Place
<1> HIDE DEF Types
<1> QED
  BY <1>1, <1>2, <1>3, <1>4, <1>5, <1>6, <1>6a, <1>7, <1>8, <1>9, <1>10, <1>11, <1>12, <1>13, <1>14,
     Zenon DEF Steps

\* What SingleAlone says of a thread that is alone
AloneOK(t) ==
    /\ ps_single = t
    /\ \A q \in ps_threads \ {t} : \/ p_stat[q] = "SSTOP" /\ mode[t] # "exit"
                                   \/ pc[q] = "exit"

\* The sets of threads are finite, and ps_singlecount is a number.
LEMMA CountNat ==
    ASSUME Types, Counts
    PROVE  /\ IsFiniteSet(Remaining) /\ IsFiniteSet(Due) /\ IsFiniteSet(Held)
           /\ Cardinality(Remaining) \in Nat /\ Cardinality(Due) \in Nat
           /\ Cardinality(Held) \in Nat /\ ps_singlecount \in Nat
<1>1. Remaining \subseteq Thread /\ Due \subseteq Thread /\ Held \subseteq Thread
  BY DEF Remaining, Due, Held, Types
<1>2. IsFiniteSet(Remaining) /\ IsFiniteSet(Due) /\ IsFiniteSet(Held)
  BY <1>1, FS_Subset, SingleAssumption
<1>3. /\ Cardinality(Remaining) \in Nat /\ Cardinality(Due) \in Nat
      /\ Cardinality(Held) \in Nat
  BY <1>2, FS_CardinalityType
<1>4. ps_singlecount \in Nat
  BY <1>3 DEF Counts
<1> QED
  BY <1>2, <1>3, <1>4

\* Once ps_singlecount is zero nobody is still to check in.
LEMMA NobodyDue ==
    ASSUME Types, Counts, Waited, ps_singlecount = 0
    PROVE  \A q \in Remaining : p_stat[q] = "SSTOP" /\ ps_mode # "exit"
<1>1. Cardinality(Due) = 0
  BY CountNat DEF Counts
<1>2. Due = {}
  BY <1>1, CountNat, FS_EmptySet
<1>3. ps_mode = "exit" => Remaining = {}
  BY CountNat, FS_EmptySet DEF Counts
<1> QED
  BY <1>2, <1>3 DEF Due

\* A thread for which single_thread_wait() has counted down to zero is alone,
\* and nobody runs until it is done.
LEMMA AloneKept ==
    ASSUME Types, Control, Safe, Orderly, Steps, Counts
    PROVE  SingleAlone'
<1> SUFFICES ASSUME NEW a \in Thread, pc'[a] = "alone"
             PROVE  AloneOK(a)'
  BY DEF SingleAlone, AloneOK
<1>0. pc[a] = "alone" => AloneOK(a)
  BY DEF Safe, SingleAlone, AloneOK
<1> USE DEF Types, procVars, singleVars, statVars, flagVars, codeVars
<1>1. ASSUME NEW t \in Thread, NEW m \in SetModes, NEW wx \in SUBSET Thread, SetStep(t, m, wx)
      PROVE  AloneOK(a)'
  <2>0. /\ UNCHANGED <<ps_threads>> /\ ps_single' = t /\ t # NoThread /\ ps_single \in {NoThread, t}
    BY <1>1, SingleAssumption DEF SetStep, SingleThreadSet
  <2>1. a = t
    BY <1>1, <2>0, SetEffect, SingleAssumption DEF SetOther, Control, Place
  <2>2. Counted(t, m) = {} /\ mode'[t] = m
    BY <1>1, <2>1, SetEffect DEF SetSelf
  <2>3. ASSUME NEW q \in ps_threads \ {t}
        PROVE  (p_stat'[q] = "SSTOP" /\ m # "exit") \/ pc'[q] = "exit"
    <3>0. q \in Thread /\ Sleep(q) /\ Place(q) /\ q \notin Counted(t, m)
      BY <2>2 DEF Control
    <3>1. SetOther(t, m, q) /\ q \notin Roused(t, m)
      BY <1>1, <2>2, <3>0, SetEffect DEF Roused
    <3>2. CASE q \notin wexit
      <4>1. p_stat[q] # "SRUN" /\ ~(p_stat[q] = "SSTOP" /\ m = "exit")
        BY <3>0, <3>2 DEF Counted, Exiting
      <4>2. p_stat[q] = "SSLEEP" => q \in Frozen(t, m) /\ m = "suspend"
        BY <3>0, <3>2 DEF Counted, Frozen
      <4>3. p_stat[q] # "SDEAD"
        BY <3>0 DEF Place
      <4>4. p_stat[q] \in Stat
        BY <3>0
      <4> QED
        BY <3>1, <4>1, <4>2, <4>3, <4>4 DEF SetOther, Stat
    <3>3. CASE q \in wexit
      <4>1. q \notin Frozen(t, m) /\ (p_stat[q] = "SSTOP" => m # "exit")
        BY <3>0, <3>3 DEF Frozen, Counted, Exiting
      <4>2. p_stat[q] = "SSTOP" \/ pc[q] = "exit"
        BY <1>1, <3>3, SetFacts
      <4> QED
        BY <3>1, <4>1, <4>2 DEF SetOther
    <3> QED
      BY <3>2, <3>3
  <2> QED
    BY <2>0, <2>1, <2>2, <2>3 DEF AloneOK
<1>2. ASSUME NEW t \in Thread, NEW then \in Purposes, NEW wx \in SUBSET Thread,
             CheckStep(t, then, wx)
      PROVE  AloneOK(a)'
  <2>1. t \in ps_threads /\ p_stat[t] = "SRUN" /\ pc[t] \notin {"exit", "alone"}
    BY <1>2 DEF CheckStep
  <2>2. pc[a] # "alone"
    BY <2>1, RunnerFacts
  <2> QED
    BY <1>2, <2>2 DEF CheckStep, CheckIn
<1>3. ASSUME NEW t \in Thread, NEW where \in Where, NEW wx \in SUBSET Thread,
             GoStep(t, where, wx)
      PROVE  AloneOK(a)'
  <2>1. t \in ps_threads /\ p_stat[t] = "SRUN" /\ pc[t] # "exit" /\ a # t /\ pc[a] = "alone"
    BY <1>3 DEF GoStep, Goto
  <2> QED
    BY <2>1, RunnerFacts
<1>4. ASSUME NEW t \in Thread, SingleThreadWait(t)
      PROVE  AloneOK(a)'
  <2>1. UNCHANGED <<ps_threads, ps_single, mode>>
    BY <1>4 DEF SingleThreadWait
  <2>2. CASE a = t
    <3>1. /\ pc[t] = "wait" /\ ps_singlecount = 0 /\ UNCHANGED p_stat
          /\ pc' = [pc EXCEPT ![t] = "alone"]
      BY <1>4, <2>2, CountNat DEF SingleThreadWait, TSleep, At
    <3>2. ps_single = t /\ t # NoThread
      BY <3>1, SingleAssumption DEF Control, Place
    <3>3. Waited
      BY <3>1, <3>2 DEF Waited
    <3>4. \A q \in Remaining : p_stat[q] = "SSTOP" /\ ps_mode # "exit"
      BY <3>1, <3>3, NobodyDue
    <3>5. mode[t] = "exit" => ps_mode = "exit"
      BY <3>1, <3>2 DEF Safe, Flags
    <3> QED
      BY <2>1, <2>2, <3>1, <3>2, <3>4, <3>5 DEF AloneOK, Remaining
  <2>3. CASE a # t
    <3>1. pc[a] = "alone" /\ pc[t] = "wait"
      BY <1>4, <2>3 DEF SingleThreadWait, TSleep, At
    <3> QED
      BY <2>3, <3>1 DEF Control, Place
  <2> QED
    BY <2>2, <2>3
<1>5. ASSUME NEW t \in Thread, ExecReturns(t)
      PROVE  AloneOK(a)'
  <2>1. pc[t] = "alone" /\ a # t /\ pc[a] = "alone"
    BY <1>5 DEF ExecReturns, SingleThreadClear, At
  <2> QED
    BY <2>1 DEF Control, Place
<1>6. ASSUME NEW t \in Thread, ExitUnlink(t)
      PROVE  AloneOK(a)'
  <2>1. /\ ps_threads' = ps_threads \ {t} /\ UNCHANGED <<ps_single, mode, p_stat>>
        /\ pc' = [pc EXCEPT ![t] = IF t = Main THEN "thrdeath" ELSE "unlinked"]
    BY <1>6 DEF ExitUnlink
  <2>2. a # t /\ pc[a] = "alone"
    BY <2>1
  <2> QED
    BY <1>0, <2>1, <2>2 DEF AloneOK
<1>6a. ASSUME NEW t \in Thread, ThreadDies(t)
       PROVE  AloneOK(a)'
  <2>1. /\ UNCHANGED <<ps_threads, ps_single, mode>> /\ t \notin ps_threads
        /\ \A q \in Thread \ {t} : DiesOther(q) /\ pc'[q] = pc[q]
    BY <1>6a, DiesEffect DEF ThreadDies
  <2>2. a # t /\ pc[a] = "alone"
    BY <1>6a, <2>1, DiesEffect
  <2>3. \A q \in ps_threads : p_stat[q] = "SSTOP" => p_wchan[q] # "threads"
    BY DEF Control, Sleep
  <2> QED
    BY <1>0, <2>1, <2>2, <2>3 DEF AloneOK, DiesOther
<1>7. ASSUME NEW t \in Thread, MainDies(t)
      PROVE  AloneOK(a)'
  <2>1. /\ UNCHANGED <<ps_threads, ps_single, mode>> /\ pc[t] = "thrdeath" /\ t \notin ps_threads
        /\ pc[a] = "alone" /\ a # t
    BY <1>7 DEF MainDies, TSleep, At, Control, Place
  <2>2. \A q \in ps_threads : pc'[q] = pc[q] /\ p_stat'[q] = p_stat[q]
    BY <1>7, <2>1 DEF MainDies, TSleep
  <2> QED
    BY <1>0, <2>1, <2>2 DEF AloneOK
<1>8. ASSUME NEW t \in Thread, ProcStop(t)
      PROVE  AloneOK(a)'
  <2>1. t \in ps_threads /\ p_stat[t] = "SRUN" /\ pc[t] \notin {"exit", "alone"} /\ pc'[t] # "alone"
    BY <1>8, RunningFacts DEF ProcStop, At, AtUserret
  <2>2. pc[a] # "alone"
    BY <2>1, RunnerFacts
  <2>3. pc[a] = "alone"
    BY <1>8, <2>1 DEF ProcStop, At, AtUserret
  <2> QED
    BY <2>2, <2>3
<1>9. ASSUME NEW t \in Thread, Tsleep(t)
      PROVE  AloneOK(a)'
  <2>1. t \in ps_threads /\ p_stat[t] = "SRUN" /\ pc[t] \notin {"exit", "alone"} /\ pc'[t] # "alone"
    BY <1>9, RunningFacts DEF Tsleep, TSleep, At
  <2>2. pc[a] # "alone"
    BY <2>1, RunnerFacts
  <2>3. pc[a] = "alone"
    BY <1>9, <2>1 DEF Tsleep, TSleep, At
  <2> QED
    BY <2>2, <2>3
<1>10. ASSUME NEW t \in Thread, TsleepCatch(t)
       PROVE  AloneOK(a)'
  <2>1. t \in ps_threads /\ p_stat[t] = "SRUN" /\ pc[t] \notin {"exit", "alone"} /\ pc'[t] # "alone"
    BY <1>10, RunningFacts DEF TsleepCatch, TSleep, At
  <2>2. pc[a] # "alone"
    BY <2>1, RunnerFacts
  <2>3. pc[a] = "alone"
    BY <1>10, <2>1 DEF TsleepCatch, TSleep, At
  <2> QED
    BY <2>2, <2>3
<1>11. ASSUME NEW t \in Thread, fork1(t)
       PROVE  AloneOK(a)'
  <2>1. t \in ps_threads /\ p_stat[t] = "SRUN" /\ pc[t] \notin {"exit", "alone"} /\ pc'[t] # "alone"
    BY <1>11, RunningFacts DEF fork1, At
  <2>2. pc[a] # "alone"
    BY <2>1, RunnerFacts
  <2>3. pc[a] = "alone"
    BY <1>11, <2>1 DEF fork1, At
  <2> QED
    BY <2>2, <2>3
<1>12. ASSUME NEW t \in Thread, Event(t)
       PROVE  AloneOK(a)'
  <2>1. /\ UNCHANGED <<ps_threads, ps_single, mode, pc>>
        /\ \A q \in Thread : p_stat[q] = "SSTOP" => p_stat'[q] = "SSTOP"
    BY <1>12 DEF Event
  <2> QED
    BY <1>0, <2>1 DEF AloneOK
<1>13. ASSUME SIGSTOP
       PROVE  AloneOK(a)'
  <2>1. /\ UNCHANGED <<ps_threads, ps_single, mode, pc>>
        /\ \A q \in Thread : p_stat[q] = "SSTOP" => p_stat'[q] = "SSTOP"
    BY <1>13 DEF SIGSTOP
  <2> QED
    BY <1>0, <2>1 DEF AloneOK
<1>14. ASSUME SIGCONT
       PROVE  AloneOK(a)'
  <2>1. ps_single = NoThread /\ pc[a] = "alone"
    BY <1>14 DEF SIGCONT, Orderly
  <2> QED
    BY <2>1, SingleAssumption DEF Control, Place
<1> HIDE DEF Types
<1> QED
  BY <1>1, <1>2, <1>3, <1>4, <1>5, <1>6, <1>6a, <1>7, <1>8, <1>9, <1>10, <1>11, <1>12, <1>13, <1>14,
     Zenon DEF Steps

-----------------------------------------------------------------------------
(***************************************************************************)
(* ps_singlecount.                                                          *)
(***************************************************************************)

\* The sets of threads are finite in the next state, too.
LEMMA FiniteNext ==
    ASSUME Types'
    PROVE  /\ IsFiniteSet(Remaining') /\ IsFiniteSet(Due') /\ IsFiniteSet(Held')
           /\ Cardinality(Remaining') \in Nat /\ Cardinality(Due') \in Nat
           /\ Cardinality(Held') \in Nat
           /\ Due' \subseteq Held' /\ Cardinality(Due') <= Cardinality(Held')
<1>1. /\ Remaining' \subseteq Thread /\ Due' \subseteq Thread /\ Held' \subseteq Thread
      /\ Due' \subseteq Held'
  BY DEF Remaining, Due, Held, Types
<1>2. IsFiniteSet(Remaining') /\ IsFiniteSet(Due') /\ IsFiniteSet(Held')
  BY <1>1, FS_Subset, SingleAssumption
<1>3. /\ Cardinality(Remaining') \in Nat /\ Cardinality(Due') \in Nat
      /\ Cardinality(Held') \in Nat
  BY <1>2, FS_CardinalityType
<1>4. Cardinality(Due') <= Cardinality(Held')
  BY <1>1, <1>2, FS_Subset
<1> QED
  BY <1>1, <1>2, <1>3, <1>4

\* Nobody waits, and ps_singlecount is zero.
LEMMA CountsIdle ==
    ASSUME ~Waited', ps_singlecount' = 0
    PROVE  Counts'
BY DEF Counts

\* Threads that are due become held.
LEMMA CountsSame ==
    ASSUME Types, Types', Counts, UNCHANGED <<ps_singlecount, ps_mode>>, Waited' <=> Waited,
           Waited => Remaining' = Remaining /\ Due' \subseteq Due /\ Held \subseteq Held'
    PROVE  Counts'
<1>1. CASE ~Waited
  BY <1>1, CountsIdle DEF Counts
<1>2. CASE Waited
  <2>1. Cardinality(Due') <= Cardinality(Due)
    BY <1>2, CountNat, FS_Subset
  <2>2. Cardinality(Held) <= Cardinality(Held')
    BY <1>2, FiniteNext, FS_Subset
  <2>3. ps_singlecount \in Cardinality(Due) .. Cardinality(Held)
    BY <1>2 DEF Counts
  <2>4. ps_singlecount' \in Cardinality(Due') .. Cardinality(Held')
    BY <2>1, <2>2, <2>3, CountNat, FiniteNext
  <2>5. ps_mode' = "exit" => ps_singlecount' = Cardinality(Remaining')
    BY <1>2 DEF Counts
  <2> QED
    BY <1>2, <2>4, <2>5 DEF Counts
<1> QED
  BY <1>1, <1>2

\* One thread checks in.
LEMMA CountsLess ==
    ASSUME Types, Types', Counts, Waited, Waited', UNCHANGED ps_mode,
           ps_singlecount' = ps_singlecount - 1,
           NEW t \in Due, Due' = Due \ {t}, Held' = Held \ {t},
           ps_mode = "exit" => Remaining' = Remaining \ {t}
    PROVE  Counts'
<1>1. t \in Held /\ t \in Remaining
  BY DEF Held, Due
<1>2. Cardinality(Due') = Cardinality(Due) - 1
  BY CountNat, FS_RemoveElement
<1>3. Cardinality(Held') = Cardinality(Held) - 1
  BY <1>1, CountNat, FS_RemoveElement
<1>4. ps_mode = "exit" => Cardinality(Remaining') = Cardinality(Remaining) - 1
  BY <1>1, CountNat, FS_RemoveElement
<1>5. ps_singlecount \in Cardinality(Due) .. Cardinality(Held)
  BY DEF Counts
<1>6. ps_singlecount' \in Cardinality(Due') .. Cardinality(Held')
  BY <1>2, <1>3, <1>5, CountNat
<1>7. ps_mode' = "exit" => ps_singlecount' = Cardinality(Remaining')
  BY <1>4 DEF Counts
<1> QED
  BY <1>6, <1>7 DEF Counts

\* One thread is created.
LEMMA CountsMore ==
    ASSUME Types, Types', Counts, Waited, Waited', UNCHANGED ps_mode,
           ps_singlecount' = ps_singlecount + 1,
           NEW u, u \notin Remaining, Due' = Due \cup {u}, Held' = Held \cup {u},
           Remaining' = Remaining \cup {u}
    PROVE  Counts'
<1>1. u \notin Due /\ u \notin Held
  BY DEF Held, Due
<1>2. Cardinality(Due') = Cardinality(Due) + 1
  BY <1>1, CountNat, FS_AddElement
<1>3. Cardinality(Held') = Cardinality(Held) + 1
  BY <1>1, CountNat, FS_AddElement
<1>4. Cardinality(Remaining') = Cardinality(Remaining) + 1
  BY CountNat, FS_AddElement
<1>5. ps_singlecount \in Cardinality(Due) .. Cardinality(Held)
  BY DEF Counts
<1>6. ps_singlecount' \in Cardinality(Due') .. Cardinality(Held')
  BY <1>2, <1>3, <1>5, CountNat
<1>7. ps_mode' = "exit" => ps_singlecount' = Cardinality(Remaining')
  BY <1>4 DEF Counts
<1> QED
  BY <1>6, <1>7 DEF Counts

\* Threads that stop because of a signal are still held.
LEMMA CountsHeld ==
    ASSUME Types, Types', Counts,
           UNCHANGED <<ps_threads, ps_single, ps_mode, ps_singlecount>>,
           suspsig \subseteq suspsig',
           \A q \in Thread : /\ pc'[q] = pc[q] \/ (pc[q] = "user" /\ pc'[q] \in {"catch", "cursig", "slept"})
                             /\ p_stat[q] = "SSTOP" => p_stat'[q] = "SSTOP"
                             /\ p_stat[q] # "SSTOP" /\ p_stat'[q] = "SSTOP" => q \in suspsig'
    PROVE  Counts'
<1>1. Waited' <=> Waited
  BY DEF Waited, Types
<1>2. Remaining' = Remaining /\ Remaining \subseteq Thread
  BY DEF Remaining, Types
<1>3. Due' \subseteq Due
  BY <1>2 DEF Due
<1>4. Held \subseteq Held'
  BY <1>2 DEF Held
<1> QED
  BY <1>1, <1>2, <1>3, <1>4, CountsSame

\* ps_singlecount keeps counting the threads that are still to check in.
LEMMA CountsKept ==
    ASSUME Types, Types', Control, Safe, Orderly, Counts, Steps
    PROVE  Counts'
<1> USE DEF Types, procVars, singleVars, statVars, flagVars, codeVars
<1>1. ASSUME NEW t \in Thread, NEW m \in SetModes, NEW wx \in SUBSET Thread, SetStep(t, m, wx)
      PROVE  Counts'
  <2>0. /\ ps_threads' = ps_threads /\ ps_single' = t /\ t # NoThread /\ p_stat[t] = "SRUN"
        /\ ps_singlecount' = Cardinality(Counted(t, m)) /\ t \in ps_threads
        /\ ps_mode' = IF m = "suspend" THEN ps_mode ELSE m
    BY <1>1, SingleAssumption DEF SetStep, SingleThreadSet
  <2>1. /\ SetSelf(t, m)
        /\ \A q \in ps_threads \ {t} : SetOther(t, m, q) /\ pc'[q] = pc[q]
    BY <1>1, SetEffect DEF SetOther
  <2>2. CASE Counted(t, m) = {}
    BY <2>0, <2>1, <2>2, CountsIdle, FS_EmptySet DEF SetSelf, Waited
  <2>3. CASE Counted(t, m) # {}
    <3>0. Waited'
      BY <2>0, <2>1, <2>3 DEF SetSelf, Waited
    <3>1. ASSUME NEW q \in Counted(t, m)
          PROVE  q \in Due'
      <4>1. q \in ps_threads \ {t} /\ Sleep(q) /\ Place(q)
        BY DEF Counted, Control
      <4>2. pc[q] # "exit"
        BY <4>1 DEF Counted, Sleep, Place
      <4>3. p_stat'[q] # "SSTOP"
        BY <2>1, <4>1 DEF SetOther, Frozen, Roused, Counted
      <4> QED
        BY <2>0, <2>1, <4>1, <4>2, <4>3 DEF Due, Remaining
    <3>2. ASSUME NEW q \in Remaining', p_stat'[q] # "SSTOP" \/ m = "exit"
          PROVE  q \in Counted(t, m)
      <4>1. q \in ps_threads \ {t} /\ pc[q] # "exit" /\ Place(q) /\ p_stat[q] \in Stat
        BY <2>0, <2>1 DEF Remaining, Control
      <4>2. p_stat[q] # "SDEAD"
        BY <4>1 DEF Place
      <4>3. CASE q \in wexit
        <5>1. p_stat[q] = "SSTOP" /\ m = "exit"
          BY <1>1, <4>1, <4>3, SetFacts
        <5> QED
          BY <4>1, <4>3, <5>1 DEF Counted, Exiting
      <4>4. CASE q \notin wexit /\ p_stat[q] = "SRUN"
        BY <4>1, <4>4 DEF Counted
      <4>5. CASE q \notin wexit /\ p_stat[q] = "SSLEEP"
        <5>1. q \notin Frozen(t, m)
          BY <2>1, <3>2, <4>1 DEF SetOther, Frozen
        <5> QED
          BY <4>1, <4>5, <5>1 DEF Counted, Frozen
      <4>6. CASE q \notin wexit /\ p_stat[q] = "SSTOP"
        <5>1. q \in Roused(t, m) \/ m = "exit"
          BY <2>1, <3>2, <4>1, <4>6 DEF SetOther
        <5> QED
          BY <4>1, <4>6, <5>1 DEF Counted, Exiting, Roused
      <4> QED
        BY <4>1, <4>2, <4>3, <4>4, <4>5, <4>6 DEF Stat
    <3>3. Due' = Counted(t, m)
      BY <3>1, <3>2 DEF Due
    <3>4. m = "exit" => Remaining' = Counted(t, m)
      BY <3>1, <3>2 DEF Due
    <3>5. ps_mode' = "exit" => m = "exit"
      BY <1>1, <2>0, SetFacts
    <3>6. ps_singlecount' \in Cardinality(Due') .. Cardinality(Held')
      BY <2>0, <3>3, FiniteNext
    <3>7. ps_mode' = "exit" => ps_singlecount' = Cardinality(Remaining')
      BY <2>0, <3>4, <3>5
    <3> QED
      BY <3>0, <3>6, <3>7 DEF Counts
  <2> QED
    BY <2>2, <2>3
<1>2. ASSUME NEW t \in Thread, NEW then \in Purposes, NEW wx \in SUBSET Thread,
             CheckStep(t, then, wx)
      PROVE  Counts'
  <2>0. /\ t \in ps_threads /\ p_stat[t] = "SRUN" /\ pc[t] # "exit"
        /\ UNCHANGED <<ps_threads, ps_single, ps_mode, suspsig>>
        /\ ps_singlecount' = ps_singlecount - 1
        /\ pc' = [pc EXCEPT ![t] = IF ps_mode = "exit" THEN "exit" ELSE "suspended"]
    BY <1>2 DEF CheckStep, CheckIn
  <2>1. /\ t # ps_single /\ Waited /\ ps_single \in ps_threads
        /\ ps_mode # "exit" => t \notin suspsig
    BY <1>2, CheckFacts
  <2>2. p_stat'[t] = IF ps_mode = "exit" THEN "SRUN" ELSE "SSTOP"
    BY <1>2 DEF CheckStep, CheckIn, SetRunnable
  <2>3. ASSUME NEW q \in Remaining, q # t
        PROVE  p_stat'[q] = p_stat[q] /\ pc'[q] = pc[q]
    <3>1. q \in Thread /\ Sleep(q) /\ Place(q) /\ q # ps_single
      BY DEF Remaining, Control
    <3>2. p_wchan[q] # "count"
      BY <3>1 DEF Sleep, Place, Stat
    <3>3. p_stat'[q] = p_stat[q]
      BY <1>2, <2>3, <3>1, <3>2 DEF CheckStep, CheckIn, SetRunnable, Sleepers
    <3> QED
      BY <2>0, <2>3, <3>1, <3>3
  <2>4. Waited'
    BY <2>0, <2>1 DEF Waited
  <2>5. t \in Due
    BY <2>0, <2>1 DEF Due, Remaining
  <2>6. Remaining' \subseteq Remaining
    BY <2>0, <2>1 DEF Remaining
  <2>7. \A q \in Remaining \ {t} : q \in Remaining'
    BY <2>0, <2>3 DEF Remaining
  <2>8. ps_mode = "exit" => Remaining' = Remaining \ {t}
    BY <2>0, <2>6, <2>7 DEF Remaining
  <2>9. t \notin Due' /\ t \notin Held'
    BY <2>0, <2>1, <2>2 DEF Due, Held, Remaining
  <2>10. Due' = Due \ {t}
    BY <2>3, <2>6, <2>7, <2>9 DEF Due
  <2>11. Held' = Held \ {t}
    BY <2>0, <2>3, <2>6, <2>7, <2>9 DEF Held
  <2> QED
    BY <2>0, <2>1, <2>4, <2>5, <2>8, <2>10, <2>11, CountsLess
<1>3. ASSUME NEW t \in Thread, NEW where \in Where, NEW wx \in SUBSET Thread,
             GoStep(t, where, wx)
      PROVE  Counts'
  <2>0. /\ t \in ps_threads /\ pc[t] \notin {"exit", "wait"} /\ where \in {"user", "kernel", "exit"}
        /\ UNCHANGED <<ps_threads, ps_single, ps_mode, ps_singlecount, suspsig, p_stat>>
        /\ pc' = [pc EXCEPT ![t] = where]
    BY <1>3 DEF GoStep, Goto
  <2>1. Waited' <=> Waited
    BY <2>0 DEF Waited
  <2>2. Waited => where # "exit" /\ ps_single # t
    BY <1>3, <2>0, GoFacts, SingleAssumption DEF Waited
  <2>3. Waited => Remaining' = Remaining
    BY <2>0, <2>2 DEF Remaining
  <2>4. Waited => Due' = Due /\ Held' = Held
    BY <2>0, <2>3 DEF Due, Held
  <2> QED
    BY <2>0, <2>1, <2>3, <2>4, CountsSame
<1>4. ASSUME NEW t \in Thread, SingleThreadWait(t)
      PROVE  Counts'
  <2>0. /\ pc[t] = "wait" /\ ps_single = t /\ t # NoThread
        /\ UNCHANGED <<ps_threads, ps_single, ps_mode, ps_singlecount, suspsig>>
    BY <1>4, SingleAssumption DEF SingleThreadWait, At, Control, Place
  <2>1. CASE ps_singlecount > 0
    <3>1. pc' = pc /\ \A q \in Thread \ {t} : p_stat'[q] = p_stat[q]
      BY <1>4, <2>0, <2>1 DEF SingleThreadWait, TSleep
    <3>2. Waited /\ Waited'
      BY <2>0, <3>1 DEF Waited
    <3>3. Remaining' = Remaining
      BY <2>0, <3>1 DEF Remaining
    <3>4. Due' = Due /\ Held' = Held
      BY <2>0, <3>1, <3>3 DEF Due, Held, Remaining
    <3> QED
      BY <2>0, <3>2, <3>3, <3>4, CountsSame
  <2>2. CASE ~(ps_singlecount > 0)
    <3>1. ps_singlecount' = 0
      BY <2>0, <2>2, CountNat
    <3>2. pc'[t] = "alone"
      BY <1>4, <2>2 DEF SingleThreadWait
    <3> QED
      BY <2>0, <3>1, <3>2, CountsIdle DEF Waited
  <2> QED
    BY <2>1, <2>2
<1>5. ASSUME NEW t \in Thread, ExecReturns(t)
      PROVE  Counts'
  <2>1. /\ pc[t] = "alone" /\ ps_single = t /\ ps_single' = NoThread
        /\ ps_singlecount' = ps_singlecount
    BY <1>5 DEF ExecReturns, SingleThreadClear, At, Control, Place
  <2>2. ~Waited /\ ~Waited'
    BY <2>1 DEF Waited
  <2> QED
    BY <2>1, <2>2, CountsIdle DEF Counts
<1>6. ASSUME NEW t \in Thread, ExitUnlink(t)
      PROVE  Counts'
  <2>0. /\ pc[t] = "exit" /\ ps_threads' = ps_threads \ {t}
        /\ UNCHANGED <<ps_single, ps_mode, ps_singlecount, suspsig, p_stat>>
        /\ pc'[t] # "wait" /\ \A q \in Thread \ {t} : pc'[q] = pc[q]
    BY <1>6 DEF ExitUnlink, At
  <2>1. Waited' <=> Waited
    BY <2>0 DEF Waited
  <2>2. Remaining' = Remaining
    BY <2>0 DEF Remaining
  <2>3. Due' = Due /\ Held' = Held
    BY <2>0, <2>2 DEF Due, Held
  <2> QED
    BY <2>0, <2>1, <2>2, <2>3, CountsSame
<1>6a. ASSUME NEW t \in Thread, ThreadDies(t)
       PROVE  Counts'
  <2>0. /\ UNCHANGED <<ps_threads, ps_single, ps_mode, ps_singlecount, suspsig>>
        /\ t \notin ps_threads /\ pc[t] # "wait" /\ pc'[t] # "wait"
        /\ \A q \in Thread \ {t} : DiesOther(q) /\ pc'[q] = pc[q]
    BY <1>6a, DiesEffect DEF ThreadDies
  <2>1. \A q \in ps_threads : p_wchan[q] # "threads"
    BY DEF Control, Sleep, Place, Stat
  <2>2. \A q \in ps_threads : p_stat'[q] = p_stat[q]
    BY <2>0, <2>1 DEF DiesOther
  <2>3. Waited' <=> Waited
    BY <2>0 DEF Waited
  <2>4. Remaining' = Remaining
    BY <2>0 DEF Remaining
  <2>5. Due' = Due /\ Held' = Held
    BY <2>0, <2>2, <2>4 DEF Due, Held, Remaining
  <2> QED
    BY <2>0, <2>3, <2>4, <2>5, CountsSame
<1>7. ASSUME NEW t \in Thread, MainDies(t)
      PROVE  Counts'
  <2>0. /\ pc[t] = "thrdeath" /\ t \notin ps_threads
        /\ UNCHANGED <<ps_threads, ps_single, ps_mode, ps_singlecount, suspsig>>
    BY <1>7 DEF MainDies, At, Control, Place
  <2>1. /\ pc'[t] # "wait"
        /\ \A q \in Thread \ {t} : p_stat'[q] = p_stat[q] /\ pc'[q] = pc[q]
    BY <1>7 DEF MainDies, TSleep
  <2>2. Waited' <=> Waited
    BY <2>0, <2>1 DEF Waited
  <2>3. Remaining' = Remaining
    BY <2>0, <2>1 DEF Remaining
  <2>4. Due' = Due /\ Held' = Held
    BY <2>0, <2>1, <2>3 DEF Due, Held, Remaining
  <2> QED
    BY <2>0, <2>2, <2>3, <2>4, CountsSame
<1>8. ASSUME NEW t \in Thread, ProcStop(t)
      PROVE  Counts'
  <2>0. /\ UNCHANGED <<ps_threads, ps_single, ps_mode, ps_singlecount>>
        /\ suspsig \subseteq suspsig'
        /\ \A q \in Thread : /\ pc'[q] = pc[q] \/ (pc[q] = "user" /\ pc'[q] \in {"catch", "cursig", "slept"})
                             /\ p_stat[q] = "SSTOP" => p_stat'[q] = "SSTOP"
                             /\ p_stat[q] # "SSTOP" /\ p_stat'[q] = "SSTOP" => q \in suspsig'
    BY <1>8 DEF ProcStop, At, AtUserret
  <2> QED
    BY <2>0, CountsHeld
<1>9. ASSUME NEW t \in Thread, Tsleep(t)
      PROVE  Counts'
  <2>0. /\ UNCHANGED <<ps_threads, ps_single, ps_mode, ps_singlecount>>
        /\ suspsig \subseteq suspsig'
        /\ \A q \in Thread : /\ pc'[q] = pc[q] \/ (pc[q] = "user" /\ pc'[q] \in {"catch", "cursig", "slept"})
                             /\ p_stat[q] = "SSTOP" => p_stat'[q] = "SSTOP"
                             /\ p_stat[q] # "SSTOP" /\ p_stat'[q] = "SSTOP" => q \in suspsig'
    BY <1>9 DEF Tsleep, TSleep, At
  <2> QED
    BY <2>0, CountsHeld
<1>10. ASSUME NEW t \in Thread, TsleepCatch(t)
       PROVE  Counts'
  <2>0. /\ UNCHANGED <<ps_threads, ps_single, ps_mode, ps_singlecount>>
        /\ suspsig \subseteq suspsig'
        /\ \A q \in Thread : /\ pc'[q] = pc[q] \/ (pc[q] = "user" /\ pc'[q] \in {"catch", "cursig", "slept"})
                             /\ p_stat[q] = "SSTOP" => p_stat'[q] = "SSTOP"
                             /\ p_stat[q] # "SSTOP" /\ p_stat'[q] = "SSTOP" => q \in suspsig'
    BY <1>10 DEF TsleepCatch, TSleep, At
  <2> QED
    BY <2>0, CountsHeld
<1>11. ASSUME NEW t \in Thread, fork1(t)
       PROVE  Counts'
  <2>0. /\ t \in ps_threads /\ pc[t] = "user" /\ p_stat[t] = "SRUN"
        /\ UNCHANGED <<ps_single, ps_mode>>
    BY <1>11, RunningFacts DEF fork1, At
  <2>1. PICK u \in Thread : /\ pc[u] = "dead" /\ ps_threads' = ps_threads \cup {u}
                            /\ ps_singlecount' = ForkCounts
                            /\ p_stat' = [p_stat EXCEPT ![u] = "SRUN"]
                            /\ pc' = [pc EXCEPT ![t] = "kernel", ![u] = "kernel"]
                            /\ suspsig' = suspsig \ {u}
    BY <1>11 DEF fork1
  <2>2. u # t /\ u \notin ps_threads
    BY <2>0, <2>1 DEF Control, Place
  <2>3. CASE ps_single = NoThread
    <3>1. ~Waited /\ ~Waited'
      BY <2>0, <2>3 DEF Waited
    <3> QED
      BY <2>1, <2>3, <3>1, CountsIdle DEF Counts, ForkCounts
  <2>4. CASE ps_single # NoThread
    <3>1. ps_single # t /\ Waited /\ ps_single \in ps_threads
      BY <2>0, <2>4, RunnerFacts
    <3>2. Waited' /\ ps_single # u
      BY <2>0, <2>1, <2>2, <3>1 DEF Waited
    <3>3. ps_singlecount' = ps_singlecount + 1
      BY <2>1, <2>4 DEF ForkCounts
    <3>4. Remaining' = Remaining \cup {u} /\ u \notin Remaining
      BY <2>0, <2>1, <2>2, <3>1, <3>2 DEF Remaining
    <3>5. Due' = Due \cup {u} /\ Held' = Held \cup {u}
      BY <2>0, <2>1, <3>4 DEF Due, Held, Remaining
    <3> QED
      BY <2>0, <3>1, <3>2, <3>3, <3>4, <3>5, CountsMore
  <2> QED
    BY <2>3, <2>4
<1>12. ASSUME NEW t \in Thread, Event(t)
       PROVE  Counts'
  <2>0. /\ UNCHANGED <<ps_threads, ps_single, ps_mode, ps_singlecount>>
        /\ suspsig \subseteq suspsig'
        /\ \A q \in Thread : /\ pc'[q] = pc[q] \/ (pc[q] = "user" /\ pc'[q] \in {"catch", "cursig", "slept"})
                             /\ p_stat[q] = "SSTOP" => p_stat'[q] = "SSTOP"
                             /\ p_stat[q] # "SSTOP" /\ p_stat'[q] = "SSTOP" => q \in suspsig'
    BY <1>12 DEF Event
  <2> QED
    BY <2>0, CountsHeld
<1>13. ASSUME SIGSTOP
       PROVE  Counts'
  <2>0. /\ UNCHANGED <<ps_threads, ps_single, ps_mode, ps_singlecount>>
        /\ suspsig \subseteq suspsig'
        /\ \A q \in Thread : /\ pc'[q] = pc[q] \/ (pc[q] = "user" /\ pc'[q] \in {"catch", "cursig", "slept"})
                             /\ p_stat[q] = "SSTOP" => p_stat'[q] = "SSTOP"
                             /\ p_stat[q] # "SSTOP" /\ p_stat'[q] = "SSTOP" => q \in suspsig'
    BY <1>13 DEF SIGSTOP
  <2> QED
    BY <2>0, CountsHeld
<1>14. ASSUME SIGCONT
       PROVE  Counts'
  <2>1. ps_single = NoThread /\ UNCHANGED <<ps_single, ps_singlecount>>
    BY <1>14 DEF SIGCONT, Orderly
  <2>2. ~Waited /\ ~Waited'
    BY <2>1 DEF Waited
  <2> QED
    BY <2>1, <2>2, CountsIdle DEF Counts
<1> HIDE DEF Types
<1> QED
  BY <1>1, <1>2, <1>3, <1>4, <1>5, <1>6, <1>6a, <1>7, <1>8, <1>9, <1>10, <1>11, <1>12, <1>13, <1>14,
     Zenon DEF Steps

\* ps_refcnt goes with the threads that are created and that die.
LEMMA RefCountKept ==
    ASSUME Types, Control, RefCount, Steps
    PROVE  RefCount'
<1>0. IsFiniteSet(Living)
  BY FS_Subset, SingleAssumption DEF Living
<1> USE DEF Types, procVars, singleVars, statVars, flagVars, codeVars
<1>1. ASSUME NEW t \in Thread, NEW m \in SetModes, NEW wx \in SUBSET Thread, SetStep(t, m, wx)
      PROVE  RefCount'
  <2>1. ps_refcnt' = ps_refcnt /\ pc[t] # "dead"
    BY <1>1 DEF SetStep, SingleThreadSet
  <2>2. SetSelf(t, m) /\ \A q \in Thread \ {t} : SetOther(t, m, q)
    BY <1>1, SetEffect
  <2>3. pc'[t] # "dead"
    BY <2>2 DEF SetSelf
  <2>4. \A q \in Thread \ {t} : pc'[q] = pc[q]
    BY <2>2 DEF SetOther
  <2>5. Living' = Living
    BY <2>1, <2>3, <2>4 DEF Living
  <2> QED
    BY <2>1, <2>5 DEF RefCount
<1>2. ASSUME NEW t \in Thread, NEW then \in Purposes, NEW wx \in SUBSET Thread,
             CheckStep(t, then, wx)
      PROVE  RefCount'
  <2>1. Living' = Living /\ ps_refcnt' = ps_refcnt
    BY <1>2 DEF CheckStep, CheckIn, Living
  <2> QED
    BY <2>1 DEF RefCount
<1>3. ASSUME NEW t \in Thread, NEW where \in Where, NEW wx \in SUBSET Thread,
             GoStep(t, where, wx)
      PROVE  RefCount'
  <2>1. Living' = Living /\ ps_refcnt' = ps_refcnt
    BY <1>3 DEF GoStep, Goto, Living
  <2> QED
    BY <2>1 DEF RefCount
<1>4. ASSUME NEW t \in Thread, SingleThreadWait(t)
      PROVE  RefCount'
  <2>1. Living' = Living /\ ps_refcnt' = ps_refcnt
    BY <1>4 DEF SingleThreadWait, TSleep, At, Living
  <2> QED
    BY <2>1 DEF RefCount
<1>5. ASSUME NEW t \in Thread, ExecReturns(t)
      PROVE  RefCount'
  <2>1. Living' = Living /\ ps_refcnt' = ps_refcnt
    BY <1>5 DEF ExecReturns, SingleThreadClear, At, Living
  <2> QED
    BY <2>1 DEF RefCount
<1>6. ASSUME NEW t \in Thread, ExitUnlink(t)
      PROVE  RefCount'
  <2>1. Living' = Living /\ ps_refcnt' = ps_refcnt
    BY <1>6 DEF ExitUnlink, At, Living
  <2> QED
    BY <2>1 DEF RefCount
<1>6a. ASSUME NEW t \in Thread, ThreadDies(t)
       PROVE  RefCount'
  <2>1. /\ pc[t] = "unlinked" /\ t # Main /\ pc'[t] = "dead"
        /\ \A q \in Thread \ {t} : pc'[q] = pc[q]
    BY <1>6a, DiesEffect
  <2>2. t \in Living /\ Living' = Living \ {t} /\ ps_refcnt' = ps_refcnt - 1
    BY <1>6a, <2>1 DEF ThreadDies, Living
  <2>3. Cardinality(Living') = Cardinality(Living) - 1
    BY <1>0, <2>2, FS_RemoveElement
  <2> QED
    BY <2>2, <2>3 DEF RefCount
<1>7. ASSUME NEW t \in Thread, MainDies(t)
      PROVE  RefCount'
  <2>1. t = Main /\ ps_refcnt' = ps_refcnt /\ \A q \in Thread \ {t} : pc'[q] = pc[q]
    BY <1>7 DEF MainDies, TSleep, At, Control, Place
  <2>2. Living' = Living
    BY <2>1 DEF Living
  <2> QED
    BY <2>1, <2>2 DEF RefCount
<1>8. ASSUME NEW t \in Thread, ProcStop(t)
      PROVE  RefCount'
  <2>1. Living' = Living /\ ps_refcnt' = ps_refcnt
    BY <1>8 DEF ProcStop, At, AtUserret, Living
  <2> QED
    BY <2>1 DEF RefCount
<1>9. ASSUME NEW t \in Thread, Tsleep(t)
      PROVE  RefCount'
  <2>1. Living' = Living /\ ps_refcnt' = ps_refcnt
    BY <1>9 DEF Tsleep, TSleep, At, Living
  <2> QED
    BY <2>1 DEF RefCount
<1>10. ASSUME NEW t \in Thread, TsleepCatch(t)
       PROVE  RefCount'
  <2>1. Living' = Living /\ ps_refcnt' = ps_refcnt
    BY <1>10 DEF TsleepCatch, TSleep, At, Living
  <2> QED
    BY <2>1 DEF RefCount
<1>11. ASSUME NEW t \in Thread, fork1(t)
       PROVE  RefCount'
  <2>1. PICK u \in Thread \ {Main} : /\ pc[u] = "dead" /\ ps_refcnt' = ps_refcnt + 1
                                     /\ pc' = [pc EXCEPT ![t] = "kernel", ![u] = "kernel"]
    BY <1>11 DEF fork1
  <2>2. pc[t] = "user"
    BY <1>11 DEF fork1, At
  <2>3. u \notin Living /\ Living' = Living \cup {u}
    BY <2>1, <2>2 DEF Living
  <2>4. Cardinality(Living') = Cardinality(Living) + 1
    BY <1>0, <2>3, FS_AddElement
  <2> QED
    BY <2>1, <2>3, <2>4 DEF RefCount
<1>12. ASSUME NEW t \in Thread, Event(t)
       PROVE  RefCount'
  <2>1. Living' = Living /\ ps_refcnt' = ps_refcnt
    BY <1>12 DEF Event, Living
  <2> QED
    BY <2>1 DEF RefCount
<1>13. ASSUME SIGSTOP
       PROVE  RefCount'
  <2>1. Living' = Living /\ ps_refcnt' = ps_refcnt
    BY <1>13 DEF SIGSTOP, Living
  <2> QED
    BY <2>1 DEF RefCount
<1>14. ASSUME SIGCONT
       PROVE  RefCount'
  <2>1. Living' = Living /\ ps_refcnt' = ps_refcnt
    BY <1>14 DEF SIGCONT, Living
  <2> QED
    BY <2>1 DEF RefCount
<1> HIDE DEF Types
<1> QED
  BY <1>1, <1>2, <1>3, <1>4, <1>5, <1>6, <1>6a, <1>7, <1>8, <1>9, <1>10, <1>11, <1>12, <1>13, <1>14,
     Zenon DEF Steps

-----------------------------------------------------------------------------
(***************************************************************************)
(* The invariant and the theorems.                                          *)
(***************************************************************************)

\* SingleInv holds at first.
LEMMA SingleInvInit ==
    ASSUME Init
    PROVE  SingleInv
<1>1. Types /\ Control
  BY ControlInit
<1>2. Safe
  <2>1. /\ ps_single = NoThread /\ ps_mode = "none" /\ suspsig = {}
        /\ \A t \in Thread : p_stat[t] # "SSTOP" /\ pc[t] \in {"user", "dead"}
    BY DEF Init
  <2>2. Owner /\ Flags /\ Marked
    BY <2>1 DEF Owner, Flags, Marked
  <2>3. Stopped
    BY <1>1, <2>1 DEF Stopped, Halt, Types
  <2>4. SingleAlone
    BY <2>1 DEF SingleAlone
  <2> QED
    BY <2>2, <2>3, <2>4 DEF Safe
<1>3. Counts
  BY DEF Init, Counts, Waited
<1>4. RefCount
  <2>1. work.threads \subseteq Thread /\ Main \in work.threads
    BY SingleAssumption DEF Init
  <2>2. Living = work.threads
    BY <2>1 DEF Init, Living
  <2> QED
    BY <2>2 DEF Init, RefCount
<1>5. Static
  BY DEF Init, Static
<1> QED
  BY <1>1, <1>2, <1>3, <1>4, <1>5 DEF SingleInv

\* The workload stays the same.
LEMMA StaticKept ==
    ASSUME Static, Next
    PROVE  Static'
<1>1. \A t \in Thread : ExecReturns(t) => tried' \subseteq Thread
  BY DEF ExecReturns, Static
<1>2. \A t \in Thread : Runs(t) => tried' \subseteq Thread
  BY <1>1 DEF Runs, Static
<1>3. \A t \in Thread : Call(t) => tried' \subseteq Thread
  BY DEF Call, Static
<1>4. tried' \subseteq Thread
  BY <1>2, <1>3 DEF Next, Static
<1> QED
  BY <1>4 DEF Next, Static

\* Every orderly step keeps SingleInv.
LEMMA SingleInvStep ==
    ASSUME SingleInv, Next, Orderly
    PROVE  SingleInv'
<1>0. Types /\ Control /\ Safe /\ Counts /\ RefCount /\ Static
  BY DEF SingleInv
<1>1. Steps
  BY <1>0, NextSteps
<1>2. Types' /\ Control'
  BY <1>0, <1>1, TypesKept, ControlKept
<1>3. Owner' /\ Flags' /\ Stopped' /\ Marked' /\ SingleAlone'
  BY <1>0, <1>1, OwnerKept, FlagsKept, StoppedKept, MarkedKept, AloneKept
<1>4. Counts' /\ RefCount'
  BY <1>0, <1>1, <1>2, CountsKept, RefCountKept
<1>5. Static'
  BY <1>0, StaticKept
<1> QED
  BY <1>2, <1>3, <1>4, <1>5 DEF SingleInv, Safe

\* So does stuttering.
LEMMA SingleInvStutter ==
    ASSUME SingleInv, UNCHANGED vars
    PROVE  SingleInv'
<1> USE DEF vars, procVars, singleVars, statVars, flagVars, codeVars
<1>1. Types' /\ Control'
  BY ControlNext DEF SingleInv
<1>2. Remaining' = Remaining /\ Living' = Living /\ (Waited' <=> Waited)
  BY DEF Remaining, Living, Waited
<1>3. Due' = Due /\ Held' = Held
  BY <1>2 DEF Due, Held
<1>4. Counts' /\ RefCount'
  BY <1>2, <1>3 DEF SingleInv, Counts, RefCount
<1>5. Owner' /\ Flags' /\ Marked'
  BY DEF SingleInv, Safe, Owner, Flags, Marked
<1>6. Stopped' /\ SingleAlone'
  BY DEF SingleInv, Safe, Stopped, Halt, SingleAlone
<1>7. Static'
  BY DEF SingleInv, Static
<1> QED
  BY <1>1, <1>4, <1>5, <1>6, <1>7 DEF SingleInv, Safe

\* As long as every step is orderly SingleInv holds, for any number of threads
\* and whatever they do.
THEOREM OrderlySafe ==
    Spec /\ [][Orderly]_vars => []SingleInv
<1>1. Init => SingleInv
  BY SingleInvInit
<1>2. SingleInv /\ [Next]_vars /\ [Orderly]_vars => SingleInv'
  BY SingleInvStep, SingleInvStutter
<1> QED
  BY <1>1, <1>2, PTL DEF Spec

\* SingleInv bounds the counters.
LEMMA InvTypeOK ==
    ASSUME SingleInv
    PROVE  TypeOK
<1>0. Types /\ Counts /\ RefCount /\ Static
  BY DEF SingleInv
<1>1. Living \subseteq Thread /\ Held \subseteq Thread
  BY <1>0 DEF Living, Held, Remaining, Types
<1>2. /\ Cardinality(Thread) \in Nat
      /\ IsFiniteSet(Living) /\ Cardinality(Living) <= Cardinality(Thread)
      /\ IsFiniteSet(Held) /\ Cardinality(Held) <= Cardinality(Thread)
  BY <1>1, FS_Subset, FS_CardinalityType, SingleAssumption
<1>3. ps_refcnt \in 0 .. Cardinality(Thread)
  BY <1>0, <1>2, FS_CardinalityType DEF RefCount
<1>4. ps_singlecount <= Cardinality(Held) \/ ps_singlecount = 0
  BY <1>0, CountNat DEF Counts
<1>5. ps_singlecount \in 0 .. Cardinality(Thread)
  BY <1>0, <1>2, <1>4, CountNat
<1>6. {suspsingle, suspsig, wexit, stopsig} \subseteq SUBSET Thread
  BY <1>0 DEF Types
<1> QED
  BY <1>0, <1>3, <1>5, <1>6 DEF TypeOK, Types, Static, Stat, Chan, Where, SetModes, Purposes

\* What CountExact counts is what SingleInv counts.
LEMMA InvCountExact ==
    ASSUME SingleInv
    PROVE  CountExact
<1>0. Types /\ Control /\ Safe /\ Counts
  BY DEF SingleInv
<1> DEFINE others == (suspsingle \cap ps_threads) \ {ps_single}
           due == {q \in others : p_stat[q] \in {"SRUN", "SSLEEP"} /\ pc[q] # "exit"}
           signalled == {q \in others \cap suspsig : p_stat[q] = "SSTOP"}
<1> SUFFICES ASSUME ps_single \in ps_threads
             PROVE  ps_singlecount \in Cardinality(due) .. Cardinality(due \cup signalled)
  BY DEF CountExact
<1>1. ps_single # NoThread /\ ps_single \in Thread
  BY <1>0, SingleAssumption DEF Types
<1>2. \A q \in Remaining : q \in others
  BY <1>0, <1>1 DEF Remaining, Safe, Marked
<1>3. \A q \in ps_threads : p_stat[q] \in {"SRUN", "SSLEEP", "SSTOP"}
  BY <1>0 DEF Types, Control, Place, Stat
<1>4. \A q \in ps_threads : p_stat[q] = "SSTOP" => pc[q] # "exit"
  BY <1>0 DEF Types, Control, Sleep
<1>5. due = Due
  BY <1>2, <1>3 DEF Due, Remaining
<1>6. due \cup signalled = Held
  BY <1>2, <1>3, <1>4, <1>5 DEF Held, Due, Remaining
<1>7. CASE Waited
  BY <1>0, <1>5, <1>6, <1>7 DEF Counts
<1>8. CASE ~Waited
  <2>1. ps_singlecount = 0
    BY <1>0, <1>8 DEF Counts
  <2>2. pc[ps_single] = "alone" \/ \A q \in ps_threads : pc[q] = "exit"
    BY <1>0, <1>1, <1>8 DEF Safe, Owner, Waited
  <2>3. Due = {}
    BY <1>0, <1>1, <2>2 DEF Safe, SingleAlone, Due, Remaining
  <2>4. Cardinality(Due) = 0
    BY <2>3, FS_EmptySet
  <2> QED
    BY <1>0, <1>5, <1>6, <2>1, <2>4, CountNat
<1> QED
  BY <1>7, <1>8

\* SingleInv says who is alone and who is stopped.
LEMMA InvSingleSound ==
    ASSUME SingleInv
    PROVE  SingleSound
BY DEF SingleInv, Safe, Stopped, Halt, SingleSound, NobodyLeftStopped

\* ps_refcnt and ps_singlecount stay within the number of threads: the int that
\* single_thread_check() decrements never goes below zero.
THEOREM SingleTypeCorrect ==
    Spec /\ [][Orderly]_vars => []TypeOK
BY OrderlySafe, InvTypeOK, PTL

\* ps_singlecount counts every thread that is still to check in, once.
THEOREM CountsExact ==
    Spec /\ [][Orderly]_vars => []CountExact
BY OrderlySafe, InvCountExact, PTL

\* single_thread_set() returns to a thread that has the process for itself, and
\* single_thread_clear() leaves nobody stopped.
THEOREM SingleThreadingSound ==
    Spec /\ [][Orderly]_vars => []SingleSound
BY OrderlySafe, InvSingleSound, PTL

-----------------------------------------------------------------------------
(***************************************************************************)
(* Tame workloads.                                                          *)
(***************************************************************************)

SomeLeave == \E t \in Thread : work.calls[t] \cap Leaving # {}

\* Who is suspended on its way out was asked to leave; and where threads leave,
\* so that every execve() succeeds, nobody is left suspended.
Asked(q) == cont[q] \in Leaving => work.calls[q] \cap Leaving # {}
NoLate ==
    /\ \A q \in Thread : Asked(q)
    /\ SomeLeave /\ ps_single = NoThread => \A q \in Thread : pc[q] # "suspended"

\* cont is only changed by single_thread_check(), for the call that is made.
LEMMA AskedKept ==
    ASSUME Types, Control, Next, NEW q \in Thread, Asked(q)
    PROVE  Asked(q)'
<1> USE DEF Types, procVars, singleVars, statVars, flagVars, codeVars, Untouched
<1>0. work' = work
  BY DEF Next
<1>a. ASSUME NEW t \in Thread, NEW deep, NEW then \in Purposes, NEW wx,
             CheckOther(t, deep, then, wx), then \in Leaving => work.calls[t] \cap Leaving # {}
      PROVE  Asked(q)'
  BY <1>0, <1>a DEF CheckOther, CheckIn, Goto, Asked, Leaving
<1>b. ASSUME NEW t \in Thread, NEW m, SingleThreadSet(t, m)
      PROVE  Asked(q)'
  BY <1>0, <1>b DEF SingleThreadSet, Asked, Leaving
<1>c. ASSUME NEW t \in Thread, NEW where, Goto(t, where)
      PROVE  Asked(q)'
  BY <1>0, <1>c DEF Goto, Asked, Leaving
<1>d. ASSUME NEW t \in Thread, NEW m, NEW deep, NEW then \in Purposes, NEW wx,
             Set(t, m, deep, then, wx), then \in Leaving => work.calls[t] \cap Leaving # {}
      PROVE  Asked(q)'
  BY <1>a, <1>b, <1>d DEF Set
<1>e. ASSUME NEW t \in Thread, NEW deep, NEW then \in Purposes, NEW wx, NEW here,
             Check(t, deep, then, wx, here), then \in Leaving => work.calls[t] \cap Leaving # {}
      PROVE  Asked(q)'
  BY <1>a, <1>c, <1>e DEF Check
<1>f. cont' = cont => Asked(q)'
  BY <1>0 DEF Asked
<1>g. ASSUME NEW t \in Thread, ExitAtOnce(t)
      PROVE  Asked(q)'
  BY <1>c, <1>g DEF ExitAtOnce
<1>1. ASSUME NEW t \in Thread, execve(t)
      PROVE  Asked(q)'
  BY <1>1, <1>d DEF execve, Purposes, Leaving
<1>2. ASSUME NEW t \in Thread, ExecCommits(t) \/ CoreDumped(t) \/ ExitAlone(t)
      PROVE  Asked(q)'
  BY <1>2, <1>b, <1>g DEF ExecCommits, CoreDumped, ExitAlone
<1>3. ASSUME NEW t \in Thread, ExitProcess(t)
      PROVE  Asked(q)'
  <2>1. work.calls[t] \cap Leaving # {} /\ "exit" \in Purposes
    BY <1>3 DEF ExitProcess, Does, Leaving, Purposes
  <2> QED
    BY <1>3, <1>d, <1>g, <2>1 DEF ExitProcess
<1>4. ASSUME NEW t \in Thread, ExitThread(t)
      PROVE  Asked(q)'
  <2>1. work.calls[t] \cap Leaving # {} /\ "threxit" \in Purposes
    BY <1>4 DEF ExitThread, Does, Leaving, Purposes
  <2> QED
    BY <1>4, <1>e, <1>g, <2>1 DEF ExitThread
<1>5. ASSUME NEW t \in Thread, SigExit(t)
      PROVE  Asked(q)'
  <2>1. work.calls[t] \cap Leaving # {} /\ "core" \in Purposes
    BY <1>5 DEF SigExit, Does, Leaving, Purposes
  <2> QED
    BY <1>5, <1>d, <1>g, <2>1 DEF SigExit
<1>6. ASSUME NEW t \in Thread, Resume(t)
      PROVE  Asked(q)'
  <2>1. cont[t] \in Purposes
    BY <1>6, RunningFacts DEF Resume, At
  <2>2. CASE t = q
    BY <1>6, <1>a, <1>b, <1>c, <2>1, <2>2 DEF Resume, Continue, Asked
  <2>3. CASE t # q
    <3>1. cont'[q] = cont[q]
      BY <1>6, <2>3 DEF Resume, Continue, Goto, CheckOther, CheckIn, SingleThreadSet
    <3> QED
      BY <1>0, <3>1 DEF Asked
  <2> QED
    BY <2>2, <2>3
<1>7. ASSUME NEW t \in Thread, userret(t)
      PROVE  Asked(q)'
  BY <1>7, <1>c, <1>e DEF userret, Continue, Purposes, Leaving
<1>8. ASSUME NEW t \in Thread, SleepFinishSignal(t)
      PROVE  Asked(q)'
  BY <1>8, <1>e DEF SleepFinishSignal, Purposes, Leaving
<1>9. ASSUME NEW t \in Thread, SleepFinishStopped(t) \/ Slept(t)
      PROVE  Asked(q)'
  BY <1>9, <1>c DEF SleepFinishStopped, Slept, Continue
<1>10. ASSUME NEW t \in Thread,
              \/ SingleThreadWait(t) \/ ExecReturns(t) \/ ExitUnlink(t) \/ ThreadDies(t) \/ MainDies(t)
              \/ ProcStop(t) \/ TsleepCatch(t) \/ Tsleep(t) \/ fork1(t) \/ Event(t)
       PROVE  Asked(q)'
  <2>1. cont' = cont
    BY <1>10 DEF SingleThreadWait, ExecReturns, SingleThreadClear, ExitUnlink, ThreadDies, MainDies,
                 ProcStop, TsleepCatch, Tsleep, fork1, Event
  <2> QED
    BY <1>f, <2>1
<1>11. SIGSTOP \/ SIGCONT => Asked(q)'
  BY <1>f DEF SIGSTOP, SIGCONT
<1> HIDE DEF Types, Untouched
<1>12. ASSUME NEW t \in Thread, Runs(t) \/ Call(t) \/ Event(t)
       PROVE  Asked(q)'
  BY <1>1, <1>2, <1>3, <1>4, <1>5, <1>6, <1>7, <1>8, <1>9, <1>10, <1>12, Zenon DEF Runs, Call
<1> QED
  BY <1>11, <1>12, Zenon DEF Next

\* Nobody is suspended once an execve() has succeeded.
LEMMA SuspendedKept ==
    ASSUME Types, Control, Safe, Steps, NEW q \in Thread, ps_single' = NoThread,
           ps_single = NoThread => pc[q] # "suspended",
           \A t \in Thread : work.calls[t] \cap {"execfail", "execonce"} = {}
    PROVE  pc'[q] # "suspended"
<1>0. ps_single = NoThread => pc[q] # "suspended"
  OBVIOUS
<1> USE DEF Types, procVars, singleVars, statVars, flagVars, codeVars
<1>1. ASSUME NEW t \in Thread, NEW m \in SetModes, NEW wx \in SUBSET Thread, SetStep(t, m, wx)
      PROVE  pc'[q] # "suspended"
  <2>1. ps_single' = t
    BY <1>1 DEF SetStep, SingleThreadSet
  <2> QED
    BY <2>1, SingleAssumption
<1>2. ASSUME NEW t \in Thread, NEW then \in Purposes, NEW wx \in SUBSET Thread,
             CheckStep(t, then, wx)
      PROVE  pc'[q] # "suspended"
  BY <1>0, <1>2 DEF CheckStep, CheckIn
<1>3. ASSUME NEW t \in Thread, NEW where \in Where, NEW wx \in SUBSET Thread,
             GoStep(t, where, wx)
      PROVE  pc'[q] # "suspended"
  BY <1>0, <1>3 DEF GoStep, Goto
<1>4. ASSUME NEW t \in Thread, SingleThreadWait(t)
      PROVE  pc'[q] # "suspended"
  BY <1>0, <1>4 DEF SingleThreadWait, TSleep
<1>5. ASSUME NEW t \in Thread, ExecReturns(t)
      PROVE  pc'[q] # "suspended"
  <2>1. pc[t] = "alone" /\ t \in Thread
    BY <1>5 DEF ExecReturns, At
  <2>2. mode[t] = "exit"
    BY <1>5 DEF ExecReturns, ExecFails, Does
  <2>3. \A z \in ps_threads \ {t} : pc[z] = "exit"
    BY <2>1, <2>2 DEF Safe, SingleAlone
  <2>4. pc' = [pc EXCEPT ![t] = "kernel"]
    BY <1>5 DEF ExecReturns, SingleThreadClear
  <2>5. q \notin ps_threads => pc[q] \in {"dead", "thrdeath", "unlinked"}
    BY DEF Control, Place
  <2> QED
    BY <2>3, <2>4, <2>5
<1>6. ASSUME NEW t \in Thread, ExitUnlink(t)
      PROVE  pc'[q] # "suspended"
  BY <1>0, <1>6 DEF ExitUnlink
<1>6a. ASSUME NEW t \in Thread, ThreadDies(t)
       PROVE  pc'[q] # "suspended"
  BY <1>0, <1>6a DEF ThreadDies
<1>7. ASSUME NEW t \in Thread, MainDies(t)
      PROVE  pc'[q] # "suspended"
  BY <1>0, <1>7 DEF MainDies, TSleep
<1>8. ASSUME NEW t \in Thread, ProcStop(t)
      PROVE  pc'[q] # "suspended"
  BY <1>0, <1>8 DEF ProcStop
<1>9. ASSUME NEW t \in Thread, Tsleep(t)
      PROVE  pc'[q] # "suspended"
  BY <1>0, <1>9 DEF Tsleep, TSleep
<1>10. ASSUME NEW t \in Thread, TsleepCatch(t)
       PROVE  pc'[q] # "suspended"
  BY <1>0, <1>10 DEF TsleepCatch, TSleep
<1>11. ASSUME NEW t \in Thread, fork1(t)
       PROVE  pc'[q] # "suspended"
  BY <1>0, <1>11 DEF fork1
<1>12. ASSUME NEW t \in Thread, Event(t)
       PROVE  pc'[q] # "suspended"
  BY <1>0, <1>12 DEF Event
<1>13. ASSUME SIGSTOP
       PROVE  pc'[q] # "suspended"
  BY <1>0, <1>13 DEF SIGSTOP
<1>14. ASSUME SIGCONT
       PROVE  pc'[q] # "suspended"
  BY <1>0, <1>14 DEF SIGCONT
<1> HIDE DEF Types
<1> QED
  BY <1>1, <1>2, <1>3, <1>4, <1>5, <1>6, <1>6a, <1>7, <1>8, <1>9, <1>10, <1>11, <1>12, <1>13, <1>14,
     Zenon DEF Steps

\* With a tame workload every step is orderly ...
LEMMA TameOrderly ==
    ASSUME SingleInv, NoLate, Tame(work), Next
    PROVE  Orderly
<1>0. Types /\ Control
  BY DEF SingleInv
<1> SUFFICES ASSUME PassesOver
             PROVE  FALSE
  BY DEF Orderly, Tame
<1>1. PICK q \in ps_threads : q \in wexit /\ At(q, "suspended") /\ ps_single = NoThread
  BY DEF PassesOver
<1>2. q \in Thread /\ cont[q] \in Leaving /\ pc[q] = "suspended"
  BY <1>0, <1>1, RunningFacts DEF At, Types
<1>3. SomeLeave
  BY <1>2 DEF NoLate, Asked, SomeLeave
<1> QED
  BY <1>1, <1>2, <1>3 DEF NoLate

\* ... and keeps it so.
LEMMA NoLateKept ==
    ASSUME SingleInv, NoLate, Tame(work), Next
    PROVE  NoLate'
<1>0. Types /\ Control /\ Safe /\ Steps /\ work' = work
  BY NextSteps DEF SingleInv, Next
<1>1. \A q \in Thread : Asked(q)'
  BY <1>0, AskedKept DEF NoLate
<1>2. ASSUME SomeLeave', ps_single' = NoThread, NEW q \in Thread
      PROVE  pc'[q] # "suspended"
  <2>1. SomeLeave
    BY <1>0, <1>2 DEF SomeLeave
  <2>2. \A t \in Thread : work.calls[t] \cap {"execfail", "execonce"} = {}
    BY <2>1 DEF SomeLeave, Tame
  <2>3. ps_single = NoThread => pc[q] # "suspended"
    BY <2>1 DEF NoLate
  <2> QED
    BY <1>0, <1>2, <2>2, <2>3, SuspendedKept
<1> QED
  BY <1>1, <1>2 DEF NoLate

\* In a process where no SIGCONT comes while a thread single-threads, and either
\* every execve() succeeds or no thread exits or is killed by itself, all of it
\* holds without a condition on the steps.
THEOREM TameSafe ==
    ASSUME \A w \in Workloads : Tame(w)
    PROVE  Spec => [](TypeOK /\ CountExact /\ SingleSound)
<1> DEFINE I == SingleInv /\ NoLate
<1>1. Init => I
  <2> SUFFICES ASSUME Init
               PROVE  SingleInv /\ NoLate
    OBVIOUS
  <2>1. SingleInv
    BY SingleInvInit
  <2>2. \A q \in Thread : cont[q] = "none" /\ pc[q] # "suspended"
    BY DEF Init
  <2> QED
    BY <2>1, <2>2 DEF NoLate, Asked, Leaving
<1>2. I /\ [Next]_vars => I'
  <2>1. ASSUME SingleInv, NoLate, Next
        PROVE  SingleInv' /\ NoLate'
    <3>1. Tame(work)
      BY <2>1 DEF SingleInv, Static
    <3> QED
      BY <2>1, <3>1, TameOrderly, SingleInvStep, NoLateKept
  <2>2. ASSUME SingleInv, NoLate, UNCHANGED vars
        PROVE  SingleInv' /\ NoLate'
    <3>1. SingleInv'
      BY <2>2, SingleInvStutter
    <3>2. UNCHANGED <<pc, cont, ps_single, work>>
      BY <2>2 DEF vars, singleVars, codeVars
    <3>3. NoLate'
      BY <2>2, <3>2 DEF NoLate, Asked, SomeLeave
    <3> QED
      BY <3>1, <3>3
  <2> QED
    BY <2>1, <2>2
<1>3. I => TypeOK /\ CountExact /\ SingleSound
  BY InvTypeOK, InvCountExact, InvSingleSound
<1> QED
  BY <1>1, <1>2, <1>3, PTL DEF Spec
=============================================================================
