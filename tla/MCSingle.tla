------------------------------ MODULE MCSingle ------------------------------
EXTENDS Single

CONSTANTS p1, p2, p3, p4

On(a, b, c, d) ==
    [t \in Thread |-> CASE t = p1 -> a [] t = p2 -> b [] t = p3 -> c [] t = p4 -> d]
Work(threads, calls, stop) ==
    [threads |-> threads, calls |-> calls, stop |-> stop, cont |-> FALSE]

\* execve()s, that fail or not, among sleeping threads
Execs == Work(Thread, On({"execfail", "sleep"}, {"execfail", "exec", "dsleep"},
                         {"sleep", "dsleep"}, {"execfail", "sleep"}), FALSE)
\* everybody leaves
Exits == Work(Thread, On({"exit", "sleep"}, {"exec", "core"}, {"threxit", "dsleep"},
                         {"core", "exit"}), FALSE)
\* new threads, while others want the process for themselves
Forks == Work({p1, p2}, On({"exec", "exit"}, {"fork", "core"}, {"sleep", "threxit", "fork"},
                           {"fork", "dsleep"}), FALSE)
\* SIGSTOP in the midst of an execve(), and of a core dump
Stops == Work({p1, p2, p3}, On({"execfail"}, {"sleep"}, {"exec", "dsleep"}, {}), TRUE)
Cores == Work({p1, p2, p3}, On({"core", "exec"}, {"sleep"}, {"core", "dsleep"}, {}), TRUE)
\* an execve() that fails lets a thread go that was leaving
Lates == Work({p1, p2, p3}, On({"execonce", "sleep"}, {"exit", "core", "threxit"}, {"sleep"}, {}), FALSE)
\* ... and one with an execve() of its own
Turns == Work({p1, p2, p3}, On({"execfail"}, {"exec", "execfail"}, {"dsleep"}, {}), FALSE)
\* a core dump as the only other thread leaves
Last == Work({p1, p2}, On({"core", "exit", "threxit"}, {"threxit", "sleep"}, {}, {}), FALSE)
All == {Last, Execs, Exits, Forks, Stops, Cores, Lates, Turns}
=============================================================================
