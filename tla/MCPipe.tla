------------------------------- MODULE MCPipe -------------------------------
(***************************************************************************)
(* Instances of Pipe for TLC: who reads, writes and polls, and how much.    *)
(***************************************************************************)
EXTENDS Pipe

CONSTANTS p1, p2, p3, p4

Reads(p, f, n) == [p |-> p, op |-> "read", file |-> f, n |-> n, ev |-> {}]
Writes(p, f, n) == [p |-> p, op |-> "write", file |-> f, n |-> n, ev |-> {}]
Polls(p, f, ev) == [p |-> p, op |-> "poll", file |-> f, n |-> 0, ev |-> ev]

\* two writers, one of them with atomic writes, and a reader
Two == {Writes(p1, "w", 2), Writes(p2, "w", 3), Reads(p3, "r", 2)}

\* one writer that makes the pipe big, and a poller behind it
Bulk == {Writes(p1, "w", 4), Reads(p3, "r", 3), Polls(p2, "w", {"OUT"})}

\* pollers that collide
Collide == {Writes(p1, "w", 2), Reads(p3, "r", 1), Polls(p2, "r", {"IN"}),
            Polls(p4, "r", {"IN"})}

\* a write that does not fit, and a poller that has to see the first part
Partial == {Writes(p1, "w", 5), Polls(p2, "r", {"IN"})}

\* two writers, one of which makes the pipe big while the other writes
Race == {Writes(p4, "w", 4), Writes(p2, "w", 2), Reads(p3, "r", 2)}

\* two writers that both find it advantageous to make the pipe big
Resize == {Writes(p4, "w", 4), Writes(p2, "w", 5)}

All == {Two, Bulk, Collide, Partial, Race, Resize}
OnlyRace == {Race}

\* What PipeProofs assumes about the programs for which nobody is forgotten
ASSUME SturdyAssumption == \A w \in Workloads : Sturdy(w)
=============================================================================
