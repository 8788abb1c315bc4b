------------------------------ MODULE MCQueue ------------------------------
(* Small instances of the queue for TLC. *)
EXTENDS QueueProperties, TLC

CONSTANT MaxCalls   \* bound: how many jobs, installs and stops are begun in all

Calls == Cardinality(offered) + Cardinality({i \in Installers : inst[i] # "idle"})
                              + Cardinality({s \in Stoppers : stopper[s] # "idle"})

BoundedSpec == Init /\ [][Next /\ Calls' <= MaxCalls]_vars

\* Jobs, callers of install() and callers of stop() are interchangeable.
Symmetry == Permutations(Jobs) \cup Permutations(Installers) \cup Permutations(Stoppers)
=============================================================================
