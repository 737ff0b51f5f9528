------------------------------ MODULE MCBuilds ------------------------------
(* The builds of one knowledge base for TLC: two local pids and one process   *)
(* of another host that shares the file system.                               *)
EXTENDS Builds, TLC

CONSTANTS p, q, f, here, there

TwoHosts == p :> here @@ q :> here @@ f :> there

\* The local pids are interchangeable, and so are the calls.
Symmetry == Permutations({p, q}) \cup Permutations(Callers)
=============================================================================
