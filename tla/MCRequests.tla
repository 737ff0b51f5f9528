----------------------------- MODULE MCRequests -----------------------------
(* One consolidator process for TLC: two calls of next_group and one verb.    *)
EXTENDS Requests, TLC

CONSTANTS n1, n2, v

Symmetry == Permutations(NextCalls)
=============================================================================
