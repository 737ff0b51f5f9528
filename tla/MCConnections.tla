---------------------------- MODULE MCConnections ----------------------------
(* The store's connections for TLC: two requests on the writer and two that   *)
(* share a pool of one reader.                                                *)
EXTENDS Connections

CONSTANTS w1, w2, r1, r2

Symmetry == Permutations(Writers) \cup Permutations(Tasks \ Writers)
=============================================================================
