------------------------------ MODULE MCRecords ------------------------------
(* The record layer for TLC: a few rows and the primary agents of two sessions. *)
EXTENDS Records, TLC

\* The rows and the sessions are interchangeable.
Symmetry == Permutations(Uuids) \cup Permutations(Primaries)
=============================================================================
