------------------------------ MODULE MCReads ------------------------------
(* The record layer and its readers for TLC: a few rows, the primary agents   *)
(* of two sessions, and small retrieval depths.                               *)
EXTENDS Reads, TLC

Halves == [kind \in {"superseded", "retired"} |-> 5]

\* The rows and the sessions are interchangeable.
Symmetry == Permutations(Uuids) \cup Permutations(Primaries)

\* Reads look at no receipt and no version: they are explored in the stores
\* where no row has been amended and one session has done all the retiring,
\* which have every shape of rows and edges.
Quiet ==
    /\ \A u \in Rows : memory[u].version = IF memory[u].active THEN 1 ELSE 2
    /\ \A r, q \in receipts : r.version = 2 /\ r.client = q.client

MCNext == (answer = NULL /\ ~Quiet /\ VerbRuns) \/ (Quiet /\ ReadsNext) \/ Delivered
MCSpec == ReadsInit /\ [][MCNext]_readVars
=============================================================================
