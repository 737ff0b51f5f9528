--------------------------- MODULE MCConsolidation ---------------------------
(* Consolidation for TLC.  Workers w and x are two processes of one session   *)
(* and share its receipts: the session a user retries the skill in.           *)
EXTENDS Consolidation, TLC

CONSTANTS k, w, x

OneWorker == w :> k
TwoWorkers == w :> k @@ x :> k

\* The rows are interchangeable, and so are the workers of one session.
Symmetry == Permutations(Uuids) \cup Permutations(Owners)
=============================================================================
