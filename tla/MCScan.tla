------------------------------- MODULE MCScan -------------------------------
(* Two files and two encoders of different widths for TLC.                    *)
EXTENDS Scan, TLC

Symmetry == Permutations(Paths) \cup Permutations(Encoders)
=============================================================================
