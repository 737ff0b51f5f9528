------------------------------ MODULE MCService ------------------------------
(* The service life cycle for TLC: a service that loses its socket, one that  *)
(* replaces it and one that stands back.                                      *)
EXTENDS Service, TLC

Symmetry == Permutations(Services) \cup Permutations(Clients) \cup Permutations(Inodes)
================================================================================
