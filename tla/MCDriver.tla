-------------------------------- MODULE MCDriver ------------------------------
(* Small instances of Driver for TLC. *)
EXTENDS Driver, TLC

CONSTANTS p1, p2, f1, f2, f3, e1, e2, ch1, ch2

Symmetry == Permutations(Pids) \cup Permutations(Files) \cup Permutations(Entries)
              \cup Permutations(Chans)
===============================================================================
