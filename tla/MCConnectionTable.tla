-------------------------- MODULE MCConnectionTable ---------------------------
(* Small instances of ConnectionTable for TLC. *)
EXTENDS ConnectionTable, TLC

CONSTANTS w1, w2, r1, r2, k1, k2, k3, k4, k5, k6
===============================================================================
