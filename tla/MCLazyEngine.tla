----------------------------- MODULE MCLazyEngine -----------------------------
(* Threads and stores of LazyEngine, for TLC.                                *)
EXTENDS LazyEngine

CONSTANTS a, b, c, s1, s2, e1, e2, e3

(* Threads a and b share store s1; c is of another process.                  *)
TwoStores == [t \in {a, b, c} |-> IF t = c THEN s2 ELSE s1]
===============================================================================
