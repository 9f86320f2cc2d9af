---------------------------- MODULE MCToolBridge ----------------------------
(* Two callers, two workspaces, one workflow that exists and one that does  *)
(* not, and rules that deny for a user, for all of a workspace and allow.   *)
EXTENDS ToolBridge, TLC

CONSTANTS c1, c2, u1, w1, w2, n1, n2, r1, r2

SomeRules ==
  {Rule(u1, Wildcard, n1, "run", "deny"), Rule(Wildcard, w1, Wildcard, Wildcard, "deny"),
   Rule(u1, w1, n1, "run", "allow")}

Symmetry == Permutations({c1, c2}) \cup Permutations({r1, r2})
===============================================================================
