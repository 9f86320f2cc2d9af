--------------------------- MODULE MCAgentProcess ---------------------------
(* Scripts of a child, for TLC.                                              *)
EXTENDS AgentProcess

UpTo(n, lines) == UNION {[1 .. k -> lines] : k \in 0 .. n}

(* Anything, three lines of it.                                             *)
AnyLines == UpTo(3, Lines)

(* A broken line, and more output after it than the pipe holds.             *)
BrokenEarly == {<<"garbage", "message", "message", "message">>}
=============================================================================
