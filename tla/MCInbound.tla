------------------------------ MODULE MCInbound ------------------------------
(* One user writes three times to the same thread: with an id, without one, *)
(* and without a signature.                                                 *)
EXTENDS Inbound, TLC

CONSTANTS u1, a, b, t1, m1, m2, m3, v1, v2

SenderOf == [m \in Messages |-> u1]
OneThread == [m \in Messages |-> t1]
Specs == (a :> 0) @@ (b :> 1)
===============================================================================
