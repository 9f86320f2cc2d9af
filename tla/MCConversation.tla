---------------------------- MODULE MCConversation ----------------------------
(* Small instances of Conversation for TLC.  The cfg files choose among the  *)
(* message sets, key maps and bounds below.                                  *)
EXTENDS Conversation, TLC

CONSTANTS m1, m2, m3, k1, k2, s1, s2, s3, w1, w2, claude, echo

(* m1 and m2 share a conversation, m3 has one of its own.                   *)
OneKey == [m \in Messages |-> k1]
TwoKeys == (m1 :> k1) @@ (m2 :> k1) @@ (m3 :> k2)
===============================================================================
