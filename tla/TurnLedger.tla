------------------------------ MODULE TurnLedger ------------------------------
(***************************************************************************)
(* What the conversation layer promises, with the sessions, snapshots and   *)
(* stores taken away: every conversation key owns one account, opened once  *)
(* with a limit that never changes afterwards, and answering a message      *)
(* charges that account exactly one round.  A message that carries an id is *)
(* answered once, and once more only after a failure that made the ledger   *)
(* forget it; a failure forgets one message at most, and no round.          *)
(*                                                                          *)
(* Conversation.tla is shown to implement this module in the setting the    *)
(* repository documents (one process, one call at a time).                  *)
(***************************************************************************)
EXTENDS Naturals

CONSTANTS
  Keys,          \* (workspace_id, channel, external_thread_key) triples
  Messages,      \* inbound messages
  Identified,    \* the messages that carry a message_id
  KeyOf,         \* the conversation a message belongs to
  RoundLimits,   \* the max_rounds values callers pass
  None

VARIABLES
  limit,         \* limit[k]: rounds the account may ever be charged, None = not open
  rounds,        \* rounds[k]: rounds charged so far
  seen,          \* identified messages already answered
  failures       \* failures so far

vars == <<limit, rounds, seen, failures>>

Init ==
  /\ limit = [k \in Keys |-> None]
  /\ rounds = [k \in Keys |-> 0]
  /\ seen = {}
  /\ failures = 0

Open(k) ==
  /\ limit[k] = None
  /\ \E n \in RoundLimits : limit' = [limit EXCEPT ![k] = n]
  /\ UNCHANGED <<rounds, seen, failures>>

Answer(m) ==
  LET k == KeyOf[m] IN
  /\ limit[k] # None
  /\ rounds[k] < limit[k]
  /\ m \notin seen
  /\ rounds' = [rounds EXCEPT ![k] = @ + 1]
  /\ seen' = seen \cup ({m} \cap Identified)
  /\ UNCHANGED <<limit, failures>>

Failure ==
  /\ failures' = failures + 1
  /\ seen' = seen \/ \E m \in seen : seen' = seen \ {m}
  /\ UNCHANGED <<limit, rounds>>

Next ==
  \/ \E k \in Keys : Open(k)
  \/ \E m \in Messages : Answer(m)
  \/ Failure

Spec == Init /\ [][Next]_vars
===============================================================================
