----------------------------- MODULE Conversation -----------------------------
(***************************************************************************)
(* ConversationService.handle running on several workers over one           *)
(* SessionStore.  A call is cut where another worker, or a crash, can come  *)
(* between two of its steps: the look-up, the insert, the re-fetch, the     *)
(* duplicate check, the agent turn, the save and the mark.  The session a   *)
(* worker holds is a snapshot: it is read once and written back whole.      *)
(*                                                                          *)
(* Store kind "memory" is MemorySessionStore shared by threads.  "sql" is   *)
(* SqliteSessionStore with a single worker (its connection may not cross    *)
(* threads) and SQLAlchemySessionStore with any number of them.             *)
(*                                                                          *)
(* A definition named D_Variant is a mistaken D: the project replaces D by  *)
(* it to see that the property it should break is able to fail.             *)
(***************************************************************************)
EXTENDS Naturals, FiniteSets

CONSTANTS
  Workers,          \* threads or processes that call handle()
  Messages,         \* inbound messages
  Identified,       \* the messages that carry a message_id
  Keys,             \* (workspace_id, channel, external_thread_key) triples
  KeyOf,            \* the key each message arrives on
  SessionIds,       \* uuid4 values
  Backends,         \* backend names callers pass
  Resumable,        \* backends whose capabilities say supports_resume
  RoundLimits,      \* max_rounds values callers pass
  StoreKinds,       \* the stores a deployment may choose: subset of {"memory", "sql"}
  Faults,           \* which failures happen: subset of {"backend", "store", "crash"}
  MaxFaults,        \* bound: failures in a behaviour
  MaxRedeliveries,  \* bound: times the provider repeats a delivery on its own
  None

ASSUME ConversationAssumption ==
  /\ Identified \subseteq Messages
  /\ KeyOf \in [Messages -> Keys]
  /\ Resumable \subseteq Backends
  /\ RoundLimits \subseteq Nat
  /\ StoreKinds \subseteq {"memory", "sql"}
  /\ MaxFaults \in Nat /\ MaxRedeliveries \in Nat
  /\ None \notin Messages \cup SessionIds \cup RoundLimits

VARIABLES
  storeKind,    \* the store the process was built with
  rows,         \* rows[sid]: the stored session, None = no such row
  index,        \* index[k]: the session id found under the natural key
  processed,    \* processed_message: pairs <<session_id, message>>
  pc,           \* where each worker is in handle()
  msg,          \* the message a worker handles, None when idle
  asked,        \* backend_name and max_rounds of the worker's call
  sess,         \* the session snapshot in the worker's hands
  out,          \* backend_thread_id in the result of the worker's turn
  pending,      \* messages the provider still has to deliver
  redeliveries, \* deliveries the provider repeated so far
  faults,       \* failures so far
  counted,      \* history: counted[m] = saves made on behalf of m
  turns         \* history: turns[sid] = saves made to session sid

store   == <<rows, index, processed>>
locals  == <<msg, asked, sess, out>>
env     == <<pending, redeliveries, faults, storeKind>>
history == <<counted, turns>>
vars    == <<rows, index, processed, pc, msg, asked, sess, out,
             pending, redeliveries, faults, storeKind, counted, turns>>

-------------------------------------------------------------------------------
(* Data.  A backend handle is opaque to the engine; here it records what    *)
(* resuming it means: whose thread it is, for which session, and how many   *)
(* turns of that session it is known to hold.                               *)

Handles == [backend : Backends, session : SessionIds, turns : Nat]

Sessions ==
  [session_id : SessionIds, key : Keys, backend_name : Backends,
   backend_thread_id : Handles \cup {None}, round_count : Nat,
   max_rounds : RoundLimits]

(* What a caller of handle() passes next to the message.                    *)
Calls == [backend : Backends, limit : RoundLimits]

ASSUME NoneAssumption ==
  None \notin Handles /\ None \notin Sessions /\ None \notin Calls

NewSession_NoBackend(sid, k, b, n) ==
  [session_id |-> sid, key |-> k, backend_name |-> None,
   backend_thread_id |-> None, round_count |-> 0, max_rounds |-> n]

NewSession(sid, k, b, n) ==
  [session_id |-> sid, key |-> k, backend_name |-> b,
   backend_thread_id |-> None, round_count |-> 0, max_rounds |-> n]

WithTurn_KeepsCount(s, handle) == [s EXCEPT !.backend_thread_id = handle]
WithTurn(s, handle) ==
  [s EXCEPT !.backend_thread_id = handle, !.round_count = @ + 1]

Exhausted_Late(s)  == s.round_count > s.max_rounds
Exhausted_Early(s) == s.round_count + 1 >= s.max_rounds

Exhausted(s) == s.round_count >= s.max_rounds

IsDuplicate_Never(s, m) == FALSE

IsDuplicate(s, m) == m \in Identified /\ <<s.session_id, m>> \in processed

TurnBackend_Caller(w) == asked[w].backend

(* The backend and handle that run_turn uses for a session, the second one  *)
(* gated by the backend's capabilities.                                     *)
TurnBackend(w) == sess[w].backend_name

ResumeHandle(w) ==
  IF TurnBackend(w) \in Resumable THEN sess[w].backend_thread_id ELSE None

(* A backend continues a thread of its own and starts a new one otherwise.  *)
Continue(b, sid, h) ==
  [backend |-> b, session |-> sid,
   turns |-> IF h # None /\ h.backend = b /\ h.session = sid
             THEN h.turns + 1 ELSE 1]

(* What the result of a turn may carry: one that does not resume may have   *)
(* no thread to report.                                                     *)
Reported(b, sid, h) ==
  {Continue(b, sid, h)} \cup (IF b \in Resumable THEN {} ELSE {None})

KeyFor(w) == KeyOf[msg[w]]

-------------------------------------------------------------------------------
Init ==
  /\ storeKind \in StoreKinds
  /\ rows = [sid \in SessionIds |-> None]
  /\ index = [k \in Keys |-> None]
  /\ processed = {}
  /\ pc = [w \in Workers |-> "idle"]
  /\ msg = [w \in Workers |-> None]
  /\ asked = [w \in Workers |-> None]
  /\ sess = [w \in Workers |-> None]
  /\ out = [w \in Workers |-> None]
  /\ pending = Messages
  /\ redeliveries = 0
  /\ faults = 0
  /\ counted = [m \in Messages |-> 0]
  /\ turns = [sid \in SessionIds |-> 0]

Goto(w, label) == pc' = [pc EXCEPT ![w] = label]

(* handle() ends on the workers of ws: locals are gone.                     *)
Leave(ws) ==
  /\ pc' = [w \in Workers |-> IF w \in ws THEN "idle" ELSE pc[w]]
  /\ msg' = [w \in Workers |-> IF w \in ws THEN None ELSE msg[w]]
  /\ asked' = [w \in Workers |-> IF w \in ws THEN None ELSE asked[w]]
  /\ sess' = [w \in Workers |-> IF w \in ws THEN None ELSE sess[w]]
  /\ out' = [w \in Workers |-> IF w \in ws THEN None ELSE out[w]]

InFlight(ws) == {msg[w] : w \in ws} \ {None}

(* The provider hears a final answer (the reply, or that the message was a  *)
(* duplicate or over the limit) and stops delivering.                       *)
Settle(w) == Leave({w}) /\ UNCHANGED env

(* Anything else escapes to the provider, which delivers again later.       *)
Fail(ws) ==
  /\ faults < MaxFaults
  /\ faults' = faults + 1
  /\ Leave(ws)
  /\ pending' = pending \cup InFlight(ws)
  /\ UNCHANGED <<redeliveries, storeKind>>

Deliver(w) ==
  /\ pc[w] = "idle"
  /\ \E m \in pending, b \in Backends, n \in RoundLimits :
       /\ msg' = [msg EXCEPT ![w] = m]
       /\ asked' = [asked EXCEPT ![w] = [backend |-> b, limit |-> n]]
       /\ pending' = pending \ {m}
  /\ Goto(w, "lookup")
  /\ UNCHANGED <<store, sess, out, redeliveries, faults, storeKind, history>>

Redeliver ==
  /\ redeliveries < MaxRedeliveries
  /\ \E m \in Messages \ pending : pending' = pending \cup {m}
  /\ redeliveries' = redeliveries + 1
  /\ UNCHANGED <<store, pc, locals, faults, storeKind, history>>

-------------------------------------------------------------------------------
(* get_or_create: find by natural key, else insert, else (SQL) re-fetch.    *)

Fetch_CallerWins(w) ==
  /\ index[KeyFor(w)] # None
  /\ sess' = [sess EXCEPT ![w] =
                [rows[index[KeyFor(w)]] EXCEPT !.max_rounds = asked[w].limit]]
  /\ Goto(w, "check")
  /\ UNCHANGED <<store, msg, asked, out, env, history>>

Fetch(w) ==
  /\ index[KeyFor(w)] # None
  /\ sess' = [sess EXCEPT ![w] = rows[index[KeyFor(w)]]]
  /\ Goto(w, "check")
  /\ UNCHANGED <<store, msg, asked, out, env, history>>

LookupHit(w) == pc[w] = "lookup" /\ Fetch(w)

LookupMiss(w) ==
  /\ pc[w] = "lookup"
  /\ index[KeyFor(w)] = None
  /\ Goto(w, "insert")
  /\ UNCHANGED <<store, locals, env, history>>

Conflict_Never(w) == FALSE

(* UNIQUE (workspace_id, channel, external_thread_key): only in SQL.        *)
Conflict(w) == storeKind = "sql" /\ index[KeyFor(w)] # None

InsertNew(w) ==
  /\ pc[w] = "insert"
  /\ ~Conflict(w)
  /\ \E sid \in SessionIds :
       LET s == NewSession(sid, KeyFor(w), asked[w].backend, asked[w].limit) IN
       /\ rows[sid] = None
       /\ rows' = [rows EXCEPT ![sid] = s]
       /\ index' = [index EXCEPT ![KeyFor(w)] = sid]
       /\ sess' = [sess EXCEPT ![w] = s]
  /\ Goto(w, "check")
  /\ UNCHANGED <<processed, msg, asked, out, env, history>>

InsertConflict(w) ==
  /\ pc[w] = "insert"
  /\ Conflict(w)
  /\ Goto(w, "refetch")
  /\ UNCHANGED <<store, locals, env, history>>

Refetch(w) == pc[w] = "refetch" /\ Fetch(w)

-------------------------------------------------------------------------------
(* The two refusals, in the order of the code, and the turn itself.         *)

(* A refusal the provider takes for a failure and delivers again.           *)
Retry(w) ==
  /\ Leave({w})
  /\ pending' = pending \cup {msg[w]}
  /\ UNCHANGED <<redeliveries, faults, storeKind, store, history>>

RejectDuplicate(w) ==
  /\ pc[w] = "check"
  /\ IsDuplicate(sess[w], msg[w])
  /\ Settle(w)
  /\ UNCHANGED <<store, history>>

RejectExhausted_Retried(w) ==
  /\ pc[w] = "check"
  /\ ~IsDuplicate(sess[w], msg[w])
  /\ Exhausted(sess[w])
  /\ Retry(w)

RejectExhausted(w) ==
  /\ pc[w] = "check"
  /\ ~IsDuplicate(sess[w], msg[w])
  /\ Exhausted(sess[w])
  /\ Settle(w)
  /\ UNCHANGED <<store, history>>

Admit_MarksEarly(w) ==
  /\ pc[w] = "check"
  /\ ~IsDuplicate(sess[w], msg[w])
  /\ ~Exhausted(sess[w])
  /\ processed' = processed \cup ({<<sess[w].session_id, msg[w]>>} \cap (SessionIds \X Identified))
  /\ Goto(w, "run")
  /\ UNCHANGED <<rows, index, locals, env, history>>

Admit(w) ==
  /\ pc[w] = "check"
  /\ ~IsDuplicate(sess[w], msg[w])
  /\ ~Exhausted(sess[w])
  /\ Goto(w, "run")
  /\ UNCHANGED <<store, locals, env, history>>

RunTurn(w) ==
  /\ pc[w] = "run"
  /\ \E h \in Reported(TurnBackend(w), sess[w].session_id, ResumeHandle(w)) :
       out' = [out EXCEPT ![w] = h]
  /\ Goto(w, "save")
  /\ UNCHANGED <<store, msg, asked, sess, env, history>>

(* AgentRunFailed and its kin: nothing is saved and nothing is marked.      *)
TurnFails(w) ==
  /\ "backend" \in Faults
  /\ pc[w] = "run"
  /\ Fail({w})
  /\ UNCHANGED <<store, history>>

(* memory: upsert of the snapshot, and the index points at it again.        *)
(* SQL: UPDATE of the mutable columns where session_id matches.             *)
Persist(s) ==
  \/ /\ storeKind = "memory"
     /\ rows' = [rows EXCEPT ![s.session_id] = s]
     /\ index' = [index EXCEPT ![s.key] = s.session_id]
  \/ /\ storeKind = "sql"
     /\ rows' = [rows EXCEPT
                   ![s.session_id].backend_thread_id = s.backend_thread_id,
                   ![s.session_id].round_count = s.round_count,
                   ![s.session_id].max_rounds = s.max_rounds]
     /\ UNCHANGED index

Save(w) ==
  /\ pc[w] = "save"
  /\ Persist(WithTurn(sess[w], out[w]))
  /\ counted' = [counted EXCEPT ![msg[w]] = @ + 1]
  /\ turns' = [turns EXCEPT ![sess[w].session_id] = @ + 1]
  /\ \/ msg[w] \in Identified /\ Goto(w, "mark") /\ UNCHANGED <<locals, env>>
     \/ msg[w] \notin Identified /\ Settle(w)
  /\ UNCHANGED processed

Mark(w) ==
  /\ pc[w] = "mark"
  /\ processed' = processed \cup {<<sess[w].session_id, msg[w]>>}
  /\ Settle(w)
  /\ UNCHANGED <<rows, index, history>>

-------------------------------------------------------------------------------
(* Failures outside the backend.                                            *)

(* A statement of the SQL store raises and nothing of it is committed.      *)
StoreFails(w) ==
  /\ "store" \in Faults
  /\ storeKind = "sql"
  /\ \/ pc[w] \in {"lookup", "insert", "refetch", "save", "mark"}
     \/ pc[w] = "check" /\ msg[w] \in Identified
  /\ Fail({w})
  /\ UNCHANGED <<store, history>>

(* Processes die.  What is committed in SQL stays; the memory store, and    *)
(* every thread that shares it, goes with its process.                      *)
Crash(ws) ==
  /\ "crash" \in Faults
  /\ InFlight(ws) # {}
  /\ Fail(ws)
  /\ \/ storeKind = "sql" /\ UNCHANGED <<store, history>>
     \/ /\ storeKind = "memory" /\ ws = Workers
        /\ rows' = [sid \in SessionIds |-> None]
        /\ index' = [k \in Keys |-> None]
        /\ processed' = {}
        /\ counted' = [m \in Messages |-> 0]
        /\ turns' = [sid \in SessionIds |-> 0]

-------------------------------------------------------------------------------
Step(w) ==
  \/ LookupHit(w) \/ LookupMiss(w)
  \/ InsertNew(w) \/ InsertConflict(w) \/ Refetch(w)
  \/ RejectDuplicate(w) \/ RejectExhausted(w) \/ Admit(w)
  \/ RunTurn(w) \/ Save(w) \/ Mark(w)

(* Every message settled: the service waits for more.                       *)
Quiet ==
  /\ pending = {}
  /\ \A w \in Workers : pc[w] = "idle"
  /\ UNCHANGED vars

Next ==
  \/ \E w \in Workers :
       Deliver(w) \/ Step(w) \/ TurnFails(w) \/ StoreFails(w)
  \/ Redeliver
  \/ \E ws \in SUBSET Workers : Crash(ws)
  \/ Quiet

Spec == Init /\ [][Next]_vars

(* A worker that entered handle() keeps running unless it fails, and the    *)
(* provider keeps delivering while some worker is free.                     *)
Fairness ==
  /\ \A w \in Workers : WF_vars(Step(w))
  /\ WF_vars(\E w \in Workers : Deliver(w))

FairSpec == Spec /\ Fairness
-------------------------------------------------------------------------------
(* Properties.                                                              *)

(* Types of the store, of every worker's locals and of the counters.        *)
TypeOK ==
  /\ storeKind \in {"memory", "sql"}
  /\ rows \in [SessionIds -> Sessions \cup {None}]
  /\ index \in [Keys -> SessionIds \cup {None}]
  /\ processed \subseteq SessionIds \X Messages
  /\ pc \in [Workers -> {"idle", "lookup", "insert", "refetch", "check",
                         "run", "save", "mark"}]
  /\ msg \in [Workers -> Messages \cup {None}]
  /\ asked \in [Workers -> Calls \cup {None}]
  /\ sess \in [Workers -> Sessions \cup {None}]
  /\ out \in [Workers -> Handles \cup {None}]
  /\ pending \subseteq Messages
  /\ redeliveries \in Nat /\ faults \in Nat
  /\ counted \in [Messages -> Nat]
  /\ turns \in [SessionIds -> Nat]

(* "The same key is always the same session": in SQL, whatever callers race *)
(* in get_or_create, every row and every snapshot a worker goes on with is  *)
(* the one session the natural key leads to.                                *)
KeyAlwaysSameSession ==
  storeKind = "sql" =>
    /\ \A sid \in SessionIds :
         rows[sid] # None => index[rows[sid].key] = sid
    /\ \A w \in Workers :
         sess[w] # None => index[sess[w].key] = sess[w].session_id

(* Resuming the stored handle gives the agent every round the session has   *)
(* counted: the handle was minted by the backend the session is pinned to,  *)
(* for this session, and (when that backend resumes) holds exactly          *)
(* round_count turns.  Only a session without a round, or on a backend that *)
(* does not resume, has none.                                               *)
HoldsItsRounds(s) ==
  IF s.backend_thread_id = None
  THEN s.round_count = 0 \/ s.backend_name \notin Resumable
  ELSE /\ s.round_count > 0
       /\ s.backend_thread_id.backend = s.backend_name
       /\ s.backend_thread_id.session = s.session_id
       /\ s.backend_name \in Resumable
            => s.backend_thread_id.turns = s.round_count

ResumeContinuity ==
  \A sid \in SessionIds : rows[sid] # None => HoldsItsRounds(rows[sid])

(* No interleaving of stale snapshots stores a round_count over max_rounds. *)
RoundBudget ==
  \A sid \in SessionIds :
    rows[sid] # None => rows[sid].round_count <= rows[sid].max_rounds

(* Marking comes after saving: a message that a later delivery would refuse *)
(* as a duplicate has had its turn stored, in the session it is marked for. *)
ProcessedWasCounted ==
  \A sid \in SessionIds, m \in Messages :
    <<sid, m>> \in processed =>
      /\ counted[m] > 0
      /\ rows[sid] # None
      /\ rows[sid].key = KeyOf[m]
      /\ rows[sid].round_count > 0

(* round_count is the number of turns that were saved, none lost.           *)
RoundsExact ==
  \A sid \in SessionIds :
    rows[sid] # None => turns[sid] = rows[sid].round_count

(* max_rounds bounds the turns a session really had, not only its counter.  *)
TurnsWithinLimit ==
  \A sid \in SessionIds :
    rows[sid] # None => turns[sid] <= rows[sid].max_rounds

Settled(m) == m \notin pending /\ \A w \in Workers : msg[w] # m

(* No message is dropped: one the provider no longer delivers has been      *)
(* answered, or its session is over its limit.                              *)
NothingDropped ==
  \A m \in Messages :
    Settled(m) =>
      \/ counted[m] > 0
      \/ /\ index[KeyOf[m]] # None
         /\ rows[index[KeyOf[m]]].round_count >= rows[index[KeyOf[m]]].max_rounds

(* "Existing fields win": the backend, limit and key a session was created  *)
(* with never change in SQL, whatever later callers pass.                   *)
PinnedFields ==
  [][\A sid \in SessionIds :
       storeKind = "sql" /\ rows[sid] # None =>
         /\ rows'[sid] # None
         /\ rows'[sid].key = rows[sid].key
         /\ rows'[sid].backend_name = rows[sid].backend_name
         /\ rows'[sid].max_rounds = rows[sid].max_rounds]_vars

(* Failures being finite, every message is settled in the end.              *)
EventuallySettled == \A m \in Messages : <>[]Settled(m)

(* The ledger this service keeps: one account per key, a message marked (or *)
(* about to be) is seen.                                                    *)
RowOf(k) == rows[index[k]]

Ledger == INSTANCE TurnLedger WITH
  limit  <- [k \in Keys |-> IF index[k] = None THEN None ELSE RowOf(k).max_rounds],
  rounds <- [k \in Keys |-> IF index[k] = None THEN 0 ELSE RowOf(k).round_count],
  seen   <- {m \in Messages :
               \/ \E sid \in SessionIds : <<sid, m>> \in processed
               \/ \E w \in Workers : pc[w] = "mark" /\ msg[w] = m},
  failures <- faults

(* One process and one call at a time, failing and dying wherever it may:   *)
(* save() is the ledger's Answer.  A stored round is never taken back,      *)
(* rounds come one at a time, and what makes handle() charge an identified  *)
(* message again is a failure between save() and mark_processed().          *)
ImplementsLedger == Ledger!Spec
===============================================================================
