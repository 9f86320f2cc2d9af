-------------------------- MODULE ConversationProofs --------------------------
(***************************************************************************)
(* Proofs about Conversation for every number of workers, messages, keys    *)
(* and sessions, for both store kinds and every combination of failures.    *)
(***************************************************************************)
EXTENDS Conversation, TLAPS

Holding == {"check", "run", "save", "mark"}

(* What a stored or held session always satisfies.                          *)
Fits(s) == s.round_count <= s.max_rounds /\ HoldsItsRounds(s)

RowsInv ==
  \A sid \in SessionIds :
    rows[sid] # None => rows[sid].session_id = sid /\ Fits(rows[sid])

IndexInv ==
  \A k \in Keys :
    index[k] # None => rows[index[k]] # None /\ rows[index[k]].key = k

(* A snapshot may be stale in round_count and backend_thread_id only.       *)
Snapshot(w) ==
  LET row == rows[sess[w].session_id] IN
  /\ Fits(sess[w])
  /\ sess[w].key = KeyFor(w)
  /\ row # None
  /\ row.key = sess[w].key
  /\ row.backend_name = sess[w].backend_name
  /\ row.max_rounds = sess[w].max_rounds

Worker(w) ==
  /\ pc[w] # "idle" => msg[w] # None /\ asked[w] # None
  /\ pc[w] \in Holding <=> sess[w] # None
  /\ sess[w] # None => Snapshot(w)
  /\ pc[w] \in {"run", "save"} => sess[w].round_count < sess[w].max_rounds
  /\ pc[w] = "save" =>
       out[w] \in Reported(TurnBackend(w), sess[w].session_id, ResumeHandle(w))
  /\ pc[w] = "mark" =>
       counted[msg[w]] > 0 /\ rows[sess[w].session_id].round_count > 0

WorkersInv == \A w \in Workers : Worker(w)

IInv ==
  /\ TypeOK
  /\ RowsInv
  /\ IndexInv
  /\ KeyAlwaysSameSession
  /\ WorkersInv
  /\ ProcessedWasCounted
-------------------------------------------------------------------------------
(* Data lemmas.                                                             *)

(* A backend's answer is a handle of that backend and session.              *)
LEMMA ContinueType ==
  ASSUME NEW b \in Backends, NEW sid \in SessionIds,
         NEW h \in Handles \cup {None}
  PROVE  Continue(b, sid, h) \in Handles
BY NoneAssumption DEF Continue, Handles

(* What a turn reports is such a handle or nothing.                         *)
LEMMA ReportedType ==
  ASSUME NEW b \in Backends, NEW sid \in SessionIds,
         NEW h \in Handles \cup {None}
  PROVE  Reported(b, sid, h) \subseteq Handles \cup {None}
BY ContinueType DEF Reported

(* with_turn gives a session again, one round further, otherwise the same.  *)
LEMMA WithTurnFacts ==
  ASSUME NEW s \in Sessions, NEW h \in Handles \cup {None}
  PROVE  /\ WithTurn(s, h) \in Sessions
         /\ WithTurn(s, h).session_id = s.session_id
         /\ WithTurn(s, h).key = s.key
         /\ WithTurn(s, h).backend_name = s.backend_name
         /\ WithTurn(s, h).max_rounds = s.max_rounds
         /\ WithTurn(s, h).round_count = s.round_count + 1
         /\ WithTurn(s, h).backend_thread_id = h
<1>1. s.round_count + 1 \in Nat
  BY DEF Sessions
<1>2. WithTurn(s, h) \in Sessions
  BY <1>1 DEF WithTurn, Sessions
<1>3. WithTurn(s, h).round_count = s.round_count + 1
  BY DEF WithTurn, Sessions
<1>4. WithTurn(s, h).backend_thread_id = h
  BY DEF WithTurn, Sessions
<1> QED BY <1>2, <1>3, <1>4 DEF WithTurn, Sessions

(* A turn keeps a session fit: the round it counts is under the limit, and  *)
(* the handle the backend returns holds that round.                         *)
LEMMA TurnFits ==
  ASSUME NEW s \in Sessions, Fits(s), s.round_count < s.max_rounds,
         NEW h \in Handles \cup {None},
         h = IF s.backend_name \in Resumable THEN s.backend_thread_id ELSE None,
         NEW c \in Reported(s.backend_name, s.session_id, h)
  PROVE  Fits(WithTurn(s, c))
<1>1. s.backend_name \in Backends /\ s.session_id \in SessionIds
      /\ s.round_count \in Nat /\ s.max_rounds \in Nat
  BY ConversationAssumption DEF Sessions
<1>2. c \in Handles \cup {None}
  BY <1>1, ReportedType
<1>3. c # None => c = Continue(s.backend_name, s.session_id, h)
  BY DEF Reported
<1>4. c # None => c.backend = s.backend_name /\ c.session = s.session_id
  BY <1>3 DEF Continue
<1>5. s.backend_name \in Resumable => c # None /\ c.turns = s.round_count + 1
  <2> SUFFICES ASSUME s.backend_name \in Resumable
               PROVE  c # None /\ c.turns = s.round_count + 1
    OBVIOUS
  <2>1. c = Continue(s.backend_name, s.session_id, h)
    BY DEF Reported
  <2>2. c \in Handles
    BY <2>1, <1>1, ContinueType
  <2>3. CASE s.round_count = 0
    BY <2>1, <2>2, <2>3, <1>1, NoneAssumption DEF Continue, Fits, HoldsItsRounds
  <2>4. CASE s.round_count # 0
    BY <2>1, <2>2, <2>4, <1>1, NoneAssumption DEF Continue, Fits, HoldsItsRounds
  <2> QED BY <2>3, <2>4
<1>6. WithTurn(s, c).round_count = s.round_count + 1
      /\ WithTurn(s, c).max_rounds = s.max_rounds
      /\ WithTurn(s, c).backend_name = s.backend_name
      /\ WithTurn(s, c).session_id = s.session_id
      /\ WithTurn(s, c).backend_thread_id = c
  BY <1>2, WithTurnFacts
<1>7. WithTurn(s, c).round_count <= WithTurn(s, c).max_rounds
      /\ WithTurn(s, c).round_count > 0
  BY <1>6, <1>1
<1>8. HoldsItsRounds(WithTurn(s, c))
  BY <1>6, <1>7, <1>4, <1>5 DEF HoldsItsRounds
<1> QED BY <1>7, <1>8 DEF Fits

(* Both stores write the whole snapshot: SQL's UPDATE leaves the columns    *)
(* alone in which row and snapshot agree anyway.                            *)
LEMMA PersistWrites ==
  ASSUME TypeOK, NEW s \in Sessions, Persist(s),
         rows[s.session_id] # None,
         rows[s.session_id].session_id = s.session_id,
         rows[s.session_id].key = s.key,
         rows[s.session_id].backend_name = s.backend_name
  PROVE  rows' = [rows EXCEPT ![s.session_id] = s]
<1> DEFINE r == rows[s.session_id]
<1>1. r \in Sessions /\ s.session_id \in SessionIds
  BY DEF TypeOK, Sessions
<1>2. CASE storeKind = "memory"
  BY <1>2 DEF Persist
<1>3. CASE storeKind = "sql"
  <2> DEFINE u == [r EXCEPT !.backend_thread_id = s.backend_thread_id,
                            !.round_count = s.round_count,
                            !.max_rounds = s.max_rounds]
  <2>1. u = s
    BY <1>1 DEF Sessions
  <2>2. rows' = [rows EXCEPT ![s.session_id] = u]
    BY <1>1, <1>3 DEF Persist, TypeOK
  <2> QED BY <2>1, <2>2
<1> QED BY <1>2, <1>3 DEF Persist
-------------------------------------------------------------------------------
(* Typing.                                                                  *)

Labels == {"idle", "lookup", "insert", "refetch", "check", "run", "save", "mark"}

LocalsTyped ==
  /\ pc \in [Workers -> Labels]
  /\ msg \in [Workers -> Messages \cup {None}]
  /\ asked \in [Workers -> Calls \cup {None}]
  /\ sess \in [Workers -> Sessions \cup {None}]
  /\ out \in [Workers -> Handles \cup {None}]

(* Leaving handle() keeps every local in its type.                          *)
LEMMA LeaveType ==
  ASSUME TypeOK, NEW ws, Leave(ws)
  PROVE  LocalsTyped'
<1>1. pc' \in [Workers -> Labels]
  BY DEF TypeOK, Leave, Labels
<1>2. msg' \in [Workers -> Messages \cup {None}]
  BY DEF TypeOK, Leave
<1>3. asked' \in [Workers -> Calls \cup {None}]
  BY DEF TypeOK, Leave
<1>4. sess' \in [Workers -> Sessions \cup {None}]
  BY DEF TypeOK, Leave
<1>5. out' \in [Workers -> Handles \cup {None}]
  BY DEF TypeOK, Leave
<1> QED BY <1>1, <1>2, <1>3, <1>4, <1>5 DEF LocalsTyped

(* A failure keeps the locals and the provider's queue in their types.      *)
LEMMA FailType ==
  ASSUME TypeOK, NEW ws \in SUBSET Workers, Fail(ws)
  PROVE  /\ LocalsTyped'
         /\ pending' \subseteq Messages
         /\ redeliveries' \in Nat /\ faults' \in Nat
         /\ storeKind' \in {"memory", "sql"}
<1>1. LocalsTyped'
  BY LeaveType DEF Fail
<1>2. InFlight(ws) \subseteq Messages
  BY DEF InFlight, TypeOK
<1> QED BY <1>1, <1>2 DEF Fail, TypeOK

(* A settled message keeps them too.                                        *)
LEMMA SettleType ==
  ASSUME TypeOK, NEW w \in Workers, Settle(w)
  PROVE  /\ LocalsTyped'
         /\ pending' \subseteq Messages
         /\ redeliveries' \in Nat /\ faults' \in Nat
         /\ storeKind' \in {"memory", "sql"}
BY LeaveType DEF Settle, env, TypeOK

LEMMA NewSessionType ==
  ASSUME NEW sid \in SessionIds, NEW k \in Keys, NEW b \in Backends,
         NEW n \in RoundLimits
  PROVE  NewSession(sid, k, b, n) \in Sessions
BY DEF NewSession, Sessions

(* Type correctness of one step, given that the worker it takes is sound.   *)
LEMMA TypeStep ==
  ASSUME IInv, [Next]_vars
  PROVE  TypeOK'
<1> USE DEF TypeOK, Calls, store, locals, env, history, Goto
<1>0. TypeOK
  BY DEF IInv
<1>1. ASSUME NEW w \in Workers, Deliver(w)
      PROVE  TypeOK'
  BY <1>0, <1>1 DEF Deliver
<1>2. ASSUME NEW w \in Workers, Fetch(w), pc[w] # "idle"
      PROVE  TypeOK'
  <2>1. Worker(w)
    BY DEF IInv, WorkersInv
  <2>2. KeyFor(w) \in Keys
    BY <1>0, <1>2, <2>1, ConversationAssumption DEF Worker, KeyFor
  <2>3. rows[index[KeyFor(w)]] \in Sessions \cup {None}
    BY <1>0, <1>2, <2>2 DEF Fetch
  <2> QED BY <1>0, <1>2, <2>3 DEF Fetch
<1>3. ASSUME NEW w \in Workers, LookupMiss(w)
      PROVE  TypeOK'
  BY <1>0, <1>3 DEF LookupMiss
<1>4. ASSUME NEW w \in Workers, InsertNew(w)
      PROVE  TypeOK'
  <2>1. Worker(w)
    BY DEF IInv, WorkersInv
  <2>2. KeyFor(w) \in Keys /\ asked[w].backend \in Backends
        /\ asked[w].limit \in RoundLimits
    BY <1>0, <1>4, <2>1, ConversationAssumption DEF InsertNew, Worker, KeyFor
  <2>3. PICK sid \in SessionIds :
          LET s == NewSession(sid, KeyFor(w), asked[w].backend, asked[w].limit) IN
          /\ rows' = [rows EXCEPT ![sid] = s]
          /\ index' = [index EXCEPT ![KeyFor(w)] = sid]
          /\ sess' = [sess EXCEPT ![w] = s]
    BY <1>4 DEF InsertNew
  <2>4. NewSession(sid, KeyFor(w), asked[w].backend, asked[w].limit) \in Sessions
    BY <2>2, NewSessionType
  <2> QED BY <1>0, <1>4, <2>2, <2>3, <2>4 DEF InsertNew
<1>5. ASSUME NEW w \in Workers, InsertConflict(w)
      PROVE  TypeOK'
  BY <1>0, <1>5 DEF InsertConflict
<1>6. ASSUME NEW w \in Workers, RejectDuplicate(w) \/ RejectExhausted(w)
      PROVE  TypeOK'
  BY <1>0, <1>6, SettleType DEF RejectDuplicate, RejectExhausted, LocalsTyped, Labels
<1>7. ASSUME NEW w \in Workers, Admit(w)
      PROVE  TypeOK'
  BY <1>0, <1>7 DEF Admit
<1>8. ASSUME NEW w \in Workers, RunTurn(w)
      PROVE  TypeOK'
  <2>1. sess[w] \in Sessions
    BY <1>0, <1>8 DEF RunTurn, IInv, WorkersInv, Worker, Holding
  <2>2. ResumeHandle(w) \in Handles \cup {None} /\ TurnBackend(w) \in Backends
        /\ sess[w].session_id \in SessionIds
    BY <2>1 DEF ResumeHandle, TurnBackend, Sessions
  <2>3. Reported(TurnBackend(w), sess[w].session_id, ResumeHandle(w))
        \subseteq Handles \cup {None}
    BY <2>2, ReportedType
  <2> QED BY <1>0, <1>8, <2>3 DEF RunTurn
<1>9. ASSUME NEW w \in Workers, TurnFails(w) \/ StoreFails(w)
      PROVE  TypeOK'
  <2>1. {w} \in SUBSET Workers /\ Fail({w})
    BY <1>9 DEF TurnFails, StoreFails
  <2> QED BY <1>0, <1>9, <2>1, FailType DEF TurnFails, StoreFails, LocalsTyped, Labels
<1>10. ASSUME NEW w \in Workers, Save(w)
       PROVE  TypeOK'
  <2>1. /\ sess[w] \in Sessions
        /\ msg[w] \in Messages
        /\ Snapshot(w)
        /\ out[w] \in Reported(TurnBackend(w), sess[w].session_id, ResumeHandle(w))
    BY <1>0, <1>10 DEF Save, IInv, WorkersInv, Worker, Holding
  <2>2. out[w] \in Handles \cup {None}
    BY <2>1, ReportedType DEF ResumeHandle, TurnBackend, Sessions
  <2> DEFINE s == WithTurn(sess[w], out[w])
  <2>3. /\ s \in Sessions
        /\ s.session_id = sess[w].session_id
        /\ s.key = sess[w].key
        /\ s.backend_name = sess[w].backend_name
    BY <2>1, <2>2, WithTurnFacts
  <2>4. sess[w].session_id \in SessionIds /\ sess[w].key \in Keys
    BY <2>1 DEF Sessions
  <2>5. rows[sess[w].session_id].session_id = sess[w].session_id
    BY <2>1, <2>4 DEF IInv, RowsInv, Snapshot
  <2> HIDE DEF s, TypeOK
  <2>6. Persist(s)
    BY <1>10 DEF Save, s
  <2>7. rows' = [rows EXCEPT ![s.session_id] = s]
    BY <1>0, <2>1, <2>3, <2>5, <2>6, PersistWrites DEF Snapshot
  <2>8. index' \in [Keys -> SessionIds \cup {None}]
    BY <1>0, <2>3, <2>4, <2>6 DEF Persist, TypeOK
  <2>9. rows' \in [SessionIds -> Sessions \cup {None}]
    BY <1>0, <2>3, <2>4, <2>7 DEF TypeOK
  <2>10. counted' \in [Messages -> Nat] /\ turns' \in [SessionIds -> Nat]
    BY <1>0, <1>10, <2>1, <2>4 DEF Save, TypeOK
  <2>11. processed' \subseteq SessionIds \X Messages
    BY <1>0, <1>10 DEF Save, TypeOK
  <2>12. CASE Settle(w)
    BY <1>0, <2>8, <2>9, <2>10, <2>11, <2>12, SettleType
    DEF TypeOK, LocalsTyped, Labels
  <2>13. CASE Goto(w, "mark") /\ UNCHANGED <<locals, env>>
    BY <1>0, <2>8, <2>9, <2>10, <2>11, <2>13 DEF TypeOK
  <2> QED BY <1>10, <2>12, <2>13 DEF Save
<1>11. ASSUME NEW w \in Workers, Mark(w)
       PROVE  TypeOK'
  <2>1. sess[w] \in Sessions /\ msg[w] \in Messages
    BY <1>0, <1>11 DEF Mark, IInv, WorkersInv, Worker, Holding
  <2>2. sess[w].session_id \in SessionIds
    BY <2>1 DEF Sessions
  <2>3. processed' \subseteq SessionIds \X Messages
    BY <1>0, <1>11, <2>1, <2>2 DEF Mark
  <2> QED BY <1>0, <1>11, <2>3, SettleType DEF Mark, LocalsTyped, Labels
<1>12. ASSUME Redeliver
       PROVE  TypeOK'
  BY <1>0, <1>12 DEF Redeliver
<1>13. ASSUME NEW ws \in SUBSET Workers, Crash(ws)
       PROVE  TypeOK'
  <2>1. Fail(ws)
    BY <1>13 DEF Crash
  <2> QED BY <1>0, <1>13, <2>1, FailType DEF Crash, LocalsTyped, Labels
<1>14. CASE UNCHANGED vars
  BY <1>0, <1>14 DEF vars
<1> QED
  BY <1>1, <1>2, <1>3, <1>4, <1>5, <1>6, <1>7, <1>8, <1>9, <1>10, <1>11,
     <1>12, <1>13, <1>14
  DEF Next, Step, LookupHit, Refetch, Quiet
-------------------------------------------------------------------------------
(* What a step may do to the rows other workers hold snapshots of: a row    *)
(* stays, keeps its key, backend and limit, and keeps having had a round.   *)

RowsGrow ==
  \A sid \in SessionIds :
    rows[sid] # None =>
      /\ rows'[sid] # None
      /\ rows'[sid].key = rows[sid].key
      /\ rows'[sid].backend_name = rows[sid].backend_name
      /\ rows'[sid].max_rounds = rows[sid].max_rounds
      /\ rows[sid].round_count > 0 => rows'[sid].round_count > 0

CountedGrow == \A m \in Messages : counted[m] > 0 => counted'[m] > 0

(* A worker that does not move stays sound.                                 *)
LEMMA WorkerFrame ==
  ASSUME TypeOK, RowsGrow, CountedGrow,
         NEW v \in Workers, Worker(v),
         pc'[v] = pc[v], msg'[v] = msg[v], asked'[v] = asked[v],
         sess'[v] = sess[v], out'[v] = out[v]
  PROVE  Worker(v)'
<1>1. CASE sess[v] = None
  BY <1>1 DEF Worker, Holding
<1>2. CASE sess[v] # None
  <2>1. sess[v] \in Sessions /\ sess[v].session_id \in SessionIds
    BY <1>2 DEF TypeOK, Sessions
  <2>2. Snapshot(v)
    BY <1>2 DEF Worker
  <2>3. Snapshot(v)'
    BY <2>1, <2>2 DEF Snapshot, RowsGrow, KeyFor, Fits, HoldsItsRounds
  <2>4. pc[v] = "mark" => counted'[msg[v]] > 0
                          /\ rows'[sess[v].session_id].round_count > 0
    BY <2>1, <2>2 DEF Worker, RowsGrow, CountedGrow, TypeOK, Snapshot
  <2>5. ResumeHandle(v)' = ResumeHandle(v) /\ TurnBackend(v)' = TurnBackend(v)
    BY DEF ResumeHandle, TurnBackend
  <2> QED BY <2>3, <2>4, <2>5 DEF Worker, Reported, Continue
<1> QED BY <1>1, <1>2

(* Workers that leave handle() are sound, and the others stay so.           *)
LEMMA LeaveWorkers ==
  ASSUME TypeOK, WorkersInv, NEW ws \in SUBSET Workers, Leave(ws),
         RowsGrow, CountedGrow
  PROVE  WorkersInv'
<1> SUFFICES ASSUME NEW v \in Workers
             PROVE  Worker(v)'
  BY DEF WorkersInv
<1>1. CASE v \in ws
  <2>1. pc'[v] = "idle" /\ sess'[v] = None
    BY <1>1 DEF Leave
  <2> QED BY <2>1 DEF Worker, Holding
<1>2. CASE v \notin ws
  <2>1. pc'[v] = pc[v] /\ msg'[v] = msg[v] /\ asked'[v] = asked[v]
        /\ sess'[v] = sess[v] /\ out'[v] = out[v]
    BY <1>2 DEF Leave
  <2> QED BY <2>1, WorkerFrame DEF WorkersInv
<1> QED BY <1>1, <1>2

(* Without a change to the store nothing that is said of it changes.        *)
LEMMA StoreFrame ==
  ASSUME IInv, UNCHANGED <<store, history>>
  PROVE  RowsGrow /\ CountedGrow /\ RowsInv' /\ IndexInv' /\ ProcessedWasCounted'
<1>1. rows' = rows /\ index' = index /\ processed' = processed /\ counted' = counted
  BY DEF store, history
<1> QED
  BY <1>1 DEF IInv, RowsGrow, CountedGrow, RowsInv, IndexInv, ProcessedWasCounted,
     Fits, HoldsItsRounds

(* In SQL a worker that leaves only forgets its snapshot.                   *)
LEMMA LeaveKeySession ==
  ASSUME TypeOK, KeyAlwaysSameSession, NEW ws, Leave(ws),
         rows' = rows, index' = index, storeKind' = storeKind
  PROVE  KeyAlwaysSameSession'
<1>1. \A v \in Workers : sess'[v] = None \/ sess'[v] = sess[v]
  BY DEF Leave
<1> QED BY <1>1 DEF KeyAlwaysSameSession

(* A step that changes neither the store nor a snapshot keeps KeyAlwaysSame.*)
LEMMA SameKeySession ==
  ASSUME KeyAlwaysSameSession, storeKind' = storeKind,
         rows' = rows, index' = index, sess' = sess
  PROVE  KeyAlwaysSameSession'
BY DEF KeyAlwaysSameSession
-------------------------------------------------------------------------------
(* Preservation, one lemma per kind of step.                                *)

Rest == RowsInv /\ IndexInv /\ KeyAlwaysSameSession /\ WorkersInv
        /\ ProcessedWasCounted

(* A step that ends calls and leaves the store alone.                       *)
LEMMA LeaveStep ==
  ASSUME IInv, NEW ws \in SUBSET Workers, Leave(ws),
         UNCHANGED <<store, history, storeKind>>
  PROVE  Rest'
<1>1. TypeOK /\ WorkersInv /\ KeyAlwaysSameSession
  BY DEF IInv
<1>2. rows' = rows /\ index' = index
  BY DEF store
<1> QED BY <1>1, <1>2, StoreFrame, LeaveWorkers, LeaveKeySession DEF Rest

(* A step of one worker that leaves the store and all snapshots alone.      *)
LEMMA LocalStep ==
  ASSUME IInv, TypeOK', NEW w \in Workers, UNCHANGED <<store, history, sess, storeKind>>,
         Worker(w)',
         \A v \in Workers \ {w} :
           /\ pc'[v] = pc[v] /\ msg'[v] = msg[v] /\ asked'[v] = asked[v]
           /\ out'[v] = out[v]
  PROVE  Rest'
<1>1. TypeOK /\ WorkersInv /\ KeyAlwaysSameSession
  BY DEF IInv
<1>2. rows' = rows /\ index' = index /\ sess' = sess
  BY DEF store
<1>3. RowsGrow /\ CountedGrow /\ RowsInv' /\ IndexInv' /\ ProcessedWasCounted'
  BY StoreFrame
<1>4. KeyAlwaysSameSession'
  BY <1>1, <1>2, SameKeySession
<1>5. WorkersInv'
  <2> SUFFICES ASSUME NEW v \in Workers PROVE Worker(v)'
    BY DEF WorkersInv
  <2>1. CASE v = w
    BY <2>1
  <2>2. CASE v # w
    BY <2>2, <1>1, <1>2, <1>3, WorkerFrame DEF WorkersInv
  <2> QED BY <2>1, <2>2
<1> QED BY <1>3, <1>4, <1>5 DEF Rest

(* get_or_create returns a stored session: the snapshot is the row.         *)
LEMMA FetchStep ==
  ASSUME IInv, TypeOK', NEW w \in Workers, Fetch(w), pc[w] \in {"lookup", "refetch"}
  PROVE  Rest'
<1> DEFINE k == KeyFor(w)
           sid == index[k]
<1>1. TypeOK /\ WorkersInv /\ KeyAlwaysSameSession /\ RowsInv /\ IndexInv /\ Worker(w)
  BY DEF IInv, WorkersInv
<1>2. k \in Keys /\ sid \in SessionIds
  BY <1>1, ConversationAssumption DEF Worker, KeyFor, TypeOK, Fetch
<1>3. rows[sid] # None /\ rows[sid].key = k /\ rows[sid].session_id = sid
      /\ Fits(rows[sid]) /\ rows[sid] \in Sessions
  BY <1>1, <1>2 DEF IndexInv, RowsInv, Fetch, TypeOK
<1>4. sess' = [sess EXCEPT ![w] = rows[sid]] /\ pc' = [pc EXCEPT ![w] = "check"]
      /\ rows' = rows /\ index' = index /\ counted' = counted
      /\ msg' = msg /\ asked' = asked /\ out' = out
  BY DEF Fetch, Goto, store, history
<1>4a. storeKind' = storeKind
  BY DEF Fetch, env
<1>5. sess'[w] = rows[sid] /\ pc'[w] = "check" /\ KeyFor(w)' = k
  BY <1>1, <1>4 DEF TypeOK, KeyFor
<1>6. RowsGrow /\ CountedGrow /\ RowsInv' /\ IndexInv' /\ ProcessedWasCounted'
  BY StoreFrame DEF Fetch
<1>7. KeyAlwaysSameSession'
  BY <1>1, <1>3, <1>4, <1>4a DEF KeyAlwaysSameSession, TypeOK
<1>8. Worker(w)'
  <2>1. Snapshot(w)'
    BY <1>3, <1>4, <1>5 DEF Snapshot, Fits, HoldsItsRounds
  <2>2. msg'[w] # None /\ asked'[w] # None
    BY <1>1, <1>4 DEF Worker
  <2> QED BY <1>3, <1>5, <2>1, <2>2 DEF Worker, Holding
<1>9. WorkersInv'
  <2> SUFFICES ASSUME NEW v \in Workers PROVE Worker(v)'
    BY DEF WorkersInv
  <2>1. CASE v = w
    BY <2>1, <1>8
  <2>2. CASE v # w
    <3>1. pc'[v] = pc[v] /\ msg'[v] = msg[v] /\ asked'[v] = asked[v]
          /\ sess'[v] = sess[v] /\ out'[v] = out[v]
      BY <2>2, <1>1, <1>4 DEF TypeOK
    <3> QED BY <3>1, <1>1, <1>6, WorkerFrame DEF WorkersInv
  <2> QED BY <2>1, <2>2
<1> QED BY <1>6, <1>7, <1>9 DEF Rest

(* get_or_create inserts: nobody can hold a snapshot of the new row, and in *)
(* SQL nobody can hold another session of its key.                          *)
LEMMA InsertStep ==
  ASSUME IInv, TypeOK', NEW w \in Workers, InsertNew(w)
  PROVE  Rest' /\ RowsGrow
<1> DEFINE k == KeyFor(w)
<1>1. TypeOK /\ WorkersInv /\ KeyAlwaysSameSession /\ RowsInv /\ IndexInv
      /\ ProcessedWasCounted /\ Worker(w)
  BY DEF IInv, WorkersInv
<1>2. k \in Keys /\ asked[w].backend \in Backends /\ asked[w].limit \in RoundLimits
      /\ msg[w] # None /\ asked[w] # None
  BY <1>1, ConversationAssumption DEF Worker, KeyFor, TypeOK, Calls, InsertNew
<1> DEFINE new(sid) == NewSession(sid, k, asked[w].backend, asked[w].limit)
<1>3. PICK sid \in SessionIds :
        /\ rows[sid] = None
        /\ rows' = [rows EXCEPT ![sid] = new(sid)]
        /\ index' = [index EXCEPT ![k] = sid]
        /\ sess' = [sess EXCEPT ![w] = new(sid)]
  BY DEF InsertNew
<1> DEFINE s == new(sid)
<1>4. /\ s \in Sessions /\ s # None
      /\ s.session_id = sid /\ s.key = k /\ s.round_count = 0
      /\ s.backend_thread_id = None /\ s.max_rounds \in Nat
  BY <1>2, NewSessionType, NoneAssumption, ConversationAssumption DEF NewSession
<1>5. Fits(s)
  BY <1>4 DEF Fits, HoldsItsRounds
<1> HIDE DEF s, new
<1>6. pc' = [pc EXCEPT ![w] = "check"] /\ msg' = msg /\ asked' = asked /\ out' = out
      /\ processed' = processed /\ counted' = counted
  BY DEF InsertNew, Goto, history
<1>7. /\ rows'[sid] = s /\ \A i \in SessionIds \ {sid} : rows'[i] = rows[i]
      /\ index'[k] = sid /\ \A j \in Keys \ {k} : index'[j] = index[j]
      /\ sess'[w] = s /\ \A v \in Workers \ {w} : sess'[v] = sess[v]
      /\ pc'[w] = "check"
  BY <1>1, <1>2, <1>3, <1>6 DEF TypeOK, s
<1>8. RowsGrow /\ CountedGrow
  BY <1>3, <1>6, <1>7 DEF RowsGrow, CountedGrow
<1>9. RowsInv'
  BY <1>1, <1>4, <1>5, <1>7 DEF RowsInv, Fits, HoldsItsRounds
<1>10. IndexInv'
  BY <1>1, <1>3, <1>4, <1>7 DEF IndexInv, TypeOK
<1>11. ProcessedWasCounted'
  BY <1>1, <1>3, <1>6, <1>7 DEF ProcessedWasCounted
<1>12. KeyAlwaysSameSession'
  <2>0. storeKind' = storeKind
    BY <1>2 DEF InsertNew, env
  <2> SUFFICES ASSUME storeKind = "sql"
      PROVE  /\ \A i \in SessionIds : rows'[i] # None => index'[rows'[i].key] = i
             /\ \A v \in Workers :
                  sess'[v] # None => index'[sess'[v].key] = sess'[v].session_id
    BY <2>0 DEF KeyAlwaysSameSession
  <2>1. index[k] = None /\ None \notin SessionIds
    BY <1>1, <1>2, ConversationAssumption DEF InsertNew, Conflict
  <2>2. ASSUME NEW i \in SessionIds, rows'[i] # None
        PROVE  index'[rows'[i].key] = i
    <3>1. CASE i = sid
      BY <3>1, <1>4, <1>7
    <3>2. CASE i # sid
      <4>1. rows[i] \in Sessions /\ rows'[i] = rows[i] /\ rows[i].key \in Keys
        BY <2>2, <3>2, <1>1, <1>7 DEF TypeOK, Sessions
      <4>2. index[rows[i].key] = i
        BY <4>1, <2>2, <1>1 DEF KeyAlwaysSameSession
      <4> QED BY <4>1, <4>2, <2>1, <1>7
    <3> QED BY <3>1, <3>2
  <2>3. ASSUME NEW v \in Workers, sess'[v] # None
        PROVE  index'[sess'[v].key] = sess'[v].session_id
    <3>1. CASE v = w
      BY <3>1, <1>4, <1>7
    <3>2. CASE v # w
      <4>1. sess[v] \in Sessions /\ sess'[v] = sess[v] /\ sess[v].key \in Keys
            /\ sess[v].session_id \in SessionIds
        BY <2>3, <3>2, <1>1, <1>7 DEF TypeOK, Sessions
      <4>2. index[sess[v].key] = sess[v].session_id
        BY <4>1, <2>3, <1>1 DEF KeyAlwaysSameSession
      <4> QED BY <4>1, <4>2, <2>1, <1>7
    <3> QED BY <3>1, <3>2
  <2> QED BY <2>2, <2>3
<1>13. Worker(w)'
  <2>1. KeyFor(w)' = k
    BY <1>6 DEF KeyFor
  <2>2. Snapshot(w)'
    BY <1>4, <1>5, <1>7, <2>1 DEF Snapshot, Fits, HoldsItsRounds
  <2> QED BY <1>2, <1>4, <1>6, <1>7, <2>2 DEF Worker, Holding
<1>14. WorkersInv'
  <2> SUFFICES ASSUME NEW v \in Workers PROVE Worker(v)'
    BY DEF WorkersInv
  <2>1. CASE v = w
    BY <2>1, <1>13
  <2>2. CASE v # w
    <3>1. pc'[v] = pc[v] /\ msg'[v] = msg[v] /\ asked'[v] = asked[v]
          /\ sess'[v] = sess[v] /\ out'[v] = out[v]
      BY <2>2, <1>1, <1>6, <1>7 DEF TypeOK
    <3> QED BY <3>1, <1>1, <1>8, WorkerFrame DEF WorkersInv
  <2> QED BY <2>1, <2>2
<1> QED BY <1>8, <1>9, <1>10, <1>11, <1>12, <1>14 DEF Rest
(* The save writes a fit session over the row it was read from.             *)
LEMMA SaveStep ==
  ASSUME IInv, TypeOK', NEW w \in Workers, Save(w)
  PROVE  Rest' /\ RowsGrow
<1> DEFINE s == WithTurn(sess[w], out[w])
           sid == sess[w].session_id
<1>1. TypeOK /\ WorkersInv /\ KeyAlwaysSameSession /\ RowsInv /\ IndexInv
      /\ ProcessedWasCounted /\ Worker(w)
  BY DEF IInv, WorkersInv
<1>2. /\ sess[w] \in Sessions /\ sess[w] # None
      /\ msg[w] \in Messages /\ msg[w] # None /\ asked[w] # None
      /\ Snapshot(w) /\ Fits(sess[w])
      /\ sess[w].round_count < sess[w].max_rounds
      /\ out[w] \in Reported(sess[w].backend_name, sid, ResumeHandle(w))
  BY <1>1 DEF Save, Worker, Holding, TypeOK, TurnBackend, Snapshot
<1>3. sid \in SessionIds /\ sess[w].key \in Keys /\ sess[w].backend_name \in Backends
      /\ sess[w].backend_thread_id \in Handles \cup {None}
      /\ sess[w].round_count \in Nat
  BY <1>2 DEF Sessions
<1>4. ResumeHandle(w) \in Handles \cup {None} /\ out[w] \in Handles \cup {None}
      /\ ResumeHandle(w) = IF sess[w].backend_name \in Resumable
                           THEN sess[w].backend_thread_id ELSE None
  BY <1>2, <1>3, ReportedType DEF ResumeHandle, TurnBackend
<1>5. Fits(s)
  BY <1>2, <1>4, TurnFits
<1>6. /\ s \in Sessions /\ s # None /\ s.session_id = sid
      /\ s.key = sess[w].key /\ s.backend_name = sess[w].backend_name
      /\ s.max_rounds = sess[w].max_rounds /\ s.round_count > 0
  BY <1>2, <1>3, <1>4, WithTurnFacts, NoneAssumption
<1>7. /\ rows[sid] # None /\ rows[sid].session_id = sid
      /\ rows[sid].key = s.key /\ rows[sid].backend_name = s.backend_name
      /\ rows[sid].max_rounds = s.max_rounds
  BY <1>1, <1>2, <1>3, <1>6 DEF Snapshot, RowsInv
<1>8. Persist(s) /\ counted' = [counted EXCEPT ![msg[w]] = @ + 1]
      /\ processed' = processed
  BY DEF Save
<1> HIDE DEF s
<1>9. rows' = [rows EXCEPT ![sid] = s]
  BY <1>1, <1>6, <1>7, <1>8, PersistWrites
<1>10. /\ rows'[sid] = s /\ \A i \in SessionIds \ {sid} : rows'[i] = rows[i]
       /\ \A m \in Messages : counted'[m] >= counted[m]
       /\ counted'[msg[w]] > 0
  BY <1>1, <1>2, <1>3, <1>8, <1>9 DEF TypeOK
<1>11. RowsGrow /\ CountedGrow
  <2>1. RowsGrow
    BY <1>6, <1>7, <1>10 DEF RowsGrow
  <2>2. CountedGrow
    BY <1>1, <1>2, <1>8 DEF CountedGrow, TypeOK
  <2> QED BY <2>1, <2>2
<1>12. RowsInv'
  BY <1>1, <1>5, <1>6, <1>10 DEF RowsInv, Fits, HoldsItsRounds
<1>13. IndexInv'
  <2> SUFFICES ASSUME NEW k \in Keys, index'[k] # None
               PROVE  rows'[index'[k]] # None /\ rows'[index'[k]].key = k
    BY DEF IndexInv
  <2>1. CASE index'[k] = index[k]
    <3>1. index[k] \in SessionIds /\ rows[index[k]] # None /\ rows[index[k]].key = k
      BY <2>1, <1>1 DEF IndexInv, TypeOK
    <3> QED BY <2>1, <3>1, <1>11 DEF RowsGrow
  <2>2. CASE index'[k] # index[k]
    <3>1. k = s.key /\ index'[k] = sid
      BY <2>2, <1>1, <1>3, <1>6, <1>8 DEF Persist, TypeOK
    <3> QED BY <3>1, <1>6, <1>10
  <2> QED BY <2>1, <2>2
<1>14. ProcessedWasCounted'
  BY <1>1, <1>8, <1>11 DEF ProcessedWasCounted, RowsGrow, CountedGrow
<1>15. KeyAlwaysSameSession'
  <2>0. storeKind' = storeKind
    BY DEF Save, Settle, env
  <2> SUFFICES ASSUME storeKind = "sql" PROVE KeyAlwaysSameSession'
    BY <2>0 DEF KeyAlwaysSameSession
  <2>1. index' = index
    BY <1>8 DEF Persist
  <2>2. \A i \in SessionIds :
          rows'[i] # None => rows[i] # None /\ rows'[i].key = rows[i].key
    BY <1>7, <1>10
  <2>3. \A v \in Workers : sess'[v] = None \/ sess'[v] = sess[v]
    BY DEF Save, Settle, Leave, locals
  <2> QED BY <1>1, <2>0, <2>1, <2>2, <2>3 DEF KeyAlwaysSameSession
<1>16. WorkersInv'
  <2>1. CASE Settle(w)
    <3>1. Leave({w}) /\ {w} \in SUBSET Workers
      BY <2>1 DEF Settle
    <3> QED BY <3>1, <1>1, <1>11, LeaveWorkers
  <2>2. CASE Goto(w, "mark") /\ UNCHANGED <<locals, env>>
    <3>1. pc' = [pc EXCEPT ![w] = "mark"] /\ msg' = msg /\ asked' = asked
          /\ sess' = sess /\ out' = out
      BY <2>2 DEF Goto, locals
    <3>2. Worker(w)'
      <4>1. pc'[w] = "mark" /\ KeyFor(w)' = KeyFor(w)
        BY <3>1, <1>1 DEF TypeOK, KeyFor
      <4>2. Snapshot(w)'
        BY <3>1, <4>1, <1>2, <1>6, <1>10 DEF Snapshot, Fits, HoldsItsRounds
      <4> QED BY <3>1, <4>1, <4>2, <1>2, <1>6, <1>10 DEF Worker, Holding
    <3> SUFFICES ASSUME NEW v \in Workers PROVE Worker(v)'
      BY DEF WorkersInv
    <3>3. CASE v # w
      <4>1. pc'[v] = pc[v] /\ msg'[v] = msg[v] /\ asked'[v] = asked[v]
            /\ sess'[v] = sess[v] /\ out'[v] = out[v]
        BY <3>3, <3>1, <1>1 DEF TypeOK
      <4> QED BY <4>1, <1>1, <1>11, WorkerFrame DEF WorkersInv
    <3> QED BY <3>2, <3>3
  <2> QED BY <2>1, <2>2 DEF Save
<1> QED BY <1>11, <1>12, <1>13, <1>14, <1>15, <1>16 DEF Rest

(* The mark names a message whose turn is already stored.                   *)
LEMMA MarkStep ==
  ASSUME IInv, TypeOK', NEW w \in Workers, Mark(w)
  PROVE  Rest'
<1>1. TypeOK /\ WorkersInv /\ KeyAlwaysSameSession /\ RowsInv /\ IndexInv
      /\ ProcessedWasCounted /\ Worker(w)
  BY DEF IInv, WorkersInv
<1>2. rows' = rows /\ index' = index /\ counted' = counted
      /\ processed' = processed \cup {<<sess[w].session_id, msg[w]>>}
      /\ Leave({w}) /\ {w} \in SUBSET Workers /\ storeKind' = storeKind
  BY DEF Mark, Settle, history, env
<1>3. RowsGrow /\ CountedGrow /\ RowsInv' /\ IndexInv'
  BY <1>1, <1>2 DEF RowsGrow, CountedGrow, RowsInv, IndexInv, Fits, HoldsItsRounds
<1>4. WorkersInv' /\ KeyAlwaysSameSession'
  BY <1>1, <1>2, <1>3, LeaveWorkers, LeaveKeySession
<1>5. /\ counted[msg[w]] > 0
      /\ rows[sess[w].session_id] # None
      /\ rows[sess[w].session_id].key = KeyOf[msg[w]]
      /\ rows[sess[w].session_id].round_count > 0
  BY <1>1 DEF Mark, Worker, Holding, Snapshot, KeyFor
<1>6. ProcessedWasCounted'
  <2> SUFFICES ASSUME NEW sid \in SessionIds, NEW m \in Messages,
                      <<sid, m>> \in processed'
               PROVE  /\ counted[m] > 0
                      /\ rows[sid] # None
                      /\ rows[sid].key = KeyOf[m]
                      /\ rows[sid].round_count > 0
    BY <1>2 DEF ProcessedWasCounted
  <2>1. CASE <<sid, m>> \in processed
    BY <2>1, <1>1 DEF ProcessedWasCounted
  <2>2. CASE sid = sess[w].session_id /\ m = msg[w]
    BY <2>2, <1>5
  <2> QED BY <1>2, <2>1, <2>2
<1> QED BY <1>3, <1>4, <1>6 DEF Rest

(* A crash ends calls; with the memory store it takes every call and row.   *)
LEMMA CrashStep ==
  ASSUME IInv, TypeOK', NEW ws \in SUBSET Workers, Crash(ws)
  PROVE  Rest'
<1>1. CASE UNCHANGED <<store, history>>
  <2>1. Leave(ws) /\ storeKind' = storeKind
    BY DEF Crash, Fail
  <2> QED BY <1>1, <2>1, LeaveStep
<1>2. CASE /\ storeKind = "memory" /\ ws = Workers
           /\ rows' = [sid \in SessionIds |-> None]
           /\ index' = [k \in Keys |-> None]
           /\ processed' = {}
  <2>1. \A v \in Workers : pc'[v] = "idle" /\ sess'[v] = None
    BY <1>2 DEF Crash, Fail, Leave
  <2>2. RowsInv' /\ IndexInv' /\ ProcessedWasCounted' /\ KeyAlwaysSameSession'
    BY <1>2, <2>1 DEF RowsInv, IndexInv, ProcessedWasCounted, KeyAlwaysSameSession
  <2>3. WorkersInv'
    BY <2>1 DEF WorkersInv, Worker, Holding
  <2> QED BY <2>2, <2>3 DEF Rest
<1> QED BY <1>1, <1>2 DEF Crash

(* The remaining steps of a worker inside handle().                         *)
LEMMA InsideStep ==
  ASSUME IInv, TypeOK', NEW w \in Workers,
         Deliver(w) \/ LookupMiss(w) \/ InsertConflict(w) \/ Admit(w) \/ RunTurn(w)
  PROVE  Rest'
<1>1. TypeOK /\ Worker(w)
  BY DEF IInv, WorkersInv
<1>2. UNCHANGED <<store, history, sess, storeKind>>
  BY DEF Deliver, LookupMiss, InsertConflict, Admit, RunTurn, locals, env
<1>3. \A v \in Workers \ {w} :
        /\ pc'[v] = pc[v] /\ msg'[v] = msg[v] /\ asked'[v] = asked[v]
        /\ out'[v] = out[v]
  BY <1>1 DEF Deliver, LookupMiss, InsertConflict, Admit, RunTurn, locals, Goto, TypeOK
<1>4. rows' = rows /\ counted' = counted /\ sess' = sess
  BY <1>2 DEF store, history
<1>5. Worker(w)'
  <2>1. CASE Deliver(w)
    <3>1. pc'[w] = "lookup" /\ msg'[w] # None /\ sess[w] = None
      BY <2>1, <1>1, ConversationAssumption
      DEF Deliver, Goto, TypeOK, Worker, Holding
    <3>2. asked'[w] # None
      BY <2>1, <1>1, NoneAssumption DEF Deliver, TypeOK, Calls
    <3> QED BY <3>1, <3>2, <1>4 DEF Worker, Holding
  <2>2. CASE LookupMiss(w) \/ InsertConflict(w)
    <3>1. pc'[w] \in {"insert", "refetch"} /\ msg'[w] = msg[w]
          /\ asked'[w] = asked[w] /\ pc[w] \in {"lookup", "insert"}
      BY <2>2, <1>1 DEF LookupMiss, InsertConflict, Goto, TypeOK, locals
    <3> QED BY <3>1, <1>1, <1>4 DEF Worker, Holding
  <2>3. CASE Admit(w) \/ RunTurn(w)
    <3>1. pc[w] \in {"check", "run"} /\ msg' = msg /\ asked' = asked
      BY <2>3 DEF Admit, RunTurn, locals
    <3>2. sess[w] \in Sessions /\ Snapshot(w) /\ Snapshot(w)' /\ msg[w] # None
          /\ asked[w] # None /\ sess[w] # None
      BY <1>1, <1>4, <3>1
      DEF Worker, Holding, TypeOK, Snapshot, Fits, HoldsItsRounds, KeyFor
    <3>3. sess[w].round_count \in Nat /\ sess[w].max_rounds \in Nat
      BY <3>2, ConversationAssumption DEF Sessions
    <3>4. CASE Admit(w)
      <4>1. pc'[w] = "run" /\ sess[w].round_count < sess[w].max_rounds
        BY <3>4, <1>1, <3>3 DEF Admit, Goto, TypeOK, Exhausted
      <4> QED BY <4>1, <3>1, <3>2, <1>4 DEF Worker, Holding
    <3>5. CASE RunTurn(w)
      <4>1. pc'[w] = "save" /\ sess[w].round_count < sess[w].max_rounds
        BY <3>5, <1>1 DEF RunTurn, Goto, TypeOK, Worker
      <4>2. out'[w] \in Reported(TurnBackend(w), sess[w].session_id, ResumeHandle(w))
        BY <3>5, <1>1 DEF RunTurn, TypeOK
      <4>3. TurnBackend(w)' = TurnBackend(w) /\ ResumeHandle(w)' = ResumeHandle(w)
        BY <1>4 DEF TurnBackend, ResumeHandle
      <4>4. Reported(TurnBackend(w), sess[w].session_id, ResumeHandle(w))'
            = Reported(TurnBackend(w), sess[w].session_id, ResumeHandle(w))
        BY <1>4, <4>3 DEF Reported, Continue
      <4> QED BY <4>1, <4>2, <4>4, <3>1, <3>2, <1>4 DEF Worker, Holding
    <3> QED BY <2>3, <3>4, <3>5
  <2> QED BY <2>1, <2>2, <2>3
<1> QED BY <1>2, <1>3, <1>5, LocalStep

LEMMA StutterStep ==
  ASSUME IInv, UNCHANGED vars
  PROVE  IInv'
BY DEF vars, IInv, TypeOK, RowsInv, IndexInv, KeyAlwaysSameSession, WorkersInv,
   ProcessedWasCounted, Worker, Snapshot, Fits, HoldsItsRounds, KeyFor,
   TurnBackend, ResumeHandle, Reported, Continue
-------------------------------------------------------------------------------
(* The theorems.                                                            *)

LEMMA InitInv == Init => IInv
<1> SUFFICES ASSUME Init PROVE IInv
  OBVIOUS
<1>1. TypeOK
  BY ConversationAssumption DEF Init, TypeOK
<1>2. RowsInv /\ IndexInv /\ KeyAlwaysSameSession /\ ProcessedWasCounted
  BY DEF Init, RowsInv, IndexInv, KeyAlwaysSameSession, ProcessedWasCounted
<1>3. WorkersInv
  BY DEF Init, WorkersInv, Worker, Holding
<1> QED BY <1>1, <1>2, <1>3 DEF IInv

LEMMA NextInv == IInv /\ [Next]_vars => IInv'
<1> SUFFICES ASSUME IInv, [Next]_vars PROVE IInv'
  OBVIOUS
<1>0. TypeOK'
  BY TypeStep
<1>1. ASSUME NEW w \in Workers, Deliver(w) \/ LookupMiss(w) \/ InsertConflict(w)
                                \/ Admit(w) \/ RunTurn(w)
      PROVE  Rest'
  BY <1>0, <1>1, InsideStep
<1>2. ASSUME NEW w \in Workers, LookupHit(w) \/ Refetch(w)
      PROVE  Rest'
  BY <1>0, <1>2, FetchStep DEF LookupHit, Refetch
<1>3. ASSUME NEW w \in Workers, InsertNew(w)
      PROVE  Rest'
  BY <1>0, <1>3, InsertStep
<1>4. ASSUME NEW w \in Workers, RejectDuplicate(w) \/ RejectExhausted(w)
                                \/ TurnFails(w) \/ StoreFails(w)
      PROVE  Rest'
  <2>1. /\ Leave({w}) /\ UNCHANGED <<store, history, storeKind>>
        /\ {w} \in SUBSET Workers
    BY <1>4 DEF RejectDuplicate, RejectExhausted, TurnFails, StoreFails, Settle, Fail,
       env
  <2> QED BY <2>1, LeaveStep
<1>5. ASSUME NEW w \in Workers, Save(w)
      PROVE  Rest'
  BY <1>0, <1>5, SaveStep
<1>6. ASSUME NEW w \in Workers, Mark(w)
      PROVE  Rest'
  BY <1>0, <1>6, MarkStep
<1>7. ASSUME Redeliver
      PROVE  Rest'
  <2>1. UNCHANGED <<store, history, pc, locals, storeKind>>
    BY <1>7 DEF Redeliver
  <2>2. Leave({}) /\ {} \in SUBSET Workers
    BY <2>1 DEF Leave, locals, IInv, TypeOK
  <2> QED BY <2>1, <2>2, LeaveStep
<1>8. ASSUME NEW ws \in SUBSET Workers, Crash(ws)
      PROVE  Rest'
  BY <1>0, <1>8, CrashStep
<1>9. ASSUME UNCHANGED vars
      PROVE  Rest'
  BY <1>9, StutterStep DEF IInv, Rest
<1>10. Rest'
  <2>1. ASSUME NEW w \in Workers, Deliver(w) \/ Step(w) \/ TurnFails(w) \/ StoreFails(w)
        PROVE  Rest'
    BY <2>1, <1>1, <1>2, <1>3, <1>4, <1>5, <1>6 DEF Step
  <2> QED BY <2>1, <1>7, <1>8, <1>9 DEF Next, Quiet
<1> QED BY <1>0, <1>10 DEF IInv, Rest

LEMMA InvHolds == Spec => []IInv
<1> QED BY InitInv, NextInv, PTL DEF Spec

(* Every variable of handle()'s callers, snapshots and store keeps its type.*)
THEOREM TypeCorrect == Spec => []TypeOK
<1>1. IInv => TypeOK
  BY DEF IInv
<1> QED BY <1>1, InvHolds, PTL

(* However many callers race in get_or_create of a SQL store, one natural   *)
(* key leads to one session, in every snapshot anybody goes on with.        *)
THEOREM OneSessionPerKey == Spec => []KeyAlwaysSameSession
<1>1. IInv => KeyAlwaysSameSession
  BY DEF IInv
<1> QED BY <1>1, InvHolds, PTL

(* The handle a session stores always resumes all its counted rounds on the *)
(* backend it is pinned to, also after lost updates, failures and crashes.  *)
THEOREM HandlesHoldTheirRounds == Spec => []ResumeContinuity
<1>1. IInv => ResumeContinuity
  BY DEF IInv, RowsInv, ResumeContinuity, Fits
<1> QED BY <1>1, InvHolds, PTL

(* The stored round_count never exceeds max_rounds, whatever races.         *)
THEOREM RoundsWithinBudget == Spec => []RoundBudget
<1>1. IInv => RoundBudget
  BY DEF IInv, RowsInv, RoundBudget, Fits
<1> QED BY <1>1, InvHolds, PTL

(* A message is only ever refused as a duplicate after its turn was stored. *)
THEOREM DuplicatesWereCounted == Spec => []ProcessedWasCounted
<1>1. IInv => ProcessedWasCounted
  BY DEF IInv
<1> QED BY <1>1, InvHolds, PTL

(* "Existing fields win": in SQL no caller and no stale save ever changes   *)
(* the key, backend or limit a session was created with.                    *)
THEOREM FieldsPinned == Spec => PinnedFields
<1>1. ASSUME IInv, [Next]_vars, storeKind = "sql"
      PROVE  RowsGrow
  <2>1. TypeOK'
    BY <1>1, TypeStep
  <2>2. CASE rows' = rows
    BY <2>2 DEF RowsGrow
  <2>3. ASSUME NEW w \in Workers, InsertNew(w)
        PROVE  RowsGrow
    BY <1>1, <2>1, <2>3, InsertStep
  <2>4. ASSUME NEW w \in Workers, Save(w)
        PROVE  RowsGrow
    BY <1>1, <2>1, <2>4, SaveStep
  <2>5. ASSUME NEW w \in Workers,
               Deliver(w) \/ LookupHit(w) \/ LookupMiss(w) \/ InsertConflict(w)
               \/ Refetch(w) \/ RejectDuplicate(w) \/ RejectExhausted(w)
               \/ Admit(w) \/ RunTurn(w) \/ Mark(w) \/ TurnFails(w) \/ StoreFails(w)
        PROVE  rows' = rows
    BY <2>5 DEF Deliver, LookupHit, LookupMiss, InsertConflict, Refetch, Fetch,
       RejectDuplicate, RejectExhausted, Admit, RunTurn, Mark, TurnFails, StoreFails,
       store
  <2>6. ASSUME NEW ws \in SUBSET Workers, Crash(ws)
        PROVE  rows' = rows
    BY <1>1, <2>6 DEF Crash, store
  <2>7. CASE Redeliver \/ UNCHANGED vars
    BY <2>7, <2>2 DEF Redeliver, store, vars
  <2> QED
    BY <1>1, <2>2, <2>3, <2>4, <2>5, <2>6, <2>7 DEF Next, Step, Quiet
<1>2. IInv /\ [Next]_vars =>
        [\A sid \in SessionIds :
           storeKind = "sql" /\ rows[sid] # None =>
             /\ rows'[sid] # None
             /\ rows'[sid].key = rows[sid].key
             /\ rows'[sid].backend_name = rows[sid].backend_name
             /\ rows'[sid].max_rounds = rows[sid].max_rounds]_vars
  BY <1>1 DEF RowsGrow
<1> QED BY <1>2, InvHolds, PTL DEF Spec, PinnedFields

-------------------------------------------------------------------------------
(***************************************************************************)
(* The setting the repository documents: one process over a SQL store that  *)
(* answers one call at a time, failing and dying wherever it may.  There    *)
(* the snapshot in handle()'s hands is the row itself, no round is lost, no *)
(* message is dropped, and handle() implements TurnLedger.                  *)
(***************************************************************************)
OneAtATime == StoreKinds = {"sql"} /\ \A v, w \in Workers : v = w

-------------------------------------------------------------------------------
(* The invariant.                                                           *)

Fresh ==
  \A w \in Workers :
    pc[w] \in {"check", "run", "save"} => rows[sess[w].session_id] = sess[w]

Unmarked ==
  \A w \in Workers :
    /\ pc[w] \in {"run", "save"} => <<sess[w].session_id, msg[w]>> \notin processed
    /\ pc[w] = "mark" => msg[w] \in Identified

Marks == processed \subseteq SessionIds \X Identified

Exact ==
  \A sid \in SessionIds :
    turns[sid] = IF rows[sid] = None THEN 0 ELSE rows[sid].round_count

Idles == \A w \in Workers : pc[w] = "idle" => msg[w] = None

AloneInv ==
  /\ storeKind = "sql"
  /\ Fresh /\ Unmarked /\ Marks /\ Idles
  /\ Exact /\ NothingDropped

(* What the ledger sees of the store and of the call.                       *)
Limits == [k \in Keys |-> IF index[k] = None THEN None ELSE RowOf(k).max_rounds]
Rounds == [k \in Keys |-> IF index[k] = None THEN 0 ELSE RowOf(k).round_count]
Seen   == {m \in Messages :
             \/ \E sid \in SessionIds : <<sid, m>> \in processed
             \/ \E w \in Workers : pc[w] = "mark" /\ msg[w] = m}

-------------------------------------------------------------------------------
(* Facts about single steps.                                                *)

(* A call past get_or_create holds the session its key leads to.            *)
LEMMA Held ==
  ASSUME IInv, storeKind = "sql", NEW w \in Workers, pc[w] \in Holding
  PROVE  /\ sess[w] \in Sessions /\ sess[w].session_id \in SessionIds
         /\ sess[w].round_count \in Nat /\ sess[w].max_rounds \in Nat
         /\ msg[w] \in Messages /\ KeyFor(w) \in Keys
         /\ index[KeyFor(w)] = sess[w].session_id
         /\ rows[sess[w].session_id] # None
         /\ rows[sess[w].session_id] \in Sessions
         /\ rows[sess[w].session_id].key = KeyFor(w)
         /\ sess[w].key = KeyFor(w)
<1>1. Worker(w) /\ TypeOK
  BY DEF IInv, WorkersInv
<1>2. sess[w] # None /\ msg[w] # None
  BY <1>1 DEF Worker, Holding
<1>3. sess[w] \in Sessions /\ msg[w] \in Messages /\ Snapshot(w)
  BY <1>1, <1>2 DEF TypeOK, Worker
<1>4. sess[w].session_id \in SessionIds /\ sess[w].round_count \in Nat
      /\ sess[w].max_rounds \in Nat
  BY <1>3, ConversationAssumption DEF Sessions
<1>5. KeyFor(w) \in Keys
  BY <1>3, ConversationAssumption DEF KeyFor
<1>6. index[sess[w].key] = sess[w].session_id
  BY <1>2 DEF IInv, KeyAlwaysSameSession
<1>7. rows[sess[w].session_id] \in Sessions \cup {None}
  BY <1>1, <1>4 DEF TypeOK
<1>8. QED BY <1>3, <1>4, <1>5, <1>6, <1>7 DEF Snapshot

(* save() writes the row one round further and leaves all others alone.     *)
LEMMA SaveWrites ==
  ASSUME IInv, AloneInv, NEW w \in Workers, Save(w)
  PROVE  LET sid == sess[w].session_id IN
         /\ index' = index
         /\ \A i \in SessionIds \ {sid} : rows'[i] = rows[i]
         /\ rows'[sid] # None
         /\ rows'[sid].round_count = rows[sid].round_count + 1
         /\ rows'[sid].max_rounds = rows[sid].max_rounds
         /\ rows'[sid].key = rows[sid].key
<1> DEFINE sid == sess[w].session_id
           s == WithTurn(sess[w], out[w])
<1>1. pc[w] = "save" /\ TypeOK /\ Worker(w) /\ storeKind = "sql" /\ Fresh
  BY DEF Save, IInv, WorkersInv, AloneInv
<1>2. /\ sess[w] \in Sessions /\ sid \in SessionIds /\ rows[sid] = sess[w]
  BY <1>1, Held DEF Holding, Fresh
<1>3. out[w] \in Handles \cup {None}
  BY <1>1 DEF TypeOK
<1>4. /\ s \in Sessions /\ s.session_id = sid /\ s.key = sess[w].key
      /\ s.backend_name = sess[w].backend_name
      /\ s.max_rounds = sess[w].max_rounds
      /\ s.round_count = sess[w].round_count + 1
  BY <1>2, <1>3, WithTurnFacts
<1>5. Persist(s)
  BY DEF Save
<1> HIDE DEF s
<1>6. sess[w] # None /\ s # None
  BY <1>2, <1>4, NoneAssumption
<1>7. rows' = [rows EXCEPT ![sid] = s]
  BY <1>1, <1>2, <1>4, <1>5, <1>6, PersistWrites
<1>8. index' = index
  BY <1>1, <1>5 DEF Persist
<1>9. QED BY <1>1, <1>2, <1>4, <1>6, <1>7, <1>8 DEF TypeOK

(* The key of a session leads to no other: saving it changes one account.   *)
LEMMA KeysApart ==
  ASSUME IInv, NEW k \in Keys, NEW sid \in SessionIds, index[k] # None,
         rows[sid].key # k
  PROVE  index[k] \in SessionIds \ {sid}
BY DEF IInv, TypeOK, IndexInv

-------------------------------------------------------------------------------
(* The invariant is kept.                                                   *)

Idle(w) == pc'[w] = "idle" /\ msg'[w] = None /\ sess'[w] = None

(* A call that ends leaves nothing to be right about.                       *)
LEMMA LeavesIdle ==
  ASSUME OneAtATime, NEW ws \in SUBSET Workers, ws # {}, Leave(ws)
  PROVE  \A w \in Workers : Idle(w)
BY DEF OneAtATime, Leave, Idle

(* NothingDropped when the store and the counts stay: a message that is     *)
(* settled now was settled before, or has its answer, or is over the limit. *)
LEMMA DroppedKept ==
  ASSUME NothingDropped,
         rows' = rows, index' = index, counted' = counted,
         \A m \in Messages :
           Settled(m)' =>
             \/ Settled(m) \/ counted[m] > 0
             \/ /\ index[KeyOf[m]] # None
                /\ RowOf(KeyOf[m]).round_count >= RowOf(KeyOf[m]).max_rounds
  PROVE  NothingDropped'
BY DEF NothingDropped, RowOf

(* The steps between get_or_create and the end that store nothing.          *)
LEMMA InsideKeeps ==
  ASSUME OneAtATime, IInv, AloneInv, NEW w \in Workers,
         Deliver(w) \/ LookupHit(w) \/ LookupMiss(w) \/ InsertConflict(w)
           \/ Refetch(w) \/ Admit(w) \/ RunTurn(w)
  PROVE  AloneInv'
<1>1. TypeOK /\ Worker(w) /\ IndexInv /\ RowsInv /\ \A v \in Workers : v = w
  BY DEF IInv, WorkersInv, OneAtATime
<1>2. UNCHANGED <<store, history, storeKind>>
  BY DEF Deliver, LookupHit, LookupMiss, InsertConflict, Refetch, Fetch, Admit,
         RunTurn, env
<1>3. rows' = rows /\ index' = index /\ processed' = processed
      /\ counted' = counted /\ turns' = turns /\ storeKind' = "sql"
  BY <1>2 DEF store, history, AloneInv
<1>4. Marks' /\ Exact'
  BY <1>3 DEF Marks, Exact, AloneInv
<1>5. Fresh' /\ Unmarked' /\ Idles'
  <2>1. CASE Deliver(w) \/ LookupMiss(w) \/ InsertConflict(w)
    <3>1. pc'[w] \in {"lookup", "insert", "refetch"}
      BY <2>1, <1>1 DEF Deliver, LookupMiss, InsertConflict, Goto, TypeOK
    <3>2. QED BY <3>1, <1>1 DEF Fresh, Unmarked, Idles
  <2>2. CASE LookupHit(w) \/ Refetch(w)
    <3>1. pc'[w] = "check" /\ sess'[w] = rows[index[KeyFor(w)]]
          /\ index[KeyFor(w)] # None /\ pc[w] # "idle"
      BY <2>2, <1>1 DEF LookupHit, Refetch, Fetch, Goto, TypeOK
    <3>2. KeyFor(w) \in Keys
      BY <3>1, <1>1, ConversationAssumption DEF Worker, TypeOK, KeyFor
    <3>3. index[KeyFor(w)] \in SessionIds /\ rows[index[KeyFor(w)]] # None
      BY <3>1, <3>2, <1>1 DEF TypeOK, IndexInv
    <3>4. sess'[w].session_id = index[KeyFor(w)]
      BY <3>1, <3>3, <1>1 DEF RowsInv
    <3>5. QED BY <3>1, <3>4, <1>1, <1>3 DEF Fresh, Unmarked, Idles
  <2>3. CASE Admit(w)
    <3>1. pc[w] = "check" /\ pc'[w] = "run" /\ sess' = sess /\ msg' = msg
      BY <2>3, <1>1 DEF Admit, Goto, TypeOK, locals
    <3>2. <<sess[w].session_id, msg[w]>> \notin processed
      BY <2>3 DEF Admit, IsDuplicate, AloneInv, Marks
    <3>3. QED BY <3>1, <3>2, <1>1, <1>3 DEF Fresh, Unmarked, Idles, AloneInv
  <2>4. CASE RunTurn(w)
    <3>1. pc[w] = "run" /\ pc'[w] = "save" /\ sess' = sess /\ msg' = msg
      BY <2>4, <1>1 DEF RunTurn, Goto, TypeOK
    <3>2. QED BY <3>1, <1>1, <1>3 DEF Fresh, Unmarked, Idles, AloneInv
  <2>5. QED BY <2>1, <2>2, <2>3, <2>4
<1>6. \A m \in Messages : Settled(m)' => Settled(m)
  <2>1. CASE Deliver(w)
    <3>1. msg[w] = None
      BY <2>1 DEF Deliver, AloneInv, Idles
    <3>2. PICK m \in pending :
            msg' = [msg EXCEPT ![w] = m] /\ pending' = pending \ {m}
      BY <2>1 DEF Deliver
    <3>3. msg'[w] = m /\ m # None /\ None \notin Messages
      BY <3>2, <1>1, ConversationAssumption DEF TypeOK
    <3>4. QED BY <3>1, <3>2, <3>3, <1>1 DEF Settled
  <2>2. CASE ~Deliver(w)
    <3>1. pending' = pending /\ msg' = msg
      BY <2>2 DEF LookupHit, LookupMiss, InsertConflict, Refetch, Fetch, Admit,
                  RunTurn, env, locals
    <3>2. QED BY <3>1 DEF Settled
  <2>3. QED BY <2>1, <2>2
<1>7. NothingDropped'
  BY <1>3, <1>6, DroppedKept DEF AloneInv
<1>8. QED BY <1>3, <1>4, <1>5, <1>7 DEF AloneInv

(* get_or_create makes a row nobody has charged.                            *)
LEMMA InsertKeeps ==
  ASSUME OneAtATime, IInv, IInv', AloneInv, NEW w \in Workers, InsertNew(w)
  PROVE  AloneInv'
<1>1. TypeOK /\ Worker(w) /\ IndexInv /\ RowsInv /\ pc[w] = "insert"
      /\ \A v \in Workers : v = w
  BY DEF IInv, WorkersInv, OneAtATime, InsertNew
<1>2. /\ KeyFor(w) \in Keys /\ msg[w] \in Messages
      /\ index[KeyFor(w)] = None
      /\ asked[w].backend \in Backends /\ asked[w].limit \in RoundLimits
  BY <1>1, ConversationAssumption
     DEF InsertNew, Conflict, AloneInv, Worker, TypeOK, KeyFor, Calls
<1> DEFINE new(sid) == NewSession(sid, KeyFor(w), asked[w].backend, asked[w].limit)
<1>3. PICK sid \in SessionIds :
        /\ rows[sid] = None
        /\ rows' = [rows EXCEPT ![sid] = new(sid)]
        /\ index' = [index EXCEPT ![KeyFor(w)] = sid]
        /\ sess' = [sess EXCEPT ![w] = new(sid)]
  BY DEF InsertNew
<1>4. new(sid) \in Sessions /\ new(sid).session_id = sid /\ new(sid).round_count = 0
  BY <1>2, NewSessionType DEF NewSession
<1> HIDE DEF new
<1>5. new(sid) # None
  BY <1>4, NoneAssumption
<1>6. /\ pc'[w] = "check" /\ msg' = msg /\ sess'[w] = new(sid)
      /\ rows'[sid] = new(sid) /\ \A i \in SessionIds \ {sid} : rows'[i] = rows[i]
      /\ index'[KeyFor(w)] = sid
      /\ \A k \in Keys \ {KeyFor(w)} : index'[k] = index[k]
      /\ UNCHANGED <<processed, pending, counted, turns, storeKind>>
  BY <1>1, <1>2, <1>3 DEF InsertNew, Goto, TypeOK, env, history
<1>7. Fresh' /\ Unmarked' /\ Idles' /\ Marks'
  BY <1>1, <1>4, <1>6 DEF Fresh, Unmarked, Idles, Marks, AloneInv
<1>8. Exact'
  BY <1>3, <1>4, <1>5, <1>6 DEF Exact, AloneInv
<1>9. NothingDropped'
  <2> SUFFICES ASSUME NEW m \in Messages, Settled(m)', counted[m] = 0
               PROVE  /\ index'[KeyOf[m]] # None
                      /\ rows'[index'[KeyOf[m]]].round_count
                           >= rows'[index'[KeyOf[m]]].max_rounds
    BY <1>1, <1>6 DEF NothingDropped, TypeOK
  <2>1. Settled(m)
    BY <1>6 DEF Settled
  <2>2. /\ index[KeyOf[m]] # None /\ KeyOf[m] \in Keys
        /\ rows[index[KeyOf[m]]].round_count >= rows[index[KeyOf[m]]].max_rounds
    BY <2>1, ConversationAssumption DEF AloneInv, NothingDropped
  <2>3. KeyOf[m] # KeyFor(w) /\ index[KeyOf[m]] \in SessionIds \ {sid}
    BY <1>1, <1>2, <1>3, <2>2 DEF TypeOK, IndexInv
  <2>4. QED BY <1>6, <2>2, <2>3
<1>10. QED BY <1>6, <1>7, <1>8, <1>9 DEF AloneInv

(* A refusal is final, and for a message that was answered or is over the   *)
(* limit of its session as it is stored.                                    *)
LEMMA RefusalKeeps ==
  ASSUME OneAtATime, IInv, AloneInv, NEW w \in Workers,
         RejectDuplicate(w) \/ RejectExhausted(w)
  PROVE  AloneInv'
<1>1. pc[w] = "check" /\ Leave({w}) /\ UNCHANGED <<store, history, pending, storeKind>>
  BY DEF RejectDuplicate, RejectExhausted, Settle, env
<1>2. \A v \in Workers : Idle(v)
  BY <1>1, LeavesIdle
<1>3. rows' = rows /\ index' = index /\ processed' = processed
      /\ counted' = counted /\ turns' = turns /\ storeKind' = "sql"
  BY <1>1 DEF store, history, AloneInv
<1>4. Fresh' /\ Unmarked' /\ Idles' /\ Marks' /\ Exact'
  BY <1>2, <1>3 DEF Idle, Fresh, Unmarked, Idles, Marks, Exact, AloneInv
<1>5. \/ counted[msg[w]] > 0
      \/ /\ index[KeyFor(w)] # None
         /\ RowOf(KeyFor(w)).round_count >= RowOf(KeyFor(w)).max_rounds
  <2>1. /\ rows[sess[w].session_id] = sess[w] /\ index[KeyFor(w)] = sess[w].session_id
        /\ sess[w].session_id \in SessionIds /\ msg[w] \in Messages
        /\ None \notin SessionIds
    BY <1>1, Held, ConversationAssumption DEF AloneInv, Fresh, Holding
  <2>2. CASE RejectDuplicate(w)
    BY <2>1, <2>2 DEF RejectDuplicate, IsDuplicate, IInv, ProcessedWasCounted
  <2>3. CASE RejectExhausted(w)
    BY <2>1, <2>3 DEF RejectExhausted, Exhausted, RowOf
  <2>4. QED BY <2>2, <2>3
<1>6. \A m \in Messages : Settled(m)' => Settled(m) \/ m = msg[w]
  BY <1>1 DEF Settled, OneAtATime
<1>7. NothingDropped'
  BY <1>3, <1>5, <1>6, DroppedKept DEF AloneInv, KeyFor
<1>8. QED BY <1>3, <1>4, <1>7 DEF AloneInv

(* A failure gives the message back to the provider.                        *)
LEMMA FailureKeeps ==
  ASSUME OneAtATime, IInv, AloneInv, NEW ws \in SUBSET Workers,
         Fail(ws), UNCHANGED <<store, history>>
  PROVE  AloneInv'
<1>1. TypeOK /\ Leave(ws) /\ pending' = pending \cup InFlight(ws) /\ storeKind' = "sql"
  BY DEF Fail, IInv, AloneInv
<1>2. rows' = rows /\ index' = index /\ processed' = processed
      /\ counted' = counted /\ turns' = turns
  BY DEF store, history
<1>3. \A v \in Workers :
        Idle(v) \/ (v \notin ws /\ pc'[v] = pc[v] /\ msg'[v] = msg[v] /\ sess'[v] = sess[v])
  BY <1>1 DEF Leave, Idle
<1>4. Fresh' /\ Unmarked' /\ Idles' /\ Marks' /\ Exact'
  BY <1>2, <1>3 DEF Idle, Fresh, Unmarked, Idles, Marks, Exact, AloneInv
<1>5. \A m \in Messages : Settled(m)' => Settled(m)
  <2> SUFFICES ASSUME NEW m \in Messages, Settled(m)', NEW v \in Workers, msg[v] = m
               PROVE  FALSE
    BY <1>1 DEF Settled
  <2>1. v \in ws
    BY <1>1 DEF Settled, Leave
  <2>2. m \in pending'
    BY <1>1, <2>1, ConversationAssumption DEF InFlight
  <2>3. QED BY <2>2 DEF Settled
<1>6. NothingDropped'
  BY <1>2, <1>5, DroppedKept DEF AloneInv
<1>7. QED BY <1>1, <1>4, <1>6 DEF AloneInv

(* save() counts the turn and answers its message.                          *)
LEMMA SaveKeeps ==
  ASSUME OneAtATime, IInv, AloneInv, NEW w \in Workers, Save(w)
  PROVE  AloneInv'
<1> DEFINE sid == sess[w].session_id
<1>1. TypeOK /\ IndexInv /\ pc[w] = "save" /\ \A v \in Workers : v = w
  BY DEF IInv, OneAtATime, Save
<1>2. /\ sid \in SessionIds /\ rows[sid] # None /\ rows[sid] \in Sessions
      /\ rows[sid].round_count \in Nat /\ rows[sid].max_rounds \in Nat
      /\ msg[w] \in Messages
  <2>1. sess[w] = rows[sid]
    BY <1>1 DEF AloneInv, Fresh
  <2>2. QED BY <1>1, <2>1, Held DEF AloneInv, Holding
<1>3. /\ index' = index
      /\ \A i \in SessionIds \ {sid} : rows'[i] = rows[i]
      /\ rows'[sid] # None
      /\ rows'[sid].round_count = rows[sid].round_count + 1
      /\ rows'[sid].max_rounds = rows[sid].max_rounds
  BY SaveWrites
<1>4. /\ turns' = [turns EXCEPT ![sid] = @ + 1]
      /\ counted' = [counted EXCEPT ![msg[w]] = @ + 1]
      /\ processed' = processed /\ pending' = pending /\ storeKind' = "sql"
  BY DEF Save, Settle, env, AloneInv
<1>5. \/ pc'[w] = "mark" /\ msg[w] \in Identified /\ msg' = msg
      \/ Idle(w)
  <2>1. CASE Settle(w)
    BY <2>1, <1>1, LeavesIdle DEF Settle
  <2>2. CASE msg[w] \in Identified /\ Goto(w, "mark") /\ UNCHANGED <<locals, env>>
    BY <2>2, <1>1 DEF Goto, locals, TypeOK
  <2>3. QED BY <2>1, <2>2 DEF Save
<1>6. Fresh' /\ Unmarked' /\ Idles' /\ Marks'
  BY <1>1, <1>4, <1>5 DEF Idle, Fresh, Unmarked, Idles, Marks, AloneInv
<1>7. Exact'
  <2>1. turns[sid] = rows[sid].round_count
    BY <1>2 DEF AloneInv, Exact
  <2>2. turns'[sid] = rows'[sid].round_count
    BY <1>1, <1>2, <1>3, <1>4, <2>1 DEF TypeOK
  <2>3. \A i \in SessionIds \ {sid} : turns'[i] = turns[i]
    BY <1>1, <1>4 DEF TypeOK
  <2>4. QED BY <1>3, <2>2, <2>3 DEF AloneInv, Exact
<1>8. NothingDropped'
  <2> SUFFICES ASSUME NEW m \in Messages, Settled(m)', ~(counted'[m] > 0)
               PROVE  /\ index'[KeyOf[m]] # None
                      /\ rows'[index'[KeyOf[m]]].round_count
                           >= rows'[index'[KeyOf[m]]].max_rounds
    BY DEF NothingDropped
  <2>1. m # msg[w] /\ ~(counted[m] > 0)
    BY <1>1, <1>2, <1>4 DEF TypeOK
  <2>2. Settled(m)
    BY <1>1, <1>4, <2>1 DEF Settled
  <2>3. /\ index[KeyOf[m]] # None /\ KeyOf[m] \in Keys
        /\ rows[index[KeyOf[m]]].round_count >= rows[index[KeyOf[m]]].max_rounds
    BY <2>1, <2>2, ConversationAssumption DEF AloneInv, NothingDropped
  <2>4. index[KeyOf[m]] \in SessionIds
    BY <1>1, <2>3 DEF TypeOK
  <2>5. CASE index[KeyOf[m]] = sid
    BY <1>2, <1>3, <2>3, <2>5
  <2>6. CASE index[KeyOf[m]] # sid
    BY <1>3, <2>3, <2>4, <2>6
  <2>7. QED BY <2>5, <2>6
<1>9. QED BY <1>4, <1>6, <1>7, <1>8 DEF AloneInv

(* mark_processed() only ever marks an identified message, and ends.        *)
LEMMA MarkKeeps ==
  ASSUME OneAtATime, IInv, AloneInv, NEW w \in Workers, Mark(w)
  PROVE  AloneInv'
<1>1. /\ pc[w] = "mark" /\ Leave({w})
      /\ UNCHANGED <<rows, index, counted, turns, pending, storeKind>>
      /\ processed' = processed \cup {<<sess[w].session_id, msg[w]>>}
  BY DEF Mark, Settle, env, history
<1>2. \A v \in Workers : Idle(v)
  BY <1>1, LeavesIdle
<1>3. sess[w].session_id \in SessionIds /\ msg[w] \in Identified
  BY <1>1, Held DEF AloneInv, Holding, Unmarked
<1>4. Fresh' /\ Unmarked' /\ Idles' /\ Marks' /\ Exact'
  BY <1>1, <1>2, <1>3 DEF Idle, Fresh, Unmarked, Idles, Marks, Exact, AloneInv
<1>5. counted[msg[w]] > 0
  BY <1>1 DEF IInv, WorkersInv, Worker
<1>6. \A m \in Messages : Settled(m)' => Settled(m) \/ m = msg[w]
  BY <1>1 DEF Settled, OneAtATime
<1>7. NothingDropped'
  BY <1>1, <1>5, <1>6, DroppedKept DEF AloneInv
<1>8. QED BY <1>1, <1>4, <1>7 DEF AloneInv

(* With SQL every failure, a crash too, leaves the store as it is.          *)
LEMMA FailuresFail ==
  ASSUME storeKind = "sql", [Next]_vars
  PROVE  \/ \E w \in Workers : Deliver(w) \/ Step(w)
         \/ \E ws \in SUBSET Workers : Fail(ws) /\ UNCHANGED <<store, history>>
         \/ Redeliver
         \/ UNCHANGED vars
<1>1. ASSUME NEW w \in Workers, TurnFails(w) \/ StoreFails(w)
      PROVE  {w} \in SUBSET Workers /\ Fail({w}) /\ UNCHANGED <<store, history>>
  BY <1>1 DEF TurnFails, StoreFails
<1>2. ASSUME NEW ws \in SUBSET Workers, Crash(ws)
      PROVE  Fail(ws) /\ UNCHANGED <<store, history>>
  BY <1>2 DEF Crash
<1>3. QED BY <1>1, <1>2 DEF Next, Quiet

LEMMA AloneNext ==
  ASSUME OneAtATime, IInv, IInv', AloneInv, [Next]_vars
  PROVE  AloneInv'
<1>1. ASSUME NEW w \in Workers, Deliver(w) \/ Step(w)
      PROVE  AloneInv'
  BY <1>1, InsideKeeps, InsertKeeps, RefusalKeeps, SaveKeeps, MarkKeeps DEF Step
<1>2. ASSUME NEW ws \in SUBSET Workers, Fail(ws), UNCHANGED <<store, history>>
      PROVE  AloneInv'
  BY <1>2, FailureKeeps
<1>3. CASE Redeliver
  <2>1. UNCHANGED <<store, pc, locals, storeKind, history>>
        /\ pending \subseteq pending'
    BY <1>3 DEF Redeliver
  <2>2. \A m \in Messages : Settled(m)' => Settled(m)
    BY <2>1 DEF Settled, locals
  <2>3. NothingDropped'
    BY <2>1, <2>2, DroppedKept DEF AloneInv, store, history
  <2>4. QED BY <2>1, <2>3
    DEF AloneInv, Fresh, Unmarked, Marks, Idles, Exact, store, locals, history
<1>4. CASE UNCHANGED vars
  <2>1. NothingDropped'
    BY <1>4 DEF AloneInv, NothingDropped, Settled, vars
  <2>2. QED BY <1>4, <2>1 DEF AloneInv, Fresh, Unmarked, Marks, Idles, Exact, vars
<1>5. storeKind = "sql"
  BY DEF AloneInv
<1>6. QED BY <1>1, <1>2, <1>3, <1>4, <1>5, FailuresFail

LEMMA AloneHolds == OneAtATime => (Spec => [](IInv /\ AloneInv))
<1> SUFFICES ASSUME OneAtATime PROVE Spec => [](IInv /\ AloneInv)
  OBVIOUS
<1>1. Init => AloneInv
  BY DEF Init, AloneInv, OneAtATime, Fresh, Unmarked, Marks, Idles, Exact,
         NothingDropped, Settled
<1>2. IInv /\ IInv' /\ AloneInv /\ [Next]_vars => AloneInv'
  BY AloneNext
<1>3. QED BY <1>1, <1>2, InvHolds, PTL DEF Spec

-------------------------------------------------------------------------------
(* Theorems.                                                                *)

(* One call at a time loses no round: round_count is the number of turns    *)
(* handle() has saved, whatever fails in between.                           *)
THEOREM RoundsAlwaysExact == OneAtATime => (Spec => []RoundsExact)
<1> SUFFICES ASSUME OneAtATime PROVE Spec => []RoundsExact
  OBVIOUS
<1>1. AloneInv => RoundsExact
  BY DEF AloneInv, Exact, RoundsExact
<1>2. QED BY <1>1, AloneHolds, PTL

(* One call at a time, max_rounds bounds the turns handle() really ran: what *)
(* two threads break (conv_lost_update) holds where nobody races, through    *)
(* every failure, death and redelivery.                                     *)
THEOREM TurnsStayWithinLimit == OneAtATime => (Spec => []TurnsWithinLimit)
<1> SUFFICES ASSUME OneAtATime PROVE Spec => []TurnsWithinLimit
  OBVIOUS
<1>1. IInv /\ AloneInv => TurnsWithinLimit
  BY DEF IInv, RowsInv, Fits, AloneInv, Exact, TurnsWithinLimit
<1>2. QED BY <1>1, AloneHolds, PTL

(* A message the provider is done with has had its turn in handle(), or its *)
(* session is over the limit, whatever fails and is delivered again.        *)
THEOREM NothingEverDropped == OneAtATime => (Spec => []NothingDropped)
<1> SUFFICES ASSUME OneAtATime PROVE Spec => []NothingDropped
  OBVIOUS
<1>1. AloneInv => NothingDropped
  BY DEF AloneInv
<1>2. QED BY <1>1, AloneHolds, PTL

-------------------------------------------------------------------------------
(* The refinement: one lemma for each way the ledger moves.                 *)

LEMMA LedgerStutters ==
  ASSUME rows' = rows, index' = index, faults' = faults, Seen' = Seen
  PROVE  UNCHANGED Ledger!vars
BY DEF Seen, Ledger!vars, RowOf

LEMMA LedgerOpens ==
  ASSUME NEW k \in Keys, NEW n \in RoundLimits, index[k] = None,
         Limits' = [Limits EXCEPT ![k] = n], Rounds' = Rounds, Seen' = Seen,
         faults' = faults
  PROVE  Ledger!Open(k)
<1>1. Limits[k] = None
  BY DEF Limits
<1>2. QED BY <1>1 DEF Limits, Rounds, Seen, Ledger!Open

LEMMA LedgerAnswers ==
  ASSUME NEW m \in Messages, Limits[KeyOf[m]] # None,
         Rounds[KeyOf[m]] < Limits[KeyOf[m]], m \notin Seen,
         Rounds' = [Rounds EXCEPT ![KeyOf[m]] = @ + 1],
         Seen' = Seen \cup ({m} \cap Identified),
         Limits' = Limits, faults' = faults
  PROVE  Ledger!Answer(m)
BY DEF Limits, Rounds, Seen, Ledger!Answer

LEMMA LedgerFails ==
  ASSUME rows' = rows, index' = index, faults' = faults + 1,
         Seen' = Seen \/ \E m \in Seen : Seen' = Seen \ {m}
  PROVE  Ledger!Failure
<1>1. Limits' = Limits /\ Rounds' = Rounds
  BY DEF Limits, Rounds, RowOf
<1>2. QED BY <1>1 DEF Limits, Rounds, Seen, Ledger!Failure

(* Before save() a message of the call at work is not seen.                 *)
LEMMA InsideLedger ==
  ASSUME OneAtATime, IInv, AloneInv, NEW w \in Workers,
         \/ Deliver(w) \/ LookupHit(w) \/ LookupMiss(w) \/ InsertConflict(w)
         \/ Refetch(w) \/ Admit(w) \/ RunTurn(w)
         \/ RejectDuplicate(w) \/ RejectExhausted(w)
  PROVE  UNCHANGED Ledger!vars
<1>1. /\ rows' = rows /\ index' = index /\ processed' = processed
      /\ faults' = faults
  BY DEF Deliver, LookupHit, LookupMiss, InsertConflict, Refetch, Fetch, Admit,
         RunTurn, RejectDuplicate, RejectExhausted, Settle, env, store
<1>2. pc[w] # "mark" /\ pc'[w] # "mark" /\ \A v \in Workers : v = w
  BY DEF Deliver, LookupHit, LookupMiss, InsertConflict, Refetch, Fetch, Admit,
         RunTurn, RejectDuplicate, RejectExhausted, Settle, Leave, Goto,
         OneAtATime, IInv, TypeOK
<1>3. Seen' = Seen
  BY <1>1, <1>2 DEF Seen
<1>4. QED BY <1>1, <1>3, LedgerStutters

(* The INSERT of get_or_create opens the account of its key.                *)
LEMMA InsertLedger ==
  ASSUME OneAtATime, IInv, AloneInv, NEW w \in Workers, InsertNew(w)
  PROVE  \E k \in Keys : Ledger!Open(k)
<1>1. TypeOK /\ Worker(w) /\ IndexInv /\ pc[w] = "insert"
      /\ \A v \in Workers : v = w
  BY DEF IInv, WorkersInv, OneAtATime, InsertNew
<1> DEFINE k == KeyFor(w)
           n == asked[w].limit
<1>2. /\ k \in Keys /\ index[k] = None
      /\ asked[w].backend \in Backends /\ n \in RoundLimits
  BY <1>1, ConversationAssumption
     DEF InsertNew, Conflict, AloneInv, Worker, TypeOK, KeyFor, Calls
<1>3. PICK sid \in SessionIds :
        /\ rows[sid] = None
        /\ rows' = [rows EXCEPT ![sid] = NewSession(sid, k, asked[w].backend, n)]
        /\ index' = [index EXCEPT ![k] = sid]
  BY DEF InsertNew
<1>4. /\ rows'[sid].max_rounds = n /\ rows'[sid].round_count = 0
      /\ sid # None /\ index'[k] = sid
  BY <1>1, <1>2, <1>3, ConversationAssumption DEF TypeOK, NewSession
<1>5. \A j \in Keys \ {k} : index'[j] = index[j]
        /\ (index[j] # None => rows'[index[j]] = rows[index[j]])
  BY <1>1, <1>2, <1>3 DEF TypeOK, IndexInv
<1>6. processed' = processed /\ pc'[w] = "check" /\ faults' = faults
  BY <1>1 DEF InsertNew, Goto, TypeOK, env
<1>7. Seen' = Seen
  BY <1>1, <1>6 DEF Seen
<1>8. Limits' = [Limits EXCEPT ![k] = n]
  BY <1>2, <1>4, <1>5 DEF Limits, RowOf
<1>9. Rounds' = Rounds
  BY <1>2, <1>4, <1>5 DEF Rounds, RowOf
<1> HIDE DEF k, n
<1>10. QED BY <1>2, <1>6, <1>7, <1>8, <1>9, LedgerOpens

(* save() is the answer: one round for the key, and the message is seen.    *)
LEMMA SaveLedger ==
  ASSUME OneAtATime, IInv, AloneInv, NEW w \in Workers, Save(w)
  PROVE  \E m \in Messages : Ledger!Answer(m)
<1> DEFINE sid == sess[w].session_id
<1>0. msg[w] \in Messages /\ KeyFor(w) \in Keys
  BY Held DEF Save, IInv, WorkersInv, Worker, AloneInv, Holding
<1>m. PICK m \in Messages : m = msg[w]
  BY <1>0
<1>k. PICK k \in Keys : k = KeyFor(w)
  BY <1>0
<1>1. TypeOK /\ Worker(w) /\ pc[w] = "save" /\ \A v \in Workers : v = w
  BY DEF IInv, WorkersInv, OneAtATime, Save
<1>2. /\ sid \in SessionIds /\ m \in Messages /\ k \in Keys /\ index[k] = sid
      /\ rows[sid] # None /\ rows[sid].key = k /\ rows[sid] = sess[w]
      /\ rows[sid].round_count \in Nat /\ rows[sid].max_rounds \in Nat
      /\ rows[sid] \in Sessions
      /\ rows[sid].round_count < rows[sid].max_rounds
  <2>1. sess[w] = rows[sid]
    BY <1>1 DEF AloneInv, Fresh
  <2>2. QED BY <1>1, <1>m, <1>k, <2>1, Held DEF AloneInv, Holding, Worker
<1>3. /\ index' = index
      /\ \A i \in SessionIds \ {sid} : rows'[i] = rows[i]
      /\ rows'[sid].round_count = rows[sid].round_count + 1
      /\ rows'[sid].max_rounds = rows[sid].max_rounds
  BY SaveWrites
<1>4. sid # None /\ rows[sid].max_rounds # None
  BY <1>2, ConversationAssumption DEF Sessions
<1>5. \A j \in Keys \ {k} : index[j] # None => rows'[index[j]] = rows[index[j]]
  BY <1>2, <1>3, KeysApart
<1>6. Limits[k] # None /\ Rounds[k] < Limits[k]
  BY <1>2, <1>4 DEF Limits, Rounds, RowOf
<1>7. Limits' = Limits
  BY <1>2, <1>3, <1>5 DEF Limits, RowOf
<1>8. Rounds' = [Rounds EXCEPT ![k] = @ + 1]
  BY <1>2, <1>3, <1>4, <1>5 DEF Rounds, RowOf
<1>9. m \notin Seen
  <2>1. \A i \in SessionIds : <<i, m>> \in processed => i = sid
    <3> SUFFICES ASSUME NEW i \in SessionIds, <<i, m>> \in processed PROVE i = sid
      OBVIOUS
    <3>1. rows[i] # None /\ rows[i].key = k
      BY <1>2, <1>m, <1>k DEF IInv, ProcessedWasCounted, KeyFor
    <3>2. QED BY <1>2, <3>1 DEF IInv, KeyAlwaysSameSession, AloneInv
  <2>2. <<sid, m>> \notin processed
    BY <1>1, <1>m DEF AloneInv, Unmarked
  <2>3. QED BY <1>1, <2>1, <2>2 DEF Seen
<1>10. Seen' = Seen \cup ({m} \cap Identified)
  <2>1. processed' = processed
    BY DEF Save
  <2>2. CASE m \in Identified
    <3>1. pc'[w] = "mark" /\ msg' = msg
      BY <1>1, <1>m, <2>2 DEF Save, Goto, TypeOK, locals
    <3>2. QED BY <1>1, <1>2, <1>m, <2>1, <2>2, <3>1 DEF Seen
  <2>3. CASE m \notin Identified
    <3>1. Leave({w})
      BY <1>m, <2>3 DEF Save, Settle
    <3>2. pc'[w] = "idle"
      BY <3>1 DEF Leave
    <3>3. QED BY <1>1, <2>1, <2>3, <3>2 DEF Seen
  <2>4. QED BY <2>2, <2>3
<1>11. faults' = faults
  BY DEF Save, Settle, env
<1>12. k = KeyOf[m]
  BY <1>m, <1>k DEF KeyFor
<1>13. /\ m \in Messages /\ m \notin Seen
       /\ Limits[KeyOf[m]] # None /\ Rounds[KeyOf[m]] < Limits[KeyOf[m]]
       /\ Limits' = Limits /\ Rounds' = [Rounds EXCEPT ![KeyOf[m]] = @ + 1]
       /\ Seen' = Seen \cup ({m} \cap Identified) /\ faults' = faults
  BY <1>2, <1>6, <1>7, <1>8, <1>9, <1>10, <1>11, <1>12
<1>14. Ledger!Answer(m)
  BY <1>13, LedgerAnswers
<1>15. QED BY <1>14

(* Marking what is seen already is no step of the ledger.                   *)
LEMMA MarkLedger ==
  ASSUME OneAtATime, IInv, AloneInv, NEW w \in Workers, Mark(w)
  PROVE  UNCHANGED Ledger!vars
<1>1. /\ pc[w] = "mark" /\ Leave({w}) /\ \A v \in Workers : v = w
      /\ UNCHANGED <<rows, index, faults>>
      /\ processed' = processed \cup {<<sess[w].session_id, msg[w]>>}
  BY DEF Mark, Settle, env, OneAtATime
<1>2. pc'[w] = "idle" /\ sess[w].session_id \in SessionIds
  BY <1>1, Held DEF Leave, AloneInv, Holding
<1>3. Seen' = Seen
  BY <1>1, <1>2 DEF Seen
<1>4. QED BY <1>1, <1>3, LedgerStutters

(* A failure forgets the message that was about to be marked, or none.      *)
LEMMA FailureLedger ==
  ASSUME OneAtATime, IInv, AloneInv, NEW ws \in SUBSET Workers,
         Fail(ws), UNCHANGED <<store, history>>
  PROVE  Ledger!Failure
<1>1. Leave(ws) /\ faults' = faults + 1 /\ UNCHANGED <<rows, index, processed>>
  BY DEF Fail, store
<1>2. Seen' = Seen \/ \E m \in Seen : Seen' = Seen \ {m}
  <2>1. CASE \E w \in ws : pc[w] = "mark"
    <3>1. PICK w \in ws : pc[w] = "mark"
      BY <2>1
    <3>2. w \in Workers /\ pc'[w] = "idle" /\ \A v \in Workers : v = w
      BY <1>1, <3>1 DEF Leave, OneAtATime
    <3>3. msg[w] \in Seen
      BY <3>1, <3>2, Held DEF Seen, AloneInv, Holding
    <3>4. Seen' = {m \in Messages : \E sid \in SessionIds : <<sid, m>> \in processed}
      BY <1>1, <3>2 DEF Seen
    <3>5. CASE \E sid \in SessionIds : <<sid, msg[w]>> \in processed
      BY <3>1, <3>2, <3>4, <3>5 DEF Seen
    <3>6. CASE ~ \E sid \in SessionIds : <<sid, msg[w]>> \in processed
      <4>1. Seen' = Seen \ {msg[w]}
        BY <3>1, <3>2, <3>4, <3>6 DEF Seen
      <4>2. QED BY <3>3, <4>1
    <3>7. QED BY <3>5, <3>6
  <2>2. CASE ~ \E w \in ws : pc[w] = "mark"
    <3>1. \A w \in Workers : pc'[w] = "mark" <=> pc[w] = "mark"
      BY <1>1, <2>2 DEF Leave
    <3>2. \A w \in Workers : pc[w] = "mark" => msg'[w] = msg[w]
      BY <1>1, <2>2 DEF Leave
    <3>3. QED BY <1>1, <3>1, <3>2 DEF Seen
  <2>3. QED BY <2>1, <2>2
<1>3. QED BY <1>1, <1>2, LedgerFails

LEMMA LedgerNext ==
  ASSUME OneAtATime, IInv, AloneInv, [Next]_vars
  PROVE  [Ledger!Next]_(Ledger!vars)
<1>1. ASSUME NEW w \in Workers, Deliver(w) \/ Step(w)
      PROVE  [Ledger!Next]_(Ledger!vars)
  <2>1. CASE InsertNew(w)
    BY <2>1, InsertLedger DEF Ledger!Next
  <2>2. CASE Save(w)
    BY <2>2, SaveLedger DEF Ledger!Next
  <2>3. CASE Mark(w)
    BY <2>3, MarkLedger
  <2>4. CASE ~(InsertNew(w) \/ Save(w) \/ Mark(w))
    BY <1>1, <2>4, InsideLedger DEF Step
  <2>5. QED BY <2>1, <2>2, <2>3, <2>4
<1>2. ASSUME NEW ws \in SUBSET Workers, Fail(ws), UNCHANGED <<store, history>>
      PROVE  [Ledger!Next]_(Ledger!vars)
  BY <1>2, FailureLedger DEF Ledger!Next
<1>3. CASE Redeliver \/ UNCHANGED vars
  <2>1. UNCHANGED <<store, pc, locals, faults>>
    BY <1>3 DEF Redeliver, vars, store, locals
  <2>2. Seen' = Seen
    BY <2>1 DEF Seen, store, locals
  <2>3. QED BY <2>1, <2>2, LedgerStutters DEF store
<1>4. QED BY <1>1, <1>2, <1>3, FailuresFail DEF AloneInv

(* handle() implements the ledger, whatever turns, statements and processes *)
(* fail: save() is its only charge, and what makes handle() charge an       *)
(* identified message again is a failure between save() and the mark.       *)
THEOREM LedgerImplemented == OneAtATime => (Spec => ImplementsLedger)
<1> SUFFICES ASSUME OneAtATime PROVE Spec => ImplementsLedger
  OBVIOUS
<1>1. Init => Ledger!Init
  BY DEF Init, Ledger!Init
<1>2. IInv /\ AloneInv /\ [Next]_vars => [Ledger!Next]_(Ledger!vars)
  BY LedgerNext
<1>3. QED BY <1>1, <1>2, AloneHolds, PTL DEF Spec, ImplementsLedger, Ledger!Spec
===============================================================================
