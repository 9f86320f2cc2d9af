--------------------------- MODULE LazyEngineProofs ---------------------------
(***************************************************************************)
(* Proofs about LazyEngine, for any stores, threads and engines.            *)
(*                                                                          *)
(* The argument: between its second check and its last assignment a thread  *)
(* holds the lock of its store, so nobody else builds an engine there; what *)
(* it builds is its own until _engine is assigned; and _engine is assigned  *)
(* last, so who finds it finds the tables.                                  *)
(***************************************************************************)
EXTENDS LazyEngine, TLAPS

Holding == {"recheck"} \cup Building

(* Threads with an engine of their own that no other thread can reach.      *)
Private == {"check_tables", "create_tables"}

(* Who is past the second check, or at it, holds the lock.                  *)
LockInv == \A t \in Threads : pc[t] \in Holding => lock[StoreOf[t]] = t

(* An assigned engine is alive, and came after its tables.                  *)
EngineInv ==
  \A s \in Stores :
    engine[s] # None => engine[s] \in live /\ tables[s] = Tables /\ created = Tables

(* What a thread has before and while it builds, and once it is through.    *)
BuildInv ==
  \A t \in Threads :
    /\ pc[t] \in {"acquire", "recheck", "create"} => mine[t] = None
    /\ pc[t] \in {"create"} \cup Private => engine[StoreOf[t]] = None
    /\ pc[t] \in Private \cup {"store"} => mine[t] # None /\ mine[t] \in live
    /\ pc[t] = "create_tables" => Tables \ missing[t] \subseteq created
    /\ pc[t] = "store" =>
         created = Tables /\ engine[StoreOf[t]] \in {None, mine[t]}
    /\ pc[t] \in {"use", "returned"} => mine[t] = engine[StoreOf[t]]
    /\ pc[t] # "asserted"

(* No two threads build the same engine, and none builds an assigned one.   *)
OwnInv ==
  /\ \A t, u \in Threads :
       t # u /\ pc[t] \in Building /\ pc[u] \in Building /\ mine[t] # None
         => mine[t] # mine[u]
  /\ \A t \in Threads, s \in Stores :
       pc[t] \in Building /\ mine[t] # None /\ engine[s] = mine[t]
         => s = StoreOf[t]

(* A living engine is assigned, or somebody is building it.                 *)
LiveInv ==
  \A e \in live :
    \/ \E s \in Stores : engine[s] = e
    \/ \E t \in Threads : pc[t] \in Building /\ mine[t] = e

IInv == TypeOK /\ LockInv /\ EngineInv /\ BuildInv /\ OwnInv /\ LiveInv

-------------------------------------------------------------------------------
(* One lemma per conjunct: every step of a thread preserves it.             *)

(* No engine, no lock, no call.                                             *)
LEMMA Starts == Init => IInv
BY LazyAssumption DEF Init, IInv, TypeOK, LockInv, EngineInv, BuildInv, OwnInv,
   LiveInv, Holding, Private, Building, Tables

(* The stores, the threads and the database keep their types.               *)
LEMMA TypesKept ==
  ASSUME IInv, NEW t \in Threads, Step(t) \/ Again(t)
  PROVE  TypeOK'
<1> USE LazyAssumption DEF IInv, TypeOK, BuildInv, Building, Tables, Goto
<1>1. CASE Check(t) BY <1>1 DEF Check
<1>2. CASE Acquire(t) BY <1>2 DEF Acquire
<1>3. CASE Recheck(t) BY <1>3 DEF Recheck, Found, Released
<1>4. CASE CreateEngine(t) BY <1>4 DEF CreateEngine
<1>5. CASE CheckTables(t) BY <1>5 DEF CheckTables
<1>6. CASE CreateTable(t) BY <1>6 DEF CreateTable, NextTable
<1>7. CASE TablesReady(t) BY <1>7 DEF TablesReady
<1>8. CASE InitFails(t) BY <1>8 DEF InitFails, TableIsThere, NextTable, Kept,
        AfterError, Released
<1>9. CASE StoreTable(t) BY <1>9 DEF StoreTable
<1>10. CASE StoreEngine(t) BY <1>10 DEF StoreEngine, Ready
<1>11. CASE LeaveLock(t) BY <1>11 DEF LeaveLock, Released
<1>12. CASE Use(t) BY <1>12 DEF Use
<1>13. CASE Again(t) BY <1>13 DEF Again
<1>14. QED BY <1>1, <1>2, <1>3, <1>4, <1>5, <1>6, <1>7, <1>8, <1>9, <1>10,
        <1>11, <1>12, <1>13 DEF Step

(* Nobody enters the section between the checks without the lock.           *)
LEMMA LockKept ==
  ASSUME IInv, NEW t \in Threads, Step(t) \/ Again(t)
  PROVE  LockInv'
<1> USE LazyAssumption DEF IInv, TypeOK, LockInv, Holding, Building, Goto
<1>1. CASE Check(t) BY <1>1 DEF Check
<1>2. CASE Acquire(t) BY <1>2 DEF Acquire
<1>3. CASE Recheck(t) BY <1>3 DEF Recheck, Found, Released
<1>4. CASE CreateEngine(t) BY <1>4 DEF CreateEngine
<1>5. CASE CheckTables(t) BY <1>5 DEF CheckTables
<1>6. CASE CreateTable(t) BY <1>6 DEF CreateTable, NextTable
<1>7. CASE TablesReady(t) BY <1>7 DEF TablesReady
<1>8. CASE InitFails(t) BY <1>8 DEF InitFails, TableIsThere, NextTable, Kept,
        AfterError, Released
<1>9. CASE StoreTable(t) BY <1>9 DEF StoreTable
<1>10. CASE StoreEngine(t) BY <1>10 DEF StoreEngine, Ready
<1>11. CASE LeaveLock(t) BY <1>11 DEF LeaveLock, Released
<1>12. CASE Use(t) BY <1>12 DEF Use
<1>13. CASE Again(t) BY <1>13 DEF Again
<1>14. QED BY <1>1, <1>2, <1>3, <1>4, <1>5, <1>6, <1>7, <1>8, <1>9, <1>10,
        <1>11, <1>12, <1>13 DEF Step

(* _engine is assigned after the tables, and its engine stays alive.        *)
LEMMA EngineKept ==
  ASSUME IInv, NEW t \in Threads, Step(t) \/ Again(t)
  PROVE  EngineInv'
<1> USE LazyAssumption DEF IInv, EngineInv, BuildInv, OwnInv, Private, Building,
        Tables
<1>1. CASE Check(t) BY <1>1 DEF Check
<1>2. CASE Acquire(t) BY <1>2 DEF Acquire
<1>3. CASE Recheck(t) BY <1>3 DEF Recheck, Found, Released
<1>4. CASE CreateEngine(t) BY <1>4 DEF CreateEngine
<1>5. CASE CheckTables(t) BY <1>5 DEF CheckTables
<1>6. CASE CreateTable(t) BY <1>6 DEF CreateTable, NextTable
<1>7. CASE TablesReady(t) BY <1>7 DEF TablesReady
<1>8. CASE InitFails(t) BY <1>8 DEF InitFails, TableIsThere, NextTable, Kept,
        AfterError, Released
<1>9. CASE StoreTable(t) BY <1>9 DEF StoreTable
<1>10. CASE StoreEngine(t) BY <1>10 DEF StoreEngine, Ready
<1>11. CASE LeaveLock(t) BY <1>11 DEF LeaveLock, Released
<1>12. CASE Use(t) BY <1>12 DEF Use
<1>13. CASE Again(t) BY <1>13 DEF Again
<1>14. QED BY <1>1, <1>2, <1>3, <1>4, <1>5, <1>6, <1>7, <1>8, <1>9, <1>10,
        <1>11, <1>12, <1>13 DEF Step

(* What a thread building an engine knows stays true.                       *)
LEMMA BuildKept ==
  ASSUME IInv, NEW t \in Threads, Step(t) \/ Again(t)
  PROVE  BuildInv'
<1> USE LazyAssumption DEF IInv, TypeOK, LockInv, EngineInv, BuildInv, OwnInv,
        Holding, Private, Tables, Goto
<1>1. CASE Check(t) BY <1>1 DEF Check
<1>2. CASE Acquire(t) BY <1>2 DEF Acquire
<1>3. CASE Recheck(t) BY <1>3 DEF Recheck, Found, Released
<1>4. CASE CreateEngine(t) BY <1>4 DEF CreateEngine
<1>5. CASE CheckTables(t) BY <1>5 DEF CheckTables
<1>6. CASE CreateTable(t) BY <1>6 DEF CreateTable, NextTable
<1>7. CASE TablesReady(t)
  <2>1. created = Tables
    BY <1>7 DEF TablesReady
  <2>2. engine[StoreOf[t]] = None /\ mine[t] # None /\ mine[t] \in live
    BY <1>7 DEF TablesReady
  <2>3. pc' = [pc EXCEPT ![t] = "store"] /\ UNCHANGED <<engine, mine, missing, created, live>>
    BY <1>7 DEF TablesReady
  <2>4. QED BY <2>1, <2>2, <2>3
<1>8. CASE InitFails(t) BY <1>8 DEF InitFails, TableIsThere, NextTable, Kept,
        AfterError, Released
<1>9. CASE StoreTable(t) BY <1>9 DEF StoreTable
<1>10. CASE StoreEngine(t) BY <1>10 DEF StoreEngine, Ready
<1>11. CASE LeaveLock(t) BY <1>11 DEF LeaveLock, Released
<1>12. CASE Use(t) BY <1>12 DEF Use
<1>13. CASE Again(t) BY <1>13 DEF Again
<1>14. QED BY <1>1, <1>2, <1>3, <1>4, <1>5, <1>6, <1>7, <1>8, <1>9, <1>10,
        <1>11, <1>12, <1>13 DEF Step

(* A new engine is nobody else's, and remains so.                           *)
LEMMA OwnKept ==
  ASSUME IInv, NEW t \in Threads, Step(t) \/ Again(t)
  PROVE  OwnInv'
<1> USE LazyAssumption DEF IInv, TypeOK, EngineInv, BuildInv, OwnInv, Private,
        Building, Goto
<1>1. CASE Check(t) BY <1>1 DEF Check
<1>2. CASE Acquire(t) BY <1>2 DEF Acquire
<1>3. CASE Recheck(t) BY <1>3 DEF Recheck, Found, Released
<1>4. CASE CreateEngine(t) BY <1>4 DEF CreateEngine
<1>5. CASE CheckTables(t) BY <1>5 DEF CheckTables
<1>6. CASE CreateTable(t) BY <1>6 DEF CreateTable, NextTable
<1>7. CASE TablesReady(t) BY <1>7 DEF TablesReady
<1>8. CASE InitFails(t) BY <1>8 DEF InitFails, TableIsThere, NextTable, Kept,
        AfterError, Released
<1>9. CASE StoreTable(t) BY <1>9 DEF StoreTable
<1>10. CASE StoreEngine(t) BY <1>10 DEF StoreEngine, Ready
<1>11. CASE LeaveLock(t) BY <1>11 DEF LeaveLock, Released
<1>12. CASE Use(t) BY <1>12 DEF Use
<1>13. CASE Again(t) BY <1>13 DEF Again
<1>14. QED BY <1>1, <1>2, <1>3, <1>4, <1>5, <1>6, <1>7, <1>8, <1>9, <1>10,
        <1>11, <1>12, <1>13 DEF Step

(* An engine is disposed of when its builder gives up, and only then.       *)
LEMMA LiveKept ==
  ASSUME IInv, NEW t \in Threads, Step(t) \/ Again(t)
  PROVE  LiveInv'
<1> USE LazyAssumption DEF IInv, TypeOK, BuildInv, LiveInv, Building, Goto
<1>1. CASE Check(t) BY <1>1 DEF Check
<1>2. CASE Acquire(t) BY <1>2 DEF Acquire
<1>3. CASE Recheck(t) BY <1>3 DEF Recheck, Found, Released
<1>4. CASE CreateEngine(t) BY <1>4 DEF CreateEngine
<1>5. CASE CheckTables(t) BY <1>5 DEF CheckTables
<1>6. CASE CreateTable(t) BY <1>6 DEF CreateTable, NextTable
<1>7. CASE TablesReady(t) BY <1>7 DEF TablesReady
<1>8. CASE InitFails(t) BY <1>8 DEF InitFails, TableIsThere, NextTable, Kept,
        AfterError, Released
<1>9. CASE StoreTable(t) BY <1>9 DEF StoreTable
<1>10. CASE StoreEngine(t) BY <1>10 DEF StoreEngine, Ready
<1>11. CASE LeaveLock(t) BY <1>11 DEF LeaveLock, Released
<1>12. CASE Use(t) BY <1>12 DEF Use
<1>13. CASE Again(t) BY <1>13 DEF Again
<1>14. QED BY <1>1, <1>2, <1>3, <1>4, <1>5, <1>6, <1>7, <1>8, <1>9, <1>10,
        <1>11, <1>12, <1>13 DEF Step
-------------------------------------------------------------------------------
(* Theorems.                                                                *)

(* The invariant and all its parts hold for ever.                           *)
LEMMA Inductive == Spec => []IInv
<1>1. IInv /\ [Next]_vars => IInv'
  <2>1. CASE Next
    BY <2>1, TypesKept, LockKept, EngineKept, BuildKept, OwnKept, LiveKept
       DEF Next, IInv
  <2>2. CASE UNCHANGED vars
    BY <2>2 DEF vars, IInv, TypeOK, LockInv, EngineInv, BuildInv, OwnInv, LiveInv,
                Holding, Building, Private
  <2>3. QED BY <2>1, <2>2
<1>2. QED BY Starts, <1>1, PTL DEF Spec

(* The stores, the threads in _ensure_engine and the database keep their    *)
(* types; a call that is past the initialisation has an engine.             *)
THEOREM EngineTyped == Spec => []TypeOK
<1>1. IInv => TypeOK
  BY DEF IInv
<1>2. QED BY <1>1, Inductive, PTL

(* However many threads and stores share the database, the asserts of       *)
(* _engine_and_tables hold and statements run on tables that exist.         *)
THEOREM TablesAlwaysFirst == Spec => []TablesBeforeEngine
<1>1. IInv => TablesBeforeEngine
  BY LazyAssumption DEF IInv, TypeOK, BuildInv, EngineInv, TablesBeforeEngine,
          Building
<1>2. QED BY <1>1, Inductive, PTL

(* Double-checked locking in _ensure_engine: one engine per store, and none *)
(* alive that nobody can reach, after any failures.                         *)
THEOREM OneEngineAlways == Spec => []OneEngine
<1>1. ASSUME IInv PROVE OneEngine
  <2>1. \A t \in Threads : pc[t] \in {"use", "returned"} => mine[t] = engine[StoreOf[t]]
    BY <1>1 DEF IInv, BuildInv
  <2>2. ASSUME NEW s \in Stores PROVE engine[s] \in live \cup {None}
    BY <1>1 DEF IInv, EngineInv
  <2>3. ASSUME NEW t \in Threads, pc[t] \in Building PROVE mine[t] \in live \cup {None}
    BY <1>1, <2>3 DEF IInv, BuildInv, Building, Private
  <2>4. ASSUME NEW e \in live
        PROVE  \/ e \in {engine[s] : s \in Stores}
               \/ e \in {mine[t] : t \in {u \in Threads : pc[u] \in Building}}
    BY <1>1 DEF IInv, LiveInv
  <2>5. QED BY <2>1, <2>2, <2>3, <2>4 DEF OneEngine
<1>2. QED BY <1>1, Inductive, PTL
===============================================================================
