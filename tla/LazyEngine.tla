------------------------------ MODULE LazyEngine ------------------------------
(***************************************************************************)
(* SQLAlchemySessionStore._ensure_engine: the engine a store creates on its  *)
(* first use, and the two tables it creates in the database, when several    *)
(* threads use one store and several stores (of several processes) use one   *)
(* database.                                                                 *)
(*                                                                           *)
(* create_all(checkfirst=True) belongs to SQLAlchemy: it asks which of the   *)
(* tables are missing, then creates those with plain CREATE TABLE, which     *)
(* fails if another store has been quicker.                                  *)
(*                                                                           *)
(* A definition named D_Variant is a mistaken D that some property rejects.  *)
(***************************************************************************)
EXTENDS Naturals, FiniteSets

CONSTANTS
  Stores,     \* store objects on one database
  Threads,
  StoreOf,    \* StoreOf[t]: the store thread t uses
  Engines,    \* engine objects; bound: how many create_engine makes
  MaxFaults,  \* bound: errors of the database
  None

ASSUME LazyAssumption ==
  /\ StoreOf \in [Threads -> Stores]
  /\ IsFiniteSet(Engines)
  /\ MaxFaults \in Nat
  /\ None \notin Threads /\ None \notin Engines

VARIABLES
  engine,     \* engine[s]: _engine
  tables,     \* tables[s]: which of _sessions, _processed are set
  lock,       \* lock[s]: who holds _engine_lock
  pc,         \* where each thread's call is
  mine,       \* the engine a thread is building, then the one it got
  missing,    \* the tables it is about to create
  created,    \* the tables of the database
  live,       \* engines created and not disposed of
  faults      \* errors of the database so far

vars == <<engine, tables, lock, pc, mine, missing, created, live, faults>>

Tables == {"sessions", "processed"}

Building == {"create", "check_tables", "create_tables", "store"}

-------------------------------------------------------------------------------
Init ==
  /\ engine = [s \in Stores |-> None]
  /\ tables = [s \in Stores |-> {}]
  /\ lock = [s \in Stores |-> None]
  /\ pc = [t \in Threads |-> "idle"]
  /\ mine = [t \in Threads |-> None]
  /\ missing = [t \in Threads |-> {}]
  /\ created \in SUBSET Tables
  /\ live = {}
  /\ faults = 0

Goto(t, label) == pc' = [pc EXCEPT ![t] = label]

(* The first check, without the lock: what is there is used.                 *)
Check(t) ==
  LET s == StoreOf[t] IN
  /\ pc[t] = "idle"
  /\ mine' = [mine EXCEPT ![t] = engine[s]]
  /\ Goto(t, IF engine[s] = None THEN "acquire" ELSE "use")
  /\ UNCHANGED <<engine, tables, lock, missing, created, live, faults>>

Acquire(t) ==
  LET s == StoreOf[t] IN
  /\ pc[t] = "acquire" /\ lock[s] = None
  /\ lock' = [lock EXCEPT ![s] = t]
  /\ Goto(t, "recheck")
  /\ UNCHANGED <<engine, tables, mine, missing, created, live, faults>>

Released(t) == [lock EXCEPT ![StoreOf[t]] = None]

(* The second check, under the lock.                                         *)
Found(s) == engine[s] # None

Recheck(t) ==
  LET s == StoreOf[t] IN
  /\ pc[t] = "recheck"
  /\ \/ /\ Found(s)
        /\ mine' = [mine EXCEPT ![t] = engine[s]]
        /\ lock' = Released(t)
        /\ Goto(t, "use")
     \/ /\ ~Found(s)
        /\ Goto(t, "create")
        /\ UNCHANGED <<mine, lock>>
  /\ UNCHANGED <<engine, tables, missing, created, live, faults>>

CreateEngine(t) ==
  /\ pc[t] = "create"
  /\ \E e \in Engines \ live :
       /\ live' = live \cup {e}
       /\ mine' = [mine EXCEPT ![t] = e]
  /\ Goto(t, "check_tables")
  /\ UNCHANGED <<engine, tables, lock, missing, created, faults>>

(* create_all first asks the database which tables it has.                   *)
CheckTables(t) ==
  /\ pc[t] = "check_tables"
  /\ missing' = [missing EXCEPT ![t] = Tables \ created]
  /\ Goto(t, "create_tables")
  /\ UNCHANGED <<engine, tables, lock, mine, created, live, faults>>

(* Then it creates the missing ones, sessions first: processed refers to it. *)
NextTable(t) == IF "sessions" \in missing[t] THEN "sessions" ELSE "processed"

CreateTable(t) ==
  /\ pc[t] = "create_tables" /\ missing[t] # {}
  /\ NextTable(t) \notin created
  /\ created' = created \cup {NextTable(t)}
  /\ missing' = [missing EXCEPT ![t] = @ \ {NextTable(t)}]
  /\ UNCHANGED <<engine, tables, lock, pc, mine, live, faults>>

TablesReady(t) ==
  /\ pc[t] = "create_tables" /\ missing[t] = {}
  /\ Goto(t, "store")
  /\ UNCHANGED <<engine, tables, lock, mine, missing, created, live, faults>>

(* The database fails, or a table to create is there already: the engine     *)
(* built so far is disposed of, the lock released, SessionStoreError raised. *)
AfterError_OfAnEngine(t) == IF mine[t] = None THEN lock ELSE Released(t)

AfterError(t) == Released(t)

Kept_NotDisposed(t) == live

Kept(t) == live \ {mine[t]}

TableIsThere(t) ==
  /\ pc[t] = "create_tables" /\ missing[t] # {}
  /\ NextTable(t) \in created

InitFails(t) ==
  /\ pc[t] \in {"create", "check_tables", "create_tables"}
  /\ \/ TableIsThere(t) /\ UNCHANGED faults
     \/ faults < MaxFaults /\ faults' = faults + 1
  /\ live' = Kept(t)
  /\ mine' = [mine EXCEPT ![t] = None]
  /\ missing' = [missing EXCEPT ![t] = {}]
  /\ lock' = AfterError(t)
  /\ Goto(t, "failed")
  /\ UNCHANGED <<engine, tables, created>>

(* The three assignments in their order; the first check of another thread   *)
(* may come between any two of them.                                         *)
Ready_Early(s) == TRUE

Ready(s) == tables[s] = Tables

StoreTable(t) ==
  LET s == StoreOf[t] IN
  /\ pc[t] = "store"
  /\ \E n \in Tables \ tables[s] :
       /\ n = "processed" => "sessions" \in tables[s]
       /\ tables' = [tables EXCEPT ![s] = @ \cup {n}]
  /\ UNCHANGED <<engine, lock, pc, mine, missing, created, live, faults>>

StoreEngine(t) ==
  LET s == StoreOf[t] IN
  /\ pc[t] = "store" /\ engine[s] # mine[t] /\ Ready(s)
  /\ engine' = [engine EXCEPT ![s] = mine[t]]
  /\ UNCHANGED <<tables, lock, pc, mine, missing, created, live, faults>>

LeaveLock(t) ==
  LET s == StoreOf[t] IN
  /\ pc[t] = "store" /\ engine[s] = mine[t] /\ tables[s] = Tables
  /\ lock' = Released(t)
  /\ Goto(t, "use")
  /\ UNCHANGED <<engine, tables, mine, missing, created, live, faults>>

(* _engine_and_tables asserts that both tables are set, and the call runs    *)
(* its statements on the engine.                                             *)
Use(t) ==
  /\ pc[t] = "use"
  /\ Goto(t, IF tables[StoreOf[t]] = Tables THEN "returned" ELSE "asserted")
  /\ UNCHANGED <<engine, tables, lock, mine, missing, created, live, faults>>

(* The next call of a thread, whatever became of the last.                   *)
Again(t) ==
  /\ pc[t] \in {"returned", "failed", "asserted"}
  /\ mine' = [mine EXCEPT ![t] = None]
  /\ Goto(t, "idle")
  /\ UNCHANGED <<engine, tables, lock, missing, created, live, faults>>

Step(t) ==
  \/ Check(t) \/ Acquire(t) \/ Recheck(t) \/ CreateEngine(t) \/ CheckTables(t)
  \/ CreateTable(t) \/ TablesReady(t) \/ InitFails(t) \/ StoreTable(t)
  \/ StoreEngine(t) \/ LeaveLock(t) \/ Use(t)

Next == \E t \in Threads : Step(t) \/ Again(t)

Spec == Init /\ [][Next]_vars

(* The interpreter runs every thread that can go on.  Nothing is assumed of  *)
(* the lock's order: once there is an engine nobody comes to contend for it. *)
FairSpec == Spec /\ \A t \in Threads : WF_vars(Step(t))

-------------------------------------------------------------------------------
(* Properties.                                                               *)

(* Types of the stores, the threads and the database; a call past            *)
(* initialisation has an engine.                                             *)
TypeOK ==
  /\ engine \in [Stores -> Engines \cup {None}]
  /\ tables \in [Stores -> SUBSET Tables]
  /\ lock \in [Stores -> Threads \cup {None}]
  /\ pc \in [Threads -> {"idle", "acquire", "recheck", "use", "returned", "failed",
                         "asserted"} \cup Building]
  /\ mine \in [Threads -> Engines \cup {None}]
  /\ \A t \in Threads : pc[t] \in {"use", "returned"} => mine[t] # None
  /\ missing \in [Threads -> SUBSET Tables]
  /\ created \subseteq Tables
  /\ live \subseteq Engines
  /\ faults \in Nat

(* The asserts of _engine_and_tables hold, and no statement runs before the  *)
(* tables exist, though _engine is read without the lock.                    *)
TablesBeforeEngine ==
  \A t \in Threads :
    /\ pc[t] # "asserted"
    /\ pc[t] \in {"use", "returned"} => created = Tables

(* "Double-checked locking prevents two threads racing into double-create":  *)
(* all threads of a store get one engine, which is never replaced, and the   *)
(* only engines alive besides are those a lock holder is still building.     *)
OneEngine ==
  /\ \A t \in Threads :
       pc[t] \in {"use", "returned"} => mine[t] = engine[StoreOf[t]]
  /\ live \cup {None} = {None} \cup {engine[s] : s \in Stores}
       \cup {mine[t] : t \in {u \in Threads : pc[u] \in Building}}

(* A call is always answered, even by an error: no failed initialisation     *)
(* keeps the lock from the calls after it.                                   *)
CallsReturn ==
  \A t \in Threads : pc[t] = "acquire" ~> pc[t] \in {"returned", "failed"}
===============================================================================
