------------------------------ MODULE RunLedger ------------------------------
(***************************************************************************)
(* What the workflow service promises, with the threads, the queue and the  *)
(* two halves of every update taken away: a run is created pending, taken   *)
(* on by an executor at most once, and changed only while it is taken on.   *)
(* Once the executor is shut down none is taken on or changed any more;     *)
(* what is created then stays pending.                                      *)
(***************************************************************************)
EXTENDS Naturals

CONSTANTS RunIds, Names, Owners, None

VARIABLES
  runs,   \* runs[r]: the record of run r, or None
  taken,  \* the runs an executor has taken on and not finished with
  over    \* the executor has been shut down

vars == <<runs, taken, over>>

Fresh(name, owner, old) ==
  [name |-> name, owner |-> owner, status |-> "pending", progress |-> 0,
   rerun_of |-> old]

Init ==
  /\ runs = [r \in RunIds |-> None]
  /\ taken = {}
  /\ over = FALSE

(* A new run, or a run of what a finished one ran, for the same owner.      *)
Create(r) ==
  /\ runs[r] = None
  /\ \/ \E n \in Names, o \in Owners : runs' = [runs EXCEPT ![r] = Fresh(n, o, None)]
     \/ \E old \in RunIds :
          /\ runs[old] # None /\ runs[old].status \in {"success", "failed"}
          /\ runs' = [runs EXCEPT ![r] = Fresh(runs[old].name, runs[old].owner, old)]
  /\ UNCHANGED <<taken, over>>

Take(r) ==
  /\ ~over
  /\ r \notin taken /\ runs[r] # None /\ runs[r].status = "pending"
  /\ taken' = taken \cup {r}
  /\ UNCHANGED <<runs, over>>

Begin(r) ==
  /\ r \in taken /\ runs[r].status = "pending"
  /\ runs' = [runs EXCEPT ![r].status = "running"]
  /\ UNCHANGED <<taken, over>>

Report(r) ==
  /\ r \in taken /\ runs[r].status = "running"
  /\ runs' = [runs EXCEPT ![r].progress = @ + 1]
  /\ UNCHANGED <<taken, over>>

(* With a result, or with the error of its handler.                         *)
Finish(r) ==
  /\ r \in taken /\ runs[r].status = "running"
  /\ \E s \in {"success", "failed"} : runs' = [runs EXCEPT ![r].status = s]
  /\ taken' = taken \ {r}
  /\ UNCHANGED over

(* Its handler exits by what "except Exception" does not catch.             *)
Abandon(r) ==
  /\ r \in taken /\ runs[r].status = "running"
  /\ taken' = taken \ {r}
  /\ UNCHANGED <<runs, over>>

ShutDown ==
  /\ taken = {} /\ over' = TRUE
  /\ UNCHANGED <<runs, taken>>

Next ==
  \/ \E r \in RunIds :
       Create(r) \/ Take(r) \/ Begin(r) \/ Report(r) \/ Finish(r) \/ Abandon(r)
  \/ ShutDown

Spec == Init /\ [][Next]_vars
===============================================================================
