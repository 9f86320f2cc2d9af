------------------------------- MODULE Workflow -------------------------------
(***************************************************************************)
(* WorkflowService over a WorkflowStore and an executor: callers start and  *)
(* rerun workflows, pool threads execute them, one thread shuts the         *)
(* executor down and another waits for all futures.                         *)
(*                                                                          *)
(* A run record is only ever replaced whole: each update reads the record,  *)
(* computes a copy and saves the copy, in two steps.  The body of a handler *)
(* is arbitrary: it reports progress some times, then returns or raises.    *)
(* The submit queue is the pool's own; a run's stage says where the code    *)
(* that executes it is.                                                     *)
(*                                                                          *)
(* A definition named D_Variant is a mistaken D that some property rejects. *)
(***************************************************************************)
EXTENDS Naturals, Sequences, FiniteSets

CONSTANTS
  Callers,       \* threads that call run() and rerun()
  RunIds,        \* uuid4 values
  Names,         \* registered workflow names
  Owners,        \* owner_workspace_id values
  Kinds,         \* executors to consider: subset of {"inline", "thread"}
  MaxWorkers,    \* threads of the pool
  MaxReports,    \* bound: report_progress calls of one handler
  Endings,       \* how handlers end: subset of {"success", "failed", "exit"}
  None

ASSUME WorkflowAssumption ==
  /\ Kinds \subseteq {"inline", "thread"}
  /\ MaxWorkers \in Nat \ {0} /\ MaxReports \in Nat
  /\ Endings \subseteq {"success", "failed", "exit"}
  /\ None \notin RunIds

VARIABLES
  kind,      \* the executor the service was built with
  runs,      \* the store: runs[r] is the record of r, None = no record
  stage,     \* stage[r]: where the execution of r is
  todo,      \* todo[r]: the update the executing thread is making
  snap,      \* snap[r]: the record that thread has read
  queue,     \* submitted runs no pool thread has taken yet
  futures,   \* runs whose Future is in the executor's list
  executor,  \* "open", "flagged" (_shutdown), "closed" (pool), "joined"
  cpc, cur,  \* each caller: where it is in run(), and its run
  waiter,    \* wait_all: "idle", "waiting", "returned", "raised"
  awaited,   \* the futures wait_all has listed
  reported,  \* history: reported[r] = completed report_progress calls
  answered,  \* history: runs whose run() has returned
  promised   \* history: the runs answered when wait_all began

execution == <<todo, snap>>
caller    == <<cpc, cur>>
waiting   == <<waiter, awaited, promised>>
pool      == <<kind, queue, futures, executor>>
past      == <<reported, answered>>
vars      == <<kind, runs, stage, todo, snap, queue, futures, executor, cpc, cur,
               waiter, awaited, reported, answered, promised>>

-------------------------------------------------------------------------------
Statuses == {"pending", "running", "success", "failed"}
Terminal == {"success", "failed"}
Updates  == {"running", "progress", "success", "failed"}
Stages   == {"none", "queued", "read", "write", "handler", "done", "exited"}

Records ==
  [name : Names, owner : Owners, status : Statuses, progress : Nat,
   rerun_of : RunIds \cup {None}]

ASSUME RecordAssumption == None \notin Records

Executing == {r \in RunIds : stage[r] \in {"read", "write", "handler"}}

(* The copies with_status, with_progress, with_result and with_error make.  *)
Updated_NoProgress(rec, u) ==
  IF u = "progress" THEN rec ELSE [rec EXCEPT !.status = u, !.progress = 0]

Updated_OtherStatus(rec, u) ==
  CASE u = "progress" -> [rec EXCEPT !.progress = @ + 1]
    [] u = "failed"   -> [rec EXCEPT !.status = "error"]
    [] OTHER          -> [rec EXCEPT !.status = u]

Updated(rec, u) ==
  IF u = "progress" THEN [rec EXCEPT !.progress = @ + 1]
                    ELSE [rec EXCEPT !.status = u]

Init ==
  /\ kind \in Kinds
  /\ runs = [r \in RunIds |-> None]
  /\ stage = [r \in RunIds |-> "none"]
  /\ todo = [r \in RunIds |-> None]
  /\ snap = [r \in RunIds |-> None]
  /\ queue = <<>>
  /\ futures = {}
  /\ executor = "open"
  /\ cpc = [c \in Callers |-> "idle"]
  /\ cur = [c \in Callers |-> None]
  /\ waiter = "idle"
  /\ awaited = {}
  /\ reported = [r \in RunIds |-> 0]
  /\ answered = {}
  /\ promised = {}

CallerGoes(c, label) == cpc' = [cpc EXCEPT ![c] = label]

CallerLeaves(c) ==
  /\ cpc' = [cpc EXCEPT ![c] = "idle"]
  /\ cur' = [cur EXCEPT ![c] = None]

-------------------------------------------------------------------------------
(* run() and rerun(): the PENDING record is saved, then the work submitted. *)

Create(c, rec) ==
  /\ cpc[c] = "idle"
  /\ \E r \in RunIds :
       /\ runs[r] = None
       /\ runs' = [runs EXCEPT ![r] = rec]
       /\ cur' = [cur EXCEPT ![c] = r]
  /\ CallerGoes(c, "submit")
  /\ UNCHANGED <<pool, stage, execution, waiting, past>>

Run(c) ==
  \E n \in Names, o \in Owners :
    Create(c, [name |-> n, owner |-> o, status |-> "pending",
               progress |-> 0, rerun_of |-> None])

Rerun_Unfinished(c) ==
  \E old \in RunIds :
    /\ runs[old] # None
    /\ Create(c, [runs[old] EXCEPT !.status = "pending", !.progress = 0,
                                   !.rerun_of = old])

Rerun(c) ==
  \E old \in RunIds :
    /\ runs[old] # None
    /\ runs[old].status \in Terminal
    /\ Create(c, [runs[old] EXCEPT !.status = "pending", !.progress = 0,
                                   !.rerun_of = old])

(* ThreadWorkflowExecutor.submit: the flag, then the pool, then the list.   *)
SubmitRefused(c) ==
  /\ kind = "thread"
  /\ \/ cpc[c] = "submit" /\ executor # "open"
     \/ cpc[c] = "enqueue" /\ executor \in {"closed", "joined"}
  /\ CallerLeaves(c)
  /\ UNCHANGED <<pool, runs, stage, execution, waiting, past>>

SubmitAllowed(c) ==
  /\ kind = "thread"
  /\ cpc[c] = "submit" /\ executor = "open"
  /\ CallerGoes(c, "enqueue")
  /\ UNCHANGED <<pool, runs, stage, execution, cur, waiting, past>>

Enqueue_Unchecked(c) ==
  /\ cpc[c] = "enqueue"
  /\ queue' = Append(queue, cur[c])
  /\ stage' = [stage EXCEPT ![cur[c]] = "queued"]
  /\ CallerGoes(c, "track")
  /\ UNCHANGED <<kind, runs, execution, futures, executor, cur, waiting, past>>

Enqueue(c) ==
  /\ cpc[c] = "enqueue" /\ executor \notin {"closed", "joined"}
  /\ queue' = Append(queue, cur[c])
  /\ stage' = [stage EXCEPT ![cur[c]] = "queued"]
  /\ CallerGoes(c, "track")
  /\ UNCHANGED <<kind, runs, execution, futures, executor, cur, waiting, past>>

Track_Forgets(c) ==
  /\ cpc[c] = "track"
  /\ CallerGoes(c, "reply")
  /\ UNCHANGED <<pool, runs, stage, execution, cur, waiting, past>>

Track(c) ==
  /\ cpc[c] = "track"
  /\ futures' = futures \cup {cur[c]}
  /\ CallerGoes(c, "reply")
  /\ UNCHANGED <<kind, runs, stage, execution, queue, executor, cur, waiting, past>>

(* InlineExecutor.submit: the caller's own thread executes the run.         *)
SubmitInline(c) ==
  /\ kind = "inline"
  /\ cpc[c] = "submit"
  /\ stage' = [stage EXCEPT ![cur[c]] = "read"]
  /\ todo' = [todo EXCEPT ![cur[c]] = "running"]
  /\ CallerGoes(c, "inline")
  /\ UNCHANGED <<pool, runs, snap, cur, waiting, past>>

InlineReturns(c) ==
  /\ cpc[c] = "inline"
  /\ \/ stage[cur[c]] = "done" /\ CallerGoes(c, "reply") /\ UNCHANGED cur
     \/ stage[cur[c]] = "exited" /\ CallerLeaves(c)
  /\ UNCHANGED <<pool, runs, stage, execution, waiting, past>>

Reply_SavesAgain(c) ==
  /\ cpc[c] = "reply"
  /\ runs' = [runs EXCEPT ![cur[c]].status = "pending"]
  /\ answered' = answered \cup {cur[c]}
  /\ CallerLeaves(c)
  /\ UNCHANGED <<pool, stage, execution, waiting, reported>>

Reply(c) ==
  /\ cpc[c] = "reply"
  /\ answered' = answered \cup {cur[c]}
  /\ CallerLeaves(c)
  /\ UNCHANGED <<pool, runs, stage, execution, waiting, reported>>

-------------------------------------------------------------------------------
(* _execute, on a pool thread or inline.                                    *)

Take ==
  /\ queue # <<>>
  /\ Cardinality(Executing) < MaxWorkers
  /\ stage' = [stage EXCEPT ![Head(queue)] = "read"]
  /\ todo' = [todo EXCEPT ![Head(queue)] = "running"]
  /\ queue' = Tail(queue)
  /\ UNCHANGED <<kind, runs, snap, futures, executor, caller, waiting, past>>

Read(r) ==
  /\ stage[r] = "read"
  /\ snap' = [snap EXCEPT ![r] = runs[r]]
  /\ stage' = [stage EXCEPT ![r] = "write"]
  /\ UNCHANGED <<pool, runs, todo, caller, waiting, past>>

Write(r) ==
  /\ stage[r] = "write"
  /\ runs' = [runs EXCEPT ![r] = Updated(snap[r], todo[r])]
  /\ reported' = [reported EXCEPT ![r] = IF todo[r] = "progress" THEN @ + 1 ELSE @]
  /\ stage' = [stage EXCEPT ![r] = IF todo[r] \in Terminal THEN "done" ELSE "handler"]
  /\ UNCHANGED <<pool, execution, caller, waiting, answered>>

Starts(r, u) ==
  /\ stage[r] = "handler"
  /\ stage' = [stage EXCEPT ![r] = "read"]
  /\ todo' = [todo EXCEPT ![r] = u]
  /\ UNCHANGED <<pool, runs, snap, caller, waiting, past>>

Report(r) == reported[r] < MaxReports /\ Starts(r, "progress")

(* The handler returns or raises an Exception.                              *)
End(r) == \E u \in Endings \cap Terminal : Starts(r, u)

(* It raises something "except Exception" does not catch: the exception     *)
(* ends up in the Future, or in the inline caller.                          *)
Exit(r) ==
  /\ "exit" \in Endings
  /\ stage[r] = "handler"
  /\ stage' = [stage EXCEPT ![r] = "exited"]
  /\ UNCHANGED <<pool, runs, execution, caller, waiting, past>>

-------------------------------------------------------------------------------
(* shutdown(): the flag, then pool.shutdown(wait=True), which drains.       *)

ExecutorGoes(from, to) ==
  /\ kind = "thread"
  /\ executor = from
  /\ executor' = to
  /\ UNCHANGED <<kind, runs, stage, execution, queue, futures, caller, waiting, past>>

Flag == ExecutorGoes("open", "flagged")

Close_Cancels ==
  /\ kind = "thread" /\ executor = "flagged"
  /\ executor' = "closed"
  /\ queue' = <<>>
  /\ UNCHANGED <<kind, runs, stage, execution, futures, caller, waiting, past>>

Close == ExecutorGoes("flagged", "closed")

Join_AllDone ==
  /\ queue = <<>> /\ Executing = {}
  /\ \A r \in futures : stage[r] = "done"
  /\ ExecutorGoes("closed", "joined")

Join == queue = <<>> /\ Executing = {} /\ ExecutorGoes("closed", "joined")

(* wait_all(): the list is copied, then each future waited for.  A timeout  *)
(* or an exception kept in a future ends it early.                          *)
WaitAll ==
  /\ kind = "thread"
  /\ waiter = "idle"
  /\ waiter' = "waiting"
  /\ awaited' = futures
  /\ promised' = answered
  /\ UNCHANGED <<pool, runs, stage, execution, caller, past>>

WaitAllEnds ==
  /\ waiter = "waiting"
  /\ \/ waiter' = "returned" /\ \A r \in awaited : stage[r] = "done"
     \/ waiter' = "raised" /\ \E r \in awaited : stage[r] # "done"
  /\ UNCHANGED <<pool, runs, stage, execution, caller, awaited, past, promised>>

-------------------------------------------------------------------------------
CallerStep(c) ==
  \/ SubmitRefused(c) \/ SubmitAllowed(c) \/ Enqueue(c) \/ Track(c)
  \/ SubmitInline(c) \/ InlineReturns(c) \/ Reply(c)

Execute(r) == Read(r) \/ Write(r) \/ Report(r) \/ End(r) \/ Exit(r)

(* No id is left for another run and everything has come to rest.           *)
Rest ==
  /\ \A r \in RunIds : runs[r] # None
  /\ \A c \in Callers : cpc[c] = "idle"
  /\ queue = <<>> /\ Executing = {}
  /\ UNCHANGED vars

Next ==
  \/ \E c \in Callers : Run(c) \/ Rerun(c) \/ CallerStep(c)
  \/ Take
  \/ \E r \in RunIds : Execute(r)
  \/ Flag \/ Close \/ Join
  \/ WaitAll \/ WaitAllEnds
  \/ Rest

Spec == Init /\ [][Next]_vars

(* Threads keep running: callers inside run(), pool threads, a shutdown     *)
(* once begun.  Nobody has to start a run, wait or shut down.               *)
Fairness ==
  /\ \A c \in Callers : WF_vars(CallerStep(c))
  /\ WF_vars(Take)
  /\ \A r \in RunIds : WF_vars(Execute(r))
  /\ WF_vars(Close \/ Join)

FairSpec == Spec /\ Fairness

-------------------------------------------------------------------------------
(* Properties.                                                              *)

(* Types of the store, the executor and the threads.                        *)
TypeOK ==
  /\ kind \in Kinds
  /\ runs \in [RunIds -> Records \cup {None}]
  /\ stage \in [RunIds -> Stages]
  /\ todo \in [RunIds -> Updates \cup {None}]
  /\ snap \in [RunIds -> Records \cup {None}]
  /\ queue \in Seq(RunIds)
  /\ futures \subseteq RunIds
  /\ executor \in {"open", "flagged", "closed", "joined"}
  /\ cpc \in [Callers -> {"idle", "submit", "enqueue", "track", "inline", "reply"}]
  /\ cur \in [Callers -> RunIds \cup {None}]
  /\ waiter \in {"idle", "waiting", "returned", "raised"}
  /\ awaited \subseteq RunIds
  /\ reported \in [RunIds -> Nat]
  /\ answered \subseteq RunIds /\ promised \subseteq RunIds

(* The read-copy-save updates of a run never overwrite one another: between *)
(* two updates the record holds exactly the progress that was reported.     *)
NoProgressLost ==
  \A r \in RunIds : runs[r] # None => runs[r].progress = reported[r]

(* A run moves PENDING, RUNNING, then SUCCESS or FAILED, one step at a time,*)
(* and a finished record is never touched again, whatever reruns it.        *)
LifecycleForward ==
  [][\A r \in RunIds :
       (runs[r] # None /\ runs'[r] # runs[r]) =>
         /\ runs'[r] # None
         /\ <<runs[r].status, runs'[r].status>> \in
              {<<"pending", "running">>, <<"running", "running">>,
               <<"running", "success">>, <<"running", "failed">>}
         /\ runs'[r].owner = runs[r].owner]_vars

(* When shutdown() has returned no run is queued or executing, and none     *)
(* can start: a submit that passed the flag is stopped by the pool.         *)
JoinedMeansDrained ==
  executor = "joined" => queue = <<>> /\ Executing = {}

(* When wait_all() returns normally, every run whose run() had returned     *)
(* before it was called is over.                                            *)
WaitAllCovers ==
  waiter = "returned" =>
    \A r \in promised : runs[r].status \in Terminal

(* A run comes to its end, also if shutdown comes first, unless its record  *)
(* was saved and its submission then refused: that one stays PENDING.       *)
RunsEndOrAreRefused ==
  \A r \in RunIds :
    []<>(\/ runs[r] = None
         \/ stage[r] \in {"done", "exited"}
         \/ stage[r] = "none" /\ executor # "open")

(* A shutdown that began returns.                                           *)
ShutdownReturns == executor = "flagged" ~> executor = "joined"

(* The service over either executor, as its users may rely on it.  A run is *)
(* taken on from its submission to its end, and the executor is over when   *)
(* shutdown() returns.                                                      *)
Runs == INSTANCE RunLedger WITH
  taken <- {r \in RunIds : stage[r] \notin {"none", "done", "exited"}},
  over  <- executor = "joined"

(* Every run() and rerun() adds one record, which is executed at most once, *)
(* by whoever took it on, however callers, workers and shutdown() meet; and *)
(* nothing moves after shutdown() has returned.                             *)
ImplementsRunLedger == Runs!Spec
===============================================================================
