---------------------------- MODULE WorkflowProofs ----------------------------
(***************************************************************************)
(* Proofs about Workflow, for any callers, runs and workers.                *)
(*                                                                          *)
(* The argument: a run is created by one caller, submitted once, and then   *)
(* executed by one thread, so nobody else writes its record between its     *)
(* Read and its Write, and the stage of the execution tells the status of   *)
(* the record.                                                              *)
(***************************************************************************)
EXTENDS Workflow, TLAPS

(* A caller inside run() has a run of its own, and knows how far it got.    *)
CallerInv ==
  \A c \in Callers : cpc[c] # "idle" =>
    /\ cur[c] \in RunIds /\ runs[cur[c]] # None
    /\ \A d \in Callers : cpc[d] # "idle" /\ cur[d] = cur[c] => d = c
    /\ cpc[c] \in {"submit", "enqueue"} => stage[cur[c]] = "none"
    /\ cpc[c] = "inline" => kind = "inline"
    /\ cpc[c] \in {"enqueue", "track"} => kind = "thread"
    /\ cpc[c] = "reply" /\ kind = "thread" => cur[c] \in futures

(* The stage of a run says what its record is.                              *)
StageInv ==
  \A r \in RunIds :
    /\ runs[r] = None => stage[r] = "none" /\ reported[r] = 0
    /\ runs[r] # None =>
         /\ runs[r].progress = reported[r]
         /\ stage[r] \in {"none", "queued"} => runs[r].status = "pending"
         /\ stage[r] \in {"handler", "exited"} => runs[r].status = "running"
         /\ stage[r] = "done" => runs[r].status \in Terminal
         /\ stage[r] \in {"read", "write"} =>
              /\ todo[r] = "running" => runs[r].status = "pending"
              /\ todo[r] \in Terminal \cup {"progress"} => runs[r].status = "running"
              /\ todo[r] \in Updates
         /\ stage[r] = "write" => snap[r] = runs[r]

(* What is queued is queued once.                                           *)
QueueInv ==
  /\ \A i \in 1 .. Len(queue) : stage[queue[i]] = "queued"
  /\ \A i, j \in 1 .. Len(queue) : queue[i] = queue[j] => i = j

(* No submitted run gets lost before a worker takes it.                     *)
QueuedInv ==
  \A r \in RunIds : stage[r] = "queued" => \E i \in 1 .. Len(queue) : queue[i] = r

(* Only the pool is ever shut down; then nothing is left of its work.       *)
ExecutorInv ==
  /\ executor # "open" => kind = "thread"
  /\ executor = "joined" => queue = <<>> /\ Executing = {}

(* Every answered run has a future, and wait_all waits for those it listed. *)
WaitInv ==
  /\ kind = "thread" => answered \subseteq futures
  /\ waiter # "idle" => promised \subseteq awaited
  /\ \A r \in futures \cup awaited \cup answered : runs[r] # None
  /\ waiter = "returned" => \A r \in awaited : stage[r] = "done"

IInv ==
  TypeOK /\ CallerInv /\ StageInv /\ QueueInv /\ QueuedInv /\ ExecutorInv /\ WaitInv

-------------------------------------------------------------------------------
(* No run, no call, nothing queued.                                         *)
LEMMA InitHolds == Init => IInv
<1> SUFFICES ASSUME Init PROVE IInv
  OBVIOUS
<1>1. TypeOK
  BY DEF Init, TypeOK, Stages
<1>2. CallerInv /\ StageInv /\ QueueInv
  BY DEF Init, CallerInv, StageInv, QueueInv
<1>3. ExecutorInv /\ WaitInv /\ QueuedInv
  BY DEF Init, ExecutorInv, WaitInv, QueuedInv
<1>4. QED BY <1>1, <1>2, <1>3 DEF IInv

(* The copies are records again, of the same run.                           *)
LEMMA UpdatedIsRecord ==
  ASSUME NEW rec \in Records, NEW u \in Updates
  PROVE  /\ Updated(rec, u) \in Records
         /\ Updated(rec, u) # None
         /\ Updated(rec, u).owner = rec.owner
         /\ Updated(rec, u).status = IF u = "progress" THEN rec.status ELSE u
         /\ Updated(rec, u).progress =
              IF u = "progress" THEN rec.progress + 1 ELSE rec.progress
BY RecordAssumption DEF Updated, Records, Updates, Statuses

(* What is written is the copy of what is there.                            *)
LEMMA WriteUpdates ==
  ASSUME IInv, NEW r \in RunIds, Write(r)
  PROVE  /\ runs[r] \in Records /\ todo[r] \in Updates
         /\ runs' = [runs EXCEPT ![r] = Updated(runs[r], todo[r])]
         /\ runs'[r] = Updated(runs[r], todo[r])
         /\ runs'[r] \in Records /\ runs'[r] # None
         /\ runs' \in [RunIds -> Records \cup {None}]
         /\ runs'[r].progress = reported'[r]
         /\ runs'[r].status = IF todo[r] = "progress" THEN "running" ELSE todo[r]
<1>1. runs[r] \in Records /\ snap[r] = runs[r] /\ todo[r] \in Updates
  BY DEF IInv, TypeOK, StageInv, Write
<1>2. runs' = [runs EXCEPT ![r] = Updated(runs[r], todo[r])]
  BY <1>1 DEF Write
<1>3. Updated(runs[r], todo[r]) \in Records /\ Updated(runs[r], todo[r]) # None
  BY <1>1, UpdatedIsRecord
<1>4. runs' \in [RunIds -> Records \cup {None}] /\ runs'[r] = Updated(runs[r], todo[r])
  BY <1>2, <1>3 DEF IInv, TypeOK
<1>5. runs[r].progress = reported[r] /\ (todo[r] = "progress" => runs[r].status = "running")
  BY <1>1, RecordAssumption DEF IInv, StageInv, Write
<1>6. reported'[r] = IF todo[r] = "progress" THEN reported[r] + 1 ELSE reported[r]
  BY DEF Write, IInv, TypeOK
<1>7. QED BY <1>1, <1>2, <1>3, <1>4, <1>5, <1>6, UpdatedIsRecord

(* run() and rerun() save a PENDING record without progress.                *)
LEMMA BothCreate ==
  ASSUME IInv, NEW c \in Callers, Run(c) \/ Rerun(c)
  PROVE  \E rec \in Records :
           rec # None /\ rec.status = "pending" /\ rec.progress = 0 /\ Create(c, rec)
<1>1. CASE Run(c)
  <2>1. PICK n \in Names, o \in Owners :
          Create(c, [name |-> n, owner |-> o, status |-> "pending",
                     progress |-> 0, rerun_of |-> None])
    BY <1>1 DEF Run
  <2>2. [name |-> n, owner |-> o, status |-> "pending", progress |-> 0,
         rerun_of |-> None] \in Records
    BY DEF Records, Statuses
  <2>3. QED BY <2>1, <2>2, RecordAssumption
<1>2. CASE Rerun(c)
  <2>1. PICK old \in RunIds :
          /\ runs[old] # None
          /\ Create(c, [runs[old] EXCEPT !.status = "pending", !.progress = 0,
                                         !.rerun_of = old])
    BY <1>2 DEF Rerun
  <2>2. runs[old] \in Records
    BY <2>1 DEF IInv, TypeOK
  <2>3. DEFINE rec == [runs[old] EXCEPT !.status = "pending", !.progress = 0,
                                        !.rerun_of = old]
  <2>4. rec \in Records /\ rec.status = "pending" /\ rec.progress = 0
    BY <2>2 DEF Records, Statuses
  <2>5. QED BY <2>1, <2>4, RecordAssumption
<1>3. QED BY <1>1, <1>2

(* Types are kept.                                                          *)
LEMMA TypesKept ==
  ASSUME IInv, Next
  PROVE  TypeOK'
<1> USE WorkflowAssumption, RecordAssumption DEF IInv, TypeOK, CallerInv,
        StageInv, Records, Statuses, Terminal, Updates, Stages, CallerGoes,
        CallerLeaves, pool, execution, caller, waiting, past
<1>1. ASSUME NEW c \in Callers, NEW rec \in Records, rec # None,
             rec.status = "pending", rec.progress = 0, Create(c, rec)
      PROVE  TypeOK'
  BY <1>1 DEF Create
<1>2. ASSUME NEW c \in Callers, SubmitRefused(c) PROVE TypeOK'
  BY <1>2 DEF SubmitRefused
<1>3. ASSUME NEW c \in Callers, SubmitAllowed(c) PROVE TypeOK'
  BY <1>3 DEF SubmitAllowed
<1>4. ASSUME NEW c \in Callers, Enqueue(c) PROVE TypeOK'
  BY <1>4 DEF Enqueue
<1>5. ASSUME NEW c \in Callers, Track(c) PROVE TypeOK'
  BY <1>5 DEF Track
<1>6. ASSUME NEW c \in Callers, SubmitInline(c) PROVE TypeOK'
  BY <1>6 DEF SubmitInline
<1>7. ASSUME NEW c \in Callers, InlineReturns(c) PROVE TypeOK'
  <2>1. cpc' \in [Callers -> {"idle", "submit", "enqueue", "track", "inline", "reply"}]
    BY <1>7 DEF InlineReturns
  <2>2. cur' = cur \/ cur' = [cur EXCEPT ![c] = None]
    BY <1>7 DEF InlineReturns
  <2>3. cur' \in [Callers -> RunIds \cup {None}]
    <3>1. CASE cur' = cur
      BY <3>1
    <3>2. CASE cur' = [cur EXCEPT ![c] = None]
      BY <3>2
    <3>3. QED BY <2>2, <3>1, <3>2
  <2>4. QED BY <1>7, <2>1, <2>3 DEF InlineReturns
<1>8. ASSUME NEW c \in Callers, Reply(c) PROVE TypeOK'
  BY <1>8 DEF Reply
<1>9. CASE Take
  BY <1>9 DEF Take
<1>10. ASSUME NEW r \in RunIds, Read(r) PROVE TypeOK'
  BY <1>10 DEF Read
<1>11. ASSUME NEW r \in RunIds, Write(r) PROVE TypeOK'
  <2>1. runs' \in [RunIds -> Records \cup {None}]
    BY <1>11, WriteUpdates
  <2>2. QED BY <1>11, <2>1 DEF Write
<1>12. ASSUME NEW r \in RunIds, Report(r) PROVE TypeOK'
  BY <1>12 DEF Report, Starts
<1>13. ASSUME NEW r \in RunIds, End(r) PROVE TypeOK'
  BY <1>13 DEF End, Starts
<1>14. ASSUME NEW r \in RunIds, Exit(r) PROVE TypeOK'
  BY <1>14 DEF Exit
<1>15. CASE Flag
  BY <1>15 DEF Flag, ExecutorGoes
<1>16. CASE Close
  BY <1>16 DEF Close, ExecutorGoes
<1>17. CASE Join
  BY <1>17 DEF Join, ExecutorGoes
<1>18. CASE WaitAll
  BY <1>18 DEF WaitAll
<1>19. CASE WaitAllEnds
  BY <1>19 DEF WaitAllEnds
<1>20. CASE Rest
  BY <1>20 DEF Rest, vars
<1>21. QED BY <1>1, <1>2, <1>3, <1>4, <1>5, <1>6, <1>7, <1>8, <1>9, <1>10,
        <1>11, <1>12, <1>13, <1>14, <1>15, <1>16, <1>17, <1>18, <1>19, <1>20, BothCreate
        DEF Next, CallerStep, Execute

(* Callers keep their runs to themselves.                                   *)
LEMMA CallerKept ==
  ASSUME IInv, Next
  PROVE  CallerInv'
<1> USE WorkflowAssumption, RecordAssumption DEF IInv, TypeOK, CallerInv,
        StageInv, QueueInv, CallerGoes, CallerLeaves, pool, execution, caller, waiting,
        past
<1>1. ASSUME NEW c \in Callers, NEW rec \in Records, rec # None,
             rec.status = "pending", rec.progress = 0, Create(c, rec)
      PROVE  CallerInv'
  BY <1>1 DEF Create
<1>2. ASSUME NEW c \in Callers, SubmitRefused(c) PROVE CallerInv'
  BY <1>2 DEF SubmitRefused
<1>3. ASSUME NEW c \in Callers, SubmitAllowed(c) PROVE CallerInv'
  BY <1>3 DEF SubmitAllowed
<1>4. ASSUME NEW c \in Callers, Enqueue(c) PROVE CallerInv'
  BY <1>4 DEF Enqueue
<1>5. ASSUME NEW c \in Callers, Track(c) PROVE CallerInv'
  BY <1>5 DEF Track
<1>6. ASSUME NEW c \in Callers, SubmitInline(c) PROVE CallerInv'
  BY <1>6 DEF SubmitInline
<1>7. ASSUME NEW c \in Callers, InlineReturns(c) PROVE CallerInv'
  BY <1>7 DEF InlineReturns
<1>8. ASSUME NEW c \in Callers, Reply(c) PROVE CallerInv'
  BY <1>8 DEF Reply
<1>9. CASE Take
  <2>1. Head(queue) = queue[1] /\ stage[queue[1]] = "queued"
    BY <1>9 DEF Take
  <2>2. queue[1] \in RunIds
    BY <1>9 DEF Take
  <2>3. QED BY <1>9, <2>1, <2>2 DEF Take
<1>10. ASSUME NEW r \in RunIds, Read(r) PROVE CallerInv'
  BY <1>10 DEF Read
<1>11. ASSUME NEW r \in RunIds, Write(r) PROVE CallerInv'
  <2>1. runs' = [runs EXCEPT ![r] = Updated(runs[r], todo[r])] /\ runs'[r] # None
    BY <1>11, WriteUpdates
  <2>2. QED BY <1>11, <2>1 DEF Write
<1>12. ASSUME NEW r \in RunIds, Report(r) PROVE CallerInv'
  BY <1>12 DEF Report, Starts
<1>13. ASSUME NEW r \in RunIds, End(r) PROVE CallerInv'
  BY <1>13 DEF End, Starts
<1>14. ASSUME NEW r \in RunIds, Exit(r) PROVE CallerInv'
  BY <1>14 DEF Exit
<1>15. CASE Flag
  BY <1>15 DEF Flag, ExecutorGoes
<1>16. CASE Close
  BY <1>16 DEF Close, ExecutorGoes
<1>17. CASE Join
  BY <1>17 DEF Join, ExecutorGoes
<1>18. CASE WaitAll
  BY <1>18 DEF WaitAll
<1>19. CASE WaitAllEnds
  BY <1>19 DEF WaitAllEnds
<1>20. CASE Rest
  BY <1>20 DEF Rest, vars
<1>21. QED BY <1>1, <1>2, <1>3, <1>4, <1>5, <1>6, <1>7, <1>8, <1>9, <1>10,
        <1>11, <1>12, <1>13, <1>14, <1>15, <1>16, <1>17, <1>18, <1>19, <1>20, BothCreate
        DEF Next, CallerStep, Execute

(* The record follows the execution.                                        *)
LEMMA StageKept ==
  ASSUME IInv, Next
  PROVE  StageInv'
<1> USE WorkflowAssumption, RecordAssumption DEF IInv, TypeOK, CallerInv,
        StageInv, QueueInv, Records, Terminal, Updates, Stages, CallerGoes,
        CallerLeaves, pool, execution, caller, waiting, past
<1>1. ASSUME NEW c \in Callers, NEW rec \in Records, rec # None,
             rec.status = "pending", rec.progress = 0, Create(c, rec)
      PROVE  StageInv'
  BY <1>1 DEF Create
<1>2. ASSUME NEW c \in Callers, SubmitRefused(c) PROVE StageInv'
  BY <1>2 DEF SubmitRefused
<1>3. ASSUME NEW c \in Callers, SubmitAllowed(c) PROVE StageInv'
  BY <1>3 DEF SubmitAllowed
<1>4. ASSUME NEW c \in Callers, Enqueue(c) PROVE StageInv'
  BY <1>4 DEF Enqueue
<1>5. ASSUME NEW c \in Callers, Track(c) PROVE StageInv'
  BY <1>5 DEF Track
<1>6. ASSUME NEW c \in Callers, SubmitInline(c) PROVE StageInv'
  BY <1>6 DEF SubmitInline
<1>7. ASSUME NEW c \in Callers, InlineReturns(c) PROVE StageInv'
  BY <1>7 DEF InlineReturns
<1>8. ASSUME NEW c \in Callers, Reply(c) PROVE StageInv'
  BY <1>8 DEF Reply
<1>9. CASE Take
  BY <1>9 DEF Take
<1>10. ASSUME NEW r \in RunIds, Read(r) PROVE StageInv'
  BY <1>10 DEF Read
<1>11. ASSUME NEW r \in RunIds, Write(r) PROVE StageInv'
  <2>1. runs'[r].progress = reported'[r]
    BY <1>11, WriteUpdates
  <2>2. /\ stage'[r] = "done" => runs'[r].status \in Terminal
        /\ stage'[r] = "handler" => runs'[r].status = "running"
        /\ stage'[r] \in {"done", "handler"}
    <3>1. runs'[r].status = IF todo[r] = "progress" THEN "running" ELSE todo[r]
      BY <1>11, WriteUpdates
    <3>2. stage'[r] = IF todo[r] \in Terminal THEN "done" ELSE "handler"
      BY <1>11 DEF Write
    <3>3. todo[r] \in Updates
      BY <1>11, WriteUpdates
    <3>4. QED BY <3>1, <3>2, <3>3
  <2>3. ASSUME NEW x \in RunIds, x # r
        PROVE  /\ runs'[x] = runs[x] /\ stage'[x] = stage[x] /\ todo'[x] = todo[x]
               /\ snap'[x] = snap[x] /\ reported'[x] = reported[x]
    BY <1>11, <2>3 DEF Write
  <2>4. runs'[r] # None
    BY <1>11, WriteUpdates
  <2>5. QED BY <2>1, <2>2, <2>3, <2>4
<1>12. ASSUME NEW r \in RunIds, Report(r) PROVE StageInv'
  BY <1>12 DEF Report, Starts
<1>13. ASSUME NEW r \in RunIds, End(r) PROVE StageInv'
  BY <1>13 DEF End, Starts
<1>14. ASSUME NEW r \in RunIds, Exit(r) PROVE StageInv'
  BY <1>14 DEF Exit
<1>15. CASE Flag
  BY <1>15 DEF Flag, ExecutorGoes
<1>16. CASE Close
  BY <1>16 DEF Close, ExecutorGoes
<1>17. CASE Join
  BY <1>17 DEF Join, ExecutorGoes
<1>18. CASE WaitAll
  BY <1>18 DEF WaitAll
<1>19. CASE WaitAllEnds
  BY <1>19 DEF WaitAllEnds
<1>20. CASE Rest
  BY <1>20 DEF Rest, vars
<1>21. QED BY <1>1, <1>2, <1>3, <1>4, <1>5, <1>6, <1>7, <1>8, <1>9, <1>10,
        <1>11, <1>12, <1>13, <1>14, <1>15, <1>16, <1>17, <1>18, <1>19, <1>20, BothCreate
        DEF Next, CallerStep, Execute

(* A run is submitted once.                                                 *)
LEMMA QueueKept ==
  ASSUME IInv, Next
  PROVE  QueueInv'
<1> USE WorkflowAssumption, RecordAssumption DEF IInv, TypeOK, CallerInv,
        QueueInv, CallerGoes, CallerLeaves, pool, execution, caller, waiting, past
<1>1. ASSUME NEW c \in Callers, NEW rec \in Records, rec # None,
             rec.status = "pending", rec.progress = 0, Create(c, rec)
      PROVE  QueueInv'
  BY <1>1 DEF Create
<1>2. ASSUME NEW c \in Callers, SubmitRefused(c) PROVE QueueInv'
  BY <1>2 DEF SubmitRefused
<1>3. ASSUME NEW c \in Callers, SubmitAllowed(c) PROVE QueueInv'
  BY <1>3 DEF SubmitAllowed
<1>4. ASSUME NEW c \in Callers, Enqueue(c) PROVE QueueInv'
  BY <1>4 DEF Enqueue
<1>5. ASSUME NEW c \in Callers, Track(c) PROVE QueueInv'
  BY <1>5 DEF Track
<1>6. ASSUME NEW c \in Callers, SubmitInline(c) PROVE QueueInv'
  BY <1>6 DEF SubmitInline
<1>7. ASSUME NEW c \in Callers, InlineReturns(c) PROVE QueueInv'
  BY <1>7 DEF InlineReturns
<1>8. ASSUME NEW c \in Callers, Reply(c) PROVE QueueInv'
  BY <1>8 DEF Reply
<1>9. CASE Take
  BY <1>9 DEF Take
<1>10. ASSUME NEW r \in RunIds, Read(r) PROVE QueueInv'
  BY <1>10 DEF Read
<1>11. ASSUME NEW r \in RunIds, Write(r) PROVE QueueInv'
  BY <1>11 DEF Write, Updated
<1>12. ASSUME NEW r \in RunIds, Report(r) PROVE QueueInv'
  BY <1>12 DEF Report, Starts
<1>13. ASSUME NEW r \in RunIds, End(r) PROVE QueueInv'
  BY <1>13 DEF End, Starts
<1>14. ASSUME NEW r \in RunIds, Exit(r) PROVE QueueInv'
  BY <1>14 DEF Exit
<1>15. CASE Flag
  BY <1>15 DEF Flag, ExecutorGoes
<1>16. CASE Close
  BY <1>16 DEF Close, ExecutorGoes
<1>17. CASE Join
  BY <1>17 DEF Join, ExecutorGoes
<1>18. CASE WaitAll
  BY <1>18 DEF WaitAll
<1>19. CASE WaitAllEnds
  BY <1>19 DEF WaitAllEnds
<1>20. CASE Rest
  BY <1>20 DEF Rest, vars
<1>21. QED BY <1>1, <1>2, <1>3, <1>4, <1>5, <1>6, <1>7, <1>8, <1>9, <1>10,
        <1>11, <1>12, <1>13, <1>14, <1>15, <1>16, <1>17, <1>18, <1>19, <1>20, BothCreate
        DEF Next, CallerStep, Execute

(* After the join nothing starts.                                           *)
LEMMA ExecutorKept ==
  ASSUME IInv, Next
  PROVE  ExecutorInv'
<1> USE WorkflowAssumption, RecordAssumption DEF IInv, TypeOK, CallerInv,
        ExecutorInv, Executing, CallerGoes, CallerLeaves, pool, execution, caller,
        waiting, past
<1>1. ASSUME NEW c \in Callers, NEW rec \in Records, rec # None,
             rec.status = "pending", rec.progress = 0, Create(c, rec)
      PROVE  ExecutorInv'
  BY <1>1 DEF Create
<1>2. ASSUME NEW c \in Callers, SubmitRefused(c) PROVE ExecutorInv'
  BY <1>2 DEF SubmitRefused
<1>3. ASSUME NEW c \in Callers, SubmitAllowed(c) PROVE ExecutorInv'
  BY <1>3 DEF SubmitAllowed
<1>4. ASSUME NEW c \in Callers, Enqueue(c) PROVE ExecutorInv'
  BY <1>4 DEF Enqueue
<1>5. ASSUME NEW c \in Callers, Track(c) PROVE ExecutorInv'
  BY <1>5 DEF Track
<1>6. ASSUME NEW c \in Callers, SubmitInline(c) PROVE ExecutorInv'
  BY <1>6 DEF SubmitInline
<1>7. ASSUME NEW c \in Callers, InlineReturns(c) PROVE ExecutorInv'
  BY <1>7 DEF InlineReturns
<1>8. ASSUME NEW c \in Callers, Reply(c) PROVE ExecutorInv'
  BY <1>8 DEF Reply
<1>9. CASE Take
  BY <1>9 DEF Take
<1>10. ASSUME NEW r \in RunIds, Read(r) PROVE ExecutorInv'
  BY <1>10 DEF Read
<1>11. ASSUME NEW r \in RunIds, Write(r) PROVE ExecutorInv'
  BY <1>11 DEF Write, Updated
<1>12. ASSUME NEW r \in RunIds, Report(r) PROVE ExecutorInv'
  BY <1>12 DEF Report, Starts
<1>13. ASSUME NEW r \in RunIds, End(r) PROVE ExecutorInv'
  BY <1>13 DEF End, Starts
<1>14. ASSUME NEW r \in RunIds, Exit(r) PROVE ExecutorInv'
  BY <1>14 DEF Exit
<1>15. CASE Flag
  BY <1>15 DEF Flag, ExecutorGoes
<1>16. CASE Close
  BY <1>16 DEF Close, ExecutorGoes
<1>17. CASE Join
  BY <1>17 DEF Join, ExecutorGoes
<1>18. CASE WaitAll
  BY <1>18 DEF WaitAll
<1>19. CASE WaitAllEnds
  BY <1>19 DEF WaitAllEnds
<1>20. CASE Rest
  BY <1>20 DEF Rest, vars
<1>21. QED BY <1>1, <1>2, <1>3, <1>4, <1>5, <1>6, <1>7, <1>8, <1>9, <1>10,
        <1>11, <1>12, <1>13, <1>14, <1>15, <1>16, <1>17, <1>18, <1>19, <1>20, BothCreate
        DEF Next, CallerStep, Execute

(* Listed futures cover the answered runs.                                  *)
LEMMA WaitKept ==
  ASSUME IInv, Next
  PROVE  WaitInv'
<1> USE WorkflowAssumption, RecordAssumption DEF IInv, TypeOK, CallerInv,
        StageInv, QueueInv, WaitInv, CallerGoes, CallerLeaves, pool, execution, caller,
        waiting, past
<1>1. ASSUME NEW c \in Callers, NEW rec \in Records, rec # None,
             rec.status = "pending", rec.progress = 0, Create(c, rec)
      PROVE  WaitInv'
  BY <1>1 DEF Create
<1>2. ASSUME NEW c \in Callers, SubmitRefused(c) PROVE WaitInv'
  BY <1>2 DEF SubmitRefused
<1>3. ASSUME NEW c \in Callers, SubmitAllowed(c) PROVE WaitInv'
  BY <1>3 DEF SubmitAllowed
<1>4. ASSUME NEW c \in Callers, Enqueue(c) PROVE WaitInv'
  BY <1>4 DEF Enqueue
<1>5. ASSUME NEW c \in Callers, Track(c) PROVE WaitInv'
  BY <1>5 DEF Track
<1>6. ASSUME NEW c \in Callers, SubmitInline(c) PROVE WaitInv'
  BY <1>6 DEF SubmitInline
<1>7. ASSUME NEW c \in Callers, InlineReturns(c) PROVE WaitInv'
  BY <1>7 DEF InlineReturns
<1>8. ASSUME NEW c \in Callers, Reply(c) PROVE WaitInv'
  BY <1>8 DEF Reply
<1>9. CASE Take
  BY <1>9 DEF Take
<1>10. ASSUME NEW r \in RunIds, Read(r) PROVE WaitInv'
  BY <1>10 DEF Read
<1>11. ASSUME NEW r \in RunIds, Write(r) PROVE WaitInv'
  <2>1. runs' = [runs EXCEPT ![r] = Updated(runs[r], todo[r])] /\ runs'[r] # None
    BY <1>11, WriteUpdates
  <2>2. QED BY <1>11, <2>1 DEF Write
<1>12. ASSUME NEW r \in RunIds, Report(r) PROVE WaitInv'
  BY <1>12 DEF Report, Starts
<1>13. ASSUME NEW r \in RunIds, End(r) PROVE WaitInv'
  BY <1>13 DEF End, Starts
<1>14. ASSUME NEW r \in RunIds, Exit(r) PROVE WaitInv'
  BY <1>14 DEF Exit
<1>15. CASE Flag
  BY <1>15 DEF Flag, ExecutorGoes
<1>16. CASE Close
  BY <1>16 DEF Close, ExecutorGoes
<1>17. CASE Join
  BY <1>17 DEF Join, ExecutorGoes
<1>18. CASE WaitAll
  BY <1>18 DEF WaitAll
<1>19. CASE WaitAllEnds
  BY <1>19 DEF WaitAllEnds
<1>20. CASE Rest
  BY <1>20 DEF Rest, vars
<1>21. QED BY <1>1, <1>2, <1>3, <1>4, <1>5, <1>6, <1>7, <1>8, <1>9, <1>10,
        <1>11, <1>12, <1>13, <1>14, <1>15, <1>16, <1>17, <1>18, <1>19, <1>20, BothCreate
        DEF Next, CallerStep, Execute

(* Taking the head of the queue leaves every other queued run in it.        *)
LEMMA QueuedKept ==
  ASSUME IInv, Next
  PROVE  QueuedInv'
<1> USE DEF IInv, TypeOK, QueuedInv
<1>1. ASSUME NEW c \in Callers, Enqueue(c) PROVE QueuedInv'
  <2>1. /\ cur[c] \in RunIds /\ queue \in Seq(RunIds)
        /\ queue' = Append(queue, cur[c])
        /\ stage' = [stage EXCEPT ![cur[c]] = "queued"]
    BY <1>1 DEF Enqueue, CallerInv
  <2>2. /\ Len(queue') = Len(queue) + 1 /\ queue'[Len(queue')] = cur[c]
        /\ \A i \in 1 .. Len(queue) : queue'[i] = queue[i]
    BY <2>1
  <2>3. TAKE r \in RunIds
  <2>4. CASE r = cur[c]
    BY <2>1, <2>2, <2>4
  <2>5. CASE r # cur[c]
    BY <2>1, <2>2, <2>5
  <2>6. QED BY <2>4, <2>5
<1>2. CASE Take
  <2>1. /\ queue \in Seq(RunIds) /\ queue # <<>> /\ queue' = Tail(queue)
        /\ stage' = [stage EXCEPT ![Head(queue)] = "read"]
    BY <1>2 DEF Take
  <2>2. /\ Len(queue') = Len(queue) - 1 /\ Head(queue) = queue[1]
        /\ \A i \in 2 .. Len(queue) : i - 1 \in 1 .. Len(queue') /\ queue'[i - 1] = queue[i]
    BY <2>1
  <2>3. SUFFICES ASSUME NEW r \in RunIds, stage'[r] = "queued"
                 PROVE  \E i \in 1 .. Len(queue') : queue'[i] = r
    OBVIOUS
  <2>4. stage[r] = "queued" /\ r # Head(queue)
    BY <2>1, <2>3
  <2>5. PICK i \in 1 .. Len(queue) : queue[i] = r
    BY <2>4
  <2>6. i \in 2 .. Len(queue)
    BY <2>2, <2>4, <2>5, <2>1
  <2>7. QED BY <2>2, <2>5, <2>6
<1>3. ASSUME queue' = queue, \A r \in RunIds : stage'[r] = "queued" => stage[r] = "queued"
      PROVE  QueuedInv'
  BY <1>3
<1>4. CASE \E c \in Callers : Run(c) \/ Rerun(c) \/ SubmitRefused(c) \/ SubmitAllowed(c)
             \/ Track(c) \/ SubmitInline(c) \/ InlineReturns(c) \/ Reply(c)
  BY <1>3, <1>4 DEF Run, Rerun, Create, SubmitRefused, SubmitAllowed, Track,
     SubmitInline, InlineReturns, Reply, pool
<1>5. CASE \E r \in RunIds : Execute(r)
  BY <1>3, <1>5 DEF Execute, Read, Write, Report, End, Starts, Exit, pool
<1>6. CASE Flag \/ Close \/ Join \/ WaitAll \/ WaitAllEnds \/ Rest
  BY <1>3, <1>6 DEF Flag, Close, Join, ExecutorGoes, WaitAll, WaitAllEnds, Rest, vars, pool
<1>7. QED BY <1>1, <1>2, <1>4, <1>5, <1>6 DEF Next, CallerStep

(* The invariant and all its parts hold for ever.                           *)
LEMMA Inductive == Spec => []IInv
<1>1. IInv /\ [Next]_vars => IInv'
  <2>1. ASSUME IInv, Next PROVE IInv'
    BY <2>1, TypesKept, CallerKept, StageKept, QueueKept, QueuedKept,
             ExecutorKept, WaitKept
       DEF IInv
  <2>2. ASSUME IInv, UNCHANGED vars PROVE IInv'
    BY <2>2 DEF vars, IInv, TypeOK, CallerInv, StageInv, QueueInv, QueuedInv,
                ExecutorInv, WaitInv, Executing
  <2>3. QED BY <2>1, <2>2
<1>2. QED BY InitHolds, <1>1, PTL DEF Spec

-------------------------------------------------------------------------------
(* Theorems.                                                                *)

(* The store, the executor and the threads around it keep their types.      *)
THEOREM WorkflowTyped == Spec => []TypeOK
<1>1. IInv => TypeOK
  BY DEF IInv
<1>2. QED BY <1>1, Inductive, PTL

(* report_progress and _execute replace whole records, and lose nothing.    *)
THEOREM NoProgressEverLost == Spec => []NoProgressLost
<1>1. IInv => NoProgressLost
  BY DEF IInv, StageInv, NoProgressLost
<1>2. QED BY <1>1, Inductive, PTL

(* shutdown() drains the pool, whatever is submitted meanwhile.             *)
THEOREM JoinedAlwaysDrained == Spec => []JoinedMeansDrained
<1>1. IInv => JoinedMeansDrained
  BY DEF IInv, ExecutorInv, JoinedMeansDrained
<1>2. QED BY <1>1, Inductive, PTL

(* wait_all() covers every run answered before it, though it waits for a    *)
(* copy of the list of futures.                                             *)
THEOREM WaitAllAlwaysCovers == Spec => []WaitAllCovers
<1>1. IInv => WaitAllCovers
  BY DEF IInv, TypeOK, StageInv, WaitInv, WaitAllCovers
<1>2. QED BY <1>1, Inductive, PTL

(* A record goes PENDING, RUNNING, then to its end, and stays its owner's,  *)
(* whatever callers, executor and handler do.                               *)
THEOREM LifecycleAlwaysForward == Spec => LifecycleForward
<1> DEFINE Moves(r) ==
      (runs[r] # None /\ runs'[r] # runs[r]) =>
        /\ runs'[r] # None
        /\ <<runs[r].status, runs'[r].status>> \in
             {<<"pending", "running">>, <<"running", "running">>,
              <<"running", "success">>, <<"running", "failed">>}
        /\ runs'[r].owner = runs[r].owner
<1>1. ASSUME IInv, [Next]_vars, NEW r \in RunIds PROVE Moves(r)
  <2>1. CASE \E c \in Callers : Run(c) \/ Rerun(c)
    BY <1>1, <2>1 DEF Run, Rerun, Create, IInv, TypeOK
  <2>2. ASSUME NEW x \in RunIds, Write(x) PROVE Moves(r)
    <3>1. CASE x = r
      <4>1. /\ runs[r] \in Records /\ todo[r] \in Updates
            /\ runs'[r] = Updated(runs[r], todo[r]) /\ runs'[r] # None
        BY <2>2, <3>1, <1>1, WriteUpdates
      <4>2. /\ todo[r] = "running" => runs[r].status = "pending"
            /\ todo[r] # "running" => runs[r].status = "running"
        BY <2>2, <3>1, <4>1, <1>1, RecordAssumption
           DEF Write, IInv, StageInv, Updates, Terminal
      <4>3. QED BY <4>1, <4>2, UpdatedIsRecord DEF Updates
    <3>2. CASE x # r
      BY <2>2, <3>2, <1>1 DEF Write, IInv, TypeOK
    <3>3. QED BY <3>1, <3>2
  <2>3. CASE runs' = runs
    BY <2>3
  <2>4. QED BY <1>1, <2>1, <2>2, <2>3
            DEF Next, CallerStep, Execute, SubmitRefused, SubmitAllowed, Enqueue,
                Track, SubmitInline, InlineReturns, Reply, Take, Read, Report, End,
                Starts, Exit, Flag, Close, Join, ExecutorGoes, WaitAll, WaitAllEnds,
                Rest, vars
<1>2. IInv /\ [Next]_vars => \A r \in RunIds : Moves(r)
  BY <1>1
<1>3. QED BY <1>2, Inductive, PTL DEF Spec, LifecycleForward

-------------------------------------------------------------------------------
(* Implementation of RunLedger.                                             *)

Taken == {r \in RunIds : stage[r] \notin {"none", "done", "exited"}}

(* A step that leaves the records, what is taken on, and the executor's end *)
(* alone is a stutter of the ledger.                                        *)
LEMMA LedgerStutters ==
  ASSUME runs' = runs, Taken' = Taken, (executor = "joined")' = (executor = "joined")
  PROVE  UNCHANGED Runs!vars
BY DEF Runs!vars, Taken

(* A record is its fields.                                                  *)
LEMMA SameFields ==
  ASSUME NEW a \in Records, NEW b \in Records,
         a.name = b.name, a.owner = b.owner, a.status = b.status,
         a.progress = b.progress, a.rerun_of = b.rerun_of
  PROVE  a = b
<1>1. a = [name |-> a.name, owner |-> a.owner, status |-> a.status,
           progress |-> a.progress, rerun_of |-> a.rerun_of]
  BY DEF Records
<1>2. b = [name |-> b.name, owner |-> b.owner, status |-> b.status,
           progress |-> b.progress, rerun_of |-> b.rerun_of]
  BY DEF Records
<1>3. QED BY <1>1, <1>2

(* run() and rerun() create.                                                *)
LEMMA LedgerCreates ==
  ASSUME IInv, NEW c \in Callers, Run(c) \/ Rerun(c)
  PROVE  \E r \in RunIds : Runs!Create(r)
<1> USE DEF IInv, TypeOK
<1>1. CASE Run(c)
  <2>1. PICK n \in Names, o \in Owners :
          Create(c, [name |-> n, owner |-> o, status |-> "pending",
                     progress |-> 0, rerun_of |-> None])
    BY <1>1 DEF Run
  <2>2. PICK r \in RunIds :
          /\ runs[r] = None
          /\ runs' = [runs EXCEPT ![r] = [name |-> n, owner |-> o, status |-> "pending",
                                          progress |-> 0, rerun_of |-> None]]
    BY <2>1 DEF Create
  <2>3. stage' = stage /\ executor' = executor
    BY <2>1 DEF Create, pool
  <2>4. Runs!Create(r)
    BY <2>2, <2>3 DEF Runs!Create, Runs!Fresh
  <2>5. QED BY <2>4
<1>2. CASE Rerun(c)
  <2> DEFINE copy(old) == [runs[old] EXCEPT !.status = "pending", !.progress = 0,
                                            !.rerun_of = old]
  <2>1. PICK old \in RunIds :
          runs[old] # None /\ runs[old].status \in Terminal /\ Create(c, copy(old))
    BY <1>2 DEF Rerun
  <2>2. PICK r \in RunIds :
          runs[r] = None /\ runs' = [runs EXCEPT ![r] = copy(old)]
    BY <2>1 DEF Create
  <2>3. stage' = stage /\ executor' = executor
    BY <2>1 DEF Create, pool
  <2>4. copy(old) = Runs!Fresh(runs[old].name, runs[old].owner, old)
    <3> DEFINE new == Runs!Fresh(runs[old].name, runs[old].owner, old)
    <3>1. runs[old] \in Records
      BY <2>1
    <3>2. copy(old) \in Records /\ new \in Records
      BY <3>1 DEF Records, Statuses, Runs!Fresh
    <3>3. /\ copy(old).name = new.name /\ copy(old).owner = new.owner
          /\ copy(old).status = new.status /\ copy(old).progress = new.progress
          /\ copy(old).rerun_of = new.rerun_of
      BY <3>1 DEF Records, Runs!Fresh
    <3> HIDE DEF copy, new
    <3>4. copy(old) = new
      BY <3>2, <3>3, SameFields
    <3>5. QED BY <3>4 DEF new
  <2>5. Runs!Create(r)
    BY <2>1, <2>2, <2>3, <2>4 DEF Runs!Create, Terminal
  <2>6. QED BY <2>5
<1>3. QED BY <1>1, <1>2

(* A submission that succeeds takes the run on.                             *)
LEMMA LedgerTakes ==
  ASSUME IInv, NEW c \in Callers, Enqueue(c) \/ SubmitInline(c)
  PROVE  \E r \in RunIds : Runs!Take(r)
<1> PICK r : r = cur[c]
  OBVIOUS
<1>1. /\ r \in RunIds /\ runs[r] # None /\ stage[r] = "none"
      /\ runs[r].status = "pending" /\ executor # "joined"
  BY DEF IInv, CallerInv, StageInv, ExecutorInv, Enqueue, SubmitInline
<1>2. /\ runs' = runs /\ executor' = executor
      /\ stage' \in {[stage EXCEPT ![r] = "queued"], [stage EXCEPT ![r] = "read"]}
  BY DEF Enqueue, SubmitInline, pool
<1>3. r \notin Taken /\ Taken' = Taken \cup {r}
  BY <1>1, <1>2 DEF Taken, IInv, TypeOK
<1>4. Runs!Take(r)
  BY <1>1, <1>2, <1>3 DEF Runs!Take, Taken
<1>5. QED BY <1>1, <1>4

(* Each save of the executing thread is one of the three changes.           *)
LEMMA LedgerMoves ==
  ASSUME IInv, NEW r \in RunIds, Write(r)
  PROVE  Runs!Begin(r) \/ Runs!Report(r) \/ Runs!Finish(r)
<1> USE DEF IInv, TypeOK
<1>1. /\ runs[r] \in Records /\ todo[r] \in Updates /\ runs[r] # None
      /\ runs' = [runs EXCEPT ![r] = Updated(runs[r], todo[r])]
  BY WriteUpdates, RecordAssumption
<1>2. /\ todo[r] = "running" => runs[r].status = "pending"
      /\ todo[r] \in Terminal \cup {"progress"} => runs[r].status = "running"
  BY <1>1 DEF StageInv, Write
<1>3. /\ stage[r] = "write" /\ executor' = executor
      /\ stage' = [stage EXCEPT ![r] = IF todo[r] \in Terminal THEN "done" ELSE "handler"]
  BY DEF Write, pool
<1>4. r \in Taken /\ Taken' = IF todo[r] \in Terminal THEN Taken \ {r} ELSE Taken
  BY <1>3 DEF Taken
<1>5. CASE todo[r] = "running"
  BY <1>1, <1>2, <1>3, <1>4, <1>5 DEF Runs!Begin, Updated, Taken, Terminal
<1>6. CASE todo[r] = "progress"
  BY <1>1, <1>2, <1>3, <1>4, <1>6 DEF Runs!Report, Updated, Taken, Terminal
<1>7. CASE todo[r] \in Terminal
  BY <1>1, <1>2, <1>3, <1>4, <1>7 DEF Runs!Finish, Updated, Taken, Terminal
<1>8. QED BY <1>1, <1>5, <1>6, <1>7 DEF Updates, Terminal

LEMMA LedgerAbandons ==
  ASSUME IInv, NEW r \in RunIds, Exit(r)
  PROVE  Runs!Abandon(r)
<1>1. /\ stage[r] = "handler" /\ stage' = [stage EXCEPT ![r] = "exited"]
      /\ runs' = runs /\ executor' = executor
  BY DEF Exit, pool
<1>2. r \in Taken /\ Taken' = Taken \ {r} /\ runs[r].status = "running"
  BY <1>1 DEF Taken, IInv, TypeOK, StageInv
<1>3. QED BY <1>1, <1>2 DEF Runs!Abandon, Taken

(* shutdown() returns when nothing is queued and nothing executing: what is *)
(* taken on is one or the other.                                            *)
LEMMA LedgerEnds ==
  ASSUME IInv, Join
  PROVE  Runs!ShutDown
<1>1. /\ queue = <<>> /\ Executing = {} /\ executor' = "joined"
      /\ runs' = runs /\ stage' = stage
  BY DEF Join, ExecutorGoes
<1>2. Taken = {}
  BY <1>1 DEF Taken, QueuedInv, Executing, IInv, TypeOK, Stages
<1>3. QED BY <1>1, <1>2 DEF Runs!ShutDown, Taken

LEMMA LedgerInit == Init => Runs!Init
BY DEF Init, Runs!Init

LEMMA LedgerSteps ==
  ASSUME IInv, [Next]_vars
  PROVE  [Runs!Next]_Runs!vars
<1>1. ASSUME NEW c \in Callers, Run(c) \/ Rerun(c) PROVE Runs!Next
  BY <1>1, LedgerCreates DEF Runs!Next
<1>2. ASSUME NEW c \in Callers, Enqueue(c) \/ SubmitInline(c) PROVE Runs!Next
  BY <1>2, LedgerTakes DEF Runs!Next
<1>3. ASSUME NEW r \in RunIds, Write(r) PROVE Runs!Next
  BY <1>3, LedgerMoves DEF Runs!Next
<1>4. ASSUME NEW r \in RunIds, Exit(r) PROVE Runs!Next
  BY <1>4, LedgerAbandons DEF Runs!Next
<1>5. CASE Join
  BY <1>5, LedgerEnds DEF Runs!Next
<1>6. CASE \/ \E c \in Callers : SubmitRefused(c) \/ SubmitAllowed(c) \/ Track(c)
                                   \/ InlineReturns(c) \/ Reply(c)
           \/ WaitAll \/ WaitAllEnds \/ Rest \/ UNCHANGED vars
  BY <1>6, LedgerStutters DEF SubmitRefused, SubmitAllowed, Track, InlineReturns, Reply,
     WaitAll, WaitAllEnds, Rest, vars, pool, Taken
<1>7. CASE Flag \/ Close
  BY <1>7, LedgerStutters DEF Flag, Close, ExecutorGoes, Taken
<1>8. CASE Take
  <2>1. queue # <<>> /\ queue \in Seq(RunIds) /\ Head(queue) = queue[1]
    BY <1>8 DEF Take, IInv, TypeOK
  <2>2. Head(queue) \in RunIds /\ stage[Head(queue)] = "queued"
    BY <2>1 DEF IInv, QueueInv
  <2>3. Taken' = Taken /\ runs' = runs /\ executor' = executor
    BY <1>8, <2>2 DEF Take, Taken, IInv, TypeOK
  <2>4. QED BY <2>3, LedgerStutters
<1>9. ASSUME NEW r \in RunIds, Read(r) \/ Report(r) \/ End(r) PROVE UNCHANGED Runs!vars
  <2>1. Taken' = Taken /\ runs' = runs /\ executor' = executor
    BY <1>9 DEF Read, Report, End, Starts, Taken, IInv, TypeOK, pool
  <2>2. QED BY <2>1, LedgerStutters
<1>10. QED
  BY <1>1, <1>2, <1>3, <1>4, <1>5, <1>6, <1>7, <1>8, <1>9 DEF Next, CallerStep, Execute

(* Whatever callers, pool threads and shutdown() do to one another, a run is *)
(* created once, executed at most once, changed only by its execution, and   *)
(* nothing moves once shutdown() has returned: RunLedger, for every number   *)
(* of callers, workers and runs.                                             *)
THEOREM RunLedgerImplemented == Spec => ImplementsRunLedger
<1>1. Init => Runs!Init
  BY LedgerInit
<1>2. IInv /\ [Next]_vars => [Runs!Next]_Runs!vars
  BY LedgerSteps
<1>3. QED BY <1>1, <1>2, Inductive, PTL DEF Spec, ImplementsRunLedger, Runs!Spec
===============================================================================
