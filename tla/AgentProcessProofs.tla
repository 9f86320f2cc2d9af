-------------------------- MODULE AgentProcessProofs --------------------------
(***************************************************************************)
(* Proofs about AgentProcess, for any output of the child and any pipe.     *)
(*                                                                          *)
(* The argument: a terminal event is consumed at once and ends the loop, so *)
(* none is followed by another; the turn ends only past a wait for the      *)
(* child or past the end of its output; and until its reader is closed the  *)
(* watchdog is armed, or has fired and killed the child.                    *)
(***************************************************************************)
EXTENDS AgentProcess, FiniteSetTheorems, TLAPS

Looping == {"trace", "spawn", "read", "parse", "reap"}

Plain == {"THREAD_STARTED", "MESSAGE_COMPLETED", "TOOL_CALL_COMPLETED"}

(* Only the last event may be terminal, and only where it is consumed.      *)
StreamInv ==
  /\ \A i \in 1 .. Len(events) : i # Len(events) => events[i] \in Plain
  /\ at \in Looping => \A i \in 1 .. Len(events) : events[i] \in Plain
  /\ at \in Looping \cup {"consume"} => outcome = "none"
  /\ at = "consume" => events # <<>> /\ (eof => LastEvent \in TerminalEvents)
  /\ at = "held" => outcome = "raised"
  /\ outcome = "completed" => events # <<>> /\ LastEvent = "TURN_COMPLETED"
  /\ outcome = "failed" => events # <<>> /\ LastEvent \in Errors

(* The watchdog is there as long as somebody reads, and kills when it fires.*)
WatchdogInv ==
  /\ at \in {"read", "parse", "held"} => timer \in {"armed", "fired"}
  /\ timer = "fired" => ~Alive
  /\ at \in {"trace", "spawn"} => child = "none" /\ events = <<>> /\ ~eof
  /\ at \in {"read", "parse", "held", "close", "wait"} => ~eof
  /\ at = "consume" /\ ~eof => timer \in {"armed", "fired"}
  /\ at = "reap" => eof
  /\ eof => ~Alive /\ pipe = <<>> /\ timer \in {"fired", "cancelled"}
  /\ at = "done" => ~Alive

(* codex: no line completes the turn, only the verdict after the last does. *)
GenuineInv ==
  /\ child = "ok" => script = <<>>
  /\ backend = "codex" /\ events # <<>> /\ LastEvent = "TURN_COMPLETED" =>
       eof /\ child = "ok" /\ timer # "fired"

IInv == TypeOK /\ StreamInv /\ WatchdogInv /\ GenuineInv

(* The tool call among the events that on_event has not let pass yet.       *)
Pending == IF events # <<>> /\ LastEvent = "TOOL_CALL_COMPLETED" THEN 1 ELSE 0

(* The span is open as long as the loop runs, and at its end every tool call *)
(* is in it but the one on_event raised for.                                 *)
SpanInv ==
  /\ at = "trace" => span.end = "none"
  /\ at \in (Looping \ {"trace"}) \cup {"consume"} => span.end = "open"
  /\ at \in {"close", "wait"} =>
       /\ outcome # "none"
       /\ span.end = "open" \/ (span.end = "error" /\ outcome # "completed")
  /\ at \in {"held", "done"} => outcome # "none" /\ span.end = Ending(outcome)
  /\ span.end = "ok" => outcome = "completed" /\ ~Alive /\ at = "done"
  /\ at \in Looping => span.tools = ToolCalls
  /\ at = "consume" => span.tools + Pending = ToolCalls
  /\ at \in {"held", "close", "wait", "done"} =>
       \/ span.tools = ToolCalls
       \/ outcome = "raised" /\ Pending = 1 /\ span.tools + 1 = ToolCalls

SInv == IInv /\ SpanInv

-------------------------------------------------------------------------------
(* No child, no event.                                                      *)
LEMMA InitHolds == Init => IInv
<1> SUFFICES ASSUME Init PROVE IInv
  OBVIOUS
<1>1. TypeOK
  <2>1. script \in Seq(Lines) /\ backend \in Backends
    BY ScriptAssumption DEF Init
  <2>2. pipe \in Seq(Lines) /\ Len(pipe) <= PipeCap
    BY AgentAssumption DEF Init
  <2>3. events \in Seq(TerminalEvents \cup Plain) /\ line \in Lines
    BY DEF Init, Lines
  <2>4. QED BY <2>1, <2>2, <2>3 DEF Init, TypeOK, Plain
<1>2. StreamInv /\ WatchdogInv /\ GenuineInv
  BY DEF Init, StreamInv, WatchdogInv, GenuineInv, Looping, Alive
<1>3. QED BY <1>1, <1>2 DEF IInv

(* What a line yields is an event, terminal only for some.                  *)
LEMMA YieldedIsEvent ==
  ASSUME NEW l \in Lines
  PROVE  /\ Yielded(l) \in TerminalEvents \cup Plain \cup {"none"}
         /\ backend = "codex" => Yielded(l) # "TURN_COMPLETED"
BY DEF Yielded, Lines, TerminalEvents, Errors, Plain

(* A new last event.                                                        *)
LEMMA Appended ==
  ASSUME TypeOK, NEW e \in TerminalEvents \cup Plain, events' = Append(events, e)
  PROVE  /\ events' \in Seq(TerminalEvents \cup Plain)
         /\ events' # <<>> /\ LastEvent' = e /\ Len(events') = Len(events) + 1
         /\ \A i \in 1 .. Len(events) : events'[i] = events[i]
BY DEF TypeOK, LastEvent, Plain

(* Types are kept.                                                          *)
LEMMA TypesKept ==
  ASSUME IInv, Next
  PROVE  TypeOK'
<1> USE AgentAssumption DEF IInv, TypeOK, childVars, Alive, Errors,
        TerminalEvents, Lines, LastEvent
<1>1. CASE ChildWrites
  BY <1>1 DEF ChildWrites
<1>2. CASE ChildExits
  BY <1>2 DEF ChildExits
<1>3. CASE ChildHangs
  BY <1>3 DEF ChildHangs
<1>4. CASE TimerFires
  BY <1>4 DEF TimerFires
<1>5. CASE StartTrace
  BY <1>5 DEF StartTrace
<1>6. CASE Spawn
  BY <1>6 DEF Spawn
<1>7. CASE SpawnFails
  BY <1>7 DEF SpawnFails, Finish
<1>8. CASE ReadLine
  BY <1>8 DEF ReadLine
<1>9. CASE EndOfFile
  BY <1>9 DEF EndOfFile, Cancel
<1>10. CASE ParseRaises
  BY <1>10 DEF ParseRaises, Finish
<1>11. CASE Release
  BY <1>11 DEF Release
<1>12. CASE ParsePasses
  BY <1>12 DEF ParsePasses
<1>13. CASE ParseYields
  <2>1. line \in Lines /\ Yielded(line) # "none" /\ events' = Append(events, Yielded(line))
    BY <1>13 DEF ParseYields
  <2>2. Yielded(line) \in TerminalEvents \cup Plain
    BY <2>1, YieldedIsEvent
  <2>3. events' \in Seq(TerminalEvents \cup Plain)
    BY <2>1, <2>2, Appended
  <2>4. QED BY <1>13, <2>3 DEF ParseYields, Plain
<1>14. CASE Reap
  BY <1>14 DEF Reap, Verdict
<1>15. CASE Consume
  BY <1>15 DEF Consume, LeaveLoop, NextEvent, Finish, Ending
<1>16. CASE CloseReader
  BY <1>16 DEF CloseReader, Cancel
<1>17. CASE Wait
  BY <1>17 DEF Wait, Finish, Ending
<1>18. CASE Over
  BY <1>18 DEF Over, vars
<1>19. QED BY <1>1, <1>2, <1>3, <1>4, <1>5, <1>6, <1>7, <1>8, <1>9, <1>10,
        <1>11, <1>12, <1>13, <1>14, <1>15, <1>16, <1>17, <1>18 DEF Next, TurnStep

(* A terminal event stays the last.                                         *)
LEMMA StreamKept ==
  ASSUME IInv, Next
  PROVE  StreamInv'
<1> USE AgentAssumption DEF IInv, TypeOK, StreamInv, WatchdogInv, Looping,
        Plain, childVars, Errors, TerminalEvents, LastEvent
<1>1. CASE ChildWrites
  BY <1>1 DEF ChildWrites
<1>2. CASE ChildExits
  BY <1>2 DEF ChildExits
<1>3. CASE ChildHangs
  BY <1>3 DEF ChildHangs
<1>4. CASE TimerFires
  BY <1>4 DEF TimerFires
<1>5. CASE StartTrace
  BY <1>5 DEF StartTrace
<1>6. CASE Spawn
  BY <1>6 DEF Spawn
<1>7. CASE SpawnFails
  BY <1>7 DEF SpawnFails, Finish
<1>8. CASE ReadLine
  BY <1>8 DEF ReadLine
<1>9. CASE EndOfFile
  BY <1>9 DEF EndOfFile, Cancel
<1>10. CASE ParseRaises
  BY <1>10 DEF ParseRaises, Finish
<1>11. CASE Release
  BY <1>11 DEF Release
<1>12. CASE ParsePasses
  BY <1>12 DEF ParsePasses
<1>13. CASE ParseYields
  <2>1. Yielded(line) # "none" /\ events' = Append(events, Yielded(line))
    BY <1>13 DEF ParseYields
  <2>2. Yielded(line) \in TerminalEvents \cup Plain
    BY <2>1, YieldedIsEvent
  <2>3. /\ events' # <<>> /\ Len(events') = Len(events) + 1
        /\ \A i \in 1 .. Len(events) : events'[i] = events[i]
    BY <2>1, <2>2, Appended
  <2>4. at = "parse" /\ at' = "consume" /\ outcome' = "none" /\ ~eof /\ eof' = eof
    BY <1>13 DEF ParseYields
  <2>5. \A i \in 1 .. Len(events') : i # Len(events') => events'[i] \in Plain
    BY <2>3, <2>4
  <2>6. QED BY <2>3, <2>4, <2>5
<1>14. CASE Reap
  BY <1>14 DEF Reap, Verdict
<1>15. CASE Consume
  BY <1>15 DEF Consume, LeaveLoop, NextEvent, Finish, Ending
<1>16. CASE CloseReader
  BY <1>16 DEF CloseReader, Cancel
<1>17. CASE Wait
  BY <1>17 DEF Wait, Finish, Ending
<1>18. CASE Over
  BY <1>18 DEF Over, vars
<1>19. QED BY <1>1, <1>2, <1>3, <1>4, <1>5, <1>6, <1>7, <1>8, <1>9, <1>10,
        <1>11, <1>12, <1>13, <1>14, <1>15, <1>16, <1>17, <1>18 DEF Next, TurnStep

(* The child is watched, waited for, or over.                               *)
LEMMA WatchdogKept ==
  ASSUME IInv, Next
  PROVE  WatchdogInv'
<1> USE AgentAssumption DEF IInv, TypeOK, WatchdogInv, StreamInv, childVars, Alive
<1>1. CASE ChildWrites
  BY <1>1 DEF ChildWrites
<1>2. CASE ChildExits
  BY <1>2 DEF ChildExits
<1>3. CASE ChildHangs
  BY <1>3 DEF ChildHangs
<1>4. CASE TimerFires
  BY <1>4 DEF TimerFires
<1>5. CASE StartTrace
  BY <1>5 DEF StartTrace
<1>6. CASE Spawn
  BY <1>6 DEF Spawn
<1>7. CASE SpawnFails
  BY <1>7 DEF SpawnFails, Finish
<1>8. CASE ReadLine
  BY <1>8 DEF ReadLine
<1>9. CASE EndOfFile
  BY <1>9 DEF EndOfFile, Cancel
<1>10. CASE ParseRaises
  BY <1>10 DEF ParseRaises, Finish
<1>11. CASE Release
  BY <1>11 DEF Release
<1>12. CASE ParsePasses
  BY <1>12 DEF ParsePasses
<1>13. CASE ParseYields
  BY <1>13 DEF ParseYields
<1>14. CASE Reap
  BY <1>14 DEF Reap, Verdict
<1>15. CASE Consume
  BY <1>15 DEF Consume, LeaveLoop, NextEvent, Finish, Ending
<1>16. CASE CloseReader
  BY <1>16 DEF CloseReader, Cancel
<1>17. CASE Wait
  BY <1>17 DEF Wait, Finish, Ending
<1>18. CASE Over
  BY <1>18 DEF Over, vars
<1>19. QED BY <1>1, <1>2, <1>3, <1>4, <1>5, <1>6, <1>7, <1>8, <1>9, <1>10,
        <1>11, <1>12, <1>13, <1>14, <1>15, <1>16, <1>17, <1>18 DEF Next, TurnStep

(* A completed codex turn is genuine.                                       *)
LEMMA GenuineKept ==
  ASSUME IInv, Next
  PROVE  GenuineInv'
<1> USE AgentAssumption DEF IInv, TypeOK, GenuineInv, WatchdogInv, StreamInv,
        childVars, Alive, Looping, Plain, LastEvent
<1>1. CASE ChildWrites
  BY <1>1 DEF ChildWrites
<1>2. CASE ChildExits
  BY <1>2 DEF ChildExits
<1>3. CASE ChildHangs
  BY <1>3 DEF ChildHangs
<1>4. CASE TimerFires
  BY <1>4 DEF TimerFires
<1>5. CASE StartTrace
  BY <1>5 DEF StartTrace
<1>6. CASE Spawn
  BY <1>6 DEF Spawn
<1>7. CASE SpawnFails
  BY <1>7 DEF SpawnFails, Finish
<1>8. CASE ReadLine
  BY <1>8 DEF ReadLine
<1>9. CASE EndOfFile
  BY <1>9 DEF EndOfFile, Cancel
<1>10. CASE ParseRaises
  BY <1>10 DEF ParseRaises, Finish
<1>11. CASE Release
  BY <1>11 DEF Release
<1>12. CASE ParsePasses
  BY <1>12 DEF ParsePasses
<1>13. CASE ParseYields
  <2>1. line \in Lines /\ Yielded(line) # "none" /\ events' = Append(events, Yielded(line))
    BY <1>13 DEF ParseYields
  <2>2. Yielded(line) \in TerminalEvents \cup Plain
    BY <2>1, YieldedIsEvent
  <2>3. backend = "codex" => LastEvent' # "TURN_COMPLETED"
    BY <2>1, <2>2, YieldedIsEvent, Appended
  <2>4. QED BY <1>13, <2>3 DEF ParseYields
<1>14. CASE Reap
  BY <1>14 DEF Reap, Verdict
<1>15. CASE Consume
  BY <1>15 DEF Consume, LeaveLoop, NextEvent, Finish, Ending
<1>16. CASE CloseReader
  BY <1>16 DEF CloseReader, Cancel
<1>17. CASE Wait
  BY <1>17 DEF Wait, Finish, Ending
<1>18. CASE Over
  BY <1>18 DEF Over, vars
<1>19. QED BY <1>1, <1>2, <1>3, <1>4, <1>5, <1>6, <1>7, <1>8, <1>9, <1>10,
        <1>11, <1>12, <1>13, <1>14, <1>15, <1>16, <1>17, <1>18 DEF Next, TurnStep

(* The invariant and all its parts hold for ever.                           *)
LEMMA Inductive == Spec => []IInv
<1>1. IInv /\ [Next]_vars => IInv'
  <2>1. ASSUME IInv, Next PROVE IInv'
    BY <2>1, TypesKept, StreamKept, WatchdogKept, GenuineKept DEF IInv
  <2>2. ASSUME IInv, UNCHANGED vars PROVE IInv'
    BY <2>2 DEF vars, IInv, TypeOK, StreamInv, WatchdogInv, GenuineInv, Alive,
            LastEvent
  <2>3. QED BY <2>1, <2>2
<1>2. QED BY InitHolds, <1>1, PTL DEF Spec

-------------------------------------------------------------------------------
(* Theorems.                                                                *)

(* The child, the pipe, the watchdog and the events keep their types.       *)
THEOREM TurnTyped == Spec => []TypeOK
<1>1. IInv => TypeOK
  BY DEF IInv
<1>2. QED BY <1>1, Inductive, PTL

(* Whatever a backend reads, its stream has one terminal event at most, the *)
(* last, and run_turn ends as that event says.                              *)
THEOREM StreamAlwaysWellFormed == Spec => []StreamWellFormed
<1>1. IInv => StreamWellFormed
  BY DEF IInv, StreamInv, StreamWellFormed, Plain, TerminalEvents, Errors
<1>2. QED BY <1>1, Inductive, PTL

(* run_turn returns with its child reaped, or with an exception that holds  *)
(* the reader of a child whose watchdog is armed.                           *)
THEOREM ReapedAlwaysBeforeReturn == Spec => []ReapedBeforeReturn
<1>1. IInv => ReapedBeforeReturn
  BY DEF IInv, TypeOK, WatchdogInv, ReapedBeforeReturn
<1>2. QED BY <1>1, Inductive, PTL

(* A codex turn that completes has exited with 0, by itself, all its output *)
(* read.                                                                    *)
THEOREM CompletedAlwaysGenuine == Spec => []CompletedIsGenuine
<1>1. IInv => CompletedIsGenuine
  BY DEF IInv, StreamInv, WatchdogInv, GenuineInv, CompletedIsGenuine
<1>2. QED BY <1>1, Inductive, PTL

-------------------------------------------------------------------------------
(* The trace of the turn.                                                   *)

(* One event more is at most one tool call more.                            *)
LEMMA CallsAppended ==
  ASSUME TypeOK, NEW e \in TerminalEvents \cup Plain, events' = Append(events, e)
  PROVE  /\ ToolCalls \in Nat /\ ToolCalls' \in Nat
         /\ ToolCalls' = ToolCalls + Pending'
<1> DEFINE C(s) == {i \in 1 .. Len(s) : s[i] = "TOOL_CALL_COMPLETED"}
<1>1. /\ Len(events) \in Nat /\ Len(events') = Len(events) + 1 /\ events' # <<>>
      /\ LastEvent' = e /\ events'[Len(events')] = e
      /\ \A i \in 1 .. Len(events) : events'[i] = events[i]
  BY Appended DEF TypeOK, LastEvent
<1>2. IsFiniteSet(C(events)) /\ Cardinality(C(events)) \in Nat
  <2>1. IsFiniteSet(1 .. Len(events)) /\ C(events) \subseteq 1 .. Len(events)
    BY <1>1, FS_Interval
  <2>2. QED BY <2>1, FS_Subset, FS_CardinalityType
<1>3. ToolCalls = Cardinality(C(events)) /\ ToolCalls' = Cardinality(C(events'))
  BY DEF ToolCalls
<1>4. Pending' = IF e = "TOOL_CALL_COMPLETED" THEN 1 ELSE 0
  BY <1>1 DEF Pending
<1>5. CASE e = "TOOL_CALL_COMPLETED"
  <2>1. C(events') = C(events) \cup {Len(events')} /\ Len(events') \notin C(events)
    BY <1>1, <1>5
  <2>2. Cardinality(C(events')) = Cardinality(C(events)) + 1
    BY <1>2, <2>1, FS_AddElement
  <2> HIDE DEF C
  <2>3. QED BY <1>2, <1>5, <1>3, <1>4, <2>2
<1>6. CASE e # "TOOL_CALL_COMPLETED"
  <2>1. C(events') = C(events)
    BY <1>1, <1>6
  <2> HIDE DEF C
  <2>2. QED BY <1>2, <1>6, <1>3, <1>4, <2>1
<1>7. QED BY <1>5, <1>6

(* A step that yields no event and does not touch the span.                 *)
LEMMA SameTrace ==
  ASSUME SpanInv, UNCHANGED <<events, span, outcome>>, Alive' => Alive,
         \/ at' = at
         \/ at \in Looping \ {"trace"} /\ at' \in Looping \ {"trace"}
         \/ at \in {"held", "close"} /\ at' \in {"close", "wait"}
  PROVE  SpanInv'
BY DEF SpanInv, ToolCalls, Pending, LastEvent, Looping, Ending

LEMMA SpanKept ==
  ASSUME SInv, Next
  PROVE  SpanInv'
<1> USE DEF SInv, IInv
<1>1. CASE ChildWrites
  BY <1>1, SameTrace DEF ChildWrites, Alive
<1>2. CASE ChildExits
  BY <1>2, SameTrace DEF ChildExits, Alive
<1>3. CASE ChildHangs
  BY <1>3, SameTrace DEF ChildHangs, Alive
<1>4. CASE TimerFires
  BY <1>4, SameTrace DEF TimerFires, Alive
<1>5. CASE StartTrace
  BY <1>5 DEF StartTrace, SpanInv, TypeOK, Looping, ToolCalls, childVars, Alive
<1>6. CASE Spawn
  BY <1>6 DEF Spawn, SpanInv, Looping, ToolCalls
<1>7. CASE SpawnFails
  BY <1>7 DEF SpawnFails, Finish, SpanInv, TypeOK, Looping, ToolCalls, Ending
<1>8. CASE ReadLine
  BY <1>8, SameTrace DEF ReadLine, childVars, Alive, Looping
<1>9. CASE EndOfFile
  BY <1>9, SameTrace DEF EndOfFile, childVars, Alive, Looping
<1>10. CASE ParseRaises
  BY <1>10 DEF ParseRaises, Finish, SpanInv, TypeOK, Looping, ToolCalls, Ending
<1>11. CASE Release
  BY <1>11, SameTrace DEF Release, childVars, Alive
<1>12. CASE ParsePasses
  BY <1>12, SameTrace DEF ParsePasses, childVars, Alive, Looping
<1>13. CASE ParseYields
  <2>1. Yielded(line) \in TerminalEvents \cup Plain /\ events' = Append(events, Yielded(line))
    BY <1>13, YieldedIsEvent DEF ParseYields, TypeOK
  <2>2. QED
    BY <1>13, <2>1, CallsAppended DEF ParseYields, SpanInv, Looping
<1>14. CASE Reap
  <2>1. Verdict \in TerminalEvents \cup Plain /\ events' = Append(events, Verdict)
    BY <1>14 DEF Reap, Verdict, TerminalEvents, Errors
  <2>2. QED BY <1>14, <2>1, CallsAppended DEF Reap, SpanInv, Looping
<1>15. CASE Consume
  <2>1. /\ at = "consume" /\ events # <<>> /\ span.end = "open" /\ outcome = "none"
        /\ span.tools + Pending = ToolCalls /\ (eof => ~Alive)
        /\ span \in [end : {"none", "open", "ok", "error"}, tools : Nat]
    BY <1>15 DEF Consume, SpanInv, StreamInv, WatchdogInv, TypeOK
  <2>2. Alive' = Alive /\ ToolCalls' = ToolCalls /\ Pending' = Pending
    BY <1>15 DEF Consume, childVars, Alive, ToolCalls, Pending, LastEvent
  <2>3. ASSUME NEW how \in {"completed", "failed", "raised"}, LeaveLoop(how),
               how = "raised" \/ Pending = 0
        PROVE  SpanInv'
    <3>1. how = "raised" \/ span.tools = ToolCalls
      BY <2>1, <2>3 DEF Pending
    <3>2. span'.tools = span.tools /\ outcome' = how /\ at' = IF eof THEN "done" ELSE "close"
      BY <2>1, <2>3 DEF LeaveLoop, Finish
    <3>3. span.tools = ToolCalls \/ (Pending = 1 /\ span.tools + 1 = ToolCalls)
      BY <2>1 DEF Pending
    <3>4. span'.end = IF eof \/ how = "failed" THEN Ending(how) ELSE "open"
      BY <2>1, <2>3 DEF LeaveLoop, Finish
    <3>5. QED
      BY <2>1, <2>2, <3>1, <3>2, <3>3, <3>4 DEF SpanInv, Ending, Looping
  <2>4. LastEvent \in TerminalEvents => Pending = 0
    BY DEF Pending, TerminalEvents, Errors
  <2>5. CASE NextEvent
    <3>1. span'.end = "open" /\ span'.tools = span.tools + Pending /\ at' = "read"
      BY <2>1, <2>5 DEF NextEvent, Pending
    <3>2. QED BY <2>1, <2>2, <3>1 DEF SpanInv, Looping
  <2>6. QED BY <1>15, <2>3, <2>4, <2>5 DEF Consume, TerminalEvents
<1>16. CASE CloseReader
  BY <1>16, SameTrace DEF CloseReader, childVars, Alive
<1>17. CASE Wait
  BY <1>17 DEF Wait, Finish, SpanInv, TypeOK, Looping, ToolCalls, Pending, LastEvent,
     Ending, childVars, Alive
<1>18. CASE Over
  BY <1>18, SameTrace DEF Over, vars, Alive
<1>19. QED BY <1>1, <1>2, <1>3, <1>4, <1>5, <1>6, <1>7, <1>8, <1>9, <1>10,
        <1>11, <1>12, <1>13, <1>14, <1>15, <1>16, <1>17, <1>18 DEF Next, TurnStep

(* A turn that is over has left one trace with its outcome and the tool calls *)
(* that on_event let pass, completed or failed, cancelled or raised.          *)
THEOREM SpanAlwaysTells == Spec => []SpanTellsOutcome
<1>1. Init => SpanInv
  <2> SUFFICES ASSUME Init PROVE SpanInv
    OBVIOUS
  <2>1. ToolCalls = 0
    <3>1. 1 .. Len(events) = {}
      BY DEF Init
    <3>2. {i \in 1 .. Len(events) : events[i] = "TOOL_CALL_COMPLETED"} = {}
      BY <3>1
    <3>3. QED BY <3>2, FS_EmptySet DEF ToolCalls
  <2>2. at = "trace" /\ span.end = "none" /\ span.tools = 0
    BY DEF Init
  <2>3. QED BY <2>1, <2>2 DEF SpanInv, Looping
<1>2. SpanInv /\ IInv /\ [Next]_vars => SpanInv'
  <2>1. ASSUME SpanInv, UNCHANGED vars PROVE SpanInv'
    BY <2>1, SameTrace DEF vars, Alive
  <2>2. QED BY <2>1, SpanKept DEF SInv
<1>3. SpanInv /\ IInv => SpanTellsOutcome
  BY DEF SpanInv, SpanTellsOutcome, Pending, IInv, TypeOK
<1>4. QED BY <1>1, <1>2, <1>3, Inductive, PTL DEF Spec
===============================================================================
