---------------------------- MODULE AgentProcess ----------------------------
(***************************************************************************)
(* One agent turn: Engine.run_turn consuming a backend's event stream, the  *)
(* backend parsing the lines default_spawn reads from a pipe, the command-  *)
(* line child writing them, and the watchdog.                               *)
(*                                                                          *)
(* Engine, backend and line reader are nested generators in one thread, so  *)
(* a single control point `at' says where that thread is.  Leaving the loop *)
(* over the events closes the inner generators, which runs the reader's     *)
(* finally clause: cancel the watchdog, then wait for the child.  An        *)
(* exception raised inside the backend's generator does not close them: its *)
(* traceback keeps the generator's frame, and with it the reader, until the *)
(* caller of run_turn lets go of the exception.                             *)
(*                                                                          *)
(* run_turn wraps the loop in a trace span, which ends exactly once: by     *)
(* finish() on an ERROR event and after a completed loop, else by __exit__. *)
(*                                                                          *)
(* A line is represented by what the backends tell apart:                   *)
(*   init     system/init, thread.started (with its id)                     *)
(*   message  a text block or an agent message                              *)
(*   tool     a tool call                                                   *)
(*   result   claude's result with the session id of the stream             *)
(*   failure  claude's result with is_error                                 *)
(*   garbage  not JSON, or a known event lacking a field it must have       *)
(*   alien    JSON that is not an object                                    *)
(*   noise    a blank line or an event of an unknown type                   *)
(* A definition named D_Variant is a mistaken D that some property rejects. *)
(***************************************************************************)
EXTENDS Naturals, Sequences, FiniteSets

CONSTANTS
  Backends,  \* subset of {"claude", "codex"}
  Scripts,   \* what the child may be about to write
  PipeCap,   \* lines the pipe holds
  Faults     \* subset of {"spawn", "hang", "die", "callback"}

ASSUME AgentAssumption ==
  /\ Backends \subseteq {"claude", "codex"}
  /\ PipeCap \in Nat \ {0}
  /\ Faults \subseteq {"spawn", "hang", "die", "callback"}

VARIABLES
  backend,  \* the backend of the turn
  script,   \* lines the child has still to write
  child,    \* "none", "running", "hung", "killed", or its exit code: "ok", "bad"
  pipe,     \* lines written and not yet read
  timer,    \* the watchdog: "none", "armed", "fired" (flag set), "cancelled"
  at,       \* where the thread of the turn is
  line,     \* the line being parsed
  events,   \* events the backend has yielded
  eof,      \* has the line reader come to its end
  span,     \* the trace of the turn: how it ended, tool calls it recorded
  outcome   \* run_turn: "none", "completed", "failed" (AgentRunFailed), "raised"

childVars == <<backend, script, child>>
vars == <<backend, script, child, pipe, timer, at, line, events, eof, span, outcome>>

Lines    == {"init", "message", "tool", "result", "failure", "garbage", "alien", "noise"}

ASSUME ScriptAssumption == Scripts \subseteq Seq(Lines)

Errors   == {"PROTOCOL", "BACKEND_CRASH", "TIMEOUT"}
TerminalEvents == Errors \cup {"TURN_COMPLETED"}
Alive    == child \in {"running", "hung"}

-------------------------------------------------------------------------------
Init ==
  /\ backend \in Backends
  /\ script \in Scripts
  /\ child = "none"
  /\ pipe = <<>>
  /\ timer = "none"
  /\ at = "trace"
  /\ line = "noise"
  /\ events = <<>>
  /\ eof = FALSE
  /\ span = [end |-> "none", tools |-> 0]
  /\ outcome = "none"

(* start_trace comes before the backend's generator does anything.          *)
StartTrace ==
  /\ at = "trace"
  /\ span' = [span EXCEPT !.end = "open"]
  /\ at' = "spawn"
  /\ UNCHANGED <<childVars, pipe, timer, line, events, eof, outcome>>

(* finish(): only the first one counts.                                     *)
Finish(how) == span' = IF span.end = "open" THEN [span EXCEPT !.end = how] ELSE span

Ending(how) == IF how = "completed" THEN "ok" ELSE "error"

(* The backend's generator starts: Popen, then the watchdog.  What Popen     *)
(* raises (no such command, no such directory) is raised outside its try.   *)
Spawn ==
  /\ at = "spawn"
  /\ child' = "running"
  /\ timer' = "armed"
  /\ at' = "read"
  /\ UNCHANGED <<backend, script, pipe, line, events, eof, span, outcome>>

SpawnFails ==
  /\ "spawn" \in Faults
  /\ at = "spawn"
  /\ outcome' = "raised"
  /\ Finish("error")
  /\ at' = "done"
  /\ UNCHANGED <<childVars, pipe, timer, line, events, eof>>

(* The child and the watchdog.  Nobody reads the pipe after the reader is   *)
(* closed, but its read end stays open: a full pipe blocks the child.       *)
ChildWrites ==
  /\ child = "running"
  /\ script # <<>> /\ Len(pipe) < PipeCap
  /\ pipe' = Append(pipe, Head(script))
  /\ script' = Tail(script)
  /\ UNCHANGED <<backend, child, timer, at, line, events, eof, span, outcome>>

ChildExits ==
  /\ child = "running"
  /\ \/ script = <<>> /\ child' \in {"ok", "bad"}
     \/ "die" \in Faults /\ child' = "bad"
  /\ UNCHANGED <<backend, script, pipe, timer, at, line, events, eof, span, outcome>>

ChildHangs ==
  /\ "hang" \in Faults
  /\ child = "running"
  /\ child' = "hung"
  /\ UNCHANGED <<backend, script, pipe, timer, at, line, events, eof, span, outcome>>

TimerFires_NoKill ==
  /\ timer = "armed"
  /\ timer' = "fired"
  /\ UNCHANGED <<childVars, pipe, at, line, events, eof, span, outcome>>

TimerFires ==
  /\ timer = "armed"
  /\ timer' = "fired"
  /\ child' = IF Alive THEN "killed" ELSE child
  /\ UNCHANGED <<backend, script, pipe, at, line, events, eof, span, outcome>>

-------------------------------------------------------------------------------
(* lines(): iterate over stdout.                                            *)

Cancel == timer' = IF timer = "armed" THEN "cancelled" ELSE timer

ReadLine ==
  /\ at = "read" /\ pipe # <<>>
  /\ line' = Head(pipe)
  /\ pipe' = Tail(pipe)
  /\ at' = "parse"
  /\ UNCHANGED <<childVars, timer, events, eof, span, outcome>>

(* End of file: the finally clause, here up to proc.wait().                 *)
EndOfFile ==
  /\ at = "read" /\ pipe = <<>> /\ ~Alive
  /\ eof' = TRUE
  /\ Cancel
  /\ at' = "reap"
  /\ UNCHANGED <<childVars, pipe, line, events, span, outcome>>

(* What the backend yields for a line; "none" is a line it passes over.     *)
Yielded_Delta(l) ==
  CASE l = "init" -> "THREAD_STARTED"
    [] l = "message" -> "MESSAGE_DELTA"
    [] l = "tool" -> "TOOL_CALL_COMPLETED"
    [] l = "garbage" -> "PROTOCOL"
    [] l = "result" /\ backend = "claude" -> "TURN_COMPLETED"
    [] l = "failure" /\ backend = "claude" -> "BACKEND_CRASH"
    [] OTHER -> "none"

Yielded(l) ==
  CASE l = "init" -> "THREAD_STARTED"
    [] l = "message" -> "MESSAGE_COMPLETED"
    [] l = "tool" -> "TOOL_CALL_COMPLETED"
    [] l = "garbage" -> "PROTOCOL"
    [] l = "result" /\ backend = "claude" -> "TURN_COMPLETED"
    [] l = "failure" /\ backend = "claude" -> "BACKEND_CRASH"
    [] OTHER -> "none"

(* evt.get on something that is not a dict raises AttributeError, which the *)
(* backend does not catch.  run_turn ends at once, by __exit__, and the     *)
(* reader stays open in the traceback.                                      *)
ParseRaises ==
  /\ at = "parse" /\ line = "alien"
  /\ outcome' = "raised"
  /\ Finish("error")
  /\ at' = "held"
  /\ UNCHANGED <<childVars, pipe, timer, line, events, eof>>

(* The caller is done with the exception; nothing else refers to the reader.*)
Release_Cancelled ==
  /\ at = "held"
  /\ at' = "done"
  /\ Cancel
  /\ UNCHANGED <<childVars, pipe, line, events, eof, span, outcome>>

Release ==
  /\ at = "held"
  /\ at' = "close"
  /\ UNCHANGED <<childVars, pipe, timer, line, events, eof, span, outcome>>

ParsePasses ==
  /\ at = "parse" /\ line # "alien" /\ Yielded(line) = "none"
  /\ at' = "read"
  /\ UNCHANGED <<childVars, pipe, timer, line, events, eof, span, outcome>>

ParseYields ==
  /\ at = "parse" /\ line # "alien" /\ Yielded(line) # "none"
  /\ events' = Append(events, Yielded(line))
  /\ at' = "consume"
  /\ UNCHANGED <<childVars, pipe, timer, line, eof, span, outcome>>

(* After the last line: the watchdog's flag, then the exit code; codex has  *)
(* no result line, so its turn completes here.                              *)
Verdict_IgnoresCode ==
  IF timer = "fired" THEN "TIMEOUT"
  ELSE IF backend = "codex" THEN "TURN_COMPLETED" ELSE "PROTOCOL"

Verdict ==
  IF timer = "fired" THEN "TIMEOUT"
  ELSE IF child # "ok" THEN "BACKEND_CRASH"
  ELSE IF backend = "codex" THEN "TURN_COMPLETED" ELSE "PROTOCOL"

Reap ==
  /\ at = "reap" /\ ~Alive
  /\ events' = Append(events, Verdict)
  /\ at' = "consume"
  /\ UNCHANGED <<childVars, pipe, timer, line, eof, span, outcome>>

-------------------------------------------------------------------------------
(* Engine.run_turn: one event.                                              *)

LastEvent == events[Len(events)]

(* Leaving the loop closes the reader, unless it has ended already; the     *)
(* with statement ends after that.                                          *)
LeaveLoop(how) ==
  /\ outcome' = how
  /\ at' = IF eof THEN "done" ELSE "close"
  /\ IF eof \/ how = "failed" THEN Finish(Ending(how)) ELSE UNCHANGED span

(* on_event, then record_tool, then the next event.                         *)
NextEvent ==
  /\ LastEvent \notin TerminalEvents
  /\ span' = IF LastEvent = "TOOL_CALL_COMPLETED"
             THEN [span EXCEPT !.tools = @ + 1] ELSE span
  /\ at' = "read"
  /\ UNCHANGED outcome

Consume_KeepsReading ==
  /\ at = "consume"
  /\ \/ LastEvent = "TURN_COMPLETED" /\ LeaveLoop("completed")
     \/ LastEvent \in Errors /\ eof /\ LeaveLoop("failed")
     \/ LastEvent \in Errors /\ ~eof /\ at' = "read" /\ UNCHANGED <<span, outcome>>
     \/ NextEvent
  /\ UNCHANGED <<childVars, pipe, timer, line, events, eof>>

Consume ==
  /\ at = "consume"
  /\ \/ LastEvent = "TURN_COMPLETED" /\ LeaveLoop("completed")
     \/ LastEvent \in Errors /\ LeaveLoop("failed")
     \/ NextEvent
     \/ "callback" \in Faults /\ LeaveLoop("raised")
  /\ UNCHANGED <<childVars, pipe, timer, line, events, eof>>

(* The finally clause of a reader closed before the end of the stream.      *)
CloseReader ==
  /\ at = "close"
  /\ Cancel
  /\ at' = "wait"
  /\ UNCHANGED <<childVars, pipe, line, events, eof, span, outcome>>

(* The with statement ends: finish(output) or __exit__ with the exception.  *)
Wait_NoExit ==
  /\ at = "wait" /\ ~Alive
  /\ IF outcome = "completed" THEN Finish("ok") ELSE UNCHANGED span
  /\ at' = "done"
  /\ UNCHANGED <<childVars, pipe, timer, line, events, eof, outcome>>

Wait ==
  /\ at = "wait" /\ ~Alive
  /\ Finish(Ending(outcome))
  /\ at' = "done"
  /\ UNCHANGED <<childVars, pipe, timer, line, events, eof, outcome>>

-------------------------------------------------------------------------------
TurnStep ==
  \/ StartTrace \/ Spawn \/ SpawnFails
  \/ ReadLine \/ EndOfFile
  \/ ParseRaises \/ Release \/ ParsePasses \/ ParseYields
  \/ Reap \/ Consume \/ CloseReader \/ Wait

Over == at = "done" /\ ~Alive /\ UNCHANGED vars

Next ==
  \/ ChildWrites \/ ChildExits \/ ChildHangs
  \/ TimerFires
  \/ TurnStep
  \/ Over

Spec == Init /\ [][Next]_vars

(* The parent's thread and the watchdog's run.  A child that neither hangs  *)
(* nor is blocked writes its lines and exits.  No caller keeps an exception *)
(* for ever.                                                                *)
FairSpec ==
  /\ Spec
  /\ WF_vars(TurnStep) /\ WF_vars(TimerFires)
  /\ WF_vars(ChildWrites) /\ WF_vars(ChildExits)

-------------------------------------------------------------------------------
(* Properties.                                                              *)

(* Types of the child, the pipe, the watchdog and the turn.                 *)
TypeOK ==
  /\ backend \in Backends
  /\ script \in Seq(Lines) /\ pipe \in Seq(Lines) /\ Len(pipe) <= PipeCap
  /\ child \in {"none", "running", "hung", "killed", "ok", "bad"}
  /\ timer \in {"none", "armed", "fired", "cancelled"}
  /\ at \in {"trace", "spawn", "read", "parse", "consume", "reap", "held",
             "close", "wait", "done"}
  /\ line \in Lines
  /\ events \in Seq(TerminalEvents \cup 
                   {"THREAD_STARTED", "MESSAGE_COMPLETED", "TOOL_CALL_COMPLETED"})
  /\ eof \in BOOLEAN
  /\ span \in [end : {"none", "open", "ok", "error"}, tools : Nat]
  /\ outcome \in {"none", "completed", "failed", "raised"}

(* Rule 3 of the backend contract, as the contract suite asserts it: at     *)
(* most one terminal event, nothing after it, and run_turn ends normally or *)
(* with AgentRunFailed exactly as that event says.                          *)
StreamWellFormed ==
  /\ \A i \in 1 .. Len(events) : events[i] \in TerminalEvents => i = Len(events)
  /\ outcome = "completed" => events # <<>> /\ LastEvent = "TURN_COMPLETED"
  /\ outcome = "failed" => events # <<>> /\ LastEvent \in Errors

(* run_turn never comes back while its child still runs and nobody waits    *)
(* for it, but in one case: a line the backend chokes on.  Then whoever     *)
(* holds the exception holds the child, and the watchdog must still be there*)
(* to end it.                                                               *)
ReapedBeforeReturn ==
  /\ at = "done" => ~Alive
  /\ at = "held" /\ Alive => timer = "armed"

(* A turn that is over has left one trace that says how it went: ok for a   *)
(* completed turn and not before its child is reaped, an error otherwise,   *)
(* with every tool call on_event has let pass.                              *)
ToolCalls == Cardinality({i \in 1 .. Len(events) : events[i] = "TOOL_CALL_COMPLETED"})

SpanTellsOutcome ==
  /\ span.end = "ok" => outcome = "completed" /\ ~Alive
  /\ at \in {"held", "done"} =>
       /\ span.end = Ending(outcome)
       /\ \/ span.tools = ToolCalls
          \/ /\ outcome = "raised" /\ LastEvent = "TOOL_CALL_COMPLETED"
             /\ span.tools = ToolCalls - 1

(* A completed codex turn is the agent's own doing: it wrote its last line, *)
(* all of it was read, and it exited with 0 before the watchdog fired.      *)
CompletedIsGenuine ==
  (backend = "codex" /\ outcome = "completed") =>
    child = "ok" /\ script = <<>> /\ pipe = <<>> /\ timer # "fired"

(* A turn ends, by itself or by the watchdog, unless its reader was closed  *)
(* before the end of the output: cancelling the watchdog is then all that   *)
(* is done before waiting for the child, however long it takes.             *)
TurnEndsOrWaits == <>(at = "done" \/ (at = "wait" /\ timer = "cancelled"))

(* "Cancellable": closing the iterator ends the turn.                       *)
TurnEnds == <>(at = "done")
===============================================================================
