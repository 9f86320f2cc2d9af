-------------------------- MODULE ToolBridgeProofs --------------------------
(* Who gets a run, and what a denial is worth, for any users, workspaces,   *)
(* workflows, rules and callers; and the two identity providers compared.   *)
EXTENDS ToolBridge, TLAPS

-------------------------------------------------------------------------------
(* Types.                                                                   *)

LEMMA NoCallApart == NoCall \notin Calls
BY BridgeAssumption DEF NoCall, Calls

LEMMA NoRunApart ==
  ASSUME NEW n \in Names, NEW w \in Workspaces
  PROVE  Run(n, w) # NoRun
BY BridgeAssumption DEF Run, NoRun

LEMMA OpenTyped ==
  ASSUME TypeOK, Witness
  PROVE  open' \in [Callers -> SUBSET Gates]
<1>1. ASSUME NEW c \in Callers
      PROVE  open[c] \cup OpenGates(call'[c], access', allowed', policy') \subseteq Gates
  BY DEF TypeOK, OpenGates
<1>2. QED BY <1>1, Zenon DEF Witness, TypeOK

LEMMA ToggleTyped ==
  ASSUME NEW S, NEW set \in SUBSET S, NEW x \in S
  PROVE  Toggle(set, x) \in SUBSET S
BY DEF Toggle

(* The call of c moves to another stage, or ends.                           *)
LEMMA MovesTyped ==
  ASSUME TypeOK, NEW c \in Callers, NEW k \in Calls \cup {NoCall},
         call' = [call EXCEPT ![c] = k],
         UNCHANGED rights, UNCHANGED runs, Witness
  PROVE  TypeOK'
BY OpenTyped DEF TypeOK, rights

LEMMA StageTyped ==
  ASSUME TypeOK, NEW c \in Callers, call[c] # NoCall, NEW s \in Stages
  PROVE  [call[c] EXCEPT !.at = s] \in Calls
BY DEF TypeOK, Calls

(* The policy, its file, the runs and the calls of the bridge keep their    *)
(* types; every run in the store is of a registered workflow.               *)
THEOREM BridgeTyped == Spec => []TypeOK
<1>1. Init => TypeOK
  BY DEF Init, TypeOK
<1>2. TypeOK /\ [Next]_vars => TypeOK'
  <2> SUFFICES ASSUME TypeOK, [Next]_vars PROVE TypeOK'
    OBVIOUS
  <2>1. ASSUME NEW c \in Callers, Invoke(c) PROVE TypeOK'
    <3>1. PICK u \in Users, w \in Workspaces, n \in Names :
            Begin(c, [op |-> "invoke", user |-> u, ws |-> w, name |-> n,
                      run |-> None, at |-> "access"])
      BY <2>1 DEF Invoke
    <3>2. [op |-> "invoke", user |-> u, ws |-> w, name |-> n,
           run |-> None, at |-> "access"] \in Calls
      BY DEF Calls, Stages, Gates
    <3>3. QED BY <3>1, <3>2, MovesTyped DEF Begin
  <2>2. ASSUME NEW c \in Callers, Get(c) PROVE TypeOK'
    <3>1. PICK u \in Users, w \in Workspaces, r \in RunIds :
            /\ runs[r] # NoRun
            /\ Begin(c, [op |-> "get", user |-> u, ws |-> w, name |-> runs[r].name,
                         run |-> r, at |-> "access"])
      BY <2>2 DEF Get
    <3>2. runs[r].name \in Names
      BY <3>1, BridgeAssumption DEF TypeOK
    <3>3. [op |-> "get", user |-> u, ws |-> w, name |-> runs[r].name,
           run |-> r, at |-> "access"] \in Calls
      BY <3>2 DEF Calls, Stages, Gates
    <3>4. QED BY <3>1, <3>3, MovesTyped DEF Begin
  <2>3. ASSUME NEW c \in Callers, Raise(c) PROVE TypeOK'
    BY <2>3, MovesTyped DEF Raise
  <2>4. ASSUME NEW c \in Callers, NEW s \in Stages, call[c] # NoCall, Goto(c, s),
               UNCHANGED <<runs, rights>>, Witness
        PROVE  TypeOK'
    <3>1. call' = [call EXCEPT ![c] = [call[c] EXCEPT !.at = s]]
      BY <2>4 DEF Goto
    <3>2. QED BY <2>4, <3>1, StageTyped, MovesTyped
  <2>5. ASSUME NEW c \in Callers, Start(c) PROVE TypeOK'
    <3>1. PICK r \in RunIds :
            /\ runs' = [runs EXCEPT ![r] = Run(call[c].name, call[c].ws)]
            /\ call' = [call EXCEPT ![c].at = "done", ![c].run = r]
      BY <2>5 DEF Start
    <3>2. call[c] \in Calls /\ call[c].name \in Registered
      BY <2>5 DEF Start, At, TypeOK
    <3>3. runs' \in [RunIds -> [name : Registered, owner : Workspaces] \cup {NoRun}]
      BY <3>1, <3>2 DEF TypeOK, Run, Calls
    <3>4. call' \in [Callers -> Calls \cup {NoCall}]
      BY <3>1, <3>2 DEF TypeOK, Calls, Stages
    <3>5. QED BY <2>5, <3>3, <3>4, OpenTyped DEF Start, rights, TypeOK
  <2>6. ASSUME NEW c \in Callers, Step(c) PROVE TypeOK'
    <3>1. CASE CheckAccess(c)
      BY <3>1, <2>4 DEF CheckAccess, At, Stages, Gates
    <3>2. CASE CheckAllowed(c)
      BY <3>2, <2>4 DEF CheckAllowed, At, Stages, Gates
    <3>3. CASE CheckPermitted(c)
      BY <3>3, <2>4 DEF CheckPermitted, At, Stages, Gates
    <3>4. CASE Show(c)
      BY <3>4, <2>4 DEF Show, At, Stages, Gates
    <3>5. CASE Start(c)
      BY <3>5, <2>5
    <3>6. CASE Raise(c)
      BY <3>6, <2>3
    <3>7. QED BY <2>6, <3>1, <3>2, <3>3, <3>4, <3>5, <3>6
              DEF Step, DenyAccess, DenyAllowed, DenyPermitted, Unregistered, Return
  <2>7. ASSUME Administrators PROVE TypeOK'
    <3>1. CASE SetAccess
      <4>1. access' \subseteq Users \X Workspaces
        BY <3>1, ToggleTyped DEF SetAccess, TypeOK
      <4>2. QED BY <3>1, <4>1, OpenTyped DEF SetAccess, Change, TypeOK
    <3>2. CASE SetAllowed
      <4>1. allowed' \in [Workspaces -> SUBSET Names]
        BY <3>2, ToggleTyped DEF SetAllowed, TypeOK
      <4>2. QED BY <3>2, <4>1, OpenTyped DEF SetAllowed, Change, TypeOK
    <3>3. CASE AddPolicy
      BY <3>3, OpenTyped DEF AddPolicy, Change, TypeOK
    <3>4. CASE RemovePolicy
      BY <3>4, OpenTyped DEF RemovePolicy, Change, TypeOK
    <3>5. CASE EditFile
      <4>1. file' \in [rules : SUBSET Rules, state : {"good", "broken", "missing"}]
        BY <3>5, ToggleTyped DEF EditFile, TypeOK
      <4>2. QED BY <3>5, <4>1, OpenTyped DEF EditFile, Change, TypeOK
    <3>6. CASE ReloadPolicy
      BY <3>6, OpenTyped DEF ReloadPolicy, Reload, TypeOK
    <3>7. QED BY <2>7, <3>1, <3>2, <3>3, <3>4, <3>5, <3>6 DEF Administrators
  <2>8. CASE UNCHANGED vars
    BY <2>8 DEF vars, TypeOK
  <2>9. QED BY <2>1, <2>2, <2>6, <2>7, <2>8 DEF Next
<1>3. QED BY <1>1, <1>2, PTL DEF Spec

-------------------------------------------------------------------------------
(* Rights.  A call has seen every gate it is past, and the run it is about  *)
(* is there, with the name it asks for and, past the first question, its    *)
(* own workspace as owner.                                                  *)

Past(stage) ==
  {g \in Gates : \/ stage \in {"serve", "done"}
                 \/ g = "access" /\ stage \in {"allowed", "permitted"}
                 \/ g = "allowed" /\ stage = "permitted"}

InOrder(c) ==
  call[c] # NoCall =>
    /\ Past(call[c].at) \subseteq open[c]
    /\ call[c].op = "get" =>
         /\ call[c].run \in RunIds
         /\ runs[call[c].run] # NoRun
         /\ runs[call[c].run].name = call[c].name
         /\ call[c].at # "access" => runs[call[c].run].owner = call[c].ws
    /\ call[c].op = "invoke" /\ call[c].at = "done" =>
         /\ call[c].run \in RunIds
         /\ runs[call[c].run] = Run(call[c].name, call[c].ws)

CallsInOrder == \A c \in Callers : InOrder(c)

RunsStay == \A r \in RunIds : runs[r] # NoRun => runs'[r] = runs[r]

LEMMA RightfulInOrder ==
  ASSUME TypeOK, CallsInOrder
  PROVE  Rightful
<1> SUFFICES ASSUME NEW c \in Callers, At(c, "done")
             PROVE  open[c] = Gates /\ runs[call[c].run] = Run(call[c].name, call[c].ws)
  BY DEF Rightful
<1>1. call[c] # NoCall /\ call[c].at = "done" /\ call[c] \in Calls
  BY DEF At, TypeOK
<1>2. InOrder(c)
  BY DEF CallsInOrder
<1>3. open[c] = Gates
  BY <1>1, <1>2 DEF InOrder, Past, TypeOK
<1>4. CASE call[c].op = "get"
  <2>1. runs[call[c].run] \in [name : Registered, owner : Workspaces]
    BY <1>1, <1>2, <1>4 DEF InOrder, TypeOK
  <2>2. QED BY <1>1, <1>2, <1>3, <1>4, <2>1 DEF InOrder, Run
<1>5. CASE call[c].op = "invoke"
  BY <1>1, <1>2, <1>3, <1>5 DEF InOrder
<1>6. QED BY <1>1, <1>4, <1>5 DEF Calls

(* A caller is not disturbed by what the others do.                         *)
LEMMA BystanderInOrder ==
  ASSUME TypeOK, CallsInOrder, NEW c \in Callers, call'[c] = call[c], RunsStay, Witness
  PROVE  InOrder(c)'
<1> SUFFICES ASSUME call[c] # NoCall PROVE InOrder(c)'
  BY DEF InOrder
<1>1. open[c] \subseteq open'[c]
  BY DEF Witness
<1>2. InOrder(c)
  BY DEF CallsInOrder
<1>3. call[c].op = "get" =>
        /\ call[c].run \in RunIds
        /\ runs'[call[c].run] = runs[call[c].run]
  BY <1>2 DEF InOrder, RunsStay
<1>4. call[c].op = "invoke" /\ call[c].at = "done" =>
        runs'[call[c].run] = runs[call[c].run]
  <2>1. ASSUME call[c].op = "invoke", call[c].at = "done"
        PROVE  runs[call[c].run] # NoRun
    <3>1. call[c].name \in Names /\ call[c].ws \in Workspaces
      BY DEF TypeOK, Calls
    <3>2. QED BY <1>2, <2>1, <3>1, NoRunApart DEF InOrder
  <2>2. QED BY <1>2, <2>1 DEF InOrder, RunsStay
<1>5. QED BY <1>1, <1>2, <1>3, <1>4 DEF InOrder

LEMMA OthersInOrder ==
  ASSUME TypeOK, CallsInOrder, NEW c \in Callers, NEW k,
         call' = [call EXCEPT ![c] = k], RunsStay, Witness, InOrder(c)'
  PROVE  CallsInOrder'
<1> SUFFICES ASSUME NEW d \in Callers, d # c PROVE InOrder(d)'
  BY DEF CallsInOrder
<1>1. call'[d] = call[d]
  BY DEF TypeOK
<1>2. QED BY <1>1, BystanderInOrder

(* A question answered well takes the call on with one more gate seen.      *)
LEMMA AskedInOrder ==
  ASSUME TypeOK, CallsInOrder, NEW c \in Callers, NEW s \in Stages, call[c] # NoCall,
         Goto(c, s), UNCHANGED runs, Witness,
         Past(s) \subseteq open'[c],
         call[c].op = "get" /\ s # "access" => runs[call[c].run].owner = call[c].ws,
         call[c].op = "invoke" => s # "done"
  PROVE  CallsInOrder'
<1>1. call' = [call EXCEPT ![c] = [call[c] EXCEPT !.at = s]]
  BY DEF Goto
<1>2. call'[c] = [call[c] EXCEPT !.at = s] /\ call[c] \in Calls
  BY <1>1 DEF TypeOK
<1>3. InOrder(c)
  BY DEF CallsInOrder
<1>4. InOrder(c)'
  BY <1>2, <1>3 DEF InOrder, Calls
<1>5. QED BY <1>1, <1>4, OthersInOrder DEF RunsStay

(* What the caller sees of a gate that is open as it goes on.               *)
LEMMA SeenAsAsked ==
  ASSUME TypeOK, NEW c \in Callers, NEW s \in Gates \cup {"serve"}, call[c] # NoCall,
         Goto(c, s), UNCHANGED <<access, allowed, policy>>, Witness,
         NEW gate \in Gates, Asks(c, gate)
  PROVE  open[c] \cup {gate} \subseteq open'[c]
<1>1. call'[c] = [call[c] EXCEPT !.at = s] /\ call[c] \in Calls
  BY DEF Goto, TypeOK
<1>2. call'[c] \in Calls
  BY <1>1 DEF Calls, Stages
<1>3. call'[c].user = call[c].user /\ call'[c].ws = call[c].ws
      /\ call'[c].name = call[c].name /\ call'[c].at = s
  BY <1>1 DEF Calls
<1>4. open'[c] = open[c] \cup OpenGates(call'[c], access', allowed', policy')
  BY <1>2, <1>3, NoCallApart DEF Witness, Gates
<1>5. Passes(gate, call'[c], access', allowed', policy')
  BY <1>3 DEF Asks, Passes
<1>6. QED BY <1>4, <1>5 DEF OpenGates

LEMMA RaisedInOrder ==
  ASSUME TypeOK, CallsInOrder, NEW c \in Callers, Raise(c)
  PROVE  CallsInOrder'
<1>1. call'[c] = NoCall
  BY DEF Raise, TypeOK
<1>2. InOrder(c)' /\ RunsStay
  BY <1>1 DEF InOrder, Raise, RunsStay
<1>3. QED BY <1>2, OthersInOrder DEF Raise

LEMMA BegunInOrder ==
  ASSUME TypeOK, CallsInOrder, NEW c \in Callers, NEW k \in Calls, Begin(c, k),
         k.at = "access",
         k.op = "get" => /\ k.run \in RunIds /\ runs[k.run] # NoRun
                         /\ runs[k.run].name = k.name
  PROVE  CallsInOrder'
<1>1. call'[c] = k /\ RunsStay
  BY DEF Begin, TypeOK, RunsStay
<1>2. InOrder(c)'
  BY <1>1 DEF InOrder, Past, Begin, Gates
<1>3. QED BY <1>1, <1>2, OthersInOrder DEF Begin

LEMMA StartedInOrder ==
  ASSUME TypeOK, CallsInOrder, NEW c \in Callers, Start(c)
  PROVE  CallsInOrder'
<1>1. PICK r \in RunIds :
        /\ runs[r] = NoRun
        /\ runs' = [runs EXCEPT ![r] = Run(call[c].name, call[c].ws)]
        /\ call' = [call EXCEPT ![c].at = "done", ![c].run = r]
  BY DEF Start
<1>2. call[c] # NoCall /\ call[c] \in Calls /\ call[c].at = "serve" /\ call[c].op = "invoke"
  BY DEF Start, At, TypeOK
<1>3. call' = [call EXCEPT ![c] = [call[c] EXCEPT !.at = "done", !.run = r]]
  BY <1>1
<1>4. call'[c] = [call[c] EXCEPT !.at = "done", !.run = r]
  BY <1>3 DEF TypeOK
<1>5. /\ call'[c].op = "invoke" /\ call'[c].at = "done" /\ call'[c].run = r
      /\ call'[c].name = call[c].name /\ call'[c].ws = call[c].ws
      /\ call'[c] \in Calls
  BY <1>2, <1>4 DEF Calls, Stages
<1>6. open'[c] = open[c]
  BY <1>5, NoCallApart DEF Start, Witness
<1>7. Gates \subseteq open'[c]
  BY <1>2, <1>6 DEF CallsInOrder, InOrder, Past
<1>8. runs'[r] = Run(call[c].name, call[c].ws) /\ RunsStay
  BY <1>1 DEF TypeOK, RunsStay
<1>9. InOrder(c)'
  BY <1>5, <1>7, <1>8 DEF InOrder, Past
<1>10. QED BY <1>3, <1>8, <1>9, OthersInOrder DEF Start

LEMMA StepInOrder ==
  ASSUME TypeOK, CallsInOrder, NEW c \in Callers, Step(c)
  PROVE  CallsInOrder'
<1>1. InOrder(c)
  BY DEF CallsInOrder
<1>2. CASE CheckAccess(c)
  <2>1. call[c] # NoCall /\ Asks(c, "access") /\ Owned(c) /\ Goto(c, "allowed")
    BY <1>2 DEF CheckAccess, At
  <2>2. open[c] \cup {"access"} \subseteq open'[c]
    BY <1>2, <2>1, SeenAsAsked DEF CheckAccess, rights, Gates
  <2>3. QED BY <1>2, <2>1, <2>2, AskedInOrder
            DEF CheckAccess, Owned, Past, Gates, Stages
<1>3. CASE CheckAllowed(c)
  <2>1. call[c] # NoCall /\ Asks(c, "allowed") /\ Goto(c, "permitted") /\ call[c].at = "allowed"
    BY <1>3 DEF CheckAllowed, At
  <2>2. open[c] \cup {"allowed"} \subseteq open'[c]
    BY <1>3, <2>1, SeenAsAsked DEF CheckAllowed, rights, Gates
  <2>3. "access" \in open[c] /\ (call[c].op = "get" => runs[call[c].run].owner = call[c].ws)
    BY <1>1, <2>1 DEF InOrder, Past, Gates
  <2>4. Past("permitted") \subseteq open'[c]
    BY <2>2, <2>3 DEF Past, Gates
  <2>5. QED BY <1>3, <2>1, <2>3, <2>4, AskedInOrder DEF CheckAllowed, Gates, Stages
<1>4. CASE CheckPermitted(c)
  <2>1. call[c] # NoCall /\ Asks(c, "permitted") /\ Goto(c, "serve") /\ call[c].at = "permitted"
    BY <1>4 DEF CheckPermitted, At
  <2>2. open[c] \cup {"permitted"} \subseteq open'[c]
    BY <1>4, <2>1, SeenAsAsked DEF CheckPermitted, rights, Gates
  <2>3. {"access", "allowed"} \subseteq open[c]
        /\ (call[c].op = "get" => runs[call[c].run].owner = call[c].ws)
    BY <1>1, <2>1 DEF InOrder, Past, Gates
  <2>4. Past("serve") \subseteq open'[c]
    BY <2>2, <2>3 DEF Past, Gates
  <2>5. QED BY <1>4, <2>1, <2>3, <2>4, AskedInOrder DEF CheckPermitted, Stages
<1>5. CASE Show(c)
  <2>1. call[c] # NoCall /\ Goto(c, "done") /\ call[c].at = "serve" /\ call[c].op = "get"
    BY <1>5 DEF Show, At
  <2>2. call'[c] = [call[c] EXCEPT !.at = "done"] /\ call[c] \in Calls
    BY <2>1 DEF Goto, TypeOK
  <2>3. call'[c] \in Calls /\ call'[c].at = "done"
    BY <2>2 DEF Calls, Stages
  <2>4. open'[c] = open[c]
    BY <1>5, <2>3, NoCallApart DEF Show, Witness
  <2>5. Past("done") \subseteq open'[c]
    BY <1>1, <2>1, <2>4 DEF InOrder, Past
  <2>6. runs[call[c].run].owner = call[c].ws
    BY <1>1, <2>1 DEF InOrder
  <2>7. QED BY <1>5, <2>1, <2>5, <2>6, AskedInOrder DEF Show, Stages
<1>6. CASE Start(c)
  BY <1>6, StartedInOrder
<1>7. CASE Raise(c)
  BY <1>7, RaisedInOrder
<1>8. QED BY <1>2, <1>3, <1>4, <1>5, <1>6, <1>7
          DEF Step, DenyAccess, DenyAllowed, DenyPermitted, Unregistered, Return

(* Rightful, for any number of callers and whatever administrators do:      *)
(* every check of invoke and get is made anew in the call that answers.     *)
THEOREM RightfulAlways == Spec => []Rightful
<1>1. Init => CallsInOrder
  BY DEF Init, CallsInOrder, InOrder
<1>2. TypeOK /\ CallsInOrder /\ [Next]_vars => CallsInOrder'
  <2> SUFFICES ASSUME TypeOK, CallsInOrder, [Next]_vars PROVE CallsInOrder'
    OBVIOUS
  <2>1. ASSUME NEW c \in Callers, Invoke(c) PROVE CallsInOrder'
    <3>1. PICK u \in Users, w \in Workspaces, n \in Names :
            Begin(c, [op |-> "invoke", user |-> u, ws |-> w, name |-> n,
                      run |-> None, at |-> "access"])
      BY <2>1 DEF Invoke
    <3>2. [op |-> "invoke", user |-> u, ws |-> w, name |-> n,
           run |-> None, at |-> "access"] \in Calls
      BY DEF Calls, Stages, Gates
    <3>3. QED BY <3>1, <3>2, BegunInOrder
  <2>2. ASSUME NEW c \in Callers, Get(c) PROVE CallsInOrder'
    <3>1. PICK u \in Users, w \in Workspaces, r \in RunIds :
            /\ runs[r] # NoRun
            /\ Begin(c, [op |-> "get", user |-> u, ws |-> w, name |-> runs[r].name,
                         run |-> r, at |-> "access"])
      BY <2>2 DEF Get
    <3>2. runs[r].name \in Names
      BY <3>1, BridgeAssumption DEF TypeOK
    <3>3. [op |-> "get", user |-> u, ws |-> w, name |-> runs[r].name,
           run |-> r, at |-> "access"] \in Calls
      BY <3>2 DEF Calls, Stages, Gates
    <3>4. QED BY <3>1, <3>3, BegunInOrder
  <2>3. ASSUME NEW c \in Callers, Step(c) PROVE CallsInOrder'
    BY <2>3, StepInOrder
  <2>4. CASE Administrators
    <3>1. call' = call /\ RunsStay /\ Witness
      BY <2>4 DEF Administrators, SetAccess, SetAllowed, AddPolicy, RemovePolicy,
                  EditFile, ReloadPolicy, RunsStay
    <3>2. QED BY <3>1, BystanderInOrder DEF CallsInOrder
  <2>5. CASE UNCHANGED vars
    BY <2>5 DEF vars, CallsInOrder, InOrder
  <2>6. QED BY <2>1, <2>2, <2>3, <2>4, <2>5 DEF Next
<1>3. TypeOK /\ CallsInOrder => Rightful
  BY RightfulInOrder
<1>4. QED BY <1>1, <1>2, <1>3, BridgeTyped, PTL DEF Spec

-------------------------------------------------------------------------------
(* Denials.                                                                 *)

(* A denied workflow is opened by taking away a rule that denies it or by   *)
(* loading a file that does not, whatever the rules and however they were   *)
(* come by: a failed reload and a rule that allows never open one.          *)
THEOREM DenialsAlwaysStand == Spec => DenialsStand
<1>1. ASSUME [Next]_vars,
             NEW u \in Users, NEW w \in Workspaces, NEW n \in Names,
             ~CanRunWorkflow(policy, u, w, n), CanRunWorkflow(policy', u, w, n)
      PROVE  \/ file.state = "good" /\ policy' = file.rules
             \/ \E p \in policy : Denies(p, u, w, n, "run") /\ policy' = policy \ {p}
  <2>1. PICK q \in policy : Denies(q, u, w, n, "run")
    BY <1>1 DEF CanRunWorkflow, Enforce
  <2>2. q \notin policy'
    BY <1>1, <2>1 DEF CanRunWorkflow, Enforce
  <2>3. CASE AddPolicy \/ policy' = policy
    BY <2>1, <2>2, <2>3 DEF AddPolicy
  <2>4. CASE RemovePolicy
    BY <2>1, <2>2, <2>4 DEF RemovePolicy
  <2>5. CASE ReloadPolicy
    BY <2>1, <2>2, <2>5 DEF ReloadPolicy, Reload
  <2>6. CASE SetAccess \/ SetAllowed \/ EditFile
    BY <2>3, <2>6 DEF SetAccess, SetAllowed, EditFile
  <2>7. ASSUME NEW c \in Callers, Invoke(c) \/ Get(c) \/ Step(c) PROVE policy' = policy
    BY <2>7 DEF Invoke, Get, Begin, Step, Raise, rights, CheckAccess, DenyAccess,
                CheckAllowed, DenyAllowed, CheckPermitted, DenyPermitted,
                Start, Unregistered, Show, Return
  <2>8. CASE UNCHANGED vars
    BY <2>3, <2>8 DEF vars
  <2>9. QED BY <1>1, <2>3, <2>4, <2>5, <2>6, <2>7, <2>8 DEF Next, Administrators
<1>2. [Next]_vars => OpenedOnPurpose
  BY <1>1 DEF OpenedOnPurpose
<1>3. QED BY <1>2, PTL DEF Spec, DenialsStand

(* The policy adapter given a memory provider's denials as rules, and no    *)
(* others, answers as the memory provider does, in every workspace: one     *)
(* can replace the other.  Names and users are not the wildcard.            *)
THEOREM MirrorsMemoryProvider ==
  ASSUME NEW skills, NEW workflows, NEW user, NEW ws, NEW name,
         \A d \in skills \cup workflows : d = <<d[1], d[2]>>,
         \A d \in skills \cup workflows : d[1] # Wildcard /\ d[2] # Wildcard
  PROVE  /\ CanUseSkill(AsRules(skills, workflows), user, ws, name)
              <=> MemoryAllows(skills, user, name)
         /\ CanRunWorkflow(AsRules(skills, workflows), user, ws, name)
              <=> MemoryAllows(workflows, user, name)
<1> DEFINE policy_ == AsRules(skills, workflows)
<1>1. ASSUME NEW p \in policy_
      PROVE  /\ Denies(p, user, ws, name, "use") => <<user, name>> \in skills
             /\ Denies(p, user, ws, name, "run") => <<user, name>> \in workflows
  <2>1. CASE p \in RulesFor(skills, "use")
    <3>1. PICK d \in skills : p = Rule(d[1], Wildcard, d[2], "use", "deny")
      BY <2>1 DEF RulesFor
    <3>2. QED BY <3>1 DEF Denies, Covers, Rule, Wildcard
  <2>2. CASE p \in RulesFor(workflows, "run")
    <3>1. PICK d \in workflows : p = Rule(d[1], Wildcard, d[2], "run", "deny")
      BY <2>2 DEF RulesFor
    <3>2. QED BY <3>1 DEF Denies, Covers, Rule, Wildcard
  <2>3. QED BY <2>1, <2>2 DEF AsRules
<1>2. ASSUME <<user, name>> \in skills
      PROVE  \E p \in policy_ : Denies(p, user, ws, name, "use")
  <2>1. Rule(user, Wildcard, name, "use", "deny") \in policy_
    BY <1>2 DEF AsRules, RulesFor
  <2>2. QED BY <2>1 DEF Denies, Covers, Rule
<1>3. ASSUME <<user, name>> \in workflows
      PROVE  \E p \in policy_ : Denies(p, user, ws, name, "run")
  <2>1. Rule(user, Wildcard, name, "run", "deny") \in policy_
    BY <1>3 DEF AsRules, RulesFor
  <2>2. QED BY <2>1 DEF Denies, Covers, Rule
<1>4. QED BY <1>1, <1>2, <1>3
          DEF CanUseSkill, CanRunWorkflow, Enforce, MemoryAllows
===============================================================================
