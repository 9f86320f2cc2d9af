----------------------------- MODULE ToolBridge -----------------------------
(***************************************************************************)
(* WorkflowToolBridge: an agent starts a workflow as a tool and reads the   *)
(* run later, and both calls ask for every permission anew.  No lock is     *)
(* held between the questions, so permissions change while a call asks.     *)
(* The answers come from a CasbinIdentityProvider, whose policy is edited   *)
(* in memory and on disk and reloaded, over a base provider.                *)
(*                                                                          *)
(* A definition named D_Variant is a mistaken D that some property rejects. *)
(***************************************************************************)
EXTENDS Naturals, Policy

CONSTANTS
  Callers,       \* threads that call the bridge
  Users, Workspaces,
  Names,         \* workflow names agents ask for
  Registered,    \* the names EngineRegistry resolves
  RunIds,
  Rules,         \* rules administrators add, remove and write to the file
  MaxChanges,    \* bound: changes administrators make
  None

ASSUME BridgeAssumption ==
  /\ Registered \subseteq Names
  /\ Rules \subseteq [sub : Users \cup {Wildcard}, ws : Workspaces \cup {Wildcard},
                      obj : Names \cup {Wildcard}, act : {"use", "run", Wildcard},
                      eft : Effects]
  /\ MaxChanges \in Nat
  /\ None \notin Names \cup RunIds \cup {"invoke", "get"}

VARIABLES
  access,    \* pairs <<user, workspace>>: the base provider's authorized workspaces
  allowed,   \* allowed[w]: allowed_workflows of the workspace's spec
  policy,    \* the rules in the enforcer
  file,      \* the policy file: its rules, and whether Casbin can load it
  runs,      \* runs[r]: name and owner_workspace_id of run r, or None
  call,      \* call[c]: the call c is in, or None
  open,      \* history: the gates found open at some moment of the call of c
  changes

vars == <<access, allowed, policy, file, runs, call, open, changes>>

rights == <<access, allowed, policy, file, changes>>

Gates  == {"access", "allowed", "permitted"}
Stages == Gates \cup {"serve", "done"}

Calls ==
  [op : {"invoke", "get"}, user : Users, ws : Workspaces, name : Names,
   run : RunIds \cup {None}, at : Stages]

NoCall == [op |-> None]

Run(n, w) == [name |-> n, owner |-> w]

NoRun == [name |-> None]

(* Three of the questions of invoke and get; get has a fourth, the owner.   *)
Passes(gate, k, acc, all, pol) ==
  \/ gate = "access" /\ <<k.user, k.ws>> \in acc
  \/ gate = "allowed" /\ k.name \in all[k.ws]
  \/ gate = "permitted" /\ CanRunWorkflow(pol, k.user, k.ws, k.name)

OpenGates(k, acc, all, pol) == {g \in Gates : Passes(g, k, acc, all, pol)}

Init ==
  /\ access = Users \X Workspaces
  /\ allowed = [w \in Workspaces |-> Names]
  /\ file \in [rules : SUBSET Rules, state : {"good"}]
  /\ policy = file.rules
  /\ runs = [r \in RunIds |-> NoRun]
  /\ call = [c \in Callers |-> NoCall]
  /\ open = [c \in Callers |-> {}]
  /\ changes = 0

(* What a call may have seen, as it goes on; settled once it has an answer. *)
Witness ==
  open' = [c \in Callers |->
             IF call'[c] = NoCall THEN {}
             ELSE IF call'[c].at = "done" THEN open[c]
             ELSE open[c] \cup OpenGates(call'[c], access', allowed', policy')]

-------------------------------------------------------------------------------
(* The calls.                                                               *)

Begin(c, k) ==
  /\ call[c] = NoCall
  /\ call' = [call EXCEPT ![c] = k]
  /\ UNCHANGED <<runs, rights>>
  /\ Witness

Invoke(c) ==
  \E u \in Users, w \in Workspaces, n \in Names :
    Begin(c, [op |-> "invoke", user |-> u, ws |-> w, name |-> n,
              run |-> None, at |-> "access"])

(* get() reads the run before any question; an unknown id ends it there.    *)
Get(c) ==
  \E u \in Users, w \in Workspaces, r \in RunIds :
    /\ runs[r] # NoRun
    /\ Begin(c, [op |-> "get", user |-> u, ws |-> w, name |-> runs[r].name,
                 run |-> r, at |-> "access"])

At(c, stage) == call[c] # NoCall /\ call[c].at = stage

Goto(c, stage) == call' = [call EXCEPT ![c].at = stage]

Asks_OnlyToStart(c, gate) ==
  call[c].op = "get" \/ Passes(gate, call[c], access, allowed, policy)

Asks(c, gate) == Passes(gate, call[c], access, allowed, policy)

(* WorkflowNotAllowed, or what the resolver raises.                         *)
Raise(c) ==
  /\ call' = [call EXCEPT ![c] = NoCall]
  /\ UNCHANGED <<runs, rights>>
  /\ Witness

(* The run is the workspace's own.                                          *)
Owned(c) == call[c].op = "get" => runs[call[c].run].owner = call[c].ws

CheckAccess(c) ==
  /\ At(c, "access")
  /\ Asks(c, "access") /\ Owned(c)
  /\ Goto(c, "allowed")
  /\ UNCHANGED <<runs, rights>>
  /\ Witness

DenyAccess(c) ==
  /\ At(c, "access")
  /\ ~(Asks(c, "access") /\ Owned(c))
  /\ Raise(c)

(* resolve() reads the spec, after layers that may raise.                   *)
CheckAllowed(c) ==
  /\ At(c, "allowed")
  /\ Asks(c, "allowed")
  /\ Goto(c, "permitted")
  /\ UNCHANGED <<runs, rights>>
  /\ Witness

DenyAllowed(c) == At(c, "allowed") /\ Raise(c)

CheckPermitted(c) ==
  /\ At(c, "permitted")
  /\ Asks(c, "permitted")
  /\ Goto(c, "serve")
  /\ UNCHANGED <<runs, rights>>
  /\ Witness

DenyPermitted(c) ==
  /\ At(c, "permitted")
  /\ ~Asks(c, "permitted")
  /\ Raise(c)

(* service.run: an unknown name raises WorkflowNotRegistered, and a new run *)
(* belongs to the workspace it was started in.                              *)
Start(c) ==
  /\ At(c, "serve") /\ call[c].op = "invoke"
  /\ call[c].name \in Registered
  /\ \E r \in RunIds :
       /\ runs[r] = NoRun
       /\ runs' = [runs EXCEPT ![r] = Run(call[c].name, call[c].ws)]
       /\ call' = [call EXCEPT ![c].at = "done", ![c].run = r]
  /\ UNCHANGED rights
  /\ Witness

Unregistered(c) ==
  /\ At(c, "serve") /\ call[c].op = "invoke"
  /\ call[c].name \notin Registered
  /\ Raise(c)

Show(c) ==
  /\ At(c, "serve") /\ call[c].op = "get"
  /\ Goto(c, "done")
  /\ UNCHANGED <<runs, rights>>
  /\ Witness

Return(c) == At(c, "done") /\ Raise(c)

-------------------------------------------------------------------------------
(* The administrators.                                                      *)

Change ==
  /\ changes < MaxChanges
  /\ changes' = changes + 1

Toggle(set, x) == IF x \in set THEN set \ {x} ELSE set \cup {x}

SetAccess ==
  /\ Change
  /\ \E u \in Users, w \in Workspaces : access' = Toggle(access, <<u, w>>)
  /\ UNCHANGED <<allowed, policy, file, runs, call>>
  /\ Witness

SetAllowed ==
  /\ Change
  /\ \E w \in Workspaces, n \in Names :
       allowed' = [allowed EXCEPT ![w] = Toggle(@, n)]
  /\ UNCHANGED <<access, policy, file, runs, call>>
  /\ Witness

AddPolicy ==
  /\ Change
  /\ \E p \in Rules : policy' = policy \cup {p}
  /\ UNCHANGED <<access, allowed, file, runs, call>>
  /\ Witness

(* Exactly the rule named, its effect included; removing none is no error.  *)
RemovePolicy ==
  /\ Change
  /\ \E p \in Rules : policy' = policy \ {p}
  /\ UNCHANGED <<access, allowed, file, runs, call>>
  /\ Witness

(* Someone edits, breaks or removes the file; nothing watches it.           *)
EditFile ==
  /\ Change
  /\ \/ \E p \in Rules : file' = [rules |-> Toggle(file.rules, p), state |-> "good"]
     \/ \E s \in {"broken", "missing"} : file' = [file EXCEPT !.state = s]
  /\ UNCHANGED <<access, allowed, policy, runs, call>>
  /\ Witness

Reload_Clears == policy' = IF file.state = "good" THEN file.rules ELSE {}

(* reload_policy: the new table is built first, so that a file which cannot *)
(* be loaded (CasbinIdentityProviderError) leaves the old one in force.     *)
Reload == policy' = IF file.state = "good" THEN file.rules ELSE policy

ReloadPolicy ==
  /\ Reload
  /\ UNCHANGED <<access, allowed, file, runs, call, changes>>
  /\ Witness

-------------------------------------------------------------------------------
Step(c) ==
  \/ CheckAccess(c) \/ DenyAccess(c)
  \/ CheckAllowed(c) \/ DenyAllowed(c)
  \/ CheckPermitted(c) \/ DenyPermitted(c)
  \/ Start(c) \/ Unregistered(c) \/ Show(c)
  \/ Return(c)

Administrators ==
  \/ SetAccess \/ SetAllowed
  \/ AddPolicy \/ RemovePolicy \/ EditFile \/ ReloadPolicy

Next ==
  \/ \E c \in Callers : Invoke(c) \/ Get(c) \/ Step(c)
  \/ Administrators

Spec == Init /\ [][Next]_vars

-------------------------------------------------------------------------------
(* Properties.                                                              *)

(* Types of the administrators' data, the runs, the calls and the history.  *)
TypeOK ==
  /\ access \subseteq Users \X Workspaces
  /\ allowed \in [Workspaces -> SUBSET Names]
  /\ policy \subseteq Rules
  /\ file \in [rules : SUBSET Rules, state : {"good", "broken", "missing"}]
  /\ runs \in [RunIds -> [name : Registered, owner : Workspaces] \cup {NoRun}]
  /\ call \in [Callers -> Calls \cup {NoCall}]
  /\ open \in [Callers -> SUBSET Gates]
  /\ changes \in Nat

(* "Revocation symmetry": whoever starts a run or is shown one had access   *)
(* to the workspace, the workflow was on its list and no rule denied it,    *)
(* each at some moment of this very call, so that a permission withdrawn    *)
(* before the call is refused however old the run; and the run is one of    *)
(* that workspace, of that workflow.                                        *)
Rightful ==
  \A c \in Callers :
    At(c, "done") =>
      /\ open[c] = Gates
      /\ runs[call[c].run] = Run(call[c].name, call[c].ws)

OpenedOnPurpose ==
  \A u \in Users, w \in Workspaces, n \in Names :
    ~CanRunWorkflow(policy, u, w, n) /\ CanRunWorkflow(policy', u, w, n) =>
      \/ file.state = "good" /\ policy' = file.rules
      \/ \E p \in policy : Denies(p, u, w, n, "run") /\ policy' = policy \ {p}

(* What a rule in force denies stays denied until one of the rules that     *)
(* deny it is removed or a readable file that does not deny it is loaded:   *)
(* no failed reload, and no rule that allows, opens anything.               *)
DenialsStand == [][OpenedOnPurpose]_vars
===============================================================================
