---------------------------- MODULE InboundProofs ----------------------------
(* What every delivery goes through, for any users, workspaces, messages    *)
(* and layers of configuration, and any number of changes and failures.     *)
EXTENDS Inbound, FiniteSetTheorems, TLAPS

-------------------------------------------------------------------------------
(* Environments.                                                            *)

LEMMA OverTyped ==
  ASSUME NEW upper \in Environments, NEW lower \in Environments
  PROVE  Over(upper, lower) \in Environments
<1>1. PICK V \in SUBSET Vars : upper \in [V -> Layers \cup {Redacted}]
  BY DEF Environments
<1>2. PICK W \in SUBSET Vars : lower \in [W -> Layers \cup {Redacted}]
  BY DEF Environments
<1>3. Over(upper, lower) \in [V \cup W -> Layers \cup {Redacted}]
  BY <1>1, <1>2 DEF Over
<1>4. V \cup W \in SUBSET Vars
  OBVIOUS
<1>5. QED BY <1>3, <1>4 DEF Environments

LEMMA LayerTyped ==
  ASSUME NEW name \in Layers, NEW V \in SUBSET Vars
  PROVE  Layer(name, V) \in Environments
<1>1. Layer(name, V) \in [V -> Layers \cup {Redacted}]
  BY DEF Layer
<1>2. QED BY <1>1 DEF Environments

LEMMA RedactTyped ==
  ASSUME NEW env \in Environments, NEW S
  PROVE  Redact(env, S) \in Environments
<1>1. PICK V \in SUBSET Vars : env \in [V -> Layers \cup {Redacted}]
  BY DEF Environments
<1>2. Redact(env, S) \in [V -> Layers \cup {Redacted}]
  BY <1>1 DEF Redact
<1>3. QED BY <1>2 DEF Environments

LEMMA ResolvedTyped ==
  ASSUME NEW S \in SUBSET Vars
  PROVE  ResolvedEnv(Globals, OfWorkspace, OfUser, S) \in Environments
<1>1. /\ Layer("global", Globals) \in Environments
      /\ Layer("workspace", OfWorkspace) \in Environments
      /\ Layer("user", OfUser) \in Environments
      /\ Layer("secret", S) \in Environments
  BY LayerTyped, InboundAssumption DEF Layers
<1>2. ConfigEnv(Globals, OfWorkspace) \in Environments
  BY <1>1, OverTyped DEF ConfigEnv
<1>3. QED BY <1>1, <1>2, OverTyped DEF ResolvedEnv

(* resolve() keeps every variable of every layer and takes each from the     *)
(* highest layer that sets it: secrets, then the user's own, then the        *)
(* workspace's, then the global ones.                                       *)
THEOREM LayersInOrder ==
  ASSUME NEW globals, NEW ofWorkspace, NEW ofUser, NEW secrets,
         NEW env, env = ResolvedEnv(globals, ofWorkspace, ofUser, secrets)
  PROVE  /\ DOMAIN env = globals \cup ofWorkspace \cup ofUser \cup secrets
         /\ \A v \in DOMAIN env :
              env[v] = IF v \in secrets THEN "secret"
                       ELSE IF v \in ofUser THEN "user"
                       ELSE IF v \in ofWorkspace THEN "workspace" ELSE "global"
<1> DEFINE config == ConfigEnv(globals, ofWorkspace)
           under  == Over(Layer("user", ofUser), config)
<1>1. /\ DOMAIN config = globals \cup ofWorkspace
      /\ \A v \in DOMAIN config :
           config[v] = IF v \in ofWorkspace THEN "workspace" ELSE "global"
  BY DEF ConfigEnv, Over, Layer
<1> HIDE DEF config
<1>2. /\ DOMAIN under = ofUser \cup DOMAIN config
      /\ \A v \in DOMAIN under : under[v] = IF v \in ofUser THEN "user" ELSE config[v]
  BY DEF Over, Layer
<1>3. env = Over(Layer("secret", secrets), under)
  BY DEF ResolvedEnv, config
<1> HIDE DEF under
<1>4. /\ DOMAIN env = secrets \cup DOMAIN under
      /\ \A v \in DOMAIN env : env[v] = IF v \in secrets THEN "secret" ELSE under[v]
  BY <1>3 DEF Over, Layer
<1>5. QED BY <1>1, <1>2, <1>4

(* The secrets win over every other layer, and nothing else passes for one. *)
LEMMA SecretsOnTop ==
  ASSUME NEW globals, NEW ofWorkspace, NEW ofUser, NEW S,
         NEW env, env = ResolvedEnv(globals, ofWorkspace, ofUser, S)
  PROVE  S = {v \in DOMAIN env : env[v] = "secret"}
<1> DEFINE config == ConfigEnv(globals, ofWorkspace)
           under  == Over(Layer("user", ofUser), config)
<1>1. ASSUME NEW v \in DOMAIN config PROVE config[v] # "secret"
  BY <1>1 DEF ConfigEnv, Over, Layer
<1>2. ASSUME NEW v \in DOMAIN under PROVE under[v] # "secret"
  <2> HIDE DEF config
  <2>1. QED BY <1>1, <1>2 DEF Over, Layer
<1>3. env = Over(Layer("secret", S), under)
  BY DEF ResolvedEnv
<1> HIDE DEF under
<1>4. QED BY <1>2, <1>3 DEF Over, Layer

-------------------------------------------------------------------------------
(* Types.                                                                   *)

LEMMA RoundsForTyped ==
  ASSUME NEW w \in Workspaces
  PROVE  RoundsFor(w) \in Nat
BY InboundAssumption DEF RoundsFor

LEMMA NoCallApart == NoCall \notin Calls
BY InboundAssumption DEF NoCall, Calls

LEMMA WitnessTyped ==
  ASSUME TypeOK, Witness,
         call' \in Calls \cup {NoCall},
         home' \in [Users -> Workspaces \cup {None}],
         vault' \in [Workspaces -> SUBSET Vars]
  PROVE  witnessed' \in [homes : SUBSET (Workspaces \cup {None}),
                         access : SUBSET Workspaces,
                         secrets : SUBSET (Workspaces \X SUBSET Vars)]
<1>1. CASE call' = NoCall
  BY <1>1 DEF Witness, Nothing
<1>2. CASE call' \in Calls
  <2>1. Sender[call'.msg] \in Users
    BY <1>2, InboundAssumption DEF Calls
  <2> DEFINE before == IF call = NoCall THEN Nothing ELSE witnessed
  <2>2. /\ before.homes \subseteq Workspaces \cup {None}
        /\ before.access \subseteq Workspaces
        /\ before.secrets \subseteq Workspaces \X SUBSET Vars
    BY DEF TypeOK, Nothing
  <2>3. {<<w, vault'[w]>> : w \in Workspaces} \subseteq Workspaces \X SUBSET Vars
    OBVIOUS
  <2>4. QED BY <1>2, <2>1, <2>2, <2>3, NoCallApart DEF Witness
<1>3. QED BY <1>1, <1>2

(* A step of the call that leaves administrators, ledger and records alone. *)
LEMMA MovesTyped ==
  ASSUME TypeOK, call' \in Calls \cup {NoCall}, pending' \subseteq Messages,
         refused' \subseteq Messages, redeliveries' = redeliveries,
         UNCHANGED <<admin, ledger, tally>>, Witness
  PROVE  TypeOK'
BY WitnessTyped DEF TypeOK, admin, ledger

LEMMA StageTyped ==
  ASSUME TypeOK, call # NoCall, NEW s \in Stages
  PROVE  /\ call \in Calls
         /\ [call EXCEPT !.at = s] \in Calls
BY DEF TypeOK, Calls

(* The ledger's steps, seen from here.                                      *)
LEMMA LedgerOpens ==
  ASSUME TypeOK, NEW k \in Conversations, Ledger!Open(k)
  PROVE  /\ limit' \in [Conversations -> Nat \cup {None}]
         /\ UNCHANGED <<rounds, seen, failures>>
<1>1. PICK n \in {RoundsFor(w) : w \in Workspaces} : limit' = [limit EXCEPT ![k] = n]
  BY DEF Ledger!Open
<1>2. n \in Nat
  BY <1>1, RoundsForTyped
<1>3. QED BY <1>1, <1>2 DEF Ledger!Open, TypeOK

LEMMA LedgerAnswers ==
  ASSUME TypeOK, NEW w \in Workspaces, NEW m \in Messages, Ledger!Answer(<<w, m>>)
  PROVE  /\ rounds' \in [Conversations -> Nat]
         /\ seen' \in SUBSET (Workspaces \X Messages)
         /\ seen' \subseteq seen \cup {<<w, m>>} /\ seen \subseteq seen'
         /\ UNCHANGED <<limit, failures>>
<1>1. [x \in Workspaces \X Messages |-> <<x[1], Thread[x[2]]>>][<<w, m>>] = <<w, Thread[m]>>
  OBVIOUS
<1>2. <<w, Thread[m]>> \in Conversations
  BY InboundAssumption DEF Conversations
<1>3. rounds' = [rounds EXCEPT ![<<w, Thread[m]>>] = @ + 1]
  BY <1>1 DEF Ledger!Answer
<1>4. rounds' \in [Conversations -> Nat]
  BY <1>2, <1>3 DEF TypeOK
<1>5. QED BY <1>4 DEF Ledger!Answer, TypeOK

LEMMA LedgerFails ==
  ASSUME TypeOK, Ledger!Failure
  PROVE  /\ failures' \in Nat /\ seen' \subseteq seen
         /\ UNCHANGED <<limit, rounds>>
BY DEF Ledger!Failure, TypeOK

LEMMA CallTyped ==
  ASSUME TypeOK, call # NoCall
  PROVE  call \in Calls /\ call.msg \in Messages
BY DEF TypeOK, Calls

(* Past the router, a call has a workspace.                                 *)
Placed == call # NoCall /\ call.at \notin {"verify", "route"} => call.workspace \in Workspaces

LEMMA RunnerTyped ==
  ASSUME TypeOK, Placed, Deliver \/ Step
  PROVE  TypeOK'
<1>1. CASE Deliver
  <2>1. PICK m \in pending :
          /\ pending' = pending \ {m}
          /\ call' = [msg |-> m, at |-> "verify", workspace |-> None,
                      env |-> NoEnv, trace |-> NoEnv]
    BY <1>1 DEF Deliver
  <2>2. NoEnv \in Environments
    BY LayerTyped DEF NoEnv, Layers
  <2>3. call' \in Calls /\ pending' \subseteq Messages
    BY <2>1, <2>2 DEF Calls, Stages, TypeOK
  <2>4. QED BY <1>1, <2>3, MovesTyped DEF Deliver, TypeOK
<1>2. ASSUME call # NoCall, NEW s \in Stages, Goto(s), pending' = pending,
             redeliveries' = redeliveries, refused' = refused,
             UNCHANGED <<admin, ledger, tally>>, Witness
      PROVE  TypeOK'
  <2>1. call' \in Calls
    BY <1>2, StageTyped DEF Goto
  <2>2. QED BY <1>2, <2>1, MovesTyped DEF TypeOK
<1>3. CASE Verify
  BY <1>2, <1>3 DEF Verify, At, Stages
<1>4. CASE Enter
  BY <1>2, <1>4 DEF Enter, At, Stages
<1>5. ASSUME call # NoCall, Refuse PROVE TypeOK'
  BY <1>5, CallTyped, MovesTyped DEF Refuse, Settle, TypeOK
<1>6. CASE ResolveUser
  <2>1. call \in Calls /\ call.msg \in Messages
    BY <1>6, CallTyped DEF ResolveUser, At
  <2>2. home[Sender[call.msg]] \in Workspaces
    BY <1>6, <2>1, InboundAssumption DEF ResolveUser, Routable, TypeOK
  <2>3. call' \in Calls
    BY <1>6, <2>1, <2>2 DEF ResolveUser, Calls, Stages
  <2>4. QED BY <1>6, <2>3, MovesTyped DEF ResolveUser, TypeOK
<1>7. CASE Resolved
  <2>1. call \in Calls /\ call.at = "resolve"
    BY <1>7, CallTyped DEF Resolved, At
  <2> DEFINE secrets == Secrets(server, vault[call.workspace])
             env == ResolvedEnv(Globals, OfWorkspace, OfUser, secrets)
  <2>2. call' = [call EXCEPT !.at = "converse", !.env = env, !.trace = Redact(env, secrets)]
    BY <1>7 DEF Resolved
  <2>3. call' \in Calls
    <3>0. secrets \in SUBSET Vars
      BY <1>7, <2>1 DEF Resolved, At, Placed, Secrets, TypeOK
    <3>1. env \in Environments
      BY <3>0, ResolvedTyped
    <3>2. Redact(env, secrets) \in Environments
      BY <3>1, RedactTyped
    <3> HIDE DEF env, secrets
    <3>3. QED BY <2>1, <2>2, <3>1, <3>2 DEF Calls, Stages
  <2>4. QED BY <1>7, <2>3, MovesTyped DEF Resolved, TypeOK
<1>8. CASE ResolveFails
  <2>1. call \in Calls /\ call.msg \in Messages
    BY <1>8, CallTyped DEF ResolveFails, At
  <2>2. QED BY <1>8, <2>1, MovesTyped DEF ResolveFails, Escape, TypeOK
<1>9. CASE OpenSession
  <2>1. Conversation \in Conversations
    BY <1>9, CallTyped, InboundAssumption DEF OpenSession, At, Placed, Conversation, Conversations
  <2>2. limit' \in [Conversations -> Nat \cup {None}] /\ UNCHANGED <<rounds, seen, failures>>
    BY <1>9, <2>1, LedgerOpens DEF OpenSession
  <2>3. QED BY <1>9, <2>2, WitnessTyped DEF OpenSession, TypeOK, admin
<1>10. CASE DropDuplicate
  BY <1>10, MovesTyped DEF DropDuplicate, Settle, TypeOK
<1>11. CASE Return
  BY <1>11, MovesTyped DEF Return, Settle, TypeOK
<1>12. CASE Answer
  <2>1. call \in Calls /\ call.msg \in Messages /\ call.workspace \in Workspaces
    BY <1>12, CallTyped DEF Answer, At, Placed
  <2>2. /\ rounds' \in [Conversations -> Nat]
        /\ seen' \in SUBSET (Workspaces \X Messages)
        /\ UNCHANGED <<limit, failures>>
    BY <1>12, <2>1, LedgerAnswers DEF Answer, Entry
  <2>3. call' \in Calls
    BY <1>12, StageTyped DEF Answer, Goto, At, Stages
  <2>4. tally' \in [Messages -> [turns : Nat, replies : Nat, lost : Nat, unmarked : Nat]]
    <3>1. ASSUME NEW t \in [turns : Nat, replies : Nat, lost : Nat, unmarked : Nat]
          PROVE  [t EXCEPT !.turns = @ + 1] \in [turns : Nat, replies : Nat, lost : Nat, unmarked : Nat]
      OBVIOUS
    <3>2. tally' = [tally EXCEPT ![call.msg] = [tally[call.msg] EXCEPT !.turns = @ + 1]]
      BY <1>12 DEF Answer
    <3>3. QED BY <2>1, <3>1, <3>2 DEF TypeOK
  <2>5. QED BY <1>12, <2>2, <2>3, <2>4, WitnessTyped DEF Answer, TypeOK, admin
<1>13. CASE Reply
  <2>1. call \in Calls /\ call.msg \in Messages
    BY <1>13, CallTyped DEF Reply, At
  <2>2. call' \in Calls
    BY <1>13, StageTyped DEF Reply, Goto, At, Stages
  <2>3. tally' \in [Messages -> [turns : Nat, replies : Nat, lost : Nat, unmarked : Nat]]
    <3>1. ASSUME NEW t \in [turns : Nat, replies : Nat, lost : Nat, unmarked : Nat]
          PROVE  [t EXCEPT !.replies = @ + 1] \in [turns : Nat, replies : Nat, lost : Nat, unmarked : Nat]
      OBVIOUS
    <3>2. tally' = [tally EXCEPT ![call.msg] = [tally[call.msg] EXCEPT !.replies = @ + 1]]
      BY <1>13 DEF Reply
    <3>3. QED BY <2>1, <3>1, <3>2 DEF TypeOK
  <2>4. QED BY <1>13, <2>2, <2>3, WitnessTyped DEF Reply, TypeOK, admin, ledger
<1>14. QED BY <1>1, <1>3, <1>4, <1>5, <1>6, <1>7, <1>8, <1>9, <1>10, <1>11, <1>12, <1>13
          DEF Step, RefuseUnverified, RefuseUnroutable, RefuseAccess, RefuseSpent, At

LEMMA FailureTyped ==
  ASSUME TypeOK, AgentFails \/ SendFails \/ Crash
  PROVE  TypeOK'
<1>1. call # NoCall /\ Fails /\ Witness
  BY DEF AgentFails, SendFails, Crash, At
<1>2. call.msg \in Messages
  BY <1>1, CallTyped
<1>3. /\ failures' \in Nat /\ seen' \subseteq seen
      /\ UNCHANGED <<limit, rounds>>
  BY <1>1, LedgerFails DEF Fails
<1>4. /\ call' = NoCall /\ pending' \subseteq Messages
      /\ UNCHANGED <<redeliveries, refused, admin>>
  BY <1>1, <1>2 DEF Fails, Escape, TypeOK
<1>5. tally' \in [Messages -> [turns : Nat, replies : Nat, lost : Nat, unmarked : Nat]]
  <2>1. \/ tally' = tally
        \/ tally' = [tally EXCEPT ![call.msg] = Lose(@)]
        \/ tally' = [tally EXCEPT ![call.msg] = Unmark(Lose(@))]
    BY DEF AgentFails, SendFails, Crash
  <2>2. ASSUME NEW t \in [turns : Nat, replies : Nat, lost : Nat, unmarked : Nat]
        PROVE  /\ Lose(t) \in [turns : Nat, replies : Nat, lost : Nat, unmarked : Nat]
               /\ Unmark(t) \in [turns : Nat, replies : Nat, lost : Nat, unmarked : Nat]
    BY DEF Lose, Unmark
  <2>3. QED BY <1>2, <2>1, <2>2 DEF TypeOK
<1>6. QED BY <1>1, <1>3, <1>4, <1>5, WitnessTyped DEF TypeOK, admin

LEMMA AroundTyped ==
  ASSUME TypeOK, Redeliver \/ Change \/ ServerChanges \/ ServerRecovers
  PROVE  TypeOK'
<1>1. CASE Redeliver
  <2>1. pending' \subseteq Messages /\ redeliveries' \in Nat /\ call' = call
        /\ UNCHANGED <<admin, ledger, tally, refused>>
    BY <1>1 DEF Redeliver, TypeOK
  <2>2. QED BY <1>1, <2>1, WitnessTyped DEF Redeliver, TypeOK, admin, ledger
<1>2. CASE Change
  <2>1. /\ changes' \in Nat
        /\ UNCHANGED <<server, ledger, call, pending, redeliveries, tally, refused>>
    BY <1>2 DEF Change, TypeOK
  <2>2. /\ known' \subseteq Users
        /\ access' \subseteq Users \X Workspaces
        /\ home' \in [Users -> Workspaces \cup {None}]
        /\ homes' \in [Users -> SUBSET (Workspaces \cup {None})]
        /\ vault' \in [Workspaces -> SUBSET Vars]
    <3>1. CASE Move
      <4>1. PICK u \in Users, w \in Workspaces \cup {None} :
              /\ home' = [home EXCEPT ![u] = w]
              /\ homes' = [homes EXCEPT ![u] = @ \cup {w}]
        BY <3>1 DEF Move
      <4>2. home' \in [Users -> Workspaces \cup {None}]
        BY <4>1 DEF TypeOK
      <4>3. homes[u] \cup {w} \in SUBSET (Workspaces \cup {None})
        BY DEF TypeOK
      <4>4. homes' \in [Users -> SUBSET (Workspaces \cup {None})]
        BY <4>1, <4>3 DEF TypeOK
      <4>5. QED BY <3>1, <4>2, <4>4 DEF Move, TypeOK
    <3>2. CASE Authorize /\ UNCHANGED <<home, homes, vault>>
      <4>1. ASSUME NEW u \in Users PROVE Toggle(known, u) \subseteq Users
        BY DEF Toggle, TypeOK
      <4>2. ASSUME NEW u \in Users, NEW w \in Workspaces
            PROVE  Toggle(access, <<u, w>>) \subseteq Users \X Workspaces
        BY DEF Toggle, TypeOK
      <4>3. known' \subseteq Users /\ access' \subseteq Users \X Workspaces
        BY <3>2, <4>1, <4>2 DEF Authorize, TypeOK
      <4>4. QED BY <3>2, <4>3 DEF TypeOK
    <3>3. CASE Rotate
      <4>1. PICK w \in Workspaces, v \in Vars : vault' = [vault EXCEPT ![w] = Toggle(@, v)]
        BY <3>3 DEF Rotate
      <4>2. Toggle(vault[w], v) \in SUBSET Vars
        BY DEF Toggle, TypeOK
      <4>3. QED BY <3>3, <4>1, <4>2 DEF Rotate, TypeOK
    <3>4. QED BY <1>2, <3>1, <3>2, <3>3 DEF Change
  <2>3. QED BY <1>2, <2>1, <2>2, WitnessTyped DEF Change, TypeOK, ledger
<1>3. CASE ServerChanges
  <2>1. server' \in Troubles /\ changes' \in Nat
    BY <1>3 DEF ServerChanges, TypeOK
  <2>2. QED BY <1>3, <2>1, WitnessTyped DEF ServerChanges, TypeOK, ledger
<1>4. CASE ServerRecovers
  <2>1. server' = "ok"
    BY <1>4 DEF ServerRecovers
  <2>2. QED BY <1>4, <2>1, WitnessTyped DEF ServerRecovers, TypeOK, ledger
<1>5. QED BY <1>1, <1>2, <1>3, <1>4

(* What can become of the call, and what is remembered of it.               *)
LEMMA CallSteps ==
  ASSUME [Next]_vars
  PROVE  \/ call' = call /\ (Witness \/ UNCHANGED vars)
         \/ call' = NoCall
         \/ Deliver \/ Verify \/ ResolveUser \/ Enter \/ Resolved \/ Answer \/ Reply
<1>1. CASE OpenSession \/ Redeliver \/ Change \/ ServerChanges \/ ServerRecovers
  BY <1>1 DEF OpenSession, Redeliver, Change, ServerChanges, ServerRecovers
<1>2. CASE RefuseUnverified \/ RefuseUnroutable \/ RefuseAccess \/ RefuseSpent
  BY <1>2 DEF RefuseUnverified, RefuseUnroutable, RefuseAccess, RefuseSpent, Refuse, Settle
<1>3. CASE DropDuplicate \/ Return \/ ResolveFails
  BY <1>3 DEF DropDuplicate, Return, Settle, ResolveFails, Escape
<1>4. CASE AgentFails \/ SendFails \/ Crash
  BY <1>4 DEF AgentFails, SendFails, Crash, Fails, Escape
<1>5. CASE UNCHANGED vars
  BY <1>5 DEF vars
<1>6. QED BY <1>1, <1>2, <1>3, <1>4, <1>5 DEF Next, Step, Quiet

LEMMA PlacedStays ==
  ASSUME TypeOK, Placed, [Next]_vars
  PROVE  Placed'
<1>1. ASSUME call' = NoCall \/ call' = call PROVE Placed'
  BY <1>1 DEF Placed
<1>2. CASE Deliver
  BY <1>2 DEF Deliver, Placed
<1>3. ASSUME call # NoCall, call.at \notin {"verify", "route"}, NEW s, Goto(s)
      PROVE  Placed'
  BY <1>3, CallTyped DEF Goto, Placed, Calls
<1>4. CASE Verify
  BY <1>4, CallTyped DEF Verify, At, Goto, Placed, Calls
<1>5. CASE ResolveUser
  <2>1. call \in Calls /\ call.msg \in Messages
    BY <1>5, CallTyped DEF ResolveUser, At
  <2>2. home[Sender[call.msg]] \in Workspaces
    BY <1>5, <2>1, InboundAssumption DEF ResolveUser, Routable, TypeOK
  <2>3. QED BY <1>5, <2>1, <2>2 DEF ResolveUser, Placed, Calls
<1>6. CASE Enter \/ Answer \/ Reply
  BY <1>3, <1>6 DEF Enter, Answer, Reply, At
<1>7. CASE Resolved
  <2> DEFINE secrets == Secrets(server, vault[call.workspace])
             env == ResolvedEnv(Globals, OfWorkspace, OfUser, secrets)
  <2>1. call' = [call EXCEPT !.at = "converse", !.env = env, !.trace = Redact(env, secrets)]
    BY <1>7 DEF Resolved
  <2> HIDE DEF env, secrets
  <2>2. call \in Calls /\ call.workspace \in Workspaces
    BY <1>7, CallTyped DEF Resolved, At, Placed
  <2>3. QED BY <2>1, <2>2 DEF Placed, Calls
<1>8. QED BY <1>1, <1>2, <1>4, <1>5, <1>6, <1>7, CallSteps

(* The identity data, the vault, the ledger and the call in handle_raw keep *)
(* their types.                                                             *)
THEOREM InboundTyped == Spec => []TypeOK
<1>1. Init => TypeOK /\ Placed
  <2> SUFFICES ASSUME Init PROVE TypeOK /\ Placed
    OBVIOUS
  <2>1. home \in [Users -> Workspaces \cup {None}] /\ homes \in [Users -> SUBSET (Workspaces \cup {None})]
    BY DEF Init
  <2>2. limit \in [Conversations -> Nat \cup {None}] /\ rounds \in [Conversations -> Nat]
        /\ seen = {} /\ failures = 0
    BY DEF Init, Ledger!Init
  <2>3. QED BY <2>1, <2>2 DEF Init, TypeOK, Placed, Nothing
<1>2. TypeOK /\ Placed /\ [Next]_vars => (TypeOK /\ Placed)'
  <2> SUFFICES ASSUME TypeOK, Placed, [Next]_vars PROVE TypeOK'
    BY PlacedStays
  <2>1. CASE UNCHANGED vars
    BY <2>1 DEF vars, TypeOK
  <2>2. QED BY <2>1, RunnerTyped, FailureTyped, AroundTyped DEF Next, Quiet
<1>3. QED BY <1>1, <1>2, PTL DEF Spec

-------------------------------------------------------------------------------
(* Admission.                                                               *)

Admitted ==
  call # NoCall =>
    /\ call.at # "verify" => call.msg \in Signed \cap Readable
    /\ call.at \notin {"verify", "route"} => call.workspace \in witnessed.homes
    /\ call.at \notin {"verify", "route", "access"} => call.workspace \in witnessed.access

(* What was witnessed of a call is not forgotten while it lasts, and what   *)
(* holds after a step is witnessed.                                         *)
LEMMA WitnessGrows ==
  ASSUME call # NoCall, call' # NoCall, Witness
  PROVE  /\ witnessed.homes \cup {home'[Sender[call'.msg]]} \subseteq witnessed'.homes
         /\ witnessed.access \subseteq witnessed'.access
         /\ \A w \in Workspaces :
              <<Sender[call'.msg], w>> \in access' => w \in witnessed'.access
         /\ witnessed.secrets \subseteq witnessed'.secrets
         /\ \A w \in Workspaces : <<w, vault'[w]>> \in witnessed'.secrets
BY DEF Witness

LEMMA AdmittedStays ==
  ASSUME TypeOK, Placed, Admitted, [Next]_vars
  PROVE  Admitted'
<1>1. CASE call' = NoCall
  BY <1>1 DEF Admitted
<1>2. CASE call' = call /\ (Witness \/ UNCHANGED vars)
  BY <1>1, <1>2, WitnessGrows DEF Admitted, vars
<1>3. CASE Deliver
  BY <1>3 DEF Deliver, Admitted
<1>4. ASSUME call # NoCall, NEW s \in Stages, Goto(s)
      PROVE  /\ call' # NoCall /\ call'.at = s
             /\ call'.msg = call.msg /\ call'.workspace = call.workspace
  <2>1. call' = [call EXCEPT !.at = s] /\ call \in Calls
    BY <1>4, CallTyped DEF Goto
  <2>2. call' \in Calls
    BY <2>1 DEF Calls
  <2>3. QED BY <2>1, <2>2, NoCallApart DEF Calls
<1>5. CASE Verify
  BY <1>4, <1>5 DEF Verify, At, Admitted, Stages
<1>6. CASE Enter
  <2>1. call # NoCall /\ call.at = "access" /\ call.workspace \in Workspaces /\ Goto("resolve")
    BY <1>6 DEF Enter, At, Placed
  <2>2. /\ call' # NoCall /\ call'.at = "resolve"
        /\ call'.msg = call.msg /\ call'.workspace = call.workspace
    BY <1>4, <2>1 DEF Stages
  <2>3. <<Sender[call'.msg], call'.workspace>> \in access'
    BY <1>6, <2>2 DEF Enter, MayEnter, admin
  <2>4. QED BY <1>6, <2>1, <2>2, <2>3, WitnessGrows DEF Enter, Admitted
<1>7. CASE Answer \/ Reply
  BY <1>4, <1>7, WitnessGrows DEF Answer, Reply, At, Admitted, Stages
<1>8. CASE ResolveUser
  <2>1. call # NoCall /\ call.at = "route" /\ call \in Calls
    BY <1>8, CallTyped DEF ResolveUser, At
  <2>2. call' = [call EXCEPT !.at = "access", !.workspace = home[Sender[call.msg]]]
    BY <1>8 DEF ResolveUser
  <2>3. /\ call'.at = "access" /\ call'.msg = call.msg
        /\ call'.workspace = home'[Sender[call'.msg]]
    BY <1>8, <2>1, <2>2 DEF ResolveUser, Calls, admin
  <2>4. QED BY <1>8, <2>1, <2>3, WitnessGrows DEF ResolveUser, Admitted
<1>9. CASE Resolved
  <2> DEFINE secrets == Secrets(server, vault[call.workspace])
             env == ResolvedEnv(Globals, OfWorkspace, OfUser, secrets)
  <2>1. call' = [call EXCEPT !.at = "converse", !.env = env, !.trace = Redact(env, secrets)]
    BY <1>9 DEF Resolved
  <2> HIDE DEF env, secrets
  <2>2. call # NoCall /\ call.at = "resolve" /\ call \in Calls
    BY <1>9, CallTyped DEF Resolved, At
  <2>3. /\ call'.at = "converse" /\ call'.msg = call.msg
        /\ call'.workspace = call.workspace
    BY <2>1, <2>2 DEF Calls
  <2>4. QED BY <1>9, <2>2, <2>3, WitnessGrows DEF Resolved, Admitted
<1>10. QED BY <1>1, <1>2, <1>3, <1>5, <1>6, <1>7, <1>8, <1>9, CallSteps

(* TurnsAdmitted: verification, routing and access come before the agent in *)
(* every call, and each is asked for again when a message is redelivered.   *)
THEOREM AdmittedAlways == Spec => []TurnsAdmitted
<1>1. Init => Placed /\ Admitted
  BY DEF Init, Placed, Admitted
<1>2. TypeOK /\ Placed /\ Admitted /\ [Next]_vars => (Placed /\ Admitted)'
  BY PlacedStays, AdmittedStays
<1>3. Admitted => TurnsAdmitted
  BY DEF Admitted, TurnsAdmitted, At
<1>4. QED BY <1>1, <1>2, <1>3, InboundTyped, PTL DEF Spec

-------------------------------------------------------------------------------
(* Secrets.                                                                 *)

LEMMA RedactHides ==
  ASSUME NEW env, NEW S
  PROVE  /\ DOMAIN Redact(env, S) = DOMAIN env
         /\ \A v \in DOMAIN env : Redact(env, S)[v] = IF v \in S THEN Redacted ELSE env[v]
BY DEF Redact

LEMMA WholeStays ==
  ASSUME TypeOK, Placed, SecretsWhole, [Next]_vars
  PROVE  SecretsWhole'
<1>1. CASE call' = call /\ (Witness \/ UNCHANGED vars)
  <2>1. ASSUME call # NoCall PROVE witnessed.secrets \subseteq witnessed'.secrets
    BY <1>1, <2>1, WitnessGrows DEF vars
  <2>2. QED BY <1>1, <2>1 DEF SecretsWhole, At
<1>2. CASE Resolved
  <2>1. call # NoCall /\ call \in Calls /\ call.workspace \in Workspaces
    BY <1>2, CallTyped DEF Resolved, At, Placed
  <2>2. PICK S : S = Secrets(server, vault[call.workspace])
    OBVIOUS
  <2>3. PICK env : env = ResolvedEnv(Globals, OfWorkspace, OfUser, S)
    OBVIOUS
  <2>4. call' = [call EXCEPT !.at = "converse", !.env = env, !.trace = Redact(env, S)]
    BY <1>2, <2>2, <2>3 DEF Resolved
  <2>5. /\ call'.workspace = call.workspace /\ call'.env = env
        /\ call'.trace = Redact(env, S) /\ call'.at = "converse"
    BY <2>1, <2>4 DEF Calls
  <2>6. S = {v \in DOMAIN env : env[v] = "secret"}
    BY <2>3, SecretsOnTop
  <2>7. <<call'.workspace, S>> \in witnessed'.secrets
    <3>1. S = vault'[call.workspace]
      BY <1>2, <2>2, InboundAssumption DEF Resolved, admin, Serves, Secrets, TypeOK
    <3>2. call' # NoCall
      BY <2>5, InboundAssumption DEF NoCall, Stages
    <3>3. QED BY <1>2, <2>1, <2>5, <3>1, <3>2, WitnessGrows DEF Resolved
  <2>8. QED BY <2>5, <2>6, <2>7, RedactHides DEF SecretsWhole
<1>3. ASSUME call # NoCall, NEW s \in Stages \ {"converse"}, Goto(s) PROVE ~At("converse")'
  BY <1>3, CallTyped DEF Goto, Calls, At
<1>4. CASE Verify \/ Enter \/ Answer \/ Reply
  BY <1>3, <1>4 DEF Verify, Enter, Answer, Reply, At, Stages, SecretsWhole
<1>5. CASE Deliver
  BY <1>5 DEF Deliver, At, SecretsWhole
<1>6. CASE ResolveUser
  BY <1>6, CallTyped DEF ResolveUser, At, Calls, SecretsWhole
<1>7. CASE call' = NoCall
  BY <1>7 DEF At, SecretsWhole
<1>8. QED BY <1>1, <1>2, <1>4, <1>5, <1>6, <1>7, CallSteps

(* SecretsWhole, for any layers: resolve() gives all the secrets or raises, *)
(* and the copy for the trace shows none.                                   *)
THEOREM WholeAlways == Spec => []SecretsWhole
<1>1. Init => Placed /\ SecretsWhole
  BY DEF Init, Placed, SecretsWhole, At
<1>2. TypeOK /\ Placed /\ SecretsWhole /\ [Next]_vars => (Placed /\ SecretsWhole)'
  BY PlacedStays, WholeStays
<1>3. QED BY <1>1, <1>2, InboundTyped, PTL DEF Spec

-------------------------------------------------------------------------------
(* Answers.  Every message is still to come, being handled, refused or      *)
(* answered; and what the ledger takes for a duplicate was answered, or is  *)
(* about to be.                                                             *)

Answered(m) == tally[m].replies > 0 \/ tally[m].lost > 0

Heard ==
  /\ \A m \in Messages :
       \/ m \in pending \cup refused \/ Answered(m)
       \/ call # NoCall /\ call.msg = m
  /\ \A w \in Workspaces, m \in Messages :
       <<w, m>> \in seen => Answered(m) \/ (At("reply") /\ call.msg = m)
  /\ At("return") => Answered(call.msg)

(* A step that takes on the call, from a stage other than the reply.        *)
LEMMA GoesOnHeard ==
  ASSUME TypeOK, Heard, call # NoCall, call' # NoCall, call'.msg = call.msg,
         call.at # "reply", call'.at # "return",
         UNCHANGED <<ledger, pending, tally, refused>>
  PROVE  Heard'
BY DEF Heard, At, Answered, ledger

(* A step after which the provider is done with the message, or has it yet  *)
(* to deliver.                                                              *)
LEMMA EndsHeard ==
  ASSUME TypeOK, Heard, call # NoCall, call' = NoCall, call.at # "reply",
         seen' \subseteq seen, UNCHANGED tally,
         pending \subseteq pending', refused \subseteq refused',
         call.msg \in pending' \cup refused' \/ Answered(call.msg)
  PROVE  Heard'
BY DEF Heard, At, Answered

LEMMA HeardStays ==
  ASSUME TypeOK, Placed, Heard, [Next]_vars
  PROVE  Heard'
<1>1. CASE Deliver
  BY <1>1 DEF Deliver, Heard, At, Answered, ledger, NoCall
<1>2. ASSUME call # NoCall, NEW s \in Stages, Goto(s)
      PROVE  call' # NoCall /\ call'.at = s /\ call'.msg = call.msg
  <2>1. call' = [call EXCEPT !.at = s] /\ call \in Calls
    BY <1>2, CallTyped DEF Goto
  <2>2. QED BY <2>1, InboundAssumption DEF Calls, NoCall
<1>3. CASE Verify
  BY <1>2, <1>3, GoesOnHeard DEF Verify, At, Stages
<1>4. CASE Enter
  BY <1>2, <1>4, GoesOnHeard DEF Enter, At, Stages
<1>5. CASE ResolveUser
  <2>1. call # NoCall /\ call.at = "route" /\ call \in Calls
    BY <1>5, CallTyped DEF ResolveUser, At
  <2>2. call' # NoCall /\ call'.at = "access" /\ call'.msg = call.msg
    BY <1>5, <2>1, InboundAssumption DEF ResolveUser, Calls, NoCall, Stages
  <2>3. QED BY <1>5, <2>1, <2>2, GoesOnHeard DEF ResolveUser
<1>6. CASE Resolved
  <2>1. call # NoCall /\ call.at = "resolve" /\ call \in Calls
    BY <1>6, CallTyped DEF Resolved, At
  <2>2. PICK env, trace :
          call' = [call EXCEPT !.at = "converse", !.env = env, !.trace = trace]
    BY <1>6 DEF Resolved
  <2>3. call' # NoCall /\ call'.at = "converse" /\ call'.msg = call.msg
    BY <2>1, <2>2, InboundAssumption DEF Calls, NoCall, Stages
  <2>4. QED BY <1>6, <2>1, <2>3, GoesOnHeard DEF Resolved
<1>7. CASE RefuseUnverified \/ RefuseUnroutable \/ RefuseAccess \/ RefuseSpent
  <2>1. call # NoCall /\ call.at # "reply" /\ Refuse
    BY <1>7 DEF RefuseUnverified, RefuseUnroutable, RefuseAccess, RefuseSpent, At
  <2>2. QED BY <2>1, EndsHeard DEF Refuse, Settle, ledger
<1>8. CASE ResolveFails
  BY <1>8, EndsHeard DEF ResolveFails, At, Escape, ledger
<1>9. CASE OpenSession
  BY <1>9 DEF OpenSession, Ledger!Open, Heard, At, Answered
<1>10. CASE DropDuplicate
  <2>1. call # NoCall /\ call.at = "converse" /\ call.workspace \in Workspaces
        /\ call.msg \in Messages /\ <<call.workspace, call.msg>> \in seen
    BY <1>10, CallTyped DEF DropDuplicate, At, Duplicate, Entry, Placed
  <2>2. Answered(call.msg)
    BY <2>1 DEF Heard, At
  <2>3. QED BY <1>10, <2>1, <2>2, EndsHeard DEF DropDuplicate, Settle, ledger
<1>11. CASE Return
  BY <1>11, EndsHeard DEF Return, At, Settle, ledger, Heard
<1>12. CASE Answer
  <2>1. call # NoCall /\ call.at = "converse" /\ call.workspace \in Workspaces
        /\ call.msg \in Messages /\ Goto("reply")
    BY <1>12, CallTyped DEF Answer, At, Placed
  <2>2. call' # NoCall /\ call'.at = "reply" /\ call'.msg = call.msg
    BY <1>2, <2>1 DEF Stages
  <2>3. seen' \subseteq seen \cup {<<call.workspace, call.msg>>}
    BY <1>12, <2>1, LedgerAnswers DEF Answer, Entry
  <2>4. ASSUME NEW m \in Messages PROVE Answered(m) => Answered(m)'
    BY <1>12, <2>1 DEF Answer, Answered, TypeOK
  <2>5. UNCHANGED <<pending, refused>>
    BY <1>12 DEF Answer
  <2>6. QED BY <2>1, <2>2, <2>3, <2>4, <2>5 DEF Heard, At
<1>13. CASE Reply
  <2>1. call # NoCall /\ call.at = "reply" /\ call.msg \in Messages /\ Goto("return")
    BY <1>13, CallTyped DEF Reply, At
  <2>2. call' # NoCall /\ call'.at = "return" /\ call'.msg = call.msg
    BY <1>2, <2>1 DEF Stages
  <2>3. ASSUME NEW m \in Messages PROVE Answered(m) \/ m = call.msg => Answered(m)'
    BY <1>13, <2>1 DEF Reply, Answered, TypeOK
  <2>4. UNCHANGED <<ledger, pending, refused>>
    BY <1>13 DEF Reply
  <2>5. QED BY <2>1, <2>2, <2>3, <2>4 DEF Heard, At, ledger
<1>14. CASE AgentFails \/ SendFails \/ Crash
  <2>1. /\ call # NoCall /\ Fails /\ call.msg \in Messages
        /\ call' = NoCall /\ pending' = pending \cup {call.msg} /\ UNCHANGED refused
    BY <1>14, CallTyped DEF AgentFails, SendFails, Crash, At, Fails, Escape
  <2>2. seen' \subseteq seen
    BY <2>1, LedgerFails DEF Fails
  <2>3. CASE call.at # "reply"
    BY <1>14, <2>1, <2>2, <2>3, EndsHeard DEF AgentFails, SendFails, Crash, At
  <2>4. CASE call.at = "reply"
    <3>1. \/ tally' = [tally EXCEPT ![call.msg] = Lose(@)]
          \/ tally' = [tally EXCEPT ![call.msg] = Unmark(Lose(@))]
      BY <1>14, <2>1, <2>4 DEF AgentFails, SendFails, Crash, At
    <3>2. ASSUME NEW t \in [turns : Nat, replies : Nat, lost : Nat, unmarked : Nat]
          PROVE  Lose(t).lost > 0 /\ Unmark(Lose(t)).lost > 0
      BY DEF Lose, Unmark
    <3>3. ASSUME NEW m \in Messages PROVE Answered(m) \/ m = call.msg => Answered(m)'
      BY <2>1, <3>1, <3>2 DEF Answered, TypeOK
    <3>4. QED BY <2>1, <2>2, <2>4, <3>3 DEF Heard, At
  <2>5. QED BY <2>3, <2>4
<1>15. CASE Redeliver \/ Change \/ ServerChanges \/ ServerRecovers
  <2>1. pending \subseteq pending' /\ UNCHANGED <<ledger, call, tally, refused>>
    BY <1>15 DEF Redeliver, Change, ServerChanges, ServerRecovers
  <2>2. QED BY <2>1 DEF Heard, At, Answered, ledger
<1>16. CASE UNCHANGED vars
  BY <1>16 DEF vars, Heard, At, Answered
<1>17. QED BY <1>1, <1>3, <1>4, <1>5, <1>6, <1>7, <1>8, <1>9, <1>10, <1>11, <1>12,
              <1>13, <1>14, <1>15, <1>16 DEF Next, Step, Quiet

(* NothingUnheard: no path through handle_raw and its failures ends without *)
(* a reply, a refusal, a lost reply or another delivery.                    *)
THEOREM HeardAlways == Spec => []NothingUnheard
<1>1. Init => Placed /\ Heard
  BY DEF Init, Placed, Heard, At, Ledger!Init
<1>2. TypeOK /\ Placed /\ Heard /\ [Next]_vars => (Placed /\ Heard)'
  BY PlacedStays, HeardStays
<1>3. Heard => NothingUnheard
  BY DEF Heard, NothingUnheard, Settled, Answered
<1>4. QED BY <1>1, <1>2, <1>3, InboundTyped, PTL DEF Spec

-------------------------------------------------------------------------------
(* Turns.  A turn is marked in the workspace it ran in, or its mark was     *)
(* lost; and that workspace was the sender's default.                       *)

MarkedIn(m) == {w \in Workspaces : <<w, m>> \in seen}

Unheard(m) == IF At("reply") /\ call.msg = m THEN 1 ELSE 0

Counted ==
  /\ \A m \in Messages : tally[m].replies + tally[m].lost + Unheard(m) <= tally[m].turns
  /\ \A m \in Identified : tally[m].turns <= Cardinality(MarkedIn(m)) + tally[m].unmarked

AtHome ==
  /\ \A u \in Users : home[u] \in homes[u]
  /\ \A m \in Messages : MarkedIn(m) \subseteq homes[Sender[m]]
  /\ call # NoCall /\ call.at \notin {"verify", "route"} =>
       call.workspace \in homes[Sender[call.msg]]

LEMMA MarkedFinite ==
  ASSUME NEW m
  PROVE  IsFiniteSet(MarkedIn(m)) /\ Cardinality(MarkedIn(m)) \in Nat
BY InboundAssumption, FS_Subset, FS_CardinalityType DEF MarkedIn

LEMMA CountedBounds ==
  ASSUME TypeOK, Counted, AtHome
  PROVE  TurnsBounded
<1> SUFFICES ASSUME NEW m \in Messages
             PROVE  /\ tally[m].replies + tally[m].lost <= tally[m].turns
                    /\ m \in Identified =>
                         tally[m].turns <= Cardinality(homes[Sender[m]] \ {None}) + tally[m].unmarked
  BY DEF TurnsBounded
<1>1. tally[m] \in [turns : Nat, replies : Nat, lost : Nat, unmarked : Nat]
  BY DEF TypeOK
<1>2. tally[m].replies + tally[m].lost <= tally[m].turns
  BY <1>1 DEF Counted, Unheard
<1>3. ASSUME m \in Identified
      PROVE  tally[m].turns <= Cardinality(homes[Sender[m]] \ {None}) + tally[m].unmarked
  <2>1. homes[Sender[m]] \ {None} \subseteq Workspaces
    BY InboundAssumption DEF TypeOK
  <2>2. IsFiniteSet(homes[Sender[m]] \ {None})
    BY <2>1, InboundAssumption, FS_Subset
  <2>3. MarkedIn(m) \subseteq homes[Sender[m]] \ {None}
    BY InboundAssumption DEF AtHome, MarkedIn
  <2>4. Cardinality(MarkedIn(m)) <= Cardinality(homes[Sender[m]] \ {None})
    BY <2>2, <2>3, FS_Subset
  <2>5. Cardinality(homes[Sender[m]] \ {None}) \in Nat /\ Cardinality(MarkedIn(m)) \in Nat
    BY <2>2, FS_CardinalityType, MarkedFinite
  <2>6. tally[m].turns <= Cardinality(MarkedIn(m)) + tally[m].unmarked
    BY <1>3 DEF Counted
  <2>7. QED BY <1>1, <2>4, <2>5, <2>6
<1>4. QED BY <1>2, <1>3

(* Marking one more workspace counts one more, unmarking one counts one     *)
(* less.                                                                    *)
LEMMA MarkCounts ==
  ASSUME NEW m, NEW w \in Workspaces, <<w, m>> \notin seen,
         seen' = seen \cup {<<w, m>>}
  PROVE  Cardinality(MarkedIn(m)') = Cardinality(MarkedIn(m)) + 1
<1>1. MarkedIn(m)' = MarkedIn(m) \cup {w} /\ w \notin MarkedIn(m)
  BY DEF MarkedIn
<1>2. QED BY <1>1, MarkedFinite, FS_AddElement

LEMMA UnmarkCounts ==
  ASSUME NEW m, NEW w \in Workspaces, <<w, m>> \in seen,
         seen' = seen \ {<<w, m>>}
  PROVE  Cardinality(MarkedIn(m)') = Cardinality(MarkedIn(m)) - 1
<1>1. MarkedIn(m)' = MarkedIn(m) \ {w} /\ w \in MarkedIn(m)
  BY DEF MarkedIn
<1>2. QED BY <1>1, MarkedFinite, FS_RemoveElement

LEMMA CountedIdle ==
  ASSUME TypeOK, Counted, UNCHANGED <<seen, tally>>, ~At("reply")'
  PROVE  Counted'
<1>1. ASSUME NEW m \in Messages
      PROVE  tally'[m].replies + tally'[m].lost + Unheard(m)' <= tally'[m].turns
  <2>1. tally[m] \in [turns : Nat, replies : Nat, lost : Nat, unmarked : Nat]
    BY DEF TypeOK
  <2>2. QED BY <2>1 DEF Counted, Unheard
<1>2. QED BY <1>1 DEF Counted, MarkedIn

LEMMA CountedStays ==
  ASSUME TypeOK, Placed, Counted, [Next]_vars
  PROVE  Counted'
<1>1. CASE Deliver \/ Verify \/ ResolveUser \/ Enter \/ Resolved
  <2>1. UNCHANGED <<seen, tally>>
    BY <1>1 DEF Deliver, Verify, ResolveUser, Enter, Resolved, ledger
  <2>2. ~At("reply")'
    <3>1. CASE Deliver
      BY <3>1 DEF Deliver, At
    <3>2. CASE Verify \/ Enter
      BY <3>2, CallTyped DEF Verify, Enter, Goto, At, Calls
    <3>3. CASE ResolveUser
      BY <3>3, CallTyped DEF ResolveUser, At, Calls
    <3>4. CASE Resolved
      <4>1. PICK env, trace :
              call' = [call EXCEPT !.at = "converse", !.env = env, !.trace = trace]
        BY <3>4 DEF Resolved
      <4>2. QED BY <3>4, <4>1, CallTyped DEF Resolved, At, Calls
    <3>5. QED BY <1>1, <3>1, <3>2, <3>3, <3>4
  <2>3. QED BY <2>1, <2>2, CountedIdle
<1>2. CASE RefuseUnverified \/ RefuseUnroutable \/ RefuseAccess \/ RefuseSpent
  BY <1>2, CountedIdle DEF RefuseUnverified, RefuseUnroutable, RefuseAccess, RefuseSpent,
                           Refuse, Settle, ledger, At
<1>3. CASE DropDuplicate \/ Return \/ ResolveFails
  BY <1>3, CountedIdle DEF DropDuplicate, Return, Settle, ResolveFails, Escape, ledger, At
<1>4. CASE OpenSession \/ Redeliver \/ Change \/ ServerChanges \/ ServerRecovers \/ UNCHANGED vars
  <2>1. UNCHANGED <<seen, tally, call>>
    BY <1>4 DEF OpenSession, Ledger!Open, Redeliver, Change, ServerChanges, ServerRecovers,
                ledger, vars
  <2>2. QED BY <2>1 DEF Counted, Unheard, At, MarkedIn
<1>5. CASE Answer
  <2>1. /\ call # NoCall /\ call.at = "converse" /\ call.workspace \in Workspaces
        /\ call.msg \in Messages /\ call \in Calls
    BY <1>5, CallTyped DEF Answer, At, Placed
  <2>2. call' = [call EXCEPT !.at = "reply"]
    BY <1>5 DEF Answer, Goto
  <2>3. call'.msg = call.msg
    BY <2>1, <2>2 DEF Calls
  <2>4. tally' = [tally EXCEPT ![call.msg].turns = @ + 1]
    BY <1>5 DEF Answer
  <2>5. /\ <<call.workspace, call.msg>> \notin seen
        /\ seen' = seen \cup ({<<call.workspace, call.msg>>} \cap (Workspaces \X Identified))
    BY <1>5 DEF Answer, Ledger!Answer, Entry
  <2>6. ASSUME NEW m \in Messages
        PROVE  tally'[m].replies + tally'[m].lost + Unheard(m)' <= tally'[m].turns
    <3>1. tally[m] \in [turns : Nat, replies : Nat, lost : Nat, unmarked : Nat]
      BY DEF TypeOK
    <3>2. Unheard(m) = 0 /\ tally[m].replies + tally[m].lost + Unheard(m) <= tally[m].turns
      BY <2>1 DEF Unheard, At, Counted
    <3>3. CASE m = call.msg
      <4>1. tally'[m] = [tally[m] EXCEPT !.turns = @ + 1]
        BY <2>4, <3>3 DEF TypeOK
      <4>2. Unheard(m)' \in {0, 1}
        BY DEF Unheard
      <4>3. QED BY <3>1, <3>2, <4>1, <4>2
    <3>4. CASE m # call.msg
      BY <2>3, <2>4, <3>1, <3>2, <3>4 DEF Unheard, TypeOK
    <3>5. QED BY <3>3, <3>4
  <2>7. ASSUME NEW m \in Identified
        PROVE  tally'[m].turns <= Cardinality(MarkedIn(m)') + tally'[m].unmarked
    <3>1. m \in Messages /\ tally[m] \in [turns : Nat, replies : Nat, lost : Nat, unmarked : Nat]
      BY InboundAssumption DEF TypeOK
    <3>2. tally[m].turns <= Cardinality(MarkedIn(m)) + tally[m].unmarked
      BY DEF Counted
    <3>3. CASE m = call.msg
      <4>1. seen' = seen \cup {<<call.workspace, m>>}
        BY <2>1, <2>5, <3>3
      <4>2. Cardinality(MarkedIn(m)') = Cardinality(MarkedIn(m)) + 1
        BY <2>1, <2>5, <3>3, <4>1, MarkCounts
      <4>3. tally'[m] = [tally[m] EXCEPT !.turns = @ + 1]
        BY <2>4, <3>1, <3>3 DEF TypeOK
      <4>4. QED BY <3>1, <3>2, <4>2, <4>3, MarkedFinite
    <3>4. CASE m # call.msg
      <4>1. MarkedIn(m)' = MarkedIn(m)
        BY <2>5, <3>4 DEF MarkedIn
      <4>2. tally'[m] = tally[m]
        BY <2>4, <3>1, <3>4 DEF TypeOK
      <4>3. QED BY <3>2, <4>1, <4>2
    <3>5. QED BY <3>3, <3>4
  <2>8. QED BY <2>6, <2>7 DEF Counted
<1>6. CASE Reply
  <2>1. call # NoCall /\ call.at = "reply" /\ call.msg \in Messages /\ call \in Calls
    BY <1>6, CallTyped DEF Reply, At
  <2>2. call'.at = "return"
    BY <1>6, <2>1 DEF Reply, Goto, Calls
  <2>3. tally' = [tally EXCEPT ![call.msg].replies = @ + 1] /\ seen' = seen
    BY <1>6 DEF Reply, ledger
  <2>4. ASSUME NEW m \in Messages
        PROVE  /\ tally'[m].replies + tally'[m].lost + Unheard(m)' <= tally'[m].turns
               /\ tally'[m].turns = tally[m].turns /\ tally'[m].unmarked = tally[m].unmarked
    <3>1. tally[m] \in [turns : Nat, replies : Nat, lost : Nat, unmarked : Nat]
      BY DEF TypeOK
    <3>2. Unheard(m)' = 0 /\ Unheard(m) = IF m = call.msg THEN 1 ELSE 0
      BY <2>1, <2>2 DEF Unheard, At
    <3>3. tally[m].replies + tally[m].lost + Unheard(m) <= tally[m].turns
      BY DEF Counted
    <3>4. tally'[m] = IF m = call.msg THEN [tally[m] EXCEPT !.replies = @ + 1] ELSE tally[m]
      BY <2>3 DEF TypeOK
    <3>5. QED BY <3>1, <3>2, <3>3, <3>4
  <2>5. QED BY <2>3, <2>4, InboundAssumption DEF Counted, MarkedIn
<1>7. CASE AgentFails \/ SendFails \/ Crash
  <2>1. call # NoCall /\ call' = NoCall /\ call.msg \in Messages
    BY <1>7, CallTyped DEF AgentFails, SendFails, Crash, At, Fails, Escape
  <2> PICK m0 \in Messages : m0 = call.msg
    BY <2>1
  <2>2. CASE UNCHANGED <<seen, tally>>
    BY <2>1, <2>2, CountedIdle DEF At
  <2>3. ASSUME At("reply"), NEW k \in Nat,
               tally'[m0] \in [turns : Nat, replies : Nat, lost : Nat, unmarked : Nat],
               tally'[m0].turns = tally[m0].turns,
               tally'[m0].replies = tally[m0].replies,
               tally'[m0].lost = tally[m0].lost + 1,
               tally'[m0].unmarked = tally[m0].unmarked + k,
               \A m \in Messages \ {m0} : tally'[m] = tally[m],
               Cardinality(MarkedIn(m0)') + k = Cardinality(MarkedIn(m0)),
               Cardinality(MarkedIn(m0)') \in Nat,
               \A m \in Messages \ {m0} : MarkedIn(m)' = MarkedIn(m)
        PROVE  Counted'
    <3>1. ASSUME NEW m \in Messages
          PROVE  tally'[m].replies + tally'[m].lost + Unheard(m)' <= tally'[m].turns
      <4>1. tally[m] \in [turns : Nat, replies : Nat, lost : Nat, unmarked : Nat]
        BY DEF TypeOK
      <4>2. Unheard(m)' = 0 /\ Unheard(m) = IF m = m0 THEN 1 ELSE 0
        BY <2>1, <2>3 DEF Unheard, At
      <4>3. tally[m].replies + tally[m].lost + Unheard(m) <= tally[m].turns
        BY DEF Counted
      <4>4. QED BY <2>3, <4>1, <4>2, <4>3
    <3>2. ASSUME NEW m \in Identified
          PROVE  tally'[m].turns <= Cardinality(MarkedIn(m)') + tally'[m].unmarked
      <4>1. m \in Messages /\ tally[m] \in [turns : Nat, replies : Nat, lost : Nat, unmarked : Nat]
        BY InboundAssumption DEF TypeOK
      <4>2. tally[m].turns <= Cardinality(MarkedIn(m)) + tally[m].unmarked
        BY DEF Counted
      <4>3. CASE m = m0
        BY <2>3, <4>1, <4>2, <4>3, MarkedFinite
      <4>4. CASE m # m0
        BY <2>3, <4>1, <4>2, <4>4
      <4>5. QED BY <4>3, <4>4
    <3>3. QED BY <3>1, <3>2 DEF Counted
  <2>4. tally[m0] \in [turns : Nat, replies : Nat, lost : Nat, unmarked : Nat]
    BY <2>1 DEF TypeOK
  <2>5. ASSUME NEW t \in [turns : Nat, replies : Nat, lost : Nat, unmarked : Nat]
        PROVE  /\ Lose(t) \in [turns : Nat, replies : Nat, lost : Nat, unmarked : Nat]
               /\ Lose(t).turns = t.turns /\ Lose(t).replies = t.replies
               /\ Lose(t).lost = t.lost + 1 /\ Lose(t).unmarked = t.unmarked
               /\ Unmark(t) \in [turns : Nat, replies : Nat, lost : Nat, unmarked : Nat]
               /\ Unmark(t).turns = t.turns /\ Unmark(t).replies = t.replies
               /\ Unmark(t).lost = t.lost /\ Unmark(t).unmarked = t.unmarked + 1
    BY DEF Lose, Unmark
  <2>6. CASE At("reply") /\ UNCHANGED seen /\ tally' = [tally EXCEPT ![call.msg] = Lose(@)]
    <3>1. tally'[m0] = Lose(tally[m0])
          /\ \A m \in Messages \ {m0} : tally'[m] = tally[m]
      BY <2>1, <2>6 DEF TypeOK
    <3>2. \A m \in Messages : MarkedIn(m)' = MarkedIn(m)
      BY <2>6 DEF MarkedIn
    <3>3. tally[m0].unmarked + 0 = tally[m0].unmarked
      BY <2>4
    <3>4. /\ Cardinality(MarkedIn(m0)') \in Nat
          /\ Cardinality(MarkedIn(m0)') + 0 = Cardinality(MarkedIn(m0))
      BY <2>1, <3>2, MarkedFinite
    <3>5. 0 \in Nat
      OBVIOUS
    <3>6. QED BY <2>3, <2>4, <2>5, <2>6, <3>1, <3>2, <3>3, <3>4, <3>5
  <2>7. CASE /\ At("reply") /\ Entry \in seen /\ seen' = seen \ {Entry}
             /\ tally' = [tally EXCEPT ![call.msg] = Unmark(Lose(@))]
    <3>1. tally'[m0] = Unmark(Lose(tally[m0]))
          /\ \A m \in Messages \ {m0} : tally'[m] = tally[m]
      BY <2>1, <2>7 DEF TypeOK
    <3>2. \A m \in Messages \ {m0} : MarkedIn(m)' = MarkedIn(m)
      BY <2>7 DEF MarkedIn, Entry
    <3>3. call.workspace \in Workspaces
      BY <2>1, <2>7 DEF At, Placed
    <3>4. Cardinality(MarkedIn(m0)') = Cardinality(MarkedIn(m0)) - 1
      BY <2>7, <3>3, UnmarkCounts DEF Entry
    <3>5. IsFiniteSet(MarkedIn(m0)')
      BY InboundAssumption, FS_Subset DEF MarkedIn
    <3>6. Cardinality(MarkedIn(m0)') \in Nat
      BY <3>5, FS_CardinalityType
    <3>7. Cardinality(MarkedIn(m0)') + 1 = Cardinality(MarkedIn(m0))
      BY <3>4, <3>6, MarkedFinite
    <3>8. 1 \in Nat
      OBVIOUS
    <3>9. /\ tally'[m0] \in [turns : Nat, replies : Nat, lost : Nat, unmarked : Nat]
          /\ tally'[m0].turns = tally[m0].turns
          /\ tally'[m0].replies = tally[m0].replies
          /\ tally'[m0].lost = tally[m0].lost + 1
          /\ tally'[m0].unmarked = tally[m0].unmarked + 1
      <4>1. PICK l \in [turns : Nat, replies : Nat, lost : Nat, unmarked : Nat] :
              /\ l = Lose(tally[m0])
              /\ l.turns = tally[m0].turns /\ l.replies = tally[m0].replies
              /\ l.lost = tally[m0].lost + 1 /\ l.unmarked = tally[m0].unmarked
        BY <2>4, <2>5
      <4>2. tally'[m0] = Unmark(l)
        BY <3>1, <4>1
      <4>3. /\ Unmark(l) \in [turns : Nat, replies : Nat, lost : Nat, unmarked : Nat]
            /\ Unmark(l).turns = l.turns /\ Unmark(l).replies = l.replies
            /\ Unmark(l).lost = l.lost /\ Unmark(l).unmarked = l.unmarked + 1
        BY <2>5
      <4>4. QED BY <4>1, <4>2, <4>3
    <3>10. QED BY <2>3, <2>7, <3>1, <3>2, <3>6, <3>7, <3>8, <3>9
  <2>8. QED BY <1>7, <2>2, <2>6, <2>7 DEF AgentFails, SendFails, Crash
<1>8. QED BY <1>1, <1>2, <1>3, <1>4, <1>5, <1>6, <1>7 DEF Next, Step, Quiet

LEMMA AtHomeStays ==
  ASSUME TypeOK, Placed, AtHome, [Next]_vars
  PROVE  AtHome'
<1>1. ASSUME UNCHANGED <<home, homes>>, seen' \subseteq seen,
             call' = NoCall \/ call' = call
      PROVE  AtHome'
  BY <1>1 DEF AtHome, MarkedIn
<1>2. ASSUME call # NoCall, NEW s \in Stages, Goto(s)
      PROVE  call'.at = s /\ call'.msg = call.msg /\ call'.workspace = call.workspace
  BY <1>2, CallTyped DEF Goto, Calls
<1>3. CASE Deliver
  BY <1>3 DEF Deliver, admin, ledger, AtHome, MarkedIn
<1>4. CASE Verify
  BY <1>2, <1>4 DEF Verify, At, Stages, admin, ledger, AtHome, MarkedIn
<1>5. CASE Enter \/ Reply
  <2>1. /\ call # NoCall /\ call.at \notin {"verify", "route"}
        /\ call'.msg = call.msg /\ call'.workspace = call.workspace
    BY <1>2, <1>5 DEF Enter, Reply, At, Stages
  <2>2. UNCHANGED <<home, homes, seen>>
    BY <1>5 DEF Enter, Reply, admin, ledger
  <2>3. QED BY <2>1, <2>2 DEF AtHome, MarkedIn
<1>6. CASE ResolveUser
  <2>1. call \in Calls /\ call.msg \in Messages /\ Sender[call.msg] \in Users
    BY <1>6, CallTyped, InboundAssumption DEF ResolveUser, At
  <2>2. call' = [call EXCEPT !.at = "access", !.workspace = home[Sender[call.msg]]]
        /\ UNCHANGED <<home, homes, seen>>
    BY <1>6 DEF ResolveUser, admin, ledger
  <2>3. call'.msg = call.msg /\ call'.workspace = home[Sender[call.msg]]
    BY <2>1, <2>2 DEF Calls
  <2>4. QED BY <2>1, <2>2, <2>3 DEF AtHome, MarkedIn
<1>7. CASE Resolved
  <2>1. PICK env, trace :
          call' = [call EXCEPT !.at = "converse", !.env = env, !.trace = trace]
    BY <1>7 DEF Resolved
  <2>2. /\ call # NoCall /\ call.at = "resolve"
        /\ call'.msg = call.msg /\ call'.workspace = call.workspace
    BY <1>7, <2>1, CallTyped DEF Resolved, At, Calls
  <2>3. UNCHANGED <<home, homes, seen>>
    BY <1>7 DEF Resolved, admin, ledger
  <2>4. QED BY <2>2, <2>3 DEF AtHome, MarkedIn
<1>8. CASE Answer
  <2>1. /\ call # NoCall /\ call.at = "converse" /\ call.workspace \in Workspaces
        /\ call.msg \in Messages
        /\ call'.msg = call.msg /\ call'.workspace = call.workspace
    BY <1>2, <1>8, CallTyped DEF Answer, At, Placed, Stages
  <2>2. seen' \subseteq seen \cup {<<call.workspace, call.msg>>}
    BY <1>8, <2>1, LedgerAnswers DEF Answer, Entry
  <2>3. call.workspace \in homes[Sender[call.msg]] /\ UNCHANGED <<home, homes>>
    BY <1>8, <2>1 DEF AtHome, Answer, admin
  <2>4. ASSUME NEW m \in Messages PROVE MarkedIn(m)' \subseteq homes[Sender[m]]
    BY <2>2, <2>3 DEF AtHome, MarkedIn
  <2>5. QED BY <2>1, <2>3, <2>4 DEF AtHome
<1>9. CASE RefuseUnverified \/ RefuseUnroutable \/ RefuseAccess \/ RefuseSpent
  BY <1>1, <1>9 DEF RefuseUnverified, RefuseUnroutable, RefuseAccess, RefuseSpent,
                    Refuse, Settle, admin, ledger
<1>10. CASE DropDuplicate \/ Return \/ ResolveFails
  BY <1>1, <1>10 DEF DropDuplicate, Return, Settle, ResolveFails, Escape, admin, ledger
<1>11. CASE AgentFails \/ SendFails \/ Crash
  BY <1>1, <1>11, LedgerFails DEF AgentFails, SendFails, Crash, Fails, Escape, admin
<1>12. CASE OpenSession \/ Redeliver \/ ServerChanges \/ ServerRecovers \/ UNCHANGED vars
  BY <1>1, <1>12 DEF OpenSession, Ledger!Open, Redeliver, ServerChanges, ServerRecovers,
                     admin, ledger, vars
<1>13. CASE Change
  <2>1. UNCHANGED <<call, seen>>
    BY <1>13 DEF Change, ledger
  <2>2. CASE UNCHANGED <<home, homes>>
    BY <1>1, <2>1, <2>2
  <2>3. CASE Move
    <3>1. PICK u \in Users, w \in Workspaces \cup {None} :
            home' = [home EXCEPT ![u] = w] /\ homes' = [homes EXCEPT ![u] = @ \cup {w}]
      BY <2>3 DEF Move
    <3>2. ASSUME NEW v \in Users
          PROVE  homes[v] \subseteq homes'[v] /\ home'[v] \in homes'[v]
      BY <3>1 DEF AtHome, TypeOK
    <3>3. \A m \in Messages : Sender[m] \in Users
      BY InboundAssumption
    <3>4. \A m \in Messages : MarkedIn(m)' \subseteq homes'[Sender[m]]
      BY <2>1, <3>2, <3>3 DEF AtHome, MarkedIn
    <3>5. call # NoCall => Sender[call.msg] \in Users
      BY <3>3, CallTyped
    <3>6. QED BY <2>1, <3>2, <3>4, <3>5 DEF AtHome
  <2>4. QED BY <1>13, <2>2, <2>3 DEF Change, Authorize, Rotate
<1>14. QED BY <1>3, <1>4, <1>5, <1>6, <1>7, <1>8, <1>9, <1>10, <1>11, <1>12, <1>13
           DEF Next, Step, Quiet

(* TurnsBounded, for any number of deliveries: an identified message is     *)
(* answered once in a workspace, and once more per mark that was lost.      *)
THEOREM BoundedAlways == Spec => []TurnsBounded
<1>1. Init => Placed /\ Counted /\ AtHome
  <2> SUFFICES ASSUME Init PROVE Placed /\ Counted /\ AtHome
    OBVIOUS
  <2>1. \A m \in Messages : tally[m] = [turns |-> 0, replies |-> 0, lost |-> 0, unmarked |-> 0]
    BY DEF Init
  <2>2. call = NoCall /\ seen = {}
    BY DEF Init, Ledger!Init
  <2>3. \A m \in Messages : MarkedIn(m) = {} /\ Unheard(m) = 0
    BY <2>2 DEF MarkedIn, Unheard, At
  <2>4. Cardinality({}) = 0
    BY FS_EmptySet
  <2>5. Counted
    <3>1. \A m \in Messages : tally[m].replies + tally[m].lost + Unheard(m) <= tally[m].turns
      BY <2>1, <2>3
    <3>2. ASSUME NEW m \in Identified
          PROVE  tally[m].turns <= Cardinality(MarkedIn(m)) + tally[m].unmarked
      <4>1. m \in Messages
        BY InboundAssumption
      <4>2. Cardinality(MarkedIn(m)) = 0
        BY <2>3, <2>4, <4>1
      <4>3. QED BY <2>1, <4>1, <4>2
    <3>3. QED BY <3>1, <3>2 DEF Counted
  <2>6. QED BY <2>2, <2>3, <2>5 DEF Init, Placed, AtHome
<1>2. TypeOK /\ Placed /\ Counted /\ AtHome /\ [Next]_vars => (Placed /\ Counted /\ AtHome)'
  BY PlacedStays, CountedStays, AtHomeStays
<1>3. TypeOK /\ Counted /\ AtHome => TurnsBounded
  BY CountedBounds
<1>4. QED BY <1>1, <1>2, <1>3, InboundTyped, PTL DEF Spec

-------------------------------------------------------------------------------
(* The ledger in the runner's hands.                                        *)

(* Every step of handle_raw, of the administrators and of a failure is a    *)
(* step of the ledger or leaves it alone.                                   *)
LEMMA LedgerMoves ==
  ASSUME TypeOK, Placed, [Next]_vars
  PROVE  \/ \E k \in Conversations :
              Ledger!Open(k) /\ limit'[k] = RoundsFor(k[1])
         \/ \E x \in Workspaces \X Messages : Ledger!Answer(x)
         \/ Ledger!Failure
         \/ UNCHANGED <<limit, rounds, seen, failures>>
<1>1. ASSUME At("converse")
      PROVE  Conversation \in Conversations /\ Entry \in Workspaces \X Messages
  BY <1>1, CallTyped, InboundAssumption DEF At, Placed, Conversation, Entry, Conversations
<1>2. CASE OpenSession
  BY <1>1, <1>2 DEF OpenSession, Conversation
<1>3. CASE Answer
  BY <1>1, <1>3 DEF Answer
<1>4. CASE AgentFails \/ SendFails \/ Crash
  BY <1>4 DEF AgentFails, SendFails, Crash, Fails
<1>5. CASE Verify \/ ResolveUser \/ Enter \/ Resolved \/ Reply
  BY <1>5 DEF Verify, ResolveUser, Enter, Resolved, Reply, ledger
<1>6. CASE RefuseUnverified \/ RefuseUnroutable \/ RefuseAccess \/ RefuseSpent
  BY <1>6 DEF RefuseUnverified, RefuseUnroutable, RefuseAccess, RefuseSpent, Refuse, ledger
<1>7. CASE Deliver \/ ResolveFails \/ DropDuplicate \/ Return
  BY <1>7 DEF Deliver, ResolveFails, DropDuplicate, Return, ledger
<1>8. CASE Redeliver \/ Change \/ ServerChanges \/ ServerRecovers \/ UNCHANGED vars
  BY <1>8 DEF Redeliver, Change, ServerChanges, ServerRecovers, ledger, vars
<1>9. QED BY <1>2, <1>3, <1>4, <1>5, <1>6, <1>7, <1>8 DEF Next, Step, Quiet

(* ChannelRunner uses the conversation layer as TurnLedger describes it: what *)
(* LedgerImplemented proves of handle() holds of the ledger assumed here.     *)
THEOREM LedgerObeyed == Spec => Ledger!Spec
<1>1. Init => Ledger!Init
  BY DEF Init
<1>2. TypeOK /\ Placed /\ [Next]_vars => [Ledger!Next]_(Ledger!vars)
  BY LedgerMoves DEF Ledger!Next, Ledger!vars
<1>3. Init => Placed
  BY DEF Init, Placed
<1>4. TypeOK /\ Placed /\ [Next]_vars => Placed'
  BY PlacedStays
<1>5. QED BY <1>1, <1>2, <1>3, <1>4, InboundTyped, PTL DEF Spec, Ledger!Spec

(* A conversation has the limit of its workspace's spec, 0 and none meaning  *)
(* the default, from its first message on, and never runs over it.           *)
RoundsWithinSpec ==
  \A k \in Conversations :
    IF limit[k] = None THEN rounds[k] = 0
                       ELSE limit[k] = RoundsFor(k[1]) /\ rounds[k] <= limit[k]

LEMMA WithinSpecStays ==
  ASSUME TypeOK, Placed, RoundsWithinSpec, [Next]_vars
  PROVE  RoundsWithinSpec'
<1> USE DEF RoundsWithinSpec
<1>1. ASSUME NEW k \in Conversations, Ledger!Open(k), limit'[k] = RoundsFor(k[1])
      PROVE  RoundsWithinSpec'
  <2>1. /\ rounds' = rounds /\ limit[k] = None /\ rounds[k] = 0
        /\ \A j \in Conversations \ {k} : limit'[j] = limit[j]
    BY <1>1 DEF Ledger!Open, TypeOK
  <2>2. RoundsFor(k[1]) \in Nat
    BY RoundsForTyped DEF Conversations
  <2>3. limit'[k] # None
    BY <1>1, <2>2, InboundAssumption
  <2>4. QED BY <1>1, <2>1, <2>2, <2>3
<1>2. ASSUME NEW w \in Workspaces, NEW m \in Messages, Ledger!Answer(<<w, m>>)
      PROVE  RoundsWithinSpec'
  <2> DEFINE k == <<w, Thread[m]>>
  <2>1. k \in Conversations
    BY InboundAssumption DEF Conversations
  <2>2. /\ limit[k] # None /\ rounds[k] < limit[k] /\ limit' = limit
        /\ rounds' = [rounds EXCEPT ![k] = @ + 1]
    BY <1>2 DEF Ledger!Answer
  <2>3. limit[k] \in Nat /\ rounds[k] \in Nat
    BY <2>1, <2>2 DEF TypeOK
  <2>4. rounds'[k] <= limit[k] /\ \A j \in Conversations \ {k} : rounds'[j] = rounds[j]
    BY <2>1, <2>2, <2>3 DEF TypeOK
  <2> HIDE DEF k
  <2>5. QED BY <2>1, <2>2, <2>4
<1>3. CASE UNCHANGED <<limit, rounds>>
  BY <1>3
<1>4. QED
  <2>1. ASSUME NEW x \in Workspaces \X Messages, Ledger!Answer(x) PROVE RoundsWithinSpec'
    <3>1. PICK w \in Workspaces, m \in Messages : x = <<w, m>>
      OBVIOUS
    <3>2. QED BY <1>2, <2>1, <3>1
  <2>2. CASE Ledger!Failure
    BY <1>3, <2>2, LedgerFails
  <2>3. QED BY <1>1, <1>3, <2>1, <2>2, LedgerMoves

(* However users move, secrets change and deliveries repeat, a workspace's   *)
(* max_rounds bounds each of its conversations.                              *)
THEOREM SpecLimitsRounds == Spec => []RoundsWithinSpec
<1>1. Init => Placed /\ RoundsWithinSpec
  BY DEF Init, Ledger!Init, Placed, RoundsWithinSpec
<1>2. TypeOK /\ Placed /\ RoundsWithinSpec /\ [Next]_vars => (Placed /\ RoundsWithinSpec)'
  BY PlacedStays, WithinSpecStays
<1>3. QED BY <1>1, <1>2, InboundTyped, PTL DEF Spec
===============================================================================
