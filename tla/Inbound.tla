------------------------------- MODULE Inbound -------------------------------
(***************************************************************************)
(* ChannelRunner.handle_raw: from a delivery of the provider to the reply.  *)
(* It verifies, parses, routes by the identity provider, resolves the       *)
(* workspace, hands over to the conversation layer and sends the answer     *)
(* back.  Meanwhile administrators move users, grant and revoke access and  *)
(* rotate secrets, the secrets server has its troubles, and the process     *)
(* dies.                                                                    *)
(*                                                                          *)
(* The conversation layer is TurnLedger, which Conversation implements in   *)
(* this setting (one process, one call at a time).  Its messages are pairs  *)
(* <<workspace, message>>: a message routed to another workspace is another *)
(* message to it, in another conversation.                                  *)
(*                                                                          *)
(* A definition named D_Variant is a mistaken D that some property rejects. *)
(***************************************************************************)
EXTENDS Naturals, FiniteSets, Environment

CONSTANTS
  Users, Workspaces, Threads,
  Messages,         \* what the provider delivers
  Signed,           \* the messages whose signature is right
  Readable,         \* the messages parse_inbound accepts
  Identified,       \* the messages that carry a message_id
  Sender, Thread,   \* the user and the thread of a message
  SpecRounds,       \* SpecRounds[w]: max_rounds of the workspace's spec, or None
  DefaultRounds,    \* DEFAULT_MAX_ROUNDS
  Vars,             \* environment variables
  Globals, OfWorkspace, OfUser,  \* the variables each layer of configuration sets
  Troubles,         \* what may ail the secrets server: subset of Answers
  Faults,           \* subset of {"agent", "send", "crash"}
  MaxFaults,        \* bound: failures in a behaviour
  MaxChanges,       \* bound: changes administrators make
  MaxRedeliveries,  \* bound: deliveries the provider repeats on its own
  None

Stages == {"verify", "route", "access", "resolve", "converse", "reply", "return"}

ASSUME InboundAssumption ==
  /\ Signed \subseteq Messages /\ Readable \subseteq Messages
  /\ Identified \subseteq Messages
  /\ Sender \in [Messages -> Users] /\ Thread \in [Messages -> Threads]
  /\ IsFiniteSet(Workspaces)
  /\ DefaultRounds \in Nat \ {0}
  /\ SpecRounds \in [Workspaces -> Nat \cup {None}]
  /\ Globals \subseteq Vars /\ OfWorkspace \subseteq Vars /\ OfUser \subseteq Vars
  /\ \A t \in Troubles : t \in Answers /\ ~Serves(t)
  /\ MaxFaults \in Nat /\ MaxChanges \in Nat /\ MaxRedeliveries \in Nat
  /\ None \notin Workspaces \cup Nat \cup Stages

VARIABLES
  known,        \* users the identity provider can resolve
  home,         \* home[u]: default_workspace of u, or None
  access,       \* pairs <<user, workspace>>: authorized_workspaces
  vault,        \* vault[w]: variables stored as secrets of w
  server,       \* how the secrets server answers: "ok" or one of Troubles
  limit, rounds, seen, failures,  \* the conversation layer's
  call,         \* the delivery being handled, NoCall when there is none
  pending,      \* messages the provider still has to deliver
  redeliveries, changes,
  witnessed,    \* history: what held at some moment of the call
  tally,        \* history: per message, turns, replies, lost replies, lost marks
  refused,      \* history: messages answered by a refusal for cause
  homes         \* history: homes[u], the workspaces u ever had as default

admin   == <<known, home, access, vault, server, changes, homes>>
ledger  == <<limit, rounds, seen, failures>>
vars    == <<known, home, access, vault, server, limit, rounds, seen, failures,
             call, pending, redeliveries, changes, witnessed, tally, refused, homes>>

Conversations == Workspaces \X Threads

(* ws.max_rounds or DEFAULT_MAX_ROUNDS: 0 is no limit of its own either.    *)
RoundsFor(w) ==
  IF SpecRounds[w] \in {None, 0} THEN DefaultRounds ELSE SpecRounds[w]

Ledger == INSTANCE TurnLedger WITH
  Keys        <- Conversations,
  Messages    <- Workspaces \X Messages,
  Identified  <- Workspaces \X Identified,
  KeyOf       <- [x \in Workspaces \X Messages |-> <<x[1], Thread[x[2]]>>],
  RoundLimits <- {RoundsFor(w) : w \in Workspaces}

-------------------------------------------------------------------------------
NoEnv == Layer("global", {})

NoCall == [at |-> None]

Nothing == [homes |-> {}, access |-> {}, secrets |-> {}]

Init ==
  /\ known = Users
  /\ home \in [Users -> Workspaces]
  /\ access = Users \X Workspaces
  /\ vault = [w \in Workspaces |-> {}]
  /\ server = "ok"
  /\ Ledger!Init
  /\ call = NoCall
  /\ pending = Messages
  /\ redeliveries = 0 /\ changes = 0
  /\ witnessed = Nothing
  /\ tally = [m \in Messages |-> [turns |-> 0, replies |-> 0, lost |-> 0, unmarked |-> 0]]
  /\ refused = {}
  /\ homes = [u \in Users |-> {home[u]}]

(* What held of the call's sender and of the workspaces while it went on.   *)
Witness ==
  witnessed' =
    IF call' = NoCall THEN Nothing
    ELSE LET u == Sender[call'.msg]
             before == IF call = NoCall THEN Nothing ELSE witnessed
         IN [homes   |-> before.homes \cup {home'[u]},
             access  |-> before.access \cup {w \in Workspaces : <<u, w>> \in access'},
             secrets |-> before.secrets \cup {<<w, vault'[w]>> : w \in Workspaces}]

-------------------------------------------------------------------------------
(* One delivery.                                                            *)

At(stage) == call # NoCall /\ call.at = stage

Goto(stage) == call' = [call EXCEPT !.at = stage]

(* handle_raw ends, and the provider takes its answer for final ...         *)
Settle ==
  /\ call' = NoCall
  /\ UNCHANGED <<pending, redeliveries>>

Refuse ==
  /\ refused' = refused \cup {call.msg}
  /\ Settle
  /\ UNCHANGED <<admin, ledger, tally>>
  /\ Witness

(* ... or an exception it takes for a failure and delivers again.           *)
Escape ==
  /\ call' = NoCall
  /\ pending' = pending \cup {call.msg}
  /\ UNCHANGED redeliveries

Deliver ==
  /\ call = NoCall
  /\ \E m \in pending :
       /\ pending' = pending \ {m}
       /\ call' = [msg |-> m, at |-> "verify", workspace |-> None,
                   env |-> NoEnv, trace |-> NoEnv]
  /\ UNCHANGED <<admin, ledger, redeliveries, tally, refused>>
  /\ Witness

(* verify_inbound, then parse_inbound: pure functions of the delivery.      *)
Verify ==
  /\ At("verify")
  /\ call.msg \in Signed /\ call.msg \in Readable
  /\ Goto("route")
  /\ UNCHANGED <<admin, ledger, pending, redeliveries, tally, refused>>
  /\ Witness

RefuseUnverified ==
  /\ At("verify")
  /\ call.msg \notin Signed \/ call.msg \notin Readable
  /\ Refuse

(* IdentityWorkspaceRouter.route: the user is read once, then access to the *)
(* workspace read is asked for.                                             *)
Routable == Sender[call.msg] \in known /\ home[Sender[call.msg]] # None

ResolveUser ==
  /\ At("route")
  /\ Routable
  /\ call' = [call EXCEPT !.at = "access", !.workspace = home[Sender[call.msg]]]
  /\ UNCHANGED <<admin, ledger, pending, redeliveries, tally, refused>>
  /\ Witness

RefuseUnroutable_Retried ==
  /\ At("route") /\ ~Routable
  /\ Escape
  /\ UNCHANGED <<admin, ledger, tally, refused>>
  /\ Witness

RefuseUnroutable == At("route") /\ ~Routable /\ Refuse

MayEnter_Anywhere == \E w \in Workspaces : <<Sender[call.msg], w>> \in access

MayEnter == <<Sender[call.msg], call.workspace>> \in access

Enter ==
  /\ At("access")
  /\ MayEnter
  /\ Goto("resolve")
  /\ UNCHANGED <<admin, ledger, pending, redeliveries, tally, refused>>
  /\ Witness

RefuseAccess == At("access") /\ ~MayEnter /\ Refuse

(* WorkspaceResolver.resolve: all layers or none.                           *)
Resolved_WithoutSecrets ==
  /\ At("resolve")
  /\ LET secrets == IF Serves(server) THEN vault[call.workspace] ELSE {}
         env == ResolvedEnv(Globals, OfWorkspace, OfUser, secrets)
     IN call' = [call EXCEPT !.at = "converse", !.env = env,
                             !.trace = Redact(env, secrets)]
  /\ UNCHANGED <<admin, ledger, pending, redeliveries, tally, refused>>
  /\ Witness

Resolved ==
  /\ At("resolve")
  /\ Serves(server)
  /\ LET secrets == Secrets(server, vault[call.workspace])
         env == ResolvedEnv(Globals, OfWorkspace, OfUser, secrets)
     IN call' = [call EXCEPT !.at = "converse", !.env = env,
                             !.trace = Redact(env, secrets)]
  /\ UNCHANGED <<admin, ledger, pending, redeliveries, tally, refused>>
  /\ Witness

ResolveFails ==
  /\ At("resolve")
  /\ ~Serves(server)
  /\ Escape
  /\ UNCHANGED <<admin, ledger, tally, refused>>
  /\ Witness

-------------------------------------------------------------------------------
(* The conversation layer and the reply.                                    *)

Conversation == <<call.workspace, Thread[call.msg]>>
Entry        == <<call.workspace, call.msg>>

OpenSession ==
  /\ At("converse")
  /\ Ledger!Open(Conversation)
  /\ limit'[Conversation] = RoundsFor(call.workspace)
  /\ UNCHANGED <<admin, call, pending, redeliveries, tally, refused>>
  /\ Witness

Duplicate_SameThread ==
  \E m \in Messages : Thread[m] = Thread[call.msg] /\ <<call.workspace, m>> \in seen

Duplicate == Entry \in seen

Spent == limit[Conversation] # None /\ rounds[Conversation] >= limit[Conversation]

(* DuplicateMessage escapes handle_raw: no second reply either.             *)
DropDuplicate_Answers ==
  /\ At("converse")
  /\ Duplicate
  /\ Goto("reply")
  /\ UNCHANGED <<admin, ledger, pending, redeliveries, tally, refused>>
  /\ Witness

DropDuplicate ==
  /\ At("converse")
  /\ Duplicate
  /\ Settle
  /\ UNCHANGED <<admin, ledger, tally, refused>>
  /\ Witness

RefuseSpent ==
  /\ At("converse")
  /\ ~Duplicate /\ Spent
  /\ Refuse

Answer ==
  /\ At("converse")
  /\ Ledger!Answer(Entry)
  /\ tally' = [tally EXCEPT ![call.msg].turns = @ + 1]
  /\ Goto("reply")
  /\ UNCHANGED <<admin, pending, redeliveries, refused>>
  /\ Witness

Reply ==
  /\ At("reply")
  /\ tally' = [tally EXCEPT ![call.msg].replies = @ + 1]
  /\ Goto("return")
  /\ UNCHANGED <<admin, ledger, pending, redeliveries, refused>>
  /\ Witness

Return ==
  /\ At("return")
  /\ Settle
  /\ UNCHANGED <<admin, ledger, tally, refused>>
  /\ Witness

-------------------------------------------------------------------------------
(* Failures.  Each is one of the ledger's: only a death, or an error of the *)
(* store, between save() and mark_processed() takes a mark away.            *)

Lose(t)   == [t EXCEPT !.lost = @ + 1]
Unmark(t) == [t EXCEPT !.unmarked = @ + 1]

Fails ==
  /\ failures < MaxFaults
  /\ Ledger!Failure
  /\ Escape
  /\ UNCHANGED <<admin, refused>>

AgentFails ==
  /\ "agent" \in Faults
  /\ At("converse") /\ limit[Conversation] # None /\ ~Duplicate /\ ~Spent
  /\ Fails
  /\ UNCHANGED <<seen, tally>>
  /\ Witness

SendFails ==
  /\ "send" \in Faults
  /\ At("reply")
  /\ Fails
  /\ UNCHANGED seen
  /\ tally' = [tally EXCEPT ![call.msg] = Lose(@)]
  /\ Witness

Crash ==
  /\ "crash" \in Faults
  /\ call # NoCall
  /\ Fails
  /\ \/ ~At("reply") /\ UNCHANGED <<seen, tally>>
     \/ At("reply") /\ UNCHANGED seen /\ tally' = [tally EXCEPT ![call.msg] = Lose(@)]
     \/ /\ At("reply") /\ Entry \in seen
        /\ seen' = seen \ {Entry}
        /\ tally' = [tally EXCEPT ![call.msg] = Unmark(Lose(@))]
  /\ Witness

Redeliver ==
  /\ redeliveries < MaxRedeliveries
  /\ \E m \in Messages \ pending : pending' = pending \cup {m}
  /\ redeliveries' = redeliveries + 1
  /\ UNCHANGED <<admin, ledger, call, tally, refused>>
  /\ Witness

-------------------------------------------------------------------------------
(* Administrators, and the server.                                          *)

Move ==
  \E u \in Users, w \in Workspaces \cup {None} :
    /\ home' = [home EXCEPT ![u] = w]
    /\ homes' = [homes EXCEPT ![u] = @ \cup {w}]
    /\ UNCHANGED <<known, access, vault>>

Toggle(set, x) == IF x \in set THEN set \ {x} ELSE set \cup {x}

Authorize ==
  \E u \in Users :
    \/ known' = Toggle(known, u) /\ UNCHANGED access
    \/ /\ \E w \in Workspaces : access' = Toggle(access, <<u, w>>)
       /\ UNCHANGED known

Rotate ==
  /\ \E w \in Workspaces, v \in Vars : vault' = [vault EXCEPT ![w] = Toggle(@, v)]
  /\ UNCHANGED <<known, access, home, homes>>

Change ==
  /\ changes < MaxChanges
  /\ changes' = changes + 1
  /\ \/ Move
     \/ Authorize /\ UNCHANGED <<home, homes, vault>>
     \/ Rotate
  /\ UNCHANGED <<server, ledger, call, pending, redeliveries, tally, refused>>
  /\ Witness

ServerChanges ==
  /\ changes < MaxChanges
  /\ changes' = changes + 1
  /\ server = "ok" /\ server' \in Troubles
  /\ UNCHANGED <<known, home, access, vault, homes>>
  /\ UNCHANGED <<ledger, call, pending, redeliveries, tally, refused>>
  /\ Witness

ServerRecovers ==
  /\ server # "ok" /\ server' = "ok"
  /\ UNCHANGED <<known, home, access, vault, changes, homes>>
  /\ UNCHANGED <<ledger, call, pending, redeliveries, tally, refused>>
  /\ Witness

-------------------------------------------------------------------------------
Step ==
  \/ Verify \/ RefuseUnverified
  \/ ResolveUser \/ RefuseUnroutable \/ Enter \/ RefuseAccess
  \/ Resolved \/ ResolveFails
  \/ OpenSession \/ DropDuplicate \/ RefuseSpent \/ Answer
  \/ Reply \/ Return

Quiet == call = NoCall /\ pending = {} /\ UNCHANGED vars

Next ==
  \/ Deliver \/ Step
  \/ AgentFails \/ SendFails \/ Crash
  \/ Redeliver
  \/ Change \/ ServerChanges \/ ServerRecovers
  \/ Quiet

Spec == Init /\ [][Next]_vars

(* The runner's thread runs and the provider keeps delivering.  A server in *)
(* trouble is fixed some day.                                               *)
FairSpec ==
  Spec /\ WF_vars(Step) /\ WF_vars(Deliver) /\ WF_vars(ServerRecovers)

-------------------------------------------------------------------------------
(* Properties.                                                              *)

Environments == UNION {[V -> Layers \cup {Redacted}] : V \in SUBSET Vars}

Calls ==
  [msg : Messages, at : Stages, workspace : Workspaces \cup {None},
   env : Environments, trace : Environments]

(* Types of the administrators' data, the ledger, the call and the records  *)
(* of what happened.                                                        *)
TypeOK ==
  /\ known \subseteq Users
  /\ home \in [Users -> Workspaces \cup {None}]
  /\ access \subseteq Users \X Workspaces
  /\ vault \in [Workspaces -> SUBSET Vars]
  /\ server \in {"ok"} \cup Troubles
  /\ limit \in [Conversations -> Nat \cup {None}]
  /\ rounds \in [Conversations -> Nat]
  /\ seen \subseteq Workspaces \X Messages
  /\ failures \in Nat /\ redeliveries \in Nat /\ changes \in Nat
  /\ call \in Calls \cup {NoCall}
  /\ pending \subseteq Messages
  /\ witnessed \in [homes : SUBSET (Workspaces \cup {None}),
                    access : SUBSET Workspaces,
                    secrets : SUBSET (Workspaces \X SUBSET Vars)]
  /\ tally \in [Messages -> [turns : Nat, replies : Nat, lost : Nat, unmarked : Nat]]
  /\ refused \subseteq Messages
  /\ homes \in [Users -> SUBSET (Workspaces \cup {None})]

(* "Pre-engine denial paths": an agent only ever runs for a message that    *)
(* verified and parsed, in a workspace that was its sender's default, and   *)
(* that the sender could access, at some moment of this very call.  A       *)
(* revocation before the call, also before a redelivery, always holds.      *)
TurnsAdmitted ==
  At("reply") =>
    /\ call.msg \in Signed \cap Readable
    /\ call.workspace \in witnessed.homes \cap witnessed.access

(* An agent runs with all the secrets its workspace had in the vault at     *)
(* some moment of the call, over every other layer; trouble with the server *)
(* is never taken for a workspace without secrets.  Its trace names the     *)
(* same variables with none of the secrets.                                 *)
SecretsWhole ==
  At("converse") =>
    LET secret == {v \in DOMAIN call.env : call.env[v] = "secret"} IN
    /\ <<call.workspace, secret>> \in witnessed.secrets
    /\ DOMAIN call.trace = DOMAIN call.env
    /\ \A v \in DOMAIN call.env :
         call.trace[v] = IF v \in secret THEN Redacted ELSE call.env[v]

(* However often it is delivered, an identified message runs the agent at   *)
(* most once in each workspace that was its sender's default at the time,   *)
(* and once more for each mark that was lost; and every reply is to a turn. *)
TurnsBounded ==
  \A m \in Messages :
    /\ tally[m].replies + tally[m].lost <= tally[m].turns
    /\ m \in Identified =>
         tally[m].turns <= Cardinality(homes[Sender[m]] \ {None}) + tally[m].unmarked

Settled(m) == m \notin pending /\ (call # NoCall => call.msg # m)

(* No message the provider has done with is left without an answer: it had  *)
(* a reply, or was refused for a cause, or a failure came between the turn  *)
(* and its reply (which a redelivery then does not repeat).                 *)
NothingUnheard ==
  \A m \in Messages :
    Settled(m) => m \in refused \/ tally[m].replies > 0 \/ tally[m].lost > 0

(* Changes and failures being finite, the provider is done with every       *)
(* message in the end.                                                      *)
MessagesSettle == \A m \in Messages : <>[]Settled(m)
===============================================================================
