# claw_engine in TLA+

claw_engine connects messaging channels to command-line coding agents (codex,
claude). A message is verified, routed to a workspace, joined to a stateful
session, and answered by one turn of an agent process; around that stand skill
provisioning, workflows, identity, configuration and secrets. These modules
model the parts whose correctness depends on the order in which things happen:
threads, processes that die, deliveries that repeat, files that are half
written. `PROJECT.json` lists every definition with the lines it stands for.

Paths are relative to `claw_engine/` unless they start with `docs/`.

## Inventory

| Component | State it keeps | Operations | Who calls it, what it calls | What is hard | Correct when |
|---|---|---|---|---|---|
| Conversation service (`engine/orchestration/conversation.py`, `workspace_gateway.py`) | none: everything is in the store | `handle` | channel runner; calls store and engine | look-up, check, turn, save and mark are separate commits around a turn that takes minutes | a message is charged once, none is dropped, rounds stay within `max_rounds`, a resumed thread has the history the session counts |
| Session stores (`engine/persistence/*`, `adapters/persistence/sqlalchemy/*`) | sessions, natural-key index, processed messages; the SQLAlchemy one also its engine and tables | `get_or_create`, `save`, `is_processed`, `mark_processed`; `_ensure_engine` | conversation service | racing inserts; whole-record writes; lazy set-up by several threads and processes | one session per key, fields fixed at creation win, one engine which is never used before its tables |
| Agent turn (`engine/orchestration/engine.py`, `adapters/backends/*`) | child process, pipe, watchdog, event stream | `run_turn`, `run`, `default_spawn` | conversation service; child process | the watchdog thread; leaving a generator early; a child that hangs, dies or blocks on a full pipe | exactly one terminal event, a success is a real one, no child outlives its turn, turns end |
| Workflow service (`engine/workflows/service.py`, `executor.py`, `memory_store.py`, `contracts.py`) | run records; futures and pool | `run`, `rerun`, `get`, `report_progress`, `submit`, `wait_all`, `shutdown` | tool bridge; handlers | read-copy-save of records; shutdown against submission | lifecycle goes forward, nothing reported is lost, shutdown drains, `wait_all` covers what was answered |
| Workflow tool bridge (`engine/workflows/bridge.py`) | none | `invoke`, `get` | agents; identity, resolver, service | permissions change between the checks | revoked means unreadable, no other workspace's runs |
| Skill provisioner (`engine/skills/provisioner.py`) | skill directories, manifest | `provision` | before a turn; identity, skill source | overlapping calls, a call that stops half-way | only allowed and granted skills are copied, revoked ones removed, users' directories left alone |
| Git skill source (`adapters/skills/git/*`) | clone, sparse set, symlink overlay, `_ref`, `_local` | `refresh`, `has_skill`, `has_dir`, `skill_dir` | provisioner; git | each command may fail or be killed, and what is there came from another configuration | a refresh that returns serves exactly the commit it reports |
| Local skill source (`engine/skills/source.py`) | none | `has_skill`, `has_dir`, `skill_dir` | provisioner, git source | - | finds a directory with a `SKILL.md` |
| Channels (`engine/channels/*`, `adapters/channels/*`) | none that lasts | `verify_inbound`, `parse_inbound`, `route`, `handle_raw`, `send_text` | providers; conversation service | a reply that fails after the turn was saved; a user whose workspace changes between deliveries | no turn before verification and authorisation |
| Identity (`engine/identity/*`, `adapters/identity/casbin/*`) | users, grants, deny rules in memory and on disk | the `can_*` questions, `add_policy`, `remove_policy`, `reload_policy` | router, bridge, provisioner | three versions of one policy | deny wins; a reload drops what was only in memory |
| Workspace context (`engine/context/*`) | none | `resolve`, `redact` | gateway, bridge | precedence of four layers; a failing secrets provider | secrets win and are redacted |
| OpenBao secrets (`adapters/secrets/openbao/*`) | none | `get_secrets` | workspace context | a request that fails or times out | an error, never an empty layer |
| Observability (`engine/observability/*`, `adapters/observability/otel/*`) | open spans | `start_turn`, span methods | engine | finishing a span once on every path | every turn's span ends once |
| Registry and CLI (`engine/bootstrap.py`, `__main__.py`) | factories | look-up | everything | - | - |

The interactions modelled are those in which one side can see the other half
done: worker with worker and with the store; turn with watchdog and child;
caller with pool and shutdown; provision with provision, administrator and
user; refresh with remote, killed predecessor and reader; store with store on
one database; a delivery with its redeliveries, the administrators and the
secrets server; a bridge call with administrators and the policy file.

## Modules

| Module | Models |
|---|---|
| `TurnLedger` | what the conversation layer promises: accounts, limits, answered messages, and what a failure may make it forget |
| `Conversation` | `ConversationService.handle` on several workers over one store |
| `Policy` | what the Casbin and the memory identity provider answer, as operators |
| `Environment` | the four layers of an agent's environment, redaction, and what OpenBao's answers become, as operators |
| `Inbound` | `ChannelRunner.handle_raw` from delivery to reply; composes `TurnLedger` and `Environment` |
| `ToolBridge` | `WorkflowToolBridge.invoke` and `get` over a Casbin policy in memory and on disk; uses `Policy` |
| `AgentProcess` | `Engine.run_turn`, a backend's `run`, `default_spawn`, the child, the watchdog and the turn's span |
| `RunLedger` | what the workflow service promises: runs are created pending, taken on at most once, changed only while taken on, and at rest after a shutdown |
| `Workflow` | `WorkflowService`, its store, both executors, `wait_all`, `shutdown` |
| `SkillProvisioner` | `provision` in overlapping calls, with changing grants and users' directories |
| `GitSkillSource` | `refresh` on a cache that other refreshes have left, and what a reader then finds |
| `LazyEngine` | `SQLAlchemySessionStore._ensure_engine` with several threads and stores |
| `ConversationProofs`, `InboundProofs`, `ToolBridgeProofs`, `AgentProcessProofs`, `WorkflowProofs`, `SkillProvisionerProofs`, `GitSkillSourceProofs`, `LazyEngineProofs` | theorems about the module each is named after |
| `MC*` | values of the constants for TLC |

A definition named `D_Variant` is a mistaken form of `D`. Nothing uses it;
replacing `D` by it must make the property paired with it under `mutants` fail.

### Conversation

`rows`, `index` and `processed` are the two tables and the natural key; `sess`
is the snapshot a worker has in its hands from `get_or_create` until `save`.
The steps are the calls of `handle()` in their order: `LookupHit`/`LookupMiss`,
`InsertNew`/`InsertConflict`/`Refetch` (get_or_create), `RejectDuplicate`,
`RejectExhausted`, `Admit`, `RunTurn`/`TurnFails`, `Save`, `Mark`. The
duplicate check and the limit check are one step: between them nothing but
`processed` can change what they say, and both are about the snapshot or the
worker's own message. `storeKind`, one of `StoreKinds`, says which store the
behaviour runs on: the memory store (no unique key, an
upsert that also moves the index, contents lost with the process) or SQL
(unique key, `UPDATE` of the mutable columns, commits survive). A delivery that
raises anything other than a duplicate or an exhausted session is delivered
again; the provider also repeats deliveries by itself.

A backend's handle is opaque to the code; in the model it carries its backend,
its session and the number of turns the thread contains, which is what
`ResumeContinuity` compares with the session. A thread that the agent extended
in a turn whose save was lost counts as continuing from the handle that was
resumed.

`Ledger == INSTANCE TurnLedger WITH ...` maps a session to an account and takes
a message as seen from its save on, so that `Save` is the ledger's `Answer` and
`Mark` a stutter. A failure at `mark` forgets one message: the ledger's
`Failure`. That is how it says that a message is charged a second time only
after a failure fell between `save` and `mark_processed`.

### Inbound

One thread handles one delivery at a time, as `ChannelRunner` does. `call.at`
is the statement `handle_raw` has reached: `Verify` (`verify_inbound` and
`parse_inbound`, pure functions of the delivery, hence sets `Signed` and
`Readable`), `ResolveUser` and `Enter` (the two questions of
`IdentityWorkspaceRouter.route`, which reads the user once and then asks for the
workspace it read), `Resolved`, the conversation layer, `Reply`, `Return`. A
message that is unverified or unreadable, of an unknown user, of one without a
default workspace or without access to it, or for an exhausted session raises an
exception of its own kind (`Refuse`), after which the provider is taken to be
done with the message; so does a duplicate. Any other exception is taken for a
failure and the message delivered again. The repository has no code between
`handle_raw` and a provider; this is the contract its exception types suggest.

The conversation layer is `TurnLedger`, by the refinement shown for
`Conversation`, whose setting (one process, one call at a time) is this one. Its
keys are pairs of workspace and thread and its messages pairs of workspace and
message: that a message routed to another workspace is no duplicate there is in
the code, not an artefact. `Spent` and `Duplicate` are `handle()`'s checks.

`Environment` has the layers as functions from variables to the layer each
value comes from; `Over` is `dict.update`. The secrets server answers in one of
seven ways; only a 404 is an empty layer, everything else but success raises.

Administrators move users, forget and register them, open and close workspaces
and rotate secrets between any two steps; the server's troubles come and are
fixed. `witnessed` collects what held during the call, `tally` counts turns,
replies, replies a failure took and marks a failure took, and `homes[u]` is
every default workspace `u` ever had. They are history: no guard reads them.

### ToolBridge

Each question of `invoke` and `get` is a step: `CheckAccess` (and, for `get`,
the ownership of the run, which never changes), `CheckAllowed`,
`CheckPermitted`, then `Start` (`WorkflowService.run`, which raises for an
unregistered name) or `Show`. `DenyAllowed` may happen to an allowed workflow
too, because `resolve()` can raise. `policy` is what the enforcer has in
memory, `file` the policy on disk; `ReloadPolicy` takes the file if Casbin can
load it and otherwise leaves the policy in force. `open[c]` records the gates
that stood open at some moment of the call of `c`.

### AgentProcess

Engine, backend and line reader are nested generators in one thread, so one
variable, `at`, says where that thread is. A line is what the backends tell
apart (eight kinds). `Consume` is one turn of the loop in `run_turn`; leaving
it closes the reader (`CloseReader`: cancel the watchdog; `Wait`:
`proc.wait()`). `TimerFires` is `_on_timeout`; the flag and the kill are one step, so a
watchdog that is suspended between the two is not covered. The pipe has
`PipeCap` lines and keeps its reading end open after the reader is closed.

A line that is JSON but no object raises inside the backend (`ParseRaises`).
`run_turn` is then left while the exception's traceback still holds the open
reader (`held`); when the caller lets go of the exception the generators are
closed (`Release`), and only then is the watchdog cancelled and the child waited
for. `span` is the trace of the turn: opened by `start_trace` before the backend
does anything, told of tool calls, ended by the first of `finish` and `fail`.

### Workflow

A record is replaced whole: `Read` takes it, `Write` saves the copy. `stage[r]`
says where the code executing run `r` is; `Take` is the pool's. `SubmitAllowed`
and `Enqueue` separate the test of `_shutdown` from `pool.submit`, so that
`Flag` and `Close` come between them. `kind` is the executor, chosen at the
start.

`Runs == INSTANCE RunLedger WITH ...` maps the two threads' halves of an update
to one: `Enqueue` and `SubmitInline` are the ledger's `Take`, each `Write` is
its `Begin`, `Report` or `Finish` by the update it completes, `Exit` is
`Abandon`, and `Join`, the return of `shutdown()`, is `ShutDown`. All else
stutters. A run is taken when it is submitted, not when a thread starts on it:
that is what `shutdown()` waits for. After `ShutDown` records may still be
created, and stay pending: that is what `run()` does before `submit` refuses.

### SkillProvisioner

`disk[s]` says whether directory `s` has files of the source, of a user, both
or none. The loop asks the permission (`Permit`), then the source, then copies
(`Copy`, `Miss`); clean-up removes what the manifest read at the start has and
this call did not provision; writing the manifest first empties the file
(`Truncate`, `WriteManifest`). `Stop` is an exception or the process's death,
with `copytree` done in part or not at all. `trouble` records that a call has
stopped or overlapped another. Names that the checks turn away and symlinked
directories are left out.

### GitSkillSource

Git belongs to the environment; its commands do what `refresh()` relies on. A
command that fails changes nothing; one that is killed leaves any mixture of
old, new and missing files and `index.lock`. `Start` is a process with any of
the configurations, on whatever cache there is. `Shown` is what
`has_skill`/`skill_dir` find. Left out: the old git that does not know
`sparse-checkout disable`, and a `cache_dir` of several relative segments.

### LazyEngine

One action for each statement of `_ensure_engine`, the three assignments
separately, because the first check reads `_engine` without the lock.
`create_all(checkfirst=True)` belongs to SQLAlchemy: it asks for the existing
tables, then issues plain `CREATE TABLE` for the missing ones.

## Runs

`tlc -config <run>.cfg MC<Module>.tla`. Every passing run finishes within about
a minute on two cores.

| Run | Bounds | Shows |
|---|---|---|
| `conv_process` | one worker, 3 messages (one without an id), 2 conversations, 2 backends, limits 1 and 2, 2 failures anywhere, 1 repeated delivery, SQL | `handle()` implements `TurnLedger`; `round_count` is the number of saved turns; no message is dropped; every message is settled |
| `conv_workers` | 2 workers, 2 messages (one without an id) in one conversation, 2 backends, limits 1 and 2, 1 failure, both stores | under lost updates a SQL key still has one session and its fields are pinned; on either store the counter stays within the limit, handles hold their rounds, marked messages were charged |
| `conv_lost_update` | 2 workers, limit 1, SQL | **violated**: two turns run in a session of one round |
| `inbound` | 1 user, 2 workspaces (`max_rounds` 0, that is the default of 2, and 1), 3 messages (one without an id, one unsigned), 2 changes, 1 failure, 1 repeated delivery, a server that times out | an agent runs only for a verified message where its sender belonged and had access during this call, with all secrets of a moment of the call; one turn per message, workspace and lost mark; everybody is answered, refused, or lost his reply to a failure; every message settles |
| `bridge` | 2 callers, 1 user, 2 workspaces, 2 names of which 1 is registered, 2 runs, 3 rules, 2 changes | whoever starts or reads a run found every gate open during this call, and it is a run of that workspace and workflow; what is denied stays denied until somebody opens it on purpose |
| `workflow` | 2 callers, 2 runs, 2 pool threads or the inline executor, 1 report each, handlers that fail or exit | nothing reported is lost, records go forward, service and executor implement `RunLedger`, `shutdown` drains and returns, `wait_all` covers answered runs, and runs end unless refused |
| `agent_turn` | both backends, any 3 lines of 8 kinds, pipe of 2, a child that dies, hangs or does not start, an `on_event` that raises | one terminal event and the last; the child is reaped before `run_turn` returns, or the exception that holds it leaves its watchdog armed; a completed codex turn is genuine; the span tells how the turn went; a turn ends unless its reader was closed early |
| `agent_cancel` | codex, a broken line and 3 more, pipe of 1 | **violated**: the turn waits for a blocked child with the watchdog cancelled |
| `skills` | 2 skills, 2 users, 2 calls, 1 stop, 2 administrative changes | copies are allowed and granted, users' directories stay; without stops and overlaps the manifest matches the disk and revoked skills are gone at the return |
| `git_refresh` | 4 paths, two of one name, 2 commits, 7 configurations (one of an empty list), 2 pushes, 2 failures or kills | a refresh that returns serves the commit it reports and nothing else; one that raises takes no skill from readers |
| `git_relative` | one nested path, relative `cache_dir` | **violated**: the links lead nowhere |
| `engine` | 2 threads of one store, 1 of another process, one database error, any tables at the start | one engine per store, never used before its tables; every call is answered |

Why these bounds are enough to be telling: the hazards are pairwise. Two
workers, calls or threads and one record are what a lost update, a racing
insert or a submission against shutdown need; a third actor appears where a
pair must compete with someone outside (the second process of `engine`, the two
users of `skills`, the administrators of `inbound` and `bridge`). Limits 1 and 2
put both the exhausted and the not yet exhausted session next to each other. Two failures let a second one strike the
recovery from the first. Three lines allow every line to follow every other
before a third decides the turn. Four paths are the fewest with a nested one, a
parent of it, a name collision and a path that a commit lacks. Every mutant
listed in `PROJECT.json` is found under its run's own bounds.

Two changes let a permission be withdrawn and given back, or a user be moved
away and home again, within one call or between two deliveries.

`CHECK_DEADLOCK FALSE` is set in the two agent runs only: there the system
really can stop for ever, which is what `agent_cancel` is about. `skills` uses
symmetry over skills, users and calls, `bridge` over callers and runs; neither
checks liveness. The type invariants of `SkillProvisioner`, `GitSkillSource`,
`LazyEngine`, `Inbound` and `ToolBridge` are proved and in no run.

## Fairness

Only weak fairness is assumed, and only of code that is running.

- `Conversation`: a worker inside `handle()` goes on unless it fails, and the
  provider delivers while a worker is free. Failures and redeliveries are
  bounded and never required.
- `Workflow`: callers inside `run()`, pool threads, code executing a run, and a
  shutdown once it has begun. Nobody has to start, wait or shut down.
  `Execute(r)` is fair as a whole: a handler either reports or ends, and reports
  are bounded.
- `AgentProcess`: the turn's thread, the watchdog (`threading.Timer`), and a
  child that neither hangs nor is blocked. Hanging is never required. `Release`
  is fair with the turn: no caller keeps an exception for ever.
- `Inbound`: the runner's thread inside `handle_raw` (`Step`), a provider that
  keeps delivering what is pending (`Deliver`), and a secrets server that is
  fixed in the end (`ServerRecovers`). Without the last `resolve()` may fail for
  ever, which the code does not hide: each failure is a redelivery. Failures,
  changes and extra redeliveries are bounded and never required.
- `LazyEngine`: each thread inside a call. No order of the lock is assumed.
  Calls return nevertheless: once there is an engine nobody contends for the
  lock, and failing initialisations are as many as database errors and races
  over the two tables allow.

`skills`, `bridge` and `git_refresh` are about safety; a hanging git command
would hold `refresh()` for ever and nothing in the code prevents it.

## Proofs

tlapm checks every theorem, for any values of the constants that satisfy the
named assumptions. The theorem column omits those that say `Spec => []TypeOK`:
`TypeCorrect`, `InboundTyped`, `BridgeTyped`, `TurnTyped`, `WorkflowTyped`,
`SkillsTyped`, `GitTyped`, `EngineTyped`.

| Module | Theorems | State |
|---|---|---|
| `ConversationProofs` | `OneSessionPerKey`, `HandlesHoldTheirRounds`, `RoundsWithinBudget`, `DuplicatesWereCounted`, `FieldsPinned` | `KeyAlwaysSameSession`, `ResumeContinuity`, `RoundBudget`, `ProcessedWasCounted`, `PinnedFields` |
| `ConversationProofs` | `RoundsAlwaysExact`, `TurnsStayWithinLimit`, `NothingEverDropped`, `LedgerImplemented` | `RoundsExact`, `TurnsWithinLimit`, `NothingDropped`, `ImplementsLedger`, given `OneAtATime` |
| `InboundProofs` | `AdmittedAlways`, `WholeAlways`, `HeardAlways`, `BoundedAlways` | `TurnsAdmitted`, `SecretsWhole`, `NothingUnheard`, `TurnsBounded` |
| `InboundProofs` | `LedgerObeyed`, `SpecLimitsRounds`, `LayersInOrder` | `Ledger!Spec`: the accounts behind `handle_raw` move only by steps of `TurnLedger`; that a conversation has its workspace's limit and keeps within it; and which layer each variable of an environment comes from |
| `ToolBridgeProofs` | `RightfulAlways`, `DenialsAlwaysStand`, `MirrorsMemoryProvider` | `Rightful`, `DenialsStand`, and that Casbin with the memory provider's denials as rules answers like the memory provider |
| `AgentProcessProofs` | `StreamAlwaysWellFormed`, `ReapedAlwaysBeforeReturn`, `CompletedAlwaysGenuine`, `SpanAlwaysTells` | `StreamWellFormed`, `ReapedBeforeReturn`, `CompletedIsGenuine`, `SpanTellsOutcome` |
| `WorkflowProofs` | `NoProgressEverLost`, `JoinedAlwaysDrained`, `WaitAllAlwaysCovers`, `LifecycleAlwaysForward`, `RunLedgerImplemented` | `NoProgressLost`, `JoinedMeansDrained`, `WaitAllCovers`, `LifecycleForward`, `ImplementsRunLedger` |
| `SkillProvisionerProofs` | `ManifestAlwaysMatches`, `RevokedAlwaysRemoved`, `OnlyEffectiveEverCopied`, `UserDirsAlwaysUntouched` | `ManifestMatchesDisk`, `RevokedRemoved`, `OnlyEffectiveCopied`, and `UserDirsUntouched` given that no user's directory has the name of a skill |
| `GitSkillSourceProofs` | `CommitAlwaysServed`, `SkillsAlwaysKept` | `ServesTheCommit` given an absolute `cache_dir`, and `RefreshKeepsSkills` |
| `LazyEngineProofs` | `TablesAlwaysFirst`, `OneEngineAlways` | `TablesBeforeEngine`, `OneEngine` |

Assumptions: each module's `...Assumption`, which say how its constants fit
together (subsets, functions, natural bounds, `None` being none of the values it
stands beside; `NoneAssumption` and `RecordAssumption` say that for records).
Three hypotheses go beyond them. `OneAtATime` (one worker, only SQL stores) is the
setting the repository's design documents claim idempotence for; without it
`conv_lost_update` breaks `TurnsWithinLimit`. `~Relative` is an absolute
`cache_dir`; without it `git_relative` breaks `ServesTheCommit`. And
`Skills \cap UserNames = {}`, without which `UserDirsUntouched` is false (see
below).

None of the invariants is inductive by itself. The strengthenings:

**Conversation.** A stored row is good because what is written over it is a good
snapshot plus one turn; so

    IInv == TypeOK /\ RowsInv /\ IndexInv /\ KeyAlwaysSameSession
              /\ WorkersInv /\ ProcessedWasCounted

- `RowsInv`: every row has its own id and fits: within its limit, with a handle
  holding its rounds.
- `IndexInv`: the index leads to rows of the key.
- `WorkersInv`: a worker past `get_or_create` holds a snapshot that fits, of a
  row that exists, with the row's backend, key and limit; from `run` on the
  snapshot is below its limit; at `save` the result's handle continues the
  snapshot's; at `mark` the message has been counted.

`WorkersInv` is about stale snapshots, not current ones: it never says that a
snapshot equals its row. That is why these five hold with any number of workers
while `RoundsExact` and `TurnsWithinLimit` do not. The proof goes action by
action (`FetchStep`, `InsertStep`, `SaveStep`, `MarkStep`, `CrashStep`,
`InsideStep`, `LeaveStep`); two frame lemmas carry the other workers over a
step: rows are never removed and counters never fall (`WorkerFrame`,
`StoreFrame`), except in a crash of the memory store, after which no worker
holds anything.

**One call at a time.** `AloneInv` adds to `IInv` exactly what several workers
destroy: the snapshot is the row (`Fresh`) and the message at `run` and `save`
is not marked yet (`Unmarked`); with these `turns` equals `round_count`
(`Exact`), so that the limit on the counter is one on the turns, and
`NothingDropped` is inductive. `LedgerImplemented` then has one lemma per
action of the ledger: `InsertNew` is `Open`, `Save` is `Answer`, a failure at
`mark` is the `Failure` that forgets a message, `Mark` and everything else are
stutters.

**Inbound.** `Placed`: past routing the call has a workspace. `Admitted`: each
check that lies behind the call is in what was witnessed, which only grows
(`TurnsAdmitted`). `Heard`: whatever is not pending is refused, answered, or in
hand, and whatever is marked was answered or is about to be (so a duplicate is
never silence). `Counted` and `AtHome`: a message has at most as many turns as
marks plus lost marks, and a mark only in a workspace that was its sender's;
`TurnsBounded` is the cardinality of the latter. `LedgerMoves` says, action by
action, that a step opens one account with `RoundsFor` its workspace, answers
one message, is a failure that costs a mark, or leaves the ledger alone;
`LedgerObeyed` and `SpecLimitsRounds` follow from it.

**ToolBridge.** `CallsInOrder`: the gates behind a call are among those recorded
open, and the run a `get` holds exists, has the name it asks for and, past the
first gate, the workspace's ownership. `DenialsStand` needs no invariant: it is
about one step at a time.

**AgentProcess.** `StreamInv` (only the last event may be terminal, and only
where it is consumed), `WatchdogInv` (who is still reading, or has left the
reader in a traceback, has a watchdog that is armed or has fired, and one that
has fired has killed; the end of the file means a dead child and an empty pipe)
and `GenuineInv` (exit code 0 means nothing left to write). `SpanInv` follows the
trace: open as long as the loop runs, never ended with ok before the child is
reaped, and with all tool calls but a last one `on_event` has not let pass yet.

**Workflow.** `StageInv` ties a run's stage to its record and the copy in its
executor's hands to what is stored, which is why whole-record saves lose
nothing; `CallerInv` gives each run one caller at most; `QueueInv` has each
queued run once, and `QueuedInv` has none forgotten; `ExecutorInv` and `WaitInv`
carry what `shutdown` and `wait_all` promise. `RunLedgerImplemented` has one lemma
per action of the ledger. It needs `StageInv` for the status a record has when its
copy is saved, `CallerInv` for a run that is submitted never having been taken,
and `QueuedInv` at `Join`: an empty queue means that nothing is taken.

**SkillProvisioner.** `HistoryInv`, `CallInv` and `DoneInv` say that what a call
has copied was allowed, granted and offered while it ran, whatever else happens.
`AloneInv` and `DiskInv` hold while nothing has stopped or overlapped: one call
at most, and what is on disk is what it read from the manifest plus what it
copied minus what it removed.

**GitSkillSource.** `CallInv` says what a refresh has achieved when it is at each
of its commands: past the selection the sparse set is the configuration's, past
the checkout the files are those of the commit for that selection, and past the
n-th path of the loop the links of the first n lead to their paths, or nowhere
where the commit lacks them. Later paths of the loop leave those links alone
because `Wanted` are the allowed paths that share their basename with no other
(`WantedAlone`). `KeepInv` is what every later refresh of the
same process, however it ends, preserves of a cache that was once served:
selection and files still fit each other and the configuration, and a link of a
wanted path leads to that path or nowhere. From it a reader sees the commit
checked out (`ShownIs`), so that only a checkout, or a link removed and not
remade, can take a skill away. Of the cache a process starts on the invariant says
nothing but its type: the commands of the first refresh that succeeds repair what
kills and other configurations left.

**LazyEngine.** `LockInv` (whoever is past the lock holds it), `EngineInv` (an
assigned engine is alive and its tables are in the database), `BuildInv` (what a
building thread has so far), `OwnInv` (nobody else has it) and `LiveInv` (no
engine is alive that is neither assigned nor being built).

Model-checked only: the liveness properties (`EventuallySettled`,
`RunsEndOrAreRefused`, `ShutdownReturns`, `TurnEndsOrWaits`, `CallsReturn`,
`MessagesSettle`), out of the prover's reach together with `ENABLED`. Every safety
property of a passing run is a theorem. No module declares a recursive operator,
and nothing is left to induction over data: tool calls, for one, are counted as
the cardinality of a set of positions, not by a fold over the events.

## Known divergences

Runs:

- `conv_lost_update`: the limit is tested on a snapshot.
- `agent_cancel`: closing the iterator does not end the child.
- `git_relative`: overlay links with a relative `cache_dir`.

Seen in the models while writing them, and stated here without a run of their
own:

- A process that dies between `save` and `mark_processed` charges the
  redelivered message again, though
  `docs/superpowers/plans/2026-05-22-claw-engine-p3-session-store.md:36` claims
  idempotence for one process calling in order. `ImplementsLedger` has the
  exact extent: one message per failure.
- `run()` saves the PENDING record before it submits; a submission refused
  after `shutdown` leaves it PENDING. `RunsEndOrAreRefused` excepts just that.
- A line of JSON that is not an object raises `AttributeError` out of a
  backend (`ParseRaises`), where `docs/ARCHITECTURE.md:122` promises
  `ERROR(PROTOCOL)`; `run_turn` then returns, by that exception, with its child
  still running.
- `DuplicateMessage` escapes `handle_raw` without a reply: when `send_text`
  fails after the turn was saved, the redelivery is dropped and the reply is
  never sent (the last disjunct of `NothingUnheard`).
- A user who is moved between a delivery and its redelivery has the message
  answered in both workspaces; `TurnsBounded` has the exact extent.
- `max_rounds: 0` in a workspace's spec means the default, not "no rounds"
  (`RoundsFor`).
- What tools print, final texts and error messages reach the trace as they are,
  though `README.md:16` of the repository says that secrets never enter it;
  `SecretsWhole` is about the redacted environment only.
- The OpenBao path template is checked for containing `workspace_id` once;
  `{workspace_id:.3}` passes and sends workspaces with a common prefix to one
  path.
- A provision that stops before the manifest is written leaves skills no later
  one removes, and of two overlapping ones the later manifest forgets the
  other's skills; hence `~trouble` in `ManifestMatchesDisk` and
  `RevokedRemoved`.
- A user's directory that has the name of a skill is copied into and deleted at
  the revocation; `UserDirsUntouched` is checked with names apart.
- `refresh()` clears only the links of its present paths, so those of an
  earlier configuration stay in the overlay; and it lists an allowed path as
  available whether or not the commit has it.
- Of two processes that use a new database for the first time the slower one
  fails, because `CREATE TABLE` is not `IF NOT EXISTS`; its next call succeeds
  (`InitFails`, `TableIsThere`).

## Not modelled

- What strings look like: URL, name and path checks are one outcome (rejected),
  the form of a workspace id and the arguments of the OpenBao provider too.
- Token usage, argv, event payloads, the attributes of spans.
- A child that closes its output but stays alive, a grandchild holding the
  pipe, a kill that arrives late.
- A git command that hangs: `subprocess.run` has no timeout, so `refresh()`
  would hang with it; nothing can be promised there.
- A commit whose outcome is unknown to the client.
- The transaction the shared sqlite connection keeps open after a failed
  statement.
- Attachments and progress of a channel, which `handle_raw` never uses, and the
  fixed table of `engine/channels/routing.py`.
- Several `ChannelRunner` threads at once: what that does to the conversation
  layer is `conv_workers`; `Inbound` is the documented one.
- Components listed as `not_modelled` in `PROJECT.json`, with reasons: the
  registry and command line (dictionaries filled at start-up) and the examples.

## Plan

Done, in this order: `TurnLedger`, `Conversation`, its proofs, `Workflow`,
`AgentProcess`, `SkillProvisioner`, `GitSkillSource`, `LazyEngine`; then
`Policy`, `Environment`, `Inbound`, `ToolBridge`, the span in `AgentProcess`;
then `RunLedger`, and proofs of every safety property that a run checks. Next:

1. `SqliteSharing`: the one connection and its open transaction, as a resource
   that calls share below the steps of `Conversation`.
2. An abstract specification of one-time initialisation, for `LazyEngine` to
   implement as `Workflow` implements `RunLedger`.
3. `ToolBridge` over `RunLedger` in place of its `Start`, so that a run that is
   read may be in any state of its lifecycle.
