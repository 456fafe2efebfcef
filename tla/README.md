# OpenFoal verification

TLA+ models of OpenFoal's run-time core, the TLC runs that check them on small
instances and the TLAPS proofs of their most important invariants. The models
are written from the TypeScript source; section 4 lists where a document says
something else about the program than the code does.

`gateway` below stands for `src/legacy/apps/gateway/src`, `packages` for
`src/legacy/packages`, `docs` for `src/legacy/docs`.

## 1. The system

The repository holds three trees. `src/legacy` is the product that runs: a
gateway (Node.js, HTTP and WebSocket), the packages it is built from, and
clients. `src/backend` (NestJS) and `src/frontend` (React) are the beginning of
a new control plane, most of whose modules return fixed data.

The gateway is one Node.js process. `index.ts` holds a router with one `case`
per method; a request goes through `handle`: authorization, the idempotency
gate, the route, the record. Everything between two awaits is atomic; at an
await any other request may go on. The frames of a WebSocket are chained
(`handleUpgrade`, index.ts:3011-3025), so one socket has one request in
progress; HTTP requests are not chained, although they can name the same
connection. With the SQLite repositories and the local executor many awaits
resolve in the same turn of the event loop, so that requests seldom meet; with
PostgreSQL, Redis, model calls or tools they do, also when two answers of a
database arrive in one packet. The models let every await interleave.

### Inventory

| Component | State | Operations | Interacts with | What is hard | What makes it correct |
|---|---|---|---|---|---|
| Turn lifecycle: `gateway/agent/handle-agent-run.ts`, `session-prep.ts`, `execution-target.ts`, `tool-executor-adapters.ts`, `runtime.setMode` | per connection: running set, queue of mode changes; per router: target and tool scope of a session; per session: its row | `agent.run`, `runtime.setMode` | budget, sessions, core, tools | about a dozen awaits between the busy check and the busy mark; whole-row writes; state keyed by session but shared by runs | one turn per session; tools on the selected target; marks disappear with the turn; mode changes are not lost |
| Idempotency gate: `index.ts` `handle`, `packages/storage` repositories | records by key | look up, route, record, expire | every method with side effects | retries that overlap the original; failure between effect and record; callers that meet under a key, which has no actor | one outcome per key; replays are real; conflicts are real |
| Legacy core: `packages/core/src/legacy-service.ts`, `shared.ts` | `runCounter`, `runStates`, `detachedAborts` | `run`, `abort`, `continue` | turn lifecycle, tools | aborts during a tool call, before a run starts, after it has ended, after a restart; aborts behind the run in the chain of a socket | an abort stops its run only; runs and aborts end; nothing is left behind |
| Budget: `packages/storage/src/p2.ts`, `getBudgetExceededReason` | policy, usage per day, rejections; audit log | gate, charge, `budget.update` | turn lifecycle, audit | admission before, charge after the turn; midnight in between; read-modify-write of the policy | overshoot is bounded; refusals are traced; the bill is exact |
| Memory files: `packages/tool-executor/src/tools/memory.ts`, `memory.archive` | daily, legacy and long-term file of a workspace | `memory.appendDaily`, `memory.archive`, `memory.get` | tools of a turn | four awaits from read to clear; failures between them; two paths for one day | no acknowledged note is lost, none is multiplied |
| Memory search index: `packages/tool-executor/src/memory-search.ts` | SQLite FTS tables | synchronise, search | memory files | incremental updates against file times | index equals files |
| Skill synchronisation: `index.ts:3534-4033`, `packages/skill-engine` | layered configuration, status records with the next runs, known sources, state file | `skills.syncConfig.*`, `skills.syncStatus.get`, `skills.sync.runNow`, `skills.catalog.refresh`, tick, restart | bundles, state file | boundaries between layers; ticks over inherited configuration; a timer at the very minute; the zone of a request against the server's; failed writes in a tick; a state file that cannot be read; days of downtime | no run that is not earned; what is due is served; acknowledged configuration survives; sources within the parent's |
| Skill bundles and installation: `index.ts:2224-2765, 4091-4700` | catalog, artifacts, installed records, directories, state file | import, export, install, uninstall, lookup by a run | file system | crash or failure between removing, renaming, recording and saving; a state file that cannot be read | records, file and directories agree on what was acknowledged; a run gets it |
| Policy gate and repository: `SqlitePolicyRepository`, `PostgresPolicyRepository`, tool adapters | policy row | `policy.get`, `policy.update`, decision at a tool call | tools | read-modify-write; a decision older than the call; three ways to deny | an acknowledged denial holds for every later call |
| Execution targets and agents: `p2.ts`, `p2-postgres.ts`, `execution-target.ts` | targets, default marks, agents | upsert, list, choose | turn lifecycle | two statements for a default; up to four lookups of a run; a lookup that reads twice | disabled targets stay unused; the acknowledged default is used |
| Sessions and transcripts: `packages/storage/src/index.ts`, `session-prep.ts`, `recoverLegacyDefaultSessionsForPrincipal` | session rows, transcript, blobs | upsert, column updates, append, list, compact, flush, recover | turn lifecycle, memory files | whole-row writes against column writes; a compaction in several awaits; copying page by page | transcripts are recovered once and in full; turns and compactions are accounted for |
| Connection binding: `index.ts:2917-2970`, `redis.ts` | connection states, principal | `connect`, HTTP requests by connection id | every method | rebinding while requests are in flight | a request runs as its own caller |
| Local accounts: `gateway/auth.ts`, `users.*`, `packages/storage/src/auth.ts` | users, tenant links, memberships, refresh tokens | create, change status, password and memberships, login, refresh, logout, bootstrap | connections | look-ups and upserts in separate awaits; a status kept in two tables; a table of users shared by tenants; crash between revoke and issue | acknowledged accounts stand; names are unique; tokens go to active users; one live token per login |
| Pi core: `packages/core/src/pi-*.ts`, `shared.ts` | run map, event queue per run, message history per session | run, abort | turn lifecycle, external agent library | agent and consumer run apart; aborts before the agent exists; consumers that leave; failures reported and then resolved; settings that throw behind *accepted* | one outcome per run; runs end; aborts reach; the history keeps the latest turns |
| Docker runner and orchestrator: `src/legacy/scripts/*-server.mjs` | leases of containers | acquire, run, release | execution targets | a crash with leases held | no container is shared or leaked |
| Clients: `packages/personal-app`, `apps/*`, `src/frontend` | pending requests, pages, stores | connect, call, render | gateway | reconnects with requests pending | a reply reaches its request |
| New control plane: `src/backend` | users, sessions in Redis, members | login, logout, members, audit | frontend | session expiry | a logged-out session is refused |
| Tools `bash`, `http`; workspace prompt and configuration; protocol package; migrations | none, or outside the process | | | I/O and text | |

`PROJECT.json` lists the same components with their status and the hazards
found while reading, each with its line and the properties that cover it, or
with the reason why none does.

## 2. Modules

| Module | Models | Its promise |
|---|---|---|
| `AgentRun` | `handleAgentRun` and `runtime.setMode`, one action per await | `SessionTurn` (abstract): a session is held by one run, whose tools execute on the target it selected |
| `Idempotency` | the gate in `handle` and its repository | `OncePerKey` (abstract): the first success decides a key, later successes repeat it |
| `CoreRuns` | `run`, `abort`, the tool loop and the chain of frames of a socket | |
| `BudgetGate` | the gate, the charge, `budget.update` and the calendar | |
| `MemoryArchive` | `memory.appendDaily` and `memory.archive` | |
| `SkillSync` | layered configuration, scheduler and state file | |
| `SkillInstall` | installations: directories, records and the state file | |
| `Accounts` | `users.*`, login, refresh, logout and bootstrap, one action per call of the store | |
| `PiCore` | generator, agent and event queue of the Pi core, the history of a session | |
| `SessionStore` | row and transcript of a session over turns, compactions and recovery | |
| `ToolGate` | where a run's tools execute and whether, against administrators who change both | |
| `MCx` | values for TLC and symmetry for module `x` | |
| `AgentRunProofs`, `IdempotencyProofs`, `BudgetGateProofs`, `SkillSyncProofs`, `SkillInstallProofs` | the theorems about the module they are named after | |
| `CoreProofs` | the theorems about both cores, `PiCore` and `CoreRuns` | |
| `RecordProofs` | the theorems about what is kept of sessions and days, `MemoryArchive` and `SessionStore` | |
| `AccessProofs` | the theorems about who may do what and where, `ToolGate` and `Accounts` | |

In every module a request is a *slot* (an element of `Runs`, `Calls`,
`Archives`, ...) whose `pc` names the await it stands at; a slot is used again
when its request is over. The locals of a handler that later code reads are
variables; history variables (marked *history*) only record what happened, for
the properties. Definitions marked `Mutation` are not part of a model: they are
variants of the action that follows them, each of which breaks a property.

### AgentRun

| Variable | Code |
|---|---|
| `running`, `queued` | `ConnectionState.runningSessionIds`, `queuedModeChanges` (index.ts:353-361) |
| `slot` | the entries of `sessionExecutionTargets` and `sessionToolScopes` of a session, named by the run that stored them |
| `mode` | the `runtimeMode` column of a session row, `"none"` when there is no row |
| `target`, `view`, `taken` | the locals `selectedTarget`, `session`, the queued mode a finished turn writes |
| `intent`, `ranOn`, `met` | history: the last accepted mode; where a run's tools have executed; the executing runs that another turn of their session has overlapped |

Steps of a run, in order: `StartRun` (busy check, 133), `SelectTarget`,
`CheckBudget`, `LoadSession`, `RecheckSession` and `CreateSession` (251-271),
`ApplyAskedMode`, `PrepareSession`, `SaveInput` (the write of the whole row,
345), `EnterTurn` (351-357: only here does the session become busy),
`CallTool`, `EndTurn` (the finally block and the queue), `ApplyQueuedMode`,
`ReplyToRun`. `FailRun` is a rejected await at any of them; only the core loop
has a finally block. `StartSetMode` queues the change when the session is in
this connection's running set and otherwise goes on to `ApplySetMode`.
Whether a target is found and whether the budget admits the run is a choice;
title, preview, transcript, metrics and audit entries are left out.

`SessionTurn` has three variables: who holds a session, which target a run has
selected, where its tools have executed. `AgentRun` implements it with
`holder <- slot` when requests of a session do not overlap.

### Idempotency

A key stands for `tenant:workspace:method:scope:key`
(`buildIdempotencyCacheKey`): the caller is not in it. A fingerprint is the
parameters as `authorizeRpc` leaves them, of which the model tells one from the
others: `Actor`, which is what the client sent, else the name of the principal
(auth.ts:459), else, when authentication is off, missing. The `userId` that
methods of a workspace scope get (auth.ts:404-415) is one of the other
parameters, so that two callers may have all of them in common. An outcome is a
fingerprint with a numbered result. `Send`, `Lookup` (no record, conflict or
replay), `Execute` or `Refuse` (the route), `Record`; `Fail` is a rejected
await, `Crash` a restart of the process with a repository that survives,
`Expire` the `EX` of the Redis repository. `Routes` says which connection sends
under which key and with which actor; under a `TurnKey` clients, of any
connections, wait for each other's answers, and under all others they do not.
The histories `done` and `told` are whose effect a result is and who has been
answered with it, of the requests that leave their actor to the gateway.

### CoreRuns

`inbox` is the promise chain of a socket: its first frame is in progress.
`StartRun` is `createRunState`, `AcceptRun` the *accepted* event, `StartTool`,
`FinishTool`, `StopAborted` and `CompleteRun` are the tool loop with its three
abort checks, `CloseRun` the finally block of `run` and the reply.
`SendAbort` takes any id, as `agent.abort` does: one of a run of another
client, of an earlier process or of a run to come. `HandleAbort` flags the run
in the map or remembers the id in `detachedAborts`. The histories are the runs
that failed with ABORTED, the ids that aborts have named and those of them that
no run had by then (`ahead`). `Restart` starts a new process, with `coreRunCounter`
(`runCounter` in the code) at zero. Where a module shares a proof module with
another one, its `Init`, `Next`, `Spec` and `TypeOK` carry its name:
`CoreSpec`, `StoreSpec`, `AccountsSpec`.

### BudgetGate

`ReadPolicy` and `WeighUsage` are the two reads of the gate, `CountRejection`
and `LogRejection` the two writes of a refusal, `EndTurn` the moment the tokens
of a turn are known, `ChargeRun` the `addUsage` that follows. `StartUpdate` and
`WriteUpdate` are the read and the whole write of `budget.update`, from any
number of administrators; the history `asked` has the value that each field was
written with last, `contested` the fields that were written while another
update of the scope stood between its two steps. `Midnight` may come at any
time. One token costs one unit, so that `spent` is the monthly
sum of `used`.

### MemoryArchive

A file is a function from notes to the number of their copies, or `NoFile`.
`AppendDaily` is one synchronous call; `FailAppend` is its second write
failing after the first. `StartArchive` reads the daily file, `ReadLegacy` the
legacy one when there is none, `AppendLongTerm` keeps what was read,
`ClearDaily` empties the canonical path whatever it holds by then,
`ClearSource` the path that was read if it is the other one.

### SkillSync

| Variable | Code |
|---|---|
| `config`, `next`, `known` | `skillSyncConfigs`, `nextRunAt` of `skillSyncStatuses`, `knownSkillSources` |
| `disk`, `up` | the state file, the process |
| `earned`, `early`, `zoned`, `acked`, `doubted`, `lost`, `moved` | history: runs that are due to a scope and runs without; the zone its next run was computed in; acknowledged configurations, those in doubt, those a start could not read; scopes with a change above |

The handlers have no await, so a request is one action that changes memory and
then saves, or changes memory and fails to. `Layers[s]` are the scopes above
`s`; `Effective` lets the innermost layer that sets a field decide it.
`NextDaily` is today's sync time or, when that is not ahead, tomorrow's, in the
zone that a layer sets, else in that of the request (index.ts:3632) or, in a
tick, of the server (3997). A zone is its distance from the server's. The code
gets the local time by printing it with `hour12: false` and reading it back;
where that prints midnight as 24, as Node's `en-CA` does, the hour after it
counts for the evening to come, and the next run for a sync time in that hour
comes out in the past. `Night` are the steps of that hour. `Tick` goes through the scopes with a configuration of their own, runs the due
ones and sets every next run anew; when its save fails nobody catches the
error and the process ends (`TickFails`). `Restart` reads the file;
`RestartEmpty` is the catch of `loadSkillRuntimeState` (4412), which takes a
file that cannot be read or parsed for none, so that the next save overwrites it.

### SkillInstall

One skill in every scope a run may take it from. `files` holds the contents of
each version's directory, `record` the installed records, `disk` the state file.
`Install` replaces the directory, sets the record and saves; `InstallStops` is
the same request cut short after any of its system calls, by an error that is
answered or by the end of the process. `Publish` replaces the artifact while
something of it is installed. `Restart` and `RestartEmpty` are those of
SkillSync, for the other half of the same file. `Resolved` and `Prompt` are what a run finds.

### Accounts

A request is a record with its place (`pc`) and the locals that later calls
read. `Find`, `Insert`, `Link` and `Member` are `upsertLocalUser` with its four
queries, from `users.create` and, for the default administrator, from the
bootstrap in front of every login and refresh. `Wipe`, `Grant`, `Link` are
`replaceWorkspaceMemberships`. Login is `LookUp`, `Bind` (the tenant link),
`List`, `Default`, `Issue`; refresh `CheckToken`, `ReadUser`, `Bind`,
`Revoke`, `Issue`. As the bootstrap rewrites the administrator each time, what
is acknowledged for that account does not last, and the properties leave the
administrator out. `users` is the table of all tenants and `link` this
tenant's: an account with a row and no link is another tenant's, and `Arrive`
lets `users.updateMemberships` name it, which asks nobody (index.ts:1159-1173,
storage auth.ts:1056-1091), while changes of status and password are refused
for it. `Foreign` are the names of such accounts. An update for an id that no
user has is acknowledged as well and leaves rows that nobody reads; it is left
out. The status of an account is kept in both tables, and so is it in
`granted`. Two histories follow the requests: `granted`, what was last
acknowledged of a user, and `met`, the requests whose user was active at some
instant since it was looked up, kept up to date by every step of any request.

### PiCore

`gen` is where the generator stands that the gateway consumes, `agent` the
promise that works beside it, `queue` the events between them. `Run` registers
the run and hands over *accepted*, before the try block; `Refuse`, `Unfit`,
`Throws` and `Start` are its four ways on. `Throws` is what the configuration
(config.ts:105-110, 157) and the workspace files (workspace-prompt.ts:57-66) do
when they cannot be read or written: the block has no catch. `Progress`, `Stop` and `PromptEnds` belong to the
agent; `GiveUp` is a consumer that throws over an event, whose agent goes on
working. `history` holds the turns whose messages are kept.

### SessionStore

Usage is counted in twentieths of the context, so that the threshold 0.85 is
17 and a compaction takes 9 away but leaves 7. A turn is `GetSession`, `Exists`,
`Create`, `Prepare`, `Flush`, `Settle`, `AppendInput`, `Upsert`, `Reread`,
`Finish`, `Persist`. A recovery is `Ask`, `FindLegacy`, `CheckCopied`,
`ListBatch` and `Copy`, page by page, and `Move`, which writes the row it read
at the beginning.

### ToolGate

`StartUpsert`, `WriteTarget`, `ClearOthers`, `ReplyToUpsert` are
`executionTargets.upsert` over PostgreSQL; `StartUpdate`, `ReadPolicy`,
`WritePolicy`, `ReplyToUpdate` are `policy.update`. A run goes through
`AskAgent`, `FindDefault` of the workspace and of the tenant, and
`FetchTarget`, and then calls tools, each behind `PassGate`. The gate reads the
policy of the default scope, because the tools set no tenant in their context.
The history `denied` takes a policy's denials when an update is answered that
no other one overlaps, and gives one up as soon as an update is asked for that
allows the tool or its class.

## 3. Runs

Every run explores the whole state space of its instance and is expected to
pass. Each property has a mutant in `PROJECT.json`, a plausible bug in one
definition, under which the same run finds the property violated.

| Run | Instance | Shows |
|---|---|---|
| `runSerial` | two sockets with a session each, one session a stranger's, two runs, one mode change, one rejected await; with fairness | `LastAcceptedModeWins`, the refinement `ImplementsTurns` (a session has one turn at a time, whose tools run on its target), and `BusyIsReleased` |
| `runHttp` | one HTTP connection and session, two overlapping runs, one mode change, one rejected await | `MarkersHaveTurns`: no mark and no target outlives its turn; `QueuedBehindTurn`: without failures a queued change has a turn that will take it; `LoneTurnIsGuarded`: a turn that no other one overlaps keeps its busy mark and has its tools on its own target |
| `idem` | two callers on two sockets who meet under one key, one of them also with the other's name, a key of one of them, two slots, two parameters, a failure or restart, an expiry, three effects | `RepeatsNeedFaults` (at most one repetition per failure or expiry), `AnswersAgree`, `AnswersAreReal`, `StrangersGetNoReplay` (a caller is not answered with another's outcome, where names tell them apart), the refinement `ImplementsOncePerKey` |
| `coreAborts` | two sockets, two runs of up to two tools, two run ids per process, aborts of any id, a restart; with fairness | `AbortStopsRun`, `AbortHitsItsId`, `NothingStaysBehind` (no state of an ended run, no remembered abort that a new id can meet, but one that named it ahead), `FramesAreAnswered` |
| `budgetDays` | two run slots, three runs of up to two tokens, limits 2 or none, two administrators with an update each, of the daily limit or of hard, three days in two months, one rejected await | `OvershootBounded` (by day and by month), `BarredAreRefused`, `PatchesSurvive` (a patch is undone only by an update that overlaps it), `BooksAreExact` (every refusal in the audit log was counted, the bill is what the turns cost, up to failures) |
| `archive` | two notes and a legacy file, two slots, three archives, two failures | `LossNeedsOverlap`: failures and retries lose nothing; `ArchiveMoves`: without them a note is moved exactly |
| `skillDaily` | a tenant and a scope below it, two time zones, days of two steps of which the first prints as hour 24, five instants, two changes, two faults (failed writes, crashes, failed loads); with fairness | `RunsAreEarned`, `DueIsServed`, `AcknowledgedSurvives`, `SourcesWithinParent` |
| `skillFaults` | two scopes of one chain, two versions, two bodies, two faults (failed calls, crashes, failed loads) | `AcknowledgedSurvives`, `RunGetsAcknowledged` |
| `accounts` | three users (the administrator; one who may be there, in this tenant or in another), two names, passwords and workspaces, three tokens, two slots, three requests, one rejected call | `AccountsAsAcknowledged`, `OneAccountPerName`, `TokensOfActive`, `OneHeadPerFamily` |
| `piRuns` | one session, three runs of which two are consumed at once, a history of two turns, queues of one event, settings that may throw; with fairness | `OneOutcome`, `HistoryIsKept`, `RunningIsLive`, `AbortReaches`, `RunEnds` |
| `sessions` | two slots, three requests, an old transcript of up to two batches of two, one rejected call | `RecoveredInFull`, `TurnsAreAccounted` |
| `gates` | the local target and another, two tools of which one is high-risk, two administrators with three requests, one run slot | `PlacementHolds`, `DenialsHold` |

Deadlock is checked in the runs of AgentRun, Idempotency, CoreRuns, SkillInstall
and ToolGate. It is off in the others, whose bounds on requests, runs, days,
time or notes end every behaviour.

### What a property excepts

Several properties hold only outside a situation in which the code really does
break them. The situation is then a history variable, so that the property
says exactly that nothing else breaks it:

- `LoneTurnIsGuarded`: turns that another turn of their session has overlapped
  (`met`), which two HTTP runs or two connections bring about;
- `PatchesSurvive`: fields written while another update was about to write
  (`contested`);
- `StrangersGetNoReplay`: clients that send an actor of their own, callers of
  one name and servers without authentication: the gate takes all of them for
  one caller;
- `NothingStaysBehind`: aborts of an id that no run had yet (`ahead`): a run
  that gets it is born aborted;
- `RunsAreEarned`, `DueIsServed`: sync times in the hour that prints as 24
  (`Night`), which are run every minute; `DueIsServed` also scopes that a start
  could not read (`lost`);
- `OneOutcome`: runs whose stream has thrown (`threw`), and these have no agent;
- `LossNeedsOverlap`: notes appended during an archive (`beside`);
- `AcknowledgedSurvives`, `RunGetsAcknowledged`: a scope is in doubt
  (`doubted`) after a request that was refused half-way, and after a start that
  could not read what was acknowledged of it, until the next one is
  acknowledged; `SourcesWithinParent`: a layer above has changed (`moved`);
- `AccountsAsAcknowledged`, `OneAccountPerName`, `TokensOfActive`: names that
  two requests in flight wrote at once, that a refused request may have
  written, or that `users.updateMemberships` brought in from another tenant
  (`disputed`); `OneHeadPerFamily`: overlapping uses of a token
  (`raced`). The instance of the run is too small for a token to go to a user
  whose name is disputed and who was never active: the search for the
  invariant of section 5 showed that the code allows it, in five requests (TLC
  finds it with one user and `MaxCalls` 5). A bootstrap that fails half-way
  leaves `users` and `user_tenants` disagreeing on the status; a login looks
  the account up by one table, and before it asks for the status of the other,
  a replacement of memberships has written that one (auth.ts:1084). `TokensOfActive`
  therefore excepts the disputed names, for which it would be false;
- `HistoryIsKept`: sessions that two agents worked for at once (`overlapped`);
  `RunningIsLive`: consumers that give up on the first or the refusing event
  (`leaked`);
- `RecoveredInFull`: overlapping or failed recoveries, and a turn that took the
  session id first (`hasty`); `TurnsAreAccounted`: turns that met another
  request or failed (`mixed`);
- `PlacementHolds`: overlapping upserts, of one target (`tangled`) or of any
  (`crossed`); `DenialsHold`: a denial counts once its update is answered while
  no other is in flight, and from then on also through overlapping updates.

### Why the bounds are enough

- *Two slots, sockets and keys.* Every hazard is a meeting of two requests: a
  lookup and a record, a check and a mark, a read and a clear. A third
  request adds no new pair. Slots are used again, so that sequences of requests
  are as long as the counters allow, or unbounded (AgentRun).
- *Failures.* One or two rejected awaits reach every place once and a retry of
  it.
- *Idempotency.* Three effects are an original, its repetition after a fault
  and one after an expiry, and a violation shows with fewer of either. k1 has
  what takes two callers, k2 what takes one socket. `AnswersAreReal` and
  `StrangersGetNoReplay` are proved for all routes, bounds and transports.
- *CoreRuns.* Two ids are the fewest with which an abort can name another run
  than the one in the map, two tools the fewest with a check between tools, one
  restart makes ids come back, and either id may be named before a run has it.
  Everything but `FramesAreAnswered` is proved for all bounds.
- *BudgetGate.* Two slots that cost up to the limit overshoot as far as they
  can; the days 0, 1 of a month and 2 of the next separate the two sums. Two updates
  are the fewest that overlap, and patches of two fields the fewest of which
  one can undo the other. Other limits, slots, administrators and costs are
  covered by the theorems.
- *MemoryArchive.* The third archive repeats one that failed or overlapped.
  Proved for all bounds.
- *SkillSync.* The patch of the sync time to 0 and the default 1 are the two
  places of a time in a day, the first of them in the hour that prints as 24;
  with two zones every local day begins at either step; five instants are two days and the minute after; the two
  changes may be of parent and child in either order. Everything but
  `DueIsServed` is proved without these bounds.
- *SkillInstall.* Two faults are one that leaves a trace and one that hits the
  repair. Proved for all bounds.
- *Accounts.* Three requests (`MaxCalls`) are a change, a request that overlaps
  it and one that sees the outcome; a family of tokens reaches its third
  generation. Proved for all bounds.
- *PiCore.* Three runs fill a history of two turns and push one out; a queue
  of one event lets either side be ahead. Everything but `RunEnds` is proved
  for all bounds.
- *SessionStore.* With batches of two, four entries need a second batch and a
  third that is empty; an input and an output of nine twentieths reach the
  threshold with the second turn, so that a compaction happens and the turn
  after it sees it. Proved for all bounds.
- *ToolGate.* Two administrators overlap in every way; the third request comes
  behind them. One run is enough since runs share nothing here. Proved for all
  bounds.

### Fairness

- `AgentRun!FairSpec` and `CoreRuns!FairCoreSpec` give every step of a request weak
  fairness: the event loop resumes each settled await, tools and model calls
  end because their executors have timeouts, and a promise chain handles its
  next frame when the previous one is done. Clients need not send anything,
  awaits need not fail, and a turn need not call a tool (`CallTool` has no
  fairness, so that `EndTurn` does not wait for it). `StartRun` of CoreRuns is
  fair because a frame at the head of its chain is handled.
- `SkillSync!FairSpec`: the timer fires every minute and a supervisor restarts
  the process. The clock need not go on.
- `PiCore!FairSpec`: the gateway's loop asks for the next event, and the
  agent's prompt settles. The agent need not report anything before.

## 4. Disagreements between code and documents

Seen while modelling; the properties above state the part that does hold.

1. **Session lock.** `docs/BACKEND_ARCHITECTURE_V1.md:101` has the gateway lock
   sessions against re-entry. The busy check is at handle-agent-run.ts:133, the
   mark at 351, with about ten awaits in between: two HTTP runs of one session
   both pass. `LoneTurnIsGuarded` says what a turn that meets none can rely on,
   the theorems named *Serial* what sessions used over one WebSocket can.
2. **Queued mode changes.** `docs/AGENT_DESIGN_V1.md:145` has a queued change
   take effect in the next turn. When the turn throws, the queue is not drained
   (394-396 are behind the loop, not in its finally block), and the change
   waits in an idle session.
3. **Idempotency.** `docs/BACKEND_TEST_STRATEGY_V1.md:30` has the second request
   return the first result. Over HTTP a second request that overlaps the first
   is executed too: lookup (index.ts:530) and record (587) enclose the route.
4. **Abort.** `docs/API_CONTRACT_V1.md:59` has `agent.abort` stop a running
   run. On the socket of the run it waits until the run is over and is answered
   *aborted* all the same.
5. **Archive.** `docs/API_CONTRACT_V1.md:71` and the test
   gateway.router.test.mjs:1872 have the archive move the daily notes. A note
   appended between its read and its clear is cleared unread.
6. **Idempotency key.** `docs/API_CONTRACT_V1.md:117` has records kept by
   method, key, *actor* and session. The key of the code (index.ts:6227) has no
   actor: callers who choose one key meet under it. The fingerprint makes that a
   conflict when their actors differ; callers of one name, callers who send an
   actor of their own, and all callers of a server without authentication are
   answered with each other's outcomes.

Not against a document, but worth a reader's attention:

7. **Policies of tenants.** `policy.update` writes the policy of a tenant and a
   scope; the gate of a tool call always reads that of the default scope
   (tool-executor-adapters.ts:36): neither core sets a tenant in the context of a
   tool, and the adapter that does so (64-75) comes behind the gate. The policies of all other scopes are stored and shown, and decide
   nothing. ToolGate therefore models the default one only.
8. **Sync times after midnight.** A sync time from 00:00 to 00:59 gets a next
   run in the past, because midnight is printed as hour 24
   (skill-engine/src/index.ts:286-348), so every tick runs the scope again.
9. **Zones of requests.** The next run that a client is shown is computed in the
   zone of its request (index.ts:3632), the one that the tick sets in the
   server's (3997), unless a layer sets a zone.
10. **Unreadable state file.** `loadSkillRuntimeState` (index.ts:4412) takes a
    file that it cannot read or parse for none. The next save overwrites it, and
    every acknowledged configuration and installation is gone.
11. **Memberships.** `users.updateMemberships` (index.ts:1159-1173, storage
    auth.ts:1056-1091) checks neither that the id has a user nor that the user
    is of the tenant: an unknown id is acknowledged, an account of another tenant
    is linked, and then two accounts may have one name. A disabled account
    becomes active in `user_tenants`, which `users.list` shows, and stays
    disabled in `users`, which a login asks.
12. **Exceptions of the Pi core.** Settings that cannot be read and workspace
    files that cannot be written throw behind *accepted*; `run` has no catch
    (pi-service.ts:60-166), so its stream ends without an outcome event.
13. **Ids of aborts.** `agent.abort` (index.ts:1508-1522) accepts any id. An id
    that no run has stays in `detachedAborts`, for the life of the process when
    its run is over or never comes, and a run that gets it later is born aborted.
14. **Modes on another connection.** `runtime.setMode` asks the running set of
    its own connection (index.ts:1378). On a connection other than the turn's
    the change is stored at once, not queued.

## 5. Proofs

Every safety invariant and action property that a run checks is also the
statement of a theorem, which TLAPS checks for every value of the constants,
from the assumption of the module alone (`AgentRunAssumption`,
`IdempotencyAssumption`, `CoreRunsAssumption`, `BudgetAssumption`,
`MemoryAssumption`, `SkillSyncAssumption`, `SkillInstallAssumption`,
`PiCoreAssumption`, `SessionStoreAssumption`, `ToolGateAssumption`,
`AccountsAssumption`: disjoint sorts, finite slots where a bound counts them,
natural-number bounds) and, for the theorems named *Serial*, from
`SerialAccess` (a session is used over one WebSocket) or `SerialKeys` (the
requests under a key are handled one after the other, because it is used over
one WebSocket or its users take turns). `BooksStayExact` assumes `FiniteCalendar` besides: a sum over
months needs finitely many of them.

Each inductive invariant below was first checked as an invariant of the run of
its module, where TLC found what a hand-made strengthening had overlooked.

- **AgentRunProofs.** `InvariantHolds` is the inductive invariant: types, the
  stage each local belongs to, and that every busy mark and every stored target
  has an executing turn. The stages are needed because a mode is written from a
  local that must have been set, the turns because `LeaveTurn` removes a mark
  that another turn of the session may still need. It gives `TypeCorrect` and
  `MarkersStayWithTurns`, and `QueuedBehindTurn`, inductive on top of it, gives
  `QueuedChangesAreTaken`, for any number of connections, requests and failures, overlapping or not.
  So does `LoneTurnsAreGuarded`, whose invariant says in addition that of two
  turns of a session that execute at once both are in `met`, that a turn outside
  it has its mark and the session's target, and that its tools went there.
  Under `SerialAccess` the invariant grows by `Chained` (one request of a
  session is in flight); by what each run's tools have executed on,
  which gives the refinement `SerialTurnsKeepPromise`; and by the facts that no
  change is ever queued and that the row a run is about to write back is fresh,
  which give `SerialModesAreKept`.
- **IdempotencyProofs.** `GateIsHonest`: whatever overlaps, fails or expires,
  answers and records stand for effects with the parameters of the request,
  its actor as the client or the gateway has put it there; the invariant adds that a request about to be recorded has had its effect.
  Under `SerialKeys` at most one request per key is in flight and an answered
  key has its answer recorded: `SerialAnswersAgree` and the refinement
  `SerialGateKeepsPromise`. `SerialRepeatsNeedFaults` counts: the effects of a
  key are at most the failures and expiries, plus one while a record or a
  request that is about to record stands for the last of them.
  `StrangersAreToldApart` needs no assumption: an effect that a
  caller's request has had, with the actor left to the gateway, carries the name
  of the caller, and so does every one that the caller is answered with; as
  results are numbered, one result cannot carry two names.
- **BudgetGateProofs.** `OvershootIsBounded`: usage stays below the loosest
  limit a scope has had plus one maximal cost per run slot, by day and by month.
  The inductive invariant counts the turns in flight: usage plus their number
  times the maximal cost stays below that bound, as each was admitted when the
  usage was below the limit; it also says that nothing is charged to days that
  are yet to come and that every policy a request has read is within the
  loosest one. The counting uses the library's theorems on finite sets.
  `BarredGetNoTurn` follows a run that is over the budget through the gate:
  what it has read refuses it, and usage only grows within a day.
  `RefusalsLeaveTraces` counts the runs between the counter and the log, and
  `PatchesAreKept` says of any number of administrators that an update in flight
  has read, in each field, what the policy stores, unless the field has been
  written since: `CopiesAreCurrent`. `BooksStayExact` adds
  the bill: what was answered, plus the tokens of the runs that wait for their
  answer, is at most what was billed, and that, plus the tokens of the runs
  that wait to be charged, at most what the turns have used. All of these are sums over sets of any
  size, written with the fold of the community modules. That the fold of a
  function changes by as much as one of its values does is proved by a
  minimal counterexample instead of an induction: a smallest set whose partial
  sums misbehave exists because `<` on the naturals is well founded, and taking
  an element out of it gives a smaller one.
- **CoreProofs**, the legacy core. `CoreInvariant`: a process hands out an
  id once, so that no two runs in progress share one; an abort in flight is in one place of one inbox, and it,
  every flag and every remembered abort go back to an id that was asked for. The
  place is needed because `HandleAbort` takes its frame away and the slot is
  used again; the remembered ids are of the past or were named ahead of any run,
  because `agent.abort` takes both. It gives
  `AbortsHitTheirId`, `NothingIsLeftBehind` and the action property
  `AbortsStopRuns`.
- **RecordProofs**, memory files. `LossIsExplained`: every note that was acknowledged,
  was not cleared on request and was not appended while an archive was in flight
  is in the long-term file or still in a daily one. The inductive invariant
  `NotesAreSafe` adds what each archive in flight has read: clearing empties the
  path whatever it holds, so a note that is only in a daily file has to be in
  the text of every archive that is yet to write or to clear. `NotesAreMoved`
  counts copies: while nothing fails and archives do not overlap, a note has its
  due number, and as many more as the one archive in flight has kept and is yet
  to clear; what it has read is what the file still holds.
- **RecordProofs**, sessions. `StoreInvariant` has three parts. `ShapeInv`
  says how far each request has come, and that the page a recovery holds is the
  end of the rest it has not copied. `CopyInv` holds while no recovery has
  overlapped, failed or met a turn: the transcript then has exactly the old
  entries behind the place the recovery has reached, each once, and with one
  batch in the old order; it gives `RecoveredSessionsAreComplete`. `TurnInv`
  holds while turns have been alone: once a turn has flushed and until it has
  settled its row the notes are one ahead of the row's count, and its input stands in the
  transcript without its output until it persists; it gives
  `TurnsAreAccountedFor`. The parts are conditional on their own history
  variables because each survives what the other does not. The claim that
  every old entry is there once is counted (`Places`), so that copies out of
  order or twice, and entries nobody had, are excluded for any batch size.
- **SkillSyncProofs.** `SyncInvariant`: a scope without an earned run has its
  next one ahead of the clock, on its sync time in the zone it was computed in,
  or none, unless its sync time is in the hour that prints as 24; so a tick that finds
  it due finds it earned. The arithmetic of days is in lemmas about `NextDaily`
  (outside that hour it is ahead, at most a day away and on the sync time, in
  every zone), the layers in lemmas
  about `Effective` for up to three of them. `AcknowledgedConfigSurvives` and
  `ScheduledRunsAreEarned` follow; `SourcesStayWithin` has an invariant of its
  own, that the sources of a scope and those above it are bounded both in
  memory and as the file would restore them. `TicksLeaveNothingOwed` is the
  safety half of `DueIsServed`: a tick that is saved leaves no scope due, save those of that hour, and
  none that is enabled without its next run, whatever went before, a failed load
  included; that ticks
  keep coming is the fairness of the run.
- **SkillInstallProofs.** `InstallInvariant` is types and
  `AcknowledgedSurvives`, which is inductive: every handler changes one scope
  and ends with it acknowledged, in doubt or untouched, and a start that cannot
  read the file puts all scopes of it in doubt. `RunsGetWhatWasAcknowledged`
  follows for chains of any length, the nearest record being the nearest
  acknowledged one.
- **CoreProofs**, the Pi core. `PiInvariant` says of each run how generator, agent and
  queue stand to each other: while the prompt runs the queue holds progress
  only, afterwards it ends in the one event that concludes the run, and a run
  has its entry in the map from *accepted* to its close or its exception, which
  comes before it has an agent. That gives
  `OutcomeComesOnce`, `MapIsOfLiveRuns` and `AbortsReach`.
  `LatestTurnsAreKept` needs in addition that the only agent of a session that
  no two have worked for holds the stored history and its own turn, and a lemma
  that appending and then trimming keeps the last turns.
- **AccessProofs**, targets and policy. `GateInvariant` has a part for each property. A disabled
  target has a disabled row and no upsert in flight, so no lookup finds it.
  While no two upserts have overlapped, the default rows are the acknowledged
  ones, except for the one upsert that may be under way. A denied tool is denied
  by the stored policy and by every copy an update has read, and no update in
  flight may free it, so that whichever of them writes last denies it too. That
  gives `PlacementsHold` and `DenialsSurvive`.
- **AccessProofs**, accounts. `AccountsInvariant` has six parts beside the
  types. `CarryInv` is what a request has in its hands at each of its calls.
  `OverlapInv`: names that two requests write at once are disputed, and
  families that two use at once raced. The name of an account that an update brings
  in from another tenant is disputed from the moment the update arrives, until
  which the account is not linked. `RowInv`: a user row that is linked, was
  acknowledged, holds a token or is held by a request exists under the name the
  request knows, and while a creation has found nobody of its name there is
  nobody; the latter is what keeps names unique over two statements that look
  and write in separate awaits. `HeadInv`: a family has one token that is not
  revoked, and the refresh that has checked it is the one that holds it.
  `ActiveInv`: where `users` has a user active and `user_tenants` disabled, the
  name is disputed or the request that is about to link it again is in flight;
  a login or refresh that goes on has met its user active. `AnswerInv`: the
  tables, the status of both, hold what was last acknowledged, except for the one request that
  writes the name, for which it says column by column how far it has come.
  `AcknowledgedAccountsStand`, `NamesAreUnique`, `TokensGoToActive` and
  `OneHeadOfALogin` follow, for any number of users, names, requests in flight,
  lists of memberships, tokens and rejected calls.

What the attempts found out about the models: `TokensOfActive` without its
exception is false (section 3); the history `met` has to be kept for every
request in flight and not only at the steps of its own, since an account may be
active only while its request waits; and `RecoveredInFull` is stated with the
places of an entry instead of a filtered transcript, which says the same.

Model-checked only: the liveness properties (`BusyIsReleased`,
`FramesAreAnswered`, `DueIsServed`, `RunEnds`), which are out of the prover's
reach. The theorems named *Serial* leave the overlapping case of their
properties to the runs. No module has a RECURSIVE operator.

## 6. What is not modelled

- *No state of their own, or text:* user interfaces, formatting, request
  validation (the models start from valid requests), prompts and titles, the
  protocol package, the workspace prompt and configuration, metrics.
- *Outside the code:* child processes, HTTP tools, containers and the docker
  command line behind the runner and the orchestrator, the agent library, the
  identity provider of external logins, the object store.
- *No decision depends on it:* the memory search index and its ranking, blobs of
  large transcript entries, and what their reconciliation repairs.
- *No shared state to interleave:* the gateway client of the personal app (one
  request after the other), the control plane and its frontend, whose modules
  answer single requests over fixed data or a Redis key each.
- *Left for later:* the binding of HTTP connection ids to principals,
  `sessions.create`, external identities in Accounts, the export and the
  checksums of bundles. `continue` of either core is not routed by the gateway.

Most lines of the repository are in the first two groups: clients, rendering,
conversion of payloads and SQL text. `PROJECT.json` gives the reason per
component.

## 7. Plan

1. Theorems on the safety half of the other liveness properties, as
   `TicksLeaveNothingOwed` is of `DueIsServed`.
2. An abstract specification of Accounts, an atomic table of accounts with
   sessions, refined outside the disputed names.
3. AgentRun composed with BudgetGate and SessionStore, for the whole-row write
   of a turn against the columns that other requests write.
4. **ConnectionBinding**: connect, principals and expiry against requests in
   flight.
