# citshe, specified

citshe is a self-hosted panel where people write tasks and AI agents work on
them: every task is executed by Claude Code in a Docker container of its own,
on a queue that the API server drains, and people watch and take over the
terminals of these containers in the browser or with the `citshe` command line.

This directory holds TLA+ specifications of the parts of citshe where several
actors meet: the modules, the TLC configurations that check them on small
instances, and the proofs of what holds for every size. The definitions are
translated from the code; `PROJECT.json` maps each of them to its lines.

## 1. Inventory

Paths are under `src/apps/api/src/` unless they start with another directory.

| part | state it keeps | operations | what is hard about it |
|---|---|---|---|
| **Orchestration** (`modules/mcp/orchestration/orchestration.service.ts`, `infrastructure/queue/`) | `Task.status`, `Task.sessionId`, `Organization.queuePaused/autoPull`, one BullMQ job `task-<id>` per task | enqueue, start build, pause and resume, auto-pull, reorder, `executeTask` in several concurrent slots, four periodic sweeps | every operation is a chain of awaits on Postgres, Redis and Docker, and all of them interleave; the server may restart between any two |
| **Tasks** (`modules/tasks/`) | the task rows, their comments and agent log (JSON columns) | create, import, update, cancel, close, reopen, remove, comment, the worker's status call | any status may be written over any other; JSON columns are read, changed and written back |
| **Sessions** (`modules/sessions/`) | `AgentSession` rows, containers `citshe-session-<id>` and their volumes | create, import of a local session, list (which synchronizes rows with Docker), stop, resume, recreate, delete | the row and the container change at different times; starts take minutes and are not cancelled |
| **Terminals** (`terminal-manager.service.ts`) | a table from terminal id to the stream of a `docker exec`, output buffers | start, attach, input, resize, close, close by prefix | check-then-act around awaits; the `end` callback of an old stream arrives after a new one is registered; the session's container goes away below it |
| **Socket gateway** (`infrastructure/websocket/events.gateway.ts`; `src/apps/web/src/lib/socket/`, `src/packages/cli/src/commands/attach.ts`) | who is authenticated, for which organization, in which room | authenticate, subscribe, session:attach, disconnect | handlers await while later messages of the same socket are handled; sockets reconnect |
| **Workflow runner** (`src/apps/api/docker/executor/workflow-runner/`) | which nodes have run, were skipped or failed, and their outputs | levels by Kahn's algorithm, levels in order, the nodes of a level in parallel | conditions, skips and failures propagate along edges; nodes of one level share outputs |
| **Session server** (`src/apps/api/docker/executor/session-server/`) | the tmux session of a container, the copy of its Claude login in the seed volume | set-up, keep the tmux session, sync the login | several containers write one seed |
| **Claude login** (`modules/sessions/services/session-container.service.ts`) | one login file in a shared volume, a copy in every container's home | start a container from it, keep it warm, relogin from the panel | three kinds of writers, one temporary file name |
| **CLI login** (`modules/cli/services/cli.service.ts`) | `CliAuthRequest` and `CliToken` rows | start, poll, approve, deny, delete | overlapping polls; a token must reach the CLI once |
| **Users and auth** (`modules/users/`, `src/apps/web/src/lib/auth/selfhosted-auth.ts`) | users, organizations, refresh tokens, the cookie, an access token per tab | login, refresh with rotation, switch, password, logout, deletion of an empty portal | all tabs share a cookie; the token is read, revoked and issued in three awaits; a deletion moves keys one by one first |
| **New project** (`modules/new-project/`, `src/apps/web/src/components/new-project/new-portal-page.tsx`) | a GitHub repository, the rows of a portal, the state of five screens | validate keys, create, compensate, start the build | one step of several fails, an answer is lost, or the server stops between two; keys are validated while the person goes on |
| **Schedules** (`modules/schedules/`, `infrastructure/queue/processors/schedules.processor.ts`) | schedule rows, one BullMQ job scheduler each | create, update, remove, run now, fire | row and scheduler are written apart; a firing creates a task and stamps the row apart |
| **Repositories** (`modules/repositories/`) | repository rows with an analysis status | import, create, analyze, disconnect | a background loop over rows that others analyze or remove |
| **Plugins** (`modules/plugins/`) | a row with an encrypted configuration, a cache of provider statuses | connect, disconnect, pick resources, run an action, status | a provider is asked with a configuration that is replaced meanwhile |
| **Integrations, AI credentials, skills, API keys, task composer, audit, encryption** | rows, and what external services keep | CRUD and HTTP calls | little of it is concurrent |
| **Web panel** (`src/apps/web`), **CLI** (`src/packages/cli`), **types** (`src/packages/types`) | what the API sends | views, attach, push, login | the CLI's errors and the panel's reconnects |

How they interact: the panel and the CLI call the API over HTTP and a socket;
the API writes Postgres through Prisma, adds and removes jobs in Redis through
BullMQ, and starts, stops and removes containers through Docker. A slot of the
queue creates a session, starts its container, types Claude's command into it
and polls for a done-file; the agent in the container calls back with the
task's status. The session API and the sweeps stop and delete the same
sessions, and nobody tells the slot. Terminals are streams into the containers
of sessions, and their output goes to the gateway's rooms. A new project ends
with the start of a build on the queue; a schedule fires into it.

What makes each part correct: a task is worked on by one agent at a time, is
never forgotten and never stays "in progress" with nobody working on it; a job
that is being executed is not taken away; a task's session is its own; a slot
always comes free; a container nobody needs goes away; the work in a session is
kept; a terminal has one stream and a closed one none; who is told that it is
attached hears the session; a workflow runs a node once, after everything it
depends on; a login token is handed out once, and not after a denial; a browser
stays signed in; a shared key or login is not lost or set back; a portal that
is saved has its repository, and "nothing was saved" is true; a job scheduler is
the one its row asks for; an analysis ends; a status is about the present key.

## 2. Modules

| module | models | run |
|---|---|---|
| `BullQueue` | what BullMQ does with the job of a task (external) | |
| `TaskQueue` | orchestration, the task operations that change what the queue reads, the life of a worker's session | `Queue*`, `FindRetry`, `FindClosed`, `FindFailedJob` |
| `WorkerPool` | the abstract promise of the queue: a pool of workers, one run per task | `QueueRequests` (refinement) |
| `SessionLifecycle` | one session of the panel: its row, its containers, the work in them | `Sessions`, `FindResume` |
| `SessionTerminals` | `SessionLifecycle` with one terminal of the session | `Terminals` |
| `SocketGateway` | who hears a session: gateway, tab, `citshe attach` | `Services`, `FindReconnect` |
| `WorkflowRunner` | the levels of a workflow and the run of its nodes | `Services` |
| `DeviceLogin` | the browser login of the CLI | `Services` |
| `PanelLogin` | refresh tokens, the browser's cookie, the tabs' access tokens | `Services` |
| `Portals` | the deletion of empty portals and the AI keys in them | `Services` |
| `ClaudeSeed` | the Claude login in the seed volume and its writers | `Services` |
| `NewProject`, `Wizard` | the request that creates a project; the screens that send it | `Services` |
| `Schedules` | a schedule's row, its scheduler and its firings | `Services` |
| `RepoAnalysis` | imports of repositories and their analysis | `Services` |
| `StackPlugins` | one plugin, its configuration and its cached status | `Services` |
| `TaskQueueProofs`, `SessionLifecycleProofs`, `SessionTerminalsProofs`, `WorkflowRunnerProofs`, `DeviceLoginProofs`, `ProjectProofs`, `PanelProofs`, `ServicesProofs` | the theorems about these modules | |
| `MC*` | the instances for TLC | |

`TaskQueue` extends `BullQueue` and implements `WorkerPool`. A session appears
in two modules at two grains: `TaskQueue` sees one container per worker session
and what the queue does with it; `SessionLifecycle` sees one session, the
requests of the panel on it, every container it has had and the snapshots a
recreate makes. They share no step: the queue never recreates or resumes, and
the panel's requests on a worker's session that the queue notices (stop,
delete, the list) are actions of `TaskQueue` too. `SessionTerminals` extends
`SessionLifecycle` and composes the two: each step of the session is taken
together with what it does to the streams, and with its terminals a session
still implements `SessionLifecycle` (a theorem).

The other modules describe services that share no state with the queue, the
sessions or each other. `MCServices` puts them in one instance: a behaviour runs
a workflow, and when that was the one without edges (the empty graph of the
constants) one more service moves, named by `part`. TLC so explores the *sum* of
their state spaces and not the product, which would show nothing more: no
action of one reads a variable of another.

## 3. How the modules follow the code

**A step is one await.** Every actor (a slot of the queue, an HTTP request, a
sweep, a timer, the list of the panel) has a control state and keeps what it
read before an await (`hand`, `seen`, `item`, `cid`, `saw`, `to`, `row`, `found`,
`asks`), so a stale value is used exactly where the code uses one. A restart of
the API server ends every actor where it is and leaves the database and Redis as
they are; in Docker, the start removes the session containers that are older than
48 hours (`cleanupStaleContainers`), which is any set of them.

**Docker refuses.** With `DockerFails` every stop may be refused, which
`stopContainer` logs and its callers do not notice; so may the removals of a
recreate and of a deletion; and every inspection may stay unanswered, which
`getContainerState` reports as 'gone'. The stuck sweep then fails the task of a
running worker, the list drops the id of a running container, and a recreate goes
on without a snapshot. The passing runs have `DockerFails = TRUE`; the `Find*`
runs have FALSE, so that what they show is not Docker's doing.

`TaskQueue`. A slot goes through `TaskQueueProcessor.process` and `executeTask`:
`Pull`, `ReadTask`, `CheckLive`, `CheckPaused`, `Hold` or `Claim`,
`CreateSession` (or `RollBack`), `LinkSession`, `StartContainer`, `SetRunning`
(or `StartFailed`), `WaitForRunning`, `Launch`, `AwaitDone`, `ReadStatus`,
`WriteResult`, and on a failure the stop of its own container, then `Ack` or
`Nack`. A request or a sweep goes through the rows it has read with a shared
set of steps, since the code shares them too (`addTaskJob`, `stopWorker`,
`removeTaskJob`). `BullQueue` says what the library does to the job. `named` are
the sessions whose row holds a container id: only these a stop reaches. `astray`
is a history of the sessions the code has taken for down (by a stop, a deletion,
an unlinking or the list) while their container was up, or yet to be started.

`SessionLifecycle`. The creation of the session, its five-minute timer, the
list (`syncContainerStates`) and the requests stop, pause, resume, recreate and
delete act on one row. Containers are numbered in the order they are made; only
one may hold the name `citshe-session-<id>`. `kept` says where the work done in
the session is: in containers, and in snapshots that recreates have committed.
`blind` remembers that a recreate took the container with the work for gone, or
that a start of the server removed the last container that held it.
`Origins` are the ways the session may have been made: an import
(`session-import.service.ts`) has no timer, and after the container is RUNNING it
puts the history into it (`Stage`).

`SessionTerminals`. `table` is the server's map for one terminal id. A start is
`ReadRow` (findOne and its checks), `FindActive` (isActive), `BeginExec` (which
closes what is registered) and `OpenStream` or `FailExec`; session:attach looks
into the table first (`LookFirst`). `StreamEnds` is the handler of `end` and
`error`, which deletes the entry of the *id*, whichever stream it is of.
`SessionStep` is any step of the session with its effect on streams: stop and
delete call `closeByPrefix` right after findOne, recreate after the snapshot
(`ClosesTerminals`); a container that goes down cuts the streams into it; a
restart forgets the table.

`SocketGateway`. Each connection carries messages in order and the gateway takes
them in order, but a handler with an await (`wait`) goes on after later ones. A
tab asks for its token before it authenticates (`asking`) while a shown terminal
subscribes at once; the command line goes on at each answer and exits at the
first error.

`WorkflowRunner`. `Visit` is one round of the loop of `computeExecutionLevels`;
`BeginLevel` evaluates the conditions of a level and starts or skips its nodes
(no await lies between), `Interpolate` fills in the configuration of one node
and `FinishNode` ends it; the nodes of a level do this in any order. The runner
is the entrypoint of the executor image; containers started as sessions
override it.

`DeviceLogin`. One `CliAuthRequest` row with overlapping polls, approvals and
denials.

`PanelLogin`. A fetch is one request of a tab with the cookie it was sent with;
`ReadToken`, `FindMembership`, `Revoke` and `Issue` are the awaits of
`refreshTokens`; the first refuses a token that is revoked, too old or of a
disabled account, the second a user in no organization (the member was removed, or
the last portal deleted). `Answered` sets the cookie and lets the tab go on. A tab refreshes once at a
time (`refreshPromise`); two tabs do not know of each other.

`Portals`. `deleteEmptyOrganization`, a step per await: the checks, the count of
live workers, the list of keys, the survivor, a key at a time, the transaction.
`MoveKey` deletes what it cannot move, for whatever reason the update fails.

`ClaudeSeed`. A login is its expiry. A push is `CopyOpens`, `CopyWrites` and
`Rename`, since all writers copy to the same temporary name; a file that is
renamed while another writer has it open is then written under its new name.
The sync compares before it pushes, keep-warm compares after its refresh, the
relogin does not compare.

`NewProject`. A press of the button is `AskEngine`, `CreateRepo`, `CommitPortal`,
and `StartPressedBuild` or `UndoRepo`; every answer of GitHub or of the commit
may be lost (`unsure`). `Wizard` is what is pressed: screens, the keys taken
over, drafts, validations under way, and the request as it was rendered.

`Schedules`. A request is `UpdateRow` (or `CreateSchedule`), then
`ClearScheduler` and `UpsertScheduler`; a removal `RemoveScheduler`, then
`DeleteRow`. `alone` says that a request has met no other one. A firing reads
the row, creates a task, stamps the row; `StallFiring` is the second run BullMQ
gives the job of a server that died.

`RepoAnalysis`. An import writes a row per repository, stamps the integration,
lists what is pending and goes through the list in the background; a click
analyzes one row. Rows are numbered, because a repository that is disconnected
and imported again has another row.

`StackPlugins`. `FindPlugin` to `WriteBack` is `runAction` or `updateConfig` with
the configuration it read; `AskProvider`, `ProviderAnswers` and `StampStatus` are
`getStatus`. The cache is about the configuration that was asked about.

**Awaits taken together.** Two awaits are one step where nothing another actor
does in between could change what the second one does, or where it changes the
outcome only to one that is in the model anyway: the two reads of `detach`; the
`findOne` and the Docker stop of `stopWorker`; the start of a container and the
storing of its id in `TaskQueue` (`SessionLifecycle` has them apart); stop and
removal of a deleted session's container in `TaskQueue` (apart in
`SessionLifecycle`); the reads of the session and of its container in the sweep
for stuck tasks; the flags of the organization and the list read next;
`waitForRunning` and the `findOne` after it; a request's arrival and its
`findOne` in `SessionLifecycle`; the reads before `createContainer`, whose
failure is the failure of `Build`; the exec of a terminal and its start.

**Time** is left out. A timeout is a step that may always happen, except that the
sweeps' half-hour limits are stated by what must have ended by then (`Untouched`,
`IdleLong`): a run is over within its own time limits, and only the start of a
container has none. `ExecTimeout = FALSE` removes the run's time limit where the
question is about something else. A cached status has two ages (`ageing`), the
access token three states; a refresh token may be found too old at any refresh.

**Left open** (any value, any order): the priority of waiting jobs, hence
`reorder`; what the condition of an edge evaluates to; the outcome of a node;
whether Docker removes a snapshot's image (it refuses while a container uses
it); when agents exit and containers die; which survivor of a deletion is
picked; what an analysis finds.

**Assumed.** BullMQ renews the lock of a job as long as its slot works. Calls to
Docker return. Database calls of the queue and the sessions succeed, and the
reads a creation makes between its insert and its background part do. Docker may
refuse to create, start, commit, stop or remove, or leave an inspection
unanswered, except that the sweep for orphans' removals succeed; it does not call a
container running that is not. A DinD volume counts as part of its container. Work
done in a container between the inspection of a recreate and the removal of that
container is lost; it is not the work that `WorkKept` follows. A workflow has one or more
triggers, no edge twice and no edge to a node that does not exist. One API
server runs at a time.

## 4. What is checked

All passing runs are complete: TLC has seen every reachable state. One task is
enough for the queue properties, because tasks meet only in the slots, the
sessions and the org's flags, none of which a property relates across tasks;
what is needed of several is slots and requests.

| run | instance | question |
|---|---|---|
| `QueueRequests` | 1 task, 2 slots, 2 sessions, 2 requests of any kind, 2 attempts, a restart, a stall (1,877,882 states) | is a task executed once at a time, its session its own, and is this a pool of workers? |
| `QueueOneAgent` | 1 task, 2 slots, 2 sessions, 2 requests of any kind, 1 attempt, sweeps `stuck` and `reap` (1,024,646 states) | do two agents work on one task only where one of their sessions has gone astray? Two slots and two sessions are the least for a second start beside a first one. A restart beside all this takes TLC too long; the theorem has any number of them |
| `QueueWatchdog` | 1 task, 1 slot, 1 session, 1 request of any kind, 2 attempts, a restart, sweeps `stuck` and `reap` (36,771 states) | do slots come free, ghosts end and idle workers stop? The second attempt finds no session left to create, which is how a creation fails |
| `QueueUpkeep` | 1 task, 1 slot, 1 session, 1 request, a restart, sweeps `reconcile` and `orphans`, Claude within or beyond its time limit (491,010 states) | do waiting tasks start and orphans go? |
| `Sessions` | created or imported, 2 overlapping requests of any kind, 3 containers, a restart (820,571 states) | is work kept, does CREATING end, is a dead RUNNING row corrected? Three containers: the first one and one per recreate |
| `Terminals` | 2 starts, one of them by session:attach, a request of any kind, 2 containers, a restart (1,279,090 states) | does the table name live streams, is no stream left behind, do entries go with their container? Two starts are the least that race, two containers the least for a recreate below them |
| `Services` | see the next table (447,716 states) | what the services promise |
| `FindRetry`, `FindClosed`, `FindFailedJob`, `FindResume`, `FindReconnect` | the smallest instance that shows it | see section 6 |

The services of `MCServices`, one after the other:

| service | instance | why this is enough |
|---|---|---|
| `WorkflowRunner` | all 512 graphs over a trigger and three nodes | four nodes hold a diamond, a chain of three edges, a cycle beside a way, and a node without a way from the trigger |
| `DeviceLogin` | 2 polls, 2 approvals, a denial, a restart | two polls that share a token, two approvals that mint two |
| `SocketGateway` | a tab and a `citshe attach`, 2 connections each, 2 views | a second connection is a reconnect; clients do not see each other |
| `PanelLogin` | 2 tabs, 3 requests, 4 tokens | a refresh of each tab and a switch between them |
| `Portals` | 2 portals, 2 providers | two deletions that meet; a key that cannot move, for the survivor has one |
| `ClaudeSeed` | 2 containers, relogin and keep-warm, 2 new logins | every pair of writers, a login older and one newer than the seed |
| `NewProject` | 3 presses | one to fail, one to try again, one beside them |
| `Wizard` | GitHub and one more service, a good and a bad key | a validation that answers late in another state of its block |
| `Schedules` | 3 requests, 1 firing, 2 plans | two that overlap and one that repairs |
| `RepoAnalysis` | 2 repositories, 1 import, 1 click, 3 rows | an import of two, one of them analyzed by hand, one removed and made anew |
| `StackPlugins` | 3 changes, 1 page, 2 rows, 2 keys, a server | a change between a question and its answer, disconnect and connect anew |

Deadlock is not checked: requests and restarts are bounded, so a behaviour may
come to rest; that what should go on does is stated by the liveness properties.

**Fairness.** Weak fairness, for what the server does by itself: it goes on with
what it has begun (one event loop, awaits that return), BullMQ hands out waiting
jobs, promotes delayed ones and notices stalled ones, the watchdog's interval
comes again, a timer fires, and an open panel asks for the list again and again
(`MismatchEnds` is about what a panel shows). In `SessionLifecycle` it is one
condition for the server as a whole, since whatever it has begun ends. In `WorkflowRunner` it is the one
process going on, with executors that return; in `SessionTerminals` only that a
stream whose process is gone is read to its end; in `SocketGateway` that the
gateway takes each client's messages and its queries return (nothing of the
clients); in `ClaudeSeed` the sync timer of a container that runs; in
`RepoAnalysis` that *some* import or analysis goes on; in `StackPlugins` that the
providers answer, cached entries age, and changes go on beside the pages that
ask for ever. `ServicesSpec` states them one by one, each over the variables of
its own service. Users, agents and the deaths of containers get none.
`SlotsComeFree` therefore does not rely on an agent that finishes, only on the
time limit of the run. `CreatingEnds` and `AnalysesEnd` except a restart:
nothing then ends a CREATING session or an analysis, see section 6.
`SeedCatchesUp` excludes pushes that collide for ever.

**Excuses.** Some properties except what the code does not keep apart, by a
history variable that remembers it: sessions taken for down that are not
(`astray`), work that a recreate did not see or a start of the server removed
(`blind`), starts that met (`raced`), tabs that refreshed at once, a logout, a
password, a lost refresh, or one refused for the age of the token, the account or
the membership (`excused`), deletions that met and moves that failed (`crossed`),
pushes that collided (`met`), answers that were lost (`unsure`), requests with company (`alone`, `insync`). What then happens is
listed in section 6.

**Mutants.** Each property is tested by an operator that stands before the action
it changes and is that action with a plausible bug in it (`CheckLiveDropped`,
`InspectOldRunningOnly`, `BeginLevelUnfiltered`, ...); put in the action's place
it makes the property fail. No specification uses these operators.

## 5. What is proved

For all values of the constants that satisfy the assumptions named in the
modules: `QueueAssumption` and `MoveAssumption` (the bounds are numbers, the
null values differ from what they stand beside, requests are no sweeps, no
update writes a removed row), `AttemptsAssumption` (a job has an attempt),
`SessionAssumption`, `TerminalAssumption`, `RunnerAssumption` (a workflow has
finitely many nodes, a trigger, and edges between its nodes), `LoginAssumption`
(finitely many polls and approvals), `PanelAssumption`, `ProjectAssumption`,
`WizardAssumption`, `ScheduleAssumption`, `SeedAssumption` (no organization is
named like the keep-warm or the relogin), `GatewayAssumption`, `RepoAssumption`
and `PluginAssumption` (the bounds are numbers, no repository is the null value).
Some theorems are stated under hypotheses of their own, which the runs fulfil:
`TriggersStart` (no edge leads into a trigger; with one
`computeExecutionLevels` may not end) and `DepthSuffices` (the bound `MaxLevel`
does not cut a level off).

* **`TaskQueueProofs`.** `QueueInvariant` proves `TypeOK`, `SlotsHoldJobs` and
  `OneRunPerTask` together, which is inductive: a slot takes a *waiting* job, and
  `SlotsHoldJobs` says that the job of a task at work is *active*, so no other
  slot takes it; what keeps the job active is that BullMQ refuses to remove an
  active job, that adding under an existing id does nothing, and that a job
  stalls only when no slot works on it. Each action is one step of the proof;
  most leave the slots and the active jobs alone (`SlotsUndisturbed`).
  `LinksAreOwn` needs one fact more (`LinkInv`): the slot about to write
  `Task.sessionId` still holds a session made for that task. `QueueIsPool`
  shows that each step is a step of `WorkerPool` or leaves `Running` as it is.
  `AgentsAreExclusive` (`OneAgentPerTask`) rests on `AgentInv`, which says who may
  stop and start what. Unless its session is astray, a container that is up belongs
  to a session the code takes for live, and only there Claude runs (`SessionOK`), and
  its task is linked to it (`LinkedToAgent`); a slot past its live check works on a
  task without such an agent (`SlotOK`), which stays so because only this slot can
  start one (`RunsAreExclusive`); and whoever is about to mark a session stopped or
  to delete its row holds one that is down or astray (`Down`, `ThreadOK`), from which
  nothing brings it back. The history `astray` is what makes this inductive where
  Docker refuses a stop or a start comes after it; every request is allowed.
* **`SessionLifecycleProofs`.** `WorkKept` alone is not inductive: the invariant
  `SInv` says who holds a copy at every point of every recreate. `Copied`: a
  recreate about to remove a container has a snapshot with the work in it, or has
  found the container gone, or was blind. `Used` are the snapshots that may go, because a
  container was made from them; `Safe` says the work survives all of these going
  at once. From it, `WorkIsKept` for any number of overlapping requests and restarts,
  with the exceptions `WorkKept` names.
  `CreatingIsAttended`: until the server restarts, whenever the row says CREATING
  the creation or a recreate is on its way to end it (`Attended`), since only a
  recreate writes CREATING (`ApplyRecreates`) and whoever writes it goes on.
* **`SessionTerminalsProofs`.** `TerminalsImplementSession`: every step of the
  composition is a step of `SessionLifecycle` or leaves the session alone, so
  `WorkKeptWithTerminals` is `WorkIsKept` once more. The session is opaque in the
  rest: only what a step of it does to the streams is used (`EndOfMarks`,
  `CutMarks`). `TInv` adds to the two properties that a start opens its stream
  once (`NotYet`) and that without a race one start or stream is busy (`Alone`).
  `EntriesOfTheDeadAreCut`: a stream that is read is into a container that runs
  (`OpenRuns`), so the entry of a container that is down is of a cut stream.
* **`WorkflowRunnerProofs`.** `RunnerInvariant`: `JoinsWait` is what makes
  `InputsArePresent` inductive, since a node that has started waits for nothing
  that could still complete; `Phases` ties the end of a run to the outcomes.
  `NodesWait`, `InputsPresent` and `FailuresStop` (nothing starts after a
  failure) follow, for every graph. `KahnInv` is the invariant of
  `computeExecutionLevels`: over the nodes taken from the queue so far
  (`Visited`), `inDegree` counts the edges from the others, and a level is one
  more than the highest level before it (`LevelIsNext`). A level is at most the
  number of visited nodes, which is why the bound is not met. When the queue is
  empty, the nodes that depend on triggers alone have all been visited, as the
  first of those that had not been would wait for nothing (`ReachableVisited`):
  this takes the place of an induction over the graph. So `LevelsLongest`. With
  `ReachedLevels` (every such node up to the level that runs has begun or been
  skipped) it gives `NoneForgotten`. `RunsGoForward`: every step takes the
  visited nodes, the phase, the level or a node further and nothing back.
* **`DeviceLoginProofs`.** The counting argument for `NoMoreThanGranted`: tokens
  delivered, plus one if the row holds a token, are at most the approvals
  (`GrantsCover`); a claim moves one from the row to a poll. `TokensExist` says
  that whatever may still be handed out was minted. `DenialsHold` is an action
  property of the same invariant.
* **`ProjectProofs`.** `HoldsRepo`: a press between its repository and its rows, or
  about to undo, owns the name on GitHub, which is why `UndoRepo` may delete by
  name. For the wizard, `ScreensPassed` (what a screen asks for is there once one
  is past it) and `KeysAccepted` give `SoundBuilds`. For the schedules,
  `AloneKnows`: a request without company is the only one under way and its copy
  of the row is the row; `TasksCounted` gives a firing's tasks by where it is.
* **`PanelProofs`.** While nothing excuses a lost login: one refresh is under way
  at most (`OneRefresh`), a token on its way back is valid and nobody else's
  (`IssuedAreValid`), and the cookie works or is about to be replaced by the
  refresh that revoked it (`CookieWorks`). For the portals, `KeysInHand`: a
  deletion that has picked a survivor has still to move every key of its portal,
  and one about to drop it has none, or drops the last. For the Claude login,
  `OneWriter`: until two writers meet, who pushes is alone, its login is newer
  than the seed and its temporary file its own, which is what the comparison
  before the push is worth at the rename after it. For the gateway, `Outside`: a
  command line that is not in the room has no attach in an await and no
  "attached" on its way, because both end with the connection that began them.
* **`ServicesProofs`.** `ServicesImplementEach`: a step of `MCServices` is a step of
  one service or leaves it alone, so the composition implements every service, and
  what is proved of each holds where TLC checks it (`ServicesKeepInvariants`,
  `ServicesKeepActions`, `ServicesKeepLevels`). `ServicesTypeCorrect` puts the types
  together; those of the gateway, the repositories and the plugins are proved here
  (a plugin's needs `ConfigsInHand`: a change about to write has a configuration in
  hand). `SubscriptionsAreKept`: the subscription of an authenticated tab stays on
  its way or in its query until it is in the room or the connection ends, since an
  organization comes with an authentication only (`OrgsAuthenticated`) and nothing
  but a hangup takes it back. `AnalysesAreAttended`: until the server restarts, a row that is analyzed
  has a request at it that will write how that ends, and a listed row that is
  pending has one that will begin with it, whatever is removed or analyzed twice.

Every invariant and every action property the passing runs check has a theorem,
and so has the refinement of `WorkerPool`. Only model-checked are the liveness
properties, since fairness and ENABLED are out of the prover's reach:
`SlotsComeFree`, `GhostsEnd`, `FinishedWorkersStop`, `WaitingTasksStart` and
`OrphansRemoved` of the queue, `CreatingEnds` and `MismatchEnds` of a session,
`EntriesFade`, `RunEnds`, `WatchersSubscribed`, `SeedCatchesUp`, `AnalysesEnd` and
`StatusCatchesUp`. Of five of them the part that is safety is proved:
`CreatingIsAttended`, `EntriesOfTheDeadAreCut`, `RunsGoForward`,
`SubscriptionsAreKept` and `AnalysesAreAttended` say that whoever has to act is
there, that nothing takes its place away, and that it can only go on; the runs
add that it does. That the runs of section 6 violate their properties is
TLC's finding alone.

## 6. What the code does not do

Found by a run of its own, each a single violated property:

* `FindRetry`: a start that fails after the claim leaves the task IN_PROGRESS, so
  the retry that BullMQ makes finds nothing to claim and completes the job.
* `FindClosed`: closing a task stops its container and marks the session
  COMPLETED; a slot still starting that container starts it afterwards, and a
  COMPLETED session is stopped by nothing.
* `FindFailedJob`: a job that failed for good counts as pending, so the task can
  never be queued again although the code means to remove such leftovers.
* `FindResume`: the list writes `containerId` null for a container that has merely
  stopped, after which resume cannot start it and recreate meets its name.
* `FindReconnect`: after a reconnect a shown terminal subscribes at once, while
  the authentication of the new connection waits for `getToken()`; the gateway
  refuses the subscription and nobody sends it again.

Read in the code, seen in the models, and without a run:

* *Queue.* The pause is read before the claim, so a task may start just after.
  `WriteResult` writes a status read one await earlier over a later one (also a
  cancellation). The sweep for stuck tasks may fail a task that is still being
  started. With auto-pull off, a PENDING task is queued all the same by the
  sweep for unstarted tasks once it is old enough. A removed task's worker is never stopped.
  A re-queued task waits behind a worker that is live but finished. Two agents
  can work on one task in three ways. Docker refuses to stop a worker, or does not
  answer the list: COMPLETED is written over a container whose agent works on, no
  sweep looks at it again, the stuck sweep fails the task and a build starts a second
  agent (`stopWorker`, `sessions.controller.ts:571`). Enqueue or close stops the
  worker of a task whose slot has not started the container yet: the slot starts it
  and Claude all the same, in a session the code takes for ended, and after a restart
  the task can be started once more beside it. And a session is deleted although the
  removal of its container failed: the agent in it works on while the task gets
  another. `OneAgentPerTask` excepts these (`astray`) and shows that there is no
  other way; `FinishedWorkersStop` excepts the refused stop.
* *Sessions.* A restart during a creation or a recreate leaves CREATING for good.
  A recreate that fails after the removal leaves the workspace in a snapshot that
  no row names. A recreate whose inspection Docker does not answer removes the
  container without a snapshot, and a start of the server removes session containers
  older than 48 hours, in use or not: both lose work (`WorkKept` excepts them). A
  list Docker does not answer drops the id of a running container. A resume
  overlapped by the list may leave RUNNING without a container id. Deleting a session during its creation makes the catch of the
  background part throw. `sweepOrphans` reads the live ids before it lists the
  containers. `PAUSED` stops nothing in Docker. An import whose history cannot be
  staged is FAILED while its container runs on.
* *Terminals.* Two starts that overlap both pass `isActive`; the stream that is
  not registered goes on and no close reaches it, and the end of one deletes the
  entry of the other. `citshe attach` hangs when the exec throws, since the
  answer to it is an event it does not listen to.
* *CLI login.* Two overlapping approvals can let two polls answer with the same
  token, despite the "exactly once" in the code: the second approval stores a
  token that the second poll clears while it answers with the first one. An
  approval that has read "pending" overwrites a denial.
* *Panel login.* Two tabs that refresh at once send the same cookie, and the
  slower one is signed out. A refresh that has read its token survives a change
  of the password or a logout: the token it issues afterwards stays valid. A member
  removed from the last organization is signed out at the next refresh.
* *Portals.* Two deletions may pick each other as the survivor, a key added
  after the list is taken by the cascade, and a key whose move fails for whatever
  reason is deleted (`users.service.ts:548`), meant for the survivor's duplicate; a worker may start between the count
  of live workers and the transaction.
* *Claude login.* All writers of the seed use one temporary name, so a rename may
  publish what another is still writing: a torn or an older login, although
  `server.js:1023` has it that a stale container never overwrites a fresher seed.
* *New project.* When the answer of the commit is lost the compensation deletes the
  repository of a portal that was saved; when GitHub's answer is lost the
  repository stays and the next press meets its name. The wizard's "improve with
  AI" (a late `setPrompt`, not in the model) writes over what was typed meanwhile, and a key whose block was cancelled
  during its validation is connected all the same.
* *Schedules.* Two overlapping updates may leave an enabled schedule without a
  scheduler, or the other way round, until the next update.
* *AI credentials.* `isDefault` is cleared and set in a transaction that "prevents
  race conditions" (`ai-credentials.service.ts:33`), but under READ COMMITTED two
  of them leave two defaults; `getDefaultApiKey` filters by organization although
  the keys serve the whole server.
* *Plugins.* A refused key is stored as ERROR ("Validate before saving so we never
  store a dead token", `plugins.service.ts:55`) and one status poll makes it
  CONNECTED. `updateConfig` and actions write the configuration they have read
  back over a reconnect ("without touching the token") or another action.
* *Repositories.* A restart leaves a row "analyzing", for which the page offers no
  new analysis (`repos/page.tsx:419`); `syncAll`, `sync/:id` and `createNew` leave
  "pending" rows nobody analyzes. A repository renamed on GitHub gets a second
  row, since its full name is the id.
* *Workflow.* An edge back into a trigger makes `computeExecutionLevels` loop for
  ever; `MCServices` leaves such graphs out (with them `RunEnds` fails).
* *Comments.* `collectUserComments` drops all comments made before the last
  "executing" entry, which `executeTask` has written right before it.

## 7. What is not modelled, and the plan

Not to be modelled: CRUD and HTTP adapters (integrations, AI credentials, skills,
API keys, the task composer, the providers behind the plugins), encryption,
audit, guards, the panel's views, the CLI's rendering, build files and
documentation. They make up most of the lines of the repository; they have
little state that several actors share, or only pass it on, and a model of them
would restate them. `PROJECT.json` lists each with its reason, and for each part
that is modelled partly what is left out.

Left out of the modelled parts, and worth adding next:

1. `TaskLog`: comments and agent log as read-modify-write of JSON columns, and
   which comments a run is given.
2. What a terminal buffers and replays on attach.
3. The subscriptions to tasks and organizations at the gateway; registration, the
   first user of an installation, members and roles.
4. An abstract specification of a session (absent, starting, up, down) that
   `SessionLifecycle` implements where it does, and `TaskQueue`'s view of the
   container derived from it.
5. Proofs: the safety half of the queue's liveness properties (a ghost, an orphan
   and a finished worker are in the list their sweep makes next), and `WorkerPool`
   extended by the sessions, so that `OneAgentPerTask` becomes a refinement too.
